------------------------- MODULE ConcurrentQueueProofs -------------------------
(***************************************************************************)
(* Theorems about ConcurrentQueue that hold for any number of threads,     *)
(* tokens and calls.                                                       *)
(***************************************************************************)
EXTENDS ConcurrentQueue, SequenceTheorems, FiniteSetTheorems, TLAPS

-----------------------------------------------------------------------------
(* The inductive invariant.                                                *)

Producer == [explicit : BOOLEAN, inactive : BOOLEAN, token : Tokens \cup {NoOne}, size : Nat]
Slot == [key : Enqueuers \cup {NoOne}, value : Nat]
UserLocals == [hash : Nat, newCount : Nat, slot : Nat, made : Nat, newCapacity : Nat]
CallState == [bulk : BOOLEAN, left : Nat, tail : Nat, ptr : Nat, best : Nat,
              bestSize : Nat, nonEmpty : Nat, prodCount : Nat]
TokenState == [initialOffset : Nat, lastKnown : Int, consumed : Nat, current : Nat, desired : Nat]
Labels == {"idle", "probe", "enqueue", "reserve", "grow", "reload", "resize", "allocate", "unlock",
           "unlockFailed", "recycle", "create", "push", "link", "deactivate", "score", "walk",
           "from", "short", "rotation", "rotationCount", "rotate", "current", "quota", "tail",
           "others"}

TypeOK ==
  /\ prod \in Seq(Producer) /\ list \in Seq(Nat) /\ producerCount \in Nat
  /\ hashCount \in Nat /\ resizing \in BOOLEAN /\ globalOffset \in Nat
  /\ token \in [Tokens -> Nat] /\ ctoken \in [Consumers -> TokenState]
  /\ pc \in [Threads -> Labels] /\ my \in [Users -> UserLocals]
  /\ call \in [Consumers -> CallState] /\ calls \in Nat
  /\ full \in [Consumers -> SUBSET Nat]

\* The list: each producer is in it once, but those that are about to be pushed.
Listed(l, p) == \E i \in 1 .. Len(l) : l[i] = p

ListOK ==
  /\ producerCount = Len(prod)
  /\ \A i \in 1 .. Len(list) : list[i] \in 1 .. Len(prod)
  /\ \A i, j \in 1 .. Len(list) : list[i] = list[j] => i = j
  /\ \A t \in Users : pc[t] = "push" => my[t].made \in 1 .. Len(prod) /\ ~Listed(list, my[t].made)
  /\ \A t, u \in Users : pc[t] = "push" /\ pc[u] = "push" /\ my[t].made = my[u].made => t = u

\* The hash tables.
Table == UNION {[0 .. n - 1 -> Slot] : n \in Nat \ {0}}
KeysDiffer(t) == \A i, j \in DOMAIN t : t[i].key = t[j].key /\ t[i].key # NoOne => i = j

Has(e, h) == \E i \in DOMAIN tables[h] : tables[h][i].key = e
Known(e) == \E h \in 1 .. Len(tables) : Has(e, h)
Owns(e, p) ==
  \/ my[e].made = p /\ p # NoOne
  \/ \E h \in 1 .. Len(tables) : \E i \in DOMAIN tables[h] :
       tables[h][i].key = e /\ tables[h][i].value = p

\* The thread has its place in hashCount, and has yet to find a table with room for it;
\* or it is on its way into a table.
Waiting(e) == pc[e] \in {"grow", "reload", "resize", "allocate", "unlock"}
Entering(e) == pc[e] \in {"create", "push", "probe"}
HasLock(e) == pc[e] \in {"resize", "allocate", "unlock", "unlockFailed"}

EnqueuerOK(e) ==
  /\ pc[e] \in {"push", "probe", "enqueue"} <=> my[e].made # NoOne
  /\ Waiting(e) \/ Entering(e) \/ pc[e] = "reserve" => my[e].hash \in 1 .. Len(tables)
  /\ pc[e] \in {"reserve", "unlockFailed", "create", "push"} \/ Waiting(e) => ~Known(e)
  /\ pc[e] = "probe" => ~Has(e, my[e].hash)
  /\ Waiting(e) => my[e].newCount > 0
  /\ pc[e] = "allocate" => /\ my[e].hash = Len(tables)
                           /\ my[e].newCapacity >= Capacity(my[e].hash)
                           /\ my[e].newCapacity > 0

\* The threads that may be in table h, and those that wait with at most k.
Room(h) == (Capacity(h) \div 2) + (Capacity(h) \div 4)
Reserved == {e \in Enqueuers : Known(e) \/ Waiting(e) \/ Entering(e)}
Admitted(h) ==
  {e \in Enqueuers : (\E g \in 1 .. h : Has(e, g)) \/ (Entering(e) /\ my[e].hash <= h)}
WaitingWith(k) == {e \in Enqueuers : Waiting(e) /\ my[e].newCount <= k}

HashOK ==
  /\ tables \in Seq(Table) /\ tables # <<>>
  /\ \A h \in 1 .. Len(tables) : KeysDiffer(tables[h])
  /\ \A g, h \in 1 .. Len(tables) : g <= h => Capacity(g) <= Capacity(h)
  /\ \A e \in Enqueuers : EnqueuerOK(e)
  /\ \A e \in Enqueuers : \A p \in Nat : Owns(e, p) => p \in 1 .. Len(prod)
  /\ \A e \in Enqueuers : \A p, q \in Nat : Owns(e, p) /\ Owns(e, q) => p = q
  /\ \A e, d \in Enqueuers : \A p \in Nat : Owns(e, p) /\ Owns(d, p) => e = d
  /\ hashCount = Cardinality(Reserved)
  /\ \A h \in 1 .. Len(tables) : \A k \in Nat :
       k + 1 >= Room(h) => Cardinality(Admitted(h) \cup WaitingWith(k)) <= k
  /\ \A e, d \in Enqueuers : HasLock(e) /\ HasLock(d) => e = d
  /\ resizing <=> \E e \in Enqueuers : HasLock(e)

\* The producers of the tokens.
Holds(k) == pc[k] \in {"push", "link", "deactivate"}

TokensOK ==
  /\ \A k \in Tokens : token[k] # NoOne =>
       /\ token[k] \in 1 .. Len(prod) /\ prod[token[k]].token = k
       /\ prod[token[k]].explicit /\ ~prod[token[k]].inactive
  /\ \A k \in Tokens : pc[k] # "idle" => token[k] = NoOne
  /\ \A k \in Tokens : pc[k] = "recycle" => my[k].made = NoOne \/ Listed(list, my[k].made)
  /\ \A k \in Tokens : Holds(k) =>
       /\ my[k].made \in 1 .. Len(prod) /\ prod[my[k].made].token = NoOne
       /\ prod[my[k].made].explicit /\ ~prod[my[k].made].inactive
  /\ \A k, j \in Tokens : Holds(k) /\ Holds(j) /\ my[k].made = my[j].made => k = j
  /\ \A p \in 1 .. Len(prod) : prod[p].inactive => prod[p].token = NoOne

\* The consumers.  How far a producer is from the end of the list never changes.
Depth(l, p) == Len(l) - (CHOOSE i \in DOMAIN l : l[i] = p)
ListedOrNone(l, p) == p = NoOne \/ Listed(l, p)

ConsumerOK(c) ==
  /\ ListedOrNone(list, ctoken[c].current) /\ ListedOrNone(list, ctoken[c].desired)
  /\ ctoken[c].desired # NoOne => ctoken[c].current # NoOne
  /\ ListedOrNone(list, call[c].best)
  /\ pc[c] = "score" => ListedOrNone(list, call[c].ptr)
  /\ pc[c] \in {"walk", "others"} => Listed(list, call[c].ptr)
  /\ pc[c] = "from" => call[c].ptr \in 1 .. Len(prod)
  /\ pc[c] \in {"rotationCount", "rotate", "others"} => Listed(list, call[c].tail)
  /\ pc[c] \in {"current", "tail", "others"} => ctoken[c].current # NoOne
  /\ pc[c] = "rotate" => call[c].prodCount > Depth(list, call[c].tail)
  /\ pc[c] = "others" => /\ Depth(list, call[c].ptr) <= Depth(list, call[c].tail)
                         /\ Depth(list, ctoken[c].current) <= Depth(list, call[c].tail)
                         /\ call[c].ptr # ctoken[c].current

\* The depths on the round from ptr to where the token is: on to the end of the list, and
\* from tail.
OnTheWay(d, ptr, current, tail) ==
  /\ d <= tail
  /\ IF ptr > current THEN current < d /\ d <= ptr ELSE d <= ptr \/ current < d

FullOK(c) ==
  /\ full[c] # {} => pc[c] \notin {"idle", "short", "quota"} /\ ~Contended(c)
  /\ \A p \in full[c] : Listed(list, p) /\ prod[p].size > 0
  /\ pc[c] = "score" => call[c].left = 1
  /\ pc[c] = "score" /\ call[c].best = NoOne =>
       /\ call[c].nonEmpty = 0 /\ call[c].bestSize = 0
       /\ \A p \in full[c] : call[c].ptr # NoOne /\ Depth(list, p) <= Depth(list, call[c].ptr)
  /\ pc[c] = "walk" => \A p \in full[c] : p # call[c].best /\ Depth(list, p) <= Depth(list, call[c].ptr)
  /\ pc[c] = "tail" => ctoken[c].current \notin full[c]
  /\ pc[c] = "others" => \A p \in full[c] :
       OnTheWay(Depth(list, p), Depth(list, call[c].ptr), Depth(list, ctoken[c].current),
                Depth(list, call[c].tail))

ConsumersOK == \A c \in Consumers : ConsumerOK(c) /\ FullOK(c)

IInv == TypeOK /\ ListOK /\ HashOK /\ TokensOK /\ ConsumersOK

-----------------------------------------------------------------------------
(* The list.                                                               *)

LEMMA NoOneFacts == NoOne \in Nat /\ NoOne \notin Enqueuers /\ NoOne \notin Tokens /\ NoOne = 0
BY ConcurrentQueueAssumption DEF ConcurrentQueueAssumption, NoOne

\* Every listed producer has one place, and so a depth.
Places ==
  /\ Len(list) \in Nat /\ Len(prod) \in Nat
  /\ \A p : Listed(list, p) => /\ p \in 1 .. Len(prod) /\ p # NoOne /\ p \in Nat
                         /\ Place(p) \in 1 .. Len(list) /\ list[Place(p)] = p
                         /\ Depth(list, p) \in 0 .. Len(list) - 1 /\ Depth(list, p) \in Int
                         /\ Place(p) = Len(list) - Depth(list, p)
  /\ \A p, q : Listed(list, p) /\ Listed(list, q) /\ Depth(list, p) = Depth(list, q) => p = q
  /\ \A i \in 1 .. Len(list) : Listed(list, list[i]) /\ Depth(list, list[i]) = Len(list) - i

LEMMA PlacesHold == TypeOK /\ ListOK => Places
<1> SUFFICES ASSUME TypeOK, ListOK PROVE Places
  OBVIOUS
<1>1. /\ Len(list) \in Nat /\ Len(prod) \in Nat /\ DOMAIN list = 1 .. Len(list)
  BY DEF TypeOK
<1>6. \A p : Depth(list, p) = Len(list) - Place(p)
  BY DEF Depth, Place
<1>2. ASSUME NEW p, Listed(list, p)
      PROVE  /\ p \in 1 .. Len(prod) /\ p # NoOne /\ p \in Nat
             /\ Place(p) \in 1 .. Len(list) /\ list[Place(p)] = p
             /\ Depth(list, p) \in 0 .. Len(list) - 1 /\ Depth(list, p) \in Int
             /\ Place(p) = Len(list) - Depth(list, p)
  <2>1. \E i \in DOMAIN list : list[i] = p
    BY <1>1, <1>2 DEF Listed
  <2>2. Place(p) \in DOMAIN list /\ list[Place(p)] = p
    BY <2>1, Zenon DEF Place
  <2>3. p \in 1 .. Len(prod)
    BY <1>1, <2>2 DEF ListOK
  <2>4. QED
    BY <1>1, <1>6, <2>2, <2>3 DEF NoOne
<1>3. ASSUME NEW p, NEW q, Listed(list, p), Listed(list, q), Depth(list, p) = Depth(list, q) PROVE p = q
  BY <1>1, <1>2, <1>3
<1>4. ASSUME NEW i \in 1 .. Len(list) PROVE Listed(list, list[i]) /\ Depth(list, list[i]) = Len(list) - i
  <2>1. Listed(list, list[i])
    BY DEF Listed
  <2>2. Place(list[i]) \in 1 .. Len(list) /\ list[Place(list[i])] = list[i]
    BY <1>2, <2>1
  <2>3. Place(list[i]) = i
    BY <2>2 DEF ListOK
  <2>4. QED
    BY <1>6, <2>1, <2>3
<1>5. QED
  BY <1>1, <1>2, <1>3, <1>4 DEF Places

LEMMA PlacesNext == TypeOK' /\ ListOK' => Places'
BY PlacesHold, PTL

\* The next producer, and the newest one.
LEMMA NextProdFacts ==
  ASSUME Places, NEW p, Listed(list, p)
  PROVE  IF Depth(list, p) = 0 THEN NextProd(p) = NoOne
         ELSE Listed(list, NextProd(p)) /\ Depth(list, NextProd(p)) = Depth(list, p) - 1
<1>1. Place(p) \in 1 .. Len(list) /\ Depth(list, p) = Len(list) - Place(p) /\ Len(list) \in Nat
  BY DEF Places
<1>2. CASE Depth(list, p) = 0
  BY <1>1, <1>2 DEF NextProd
<1>3. CASE Depth(list, p) # 0
  <2>1. Place(p) + 1 \in 1 .. Len(list) /\ NextProd(p) = list[Place(p) + 1]
    BY <1>1, <1>3 DEF NextProd
  <2>2. QED
    BY <1>1, <1>3, <2>1 DEF Places
<1>4. QED
  BY <1>2, <1>3

LEMMA ListTailFacts ==
  ASSUME Places, TypeOK
  PROVE  /\ ListTail = NoOne => \A q : ~Listed(list, q)
         /\ ListTail # NoOne => /\ Listed(list, ListTail)
                                /\ \A q : Listed(list, q) => Depth(list, q) <= Depth(list, ListTail)
                                /\ Depth(list, ListTail) = Len(list) - 1
         /\ list = <<>> => \A q : ~Listed(list, q)
         /\ list = <<>> <=> ListTail = NoOne
<1>1. Len(list) \in Nat /\ list \in Seq(Nat)
  BY DEF Places, TypeOK
<1>2. CASE list = <<>>
  <2>1. Len(list) = 0
    BY <1>2, EmptySeq
  <2>2. QED
    BY <1>2, <2>1 DEF ListTail, Listed
<1>3. CASE list # <<>>
  <2>1. 1 \in 1 .. Len(list) /\ ListTail = list[1]
    BY <1>1, <1>3, EmptySeq DEF ListTail
  <2>2. Listed(list, ListTail) /\ Depth(list, ListTail) = Len(list) - 1 /\ ListTail # NoOne
    BY <2>1 DEF Places
  <2>3. \A q : Listed(list, q) => Depth(list, q) \in 0 .. Len(list) - 1
    BY DEF Places
  <2>4. QED
    BY <1>1, <1>3, <2>2, <2>3
<1>4. QED
  BY <1>2, <1>3

LEMMA UpTo ==
  ASSUME NEW n \in Nat
  PROVE  /\ IsFiniteSet(1 .. n) /\ Cardinality(1 .. n) = n
         /\ IsFiniteSet(0 .. n - 1) /\ Cardinality(0 .. n - 1) = n
<1>1. 1 \in Int /\ 0 \in Int /\ n \in Int /\ n - 1 \in Int
  OBVIOUS
<1>2. IsFiniteSet(1 .. n) /\ Cardinality(1 .. n) = IF 1 > n THEN 0 ELSE n - 1 + 1
  BY <1>1, FS_Interval
<1>3. IsFiniteSet(0 .. n - 1) /\ Cardinality(0 .. n - 1) = IF 0 > n - 1 THEN 0 ELSE (n - 1) - 0 + 1
  BY <1>1, FS_Interval
<1>4. QED
  BY <1>2, <1>3

\* The list holds no more producers than there are.
LEMMA ListShort ==
  ASSUME TypeOK, ListOK
  PROVE  Len(list) <= Len(prod)
<1>1. Len(list) \in Nat /\ Len(prod) \in Nat /\ DOMAIN list = 1 .. Len(list)
  BY DEF TypeOK
<1>2. IsFiniteSet(1 .. Len(list)) /\ Cardinality(1 .. Len(list)) = Len(list)
  BY <1>1, UpTo
<1>3. IsFiniteSet(1 .. Len(prod)) /\ Cardinality(1 .. Len(prod)) = Len(prod)
  BY <1>1, UpTo
<1> DEFINE f == [i \in 1 .. Len(list) |-> list[i]]
<1>4. f \in Injection(1 .. Len(list), 1 .. Len(prod))
  BY DEF ListOK, Injection, IsInjective
<1>5. QED
  BY <1>2, <1>3, <1>4, FS_Injection DEF ExistsInjection

-----------------------------------------------------------------------------
(* What the steps of one kind of thread leave of the others.               *)

\* The list is the same, and nobody has come to the point of the push.
LEMMA ListFrame ==
  ASSUME ListOK, list' = list, producerCount' = producerCount, Len(prod') = Len(prod),
         \A t \in Users : pc'[t] = "push" => pc[t] = "push" /\ my'[t].made = my[t].made
  PROVE  ListOK'
BY DEF ListOK, Listed

LEMMA HashFrame ==
  ASSUME HashOK, tables' = tables, hashCount' = hashCount, resizing' = resizing,
         Len(prod) \in Nat, Len(prod') \in Nat, Len(prod') >= Len(prod),
         \A e \in Enqueuers : pc'[e] = pc[e] /\ my'[e] = my[e]
  PROVE  HashOK'
<1>1. \A h : Capacity(h)' = Capacity(h) /\ Room(h)' = Room(h)
  BY DEF Capacity, Room
<1>2. \A e, h : Has(e, h)' <=> Has(e, h)
  BY DEF Has
<1>3. \A e : Known(e)' <=> Known(e)
  BY <1>2 DEF Known
<1>4. \A e \in Enqueuers : \A p : Owns(e, p)' <=> Owns(e, p)
  BY DEF Owns
<1>5. \A e \in Enqueuers : /\ Waiting(e)' <=> Waiting(e)
                           /\ Entering(e)' <=> Entering(e)
                           /\ HasLock(e)' <=> HasLock(e)
  BY DEF Waiting, Entering, HasLock
<1>6. Reserved' = Reserved
  BY <1>3, <1>5 DEF Reserved
<1>7. \A h, k : Admitted(h)' = Admitted(h) /\ WaitingWith(k)' = WaitingWith(k)
  BY <1>2, <1>5 DEF Admitted, WaitingWith
<1>8. ASSUME NEW e \in Enqueuers, EnqueuerOK(e) PROVE EnqueuerOK(e)'
  BY <1>1, <1>2, <1>3, <1>5, <1>8 DEF EnqueuerOK
<1>9. \A h \in 1 .. Len(tables) : \A k \in Nat :
        k + 1 >= Room(h)' => Cardinality(Admitted(h)' \cup WaitingWith(k)') <= k
  BY <1>1, <1>7 DEF HashOK
<1>10. \A e \in Enqueuers : \A p \in Nat : Owns(e, p)' => p \in 1 .. Len(prod')
  BY <1>4 DEF HashOK
<1>11. /\ \A e \in Enqueuers : \A p, q \in Nat : Owns(e, p)' /\ Owns(e, q)' => p = q
       /\ \A e, d \in Enqueuers : \A p \in Nat : Owns(e, p)' /\ Owns(d, p)' => e = d
  BY <1>4 DEF HashOK
<1>12. /\ \A e, d \in Enqueuers : HasLock(e)' /\ HasLock(d)' => e = d
       /\ resizing' <=> \E e \in Enqueuers : HasLock(e)'
  BY <1>5 DEF HashOK
<1>13. \A g, h \in 1 .. Len(tables) : g <= h => Capacity(g)' <= Capacity(h)'
  BY <1>1 DEF HashOK
<1>14. /\ tables' \in Seq(Table) /\ tables' # <<>>
       /\ \A h \in 1 .. Len(tables) : KeysDiffer(tables'[h])
       /\ hashCount' = Cardinality(Reserved')
       /\ \A e \in Enqueuers : EnqueuerOK(e)'
  BY <1>6, <1>8 DEF HashOK
<1>15. QED
  BY <1>9, <1>10, <1>11, <1>12, <1>13, <1>14 DEF HashOK, KeysDiffer

LEMMA TokensFrame ==
  ASSUME TokensOK, token' = token, Len(prod) \in Nat, Len(prod') \in Nat, Len(prod') >= Len(prod),
         \A p \in 1 .. Len(prod) : /\ prod'[p].token = prod[p].token
                                   /\ prod'[p].explicit = prod[p].explicit
                                   /\ prod'[p].inactive = prod[p].inactive,
         \A p \in 1 .. Len(prod') : p > Len(prod) => ~prod'[p].inactive,
         \A p : Listed(list, p) => Listed(list', p),
         \A k \in Tokens : pc'[k] = pc[k] /\ my'[k] = my[k]
  PROVE  TokensOK'
<1>1. \A k \in Tokens : Holds(k)' <=> Holds(k)
  BY DEF Holds
<1>2. \A k \in Tokens : token[k] # NoOne =>
        /\ token[k] \in 1 .. Len(prod') /\ prod'[token[k]].token = k
        /\ prod'[token[k]].explicit /\ ~prod'[token[k]].inactive
  BY DEF TokensOK
<1>3. \A k \in Tokens : Holds(k)' =>
       /\ my'[k].made \in 1 .. Len(prod') /\ prod'[my'[k].made].token = NoOne
       /\ prod'[my'[k].made].explicit /\ ~prod'[my'[k].made].inactive
  BY <1>1 DEF TokensOK
<1>4. \A k, j \in Tokens : Holds(k)' /\ Holds(j)' /\ my'[k].made = my'[j].made => k = j
  BY <1>1 DEF TokensOK
<1>5. \A p \in 1 .. Len(prod') : prod'[p].inactive => prod'[p].token = NoOne
  <2>1. ASSUME NEW p \in 1 .. Len(prod'), prod'[p].inactive PROVE prod'[p].token = NoOne
    <3>1. p \in 1 .. Len(prod)
      BY <2>1
    <3>2. QED
      BY <2>1, <3>1 DEF TokensOK
  <2>2. QED
    BY <2>1
<1>6. /\ \A k \in Tokens : pc'[k] # "idle" => token[k] = NoOne
      /\ \A k \in Tokens : pc'[k] = "recycle" => my'[k].made = NoOne \/ Listed(list', my'[k].made)
  <2>1. ASSUME NEW k \in Tokens, pc[k] = "recycle" PROVE my[k].made = NoOne \/ Listed(list', my[k].made)
    BY <2>1 DEF TokensOK
  <2>2. ASSUME NEW k \in Tokens PROVE my'[k].made = my[k].made /\ pc'[k] = pc[k]
    OBVIOUS
  <2>3. ASSUME NEW k \in Tokens, pc'[k] = "recycle" PROVE my'[k].made = NoOne \/ Listed(list', my'[k].made)
    BY <2>1, <2>2, <2>3
  <2>4. QED
    BY <2>2, <2>3 DEF TokensOK
<1>7. QED
  BY <1>2, <1>3, <1>4, <1>5, <1>6 DEF TokensOK

\* How the list, and the elements of the producers, may change under a consumer.
ListGrows ==
  /\ \A p : Listed(list, p) => Listed(list', p) /\ Depth(list', p) = Depth(list, p)
  /\ \A p \in 1 .. Len(prod) : prod'[p].size >= prod[p].size
  /\ Len(prod) \in Nat /\ Len(prod') \in Nat /\ Len(prod') >= Len(prod)

LEMMA ConsumersFrame ==
  ASSUME ConsumersOK, TypeOK, TypeOK', Places, ListGrows, UNCHANGED <<ctoken, call, full>>,
         \A c \in Consumers : pc'[c] = pc[c]
  PROVE  ConsumersOK'
<1>1. ASSUME NEW c \in Consumers PROVE ConsumerOK(c)'
  <2>1. ConsumerOK(c) /\ pc'[c] = pc[c] /\ call'[c] = call[c] /\ ctoken'[c] = ctoken[c]
    BY DEF ConsumersOK
  <2>2. /\ ListedOrNone(list', ctoken[c].current) /\ ListedOrNone(list', ctoken[c].desired)
        /\ ListedOrNone(list', call[c].best)
    BY <2>1 DEF ConsumerOK, ListedOrNone, ListGrows
  <2>3. pc[c] = "score" => ListedOrNone(list', call[c].ptr)
    BY <2>1 DEF ConsumerOK, ListedOrNone, ListGrows
  <2>4. /\ pc[c] \in {"walk", "others"} => Listed(list', call[c].ptr)
        /\ pc[c] = "from" => call[c].ptr \in 1 .. Len(prod')
        /\ pc[c] \in {"rotationCount", "rotate", "others"} => Listed(list', call[c].tail)
    BY <2>1 DEF ConsumerOK, ListGrows
  <2>5. pc[c] = "rotate" => call[c].prodCount > Depth(list', call[c].tail)
    BY <2>1 DEF ConsumerOK, ListGrows
  <2>6. pc[c] = "others" => /\ Depth(list', call[c].ptr) <= Depth(list', call[c].tail)
                            /\ Depth(list', ctoken[c].current) <= Depth(list', call[c].tail)
    BY <2>1 DEF ConsumerOK, ListGrows, ListedOrNone
  <2>7. QED
    BY <2>1, <2>2, <2>3, <2>4, <2>5, <2>6 DEF ConsumerOK
<1>2. ASSUME NEW c \in Consumers PROVE FullOK(c)'
  <2>1. /\ FullOK(c) /\ pc'[c] = pc[c] /\ call'[c] = call[c] /\ ctoken'[c] = ctoken[c]
        /\ full'[c] = full[c] /\ ConsumerOK(c)
    BY DEF ConsumersOK
  <2>2. Contended(c)' <=> Contended(c)
    BY DEF Contended
  <2>3. \A p \in full[c] : Listed(list', p) /\ prod'[p].size > 0
    <3>1. ASSUME NEW p \in full[c] PROVE Listed(list', p) /\ prod'[p].size > 0
      <4>1. Listed(list, p) /\ prod[p].size > 0
        BY <2>1 DEF FullOK
      <4>2. p \in 1 .. Len(prod)
        BY <4>1 DEF Places
      <4>3. prod[p].size \in Nat /\ prod'[p].size \in Nat
        <5>1. p \in 1 .. Len(prod')
          BY <4>2 DEF ListGrows
        <5>2. prod[p] \in Producer /\ prod'[p] \in Producer
          BY <4>2, <5>1, ElementOfSeq DEF TypeOK
        <5>3. QED
          BY <5>2 DEF Producer
      <4>4. prod'[p].size >= prod[p].size
        BY <4>2 DEF ListGrows
      <4>5. QED
        BY <4>1, <4>3, <4>4 DEF ListGrows
    <3>2. QED
      BY <3>1
  <2>4. pc[c] = "score" /\ call[c].best = NoOne =>
          \A p \in full[c] : Depth(list', p) <= Depth(list', call[c].ptr)
    BY <2>1 DEF FullOK, ConsumerOK, ListedOrNone, ListGrows
  <2>5. pc[c] = "walk" => \A p \in full[c] : Depth(list', p) <= Depth(list', call[c].ptr)
    BY <2>1 DEF FullOK, ConsumerOK, ListGrows
  <2>6. pc[c] = "others" => \A p \in full[c] :
          OnTheWay(Depth(list', p), Depth(list', call[c].ptr), Depth(list', ctoken[c].current),
                   Depth(list', call[c].tail))
    <3>1. SUFFICES ASSUME pc[c] = "others", NEW p \in full[c]
                   PROVE  OnTheWay(Depth(list', p), Depth(list', call[c].ptr),
                                   Depth(list', ctoken[c].current), Depth(list', call[c].tail))
      OBVIOUS
    <3>2. /\ Listed(list, call[c].ptr) /\ Listed(list, call[c].tail) /\ Listed(list, p)
          /\ Listed(list, ctoken[c].current)
      BY <2>1, <3>1 DEF ConsumerOK, FullOK, ListedOrNone
    <3>3. /\ Depth(list', p) = Depth(list, p)
          /\ Depth(list', call[c].ptr) = Depth(list, call[c].ptr)
          /\ Depth(list', ctoken[c].current) = Depth(list, ctoken[c].current)
          /\ Depth(list', call[c].tail) = Depth(list, call[c].tail)
      BY <3>2 DEF ListGrows
    <3>4. QED
      BY <2>1, <3>1, <3>3 DEF FullOK
  <2>7. QED
    BY <2>1, <2>2, <2>3, <2>4, <2>5, <2>6 DEF FullOK
<1>3. QED
  BY <1>1, <1>2 DEF ConsumersOK

-----------------------------------------------------------------------------
(* The assignments that the steps are made of.                             *)

LEMMA SetSize ==
  ASSUME NEW s \in Seq(Producer), NEW p \in 1 .. Len(s), NEW n \in Nat,
         NEW r, r = [s EXCEPT ![p].size = n]
  PROVE  /\ r \in Seq(Producer) /\ Len(r) = Len(s) /\ r[p].size = n /\ Len(s) \in Nat
         /\ \A q \in 1 .. Len(s) : /\ r[q].token = s[q].token /\ r[q].explicit = s[q].explicit
                                   /\ r[q].inactive = s[q].inactive
                                   /\ q # p => r[q].size = s[q].size
<1>1. s[p] \in Producer
  BY ElementOfSeq
<1> DEFINE x == [s[p] EXCEPT !.size = n]
<1>2. /\ x \in Producer /\ x.size = n /\ x.token = s[p].token /\ x.explicit = s[p].explicit
      /\ x.inactive = s[p].inactive
  BY <1>1 DEF Producer
<1>3. r = [s EXCEPT ![p] = x]
  OBVIOUS
<1> HIDE DEF x
<1>4. /\ r \in Seq(Producer) /\ Len(r) = Len(s)
      /\ \A j \in 1 .. Len(s) : r[j] = IF j = p THEN x ELSE s[j]
  BY <1>2, <1>3, ExceptSeq, SMTT(60)
<1>5. QED
  BY <1>2, <1>4, LenProperties

LEMMA SetToken ==
  ASSUME NEW s \in Seq(Producer), NEW p \in 1 .. Len(s), NEW t \in Tokens \cup {NoOne},
         NEW r, r = [s EXCEPT ![p].token = t]
  PROVE  /\ r \in Seq(Producer) /\ Len(r) = Len(s) /\ r[p].token = t /\ Len(s) \in Nat
         /\ \A q \in 1 .. Len(s) : /\ r[q].size = s[q].size /\ (r[q].explicit <=> s[q].explicit)
                                   /\ (r[q].inactive <=> s[q].inactive)
                                   /\ q # p => r[q].token = s[q].token
<1>1. s[p] \in Producer
  BY ElementOfSeq
<1>2. PICK x : x = [s[p] EXCEPT !.token = t]
  OBVIOUS
<1>3. /\ x \in Producer /\ x.token = t /\ x.size = s[p].size
      /\ (x.explicit <=> s[p].explicit) /\ (x.inactive <=> s[p].inactive)
  BY <1>1, <1>2 DEF Producer
<1>4. r = [s EXCEPT ![p] = x]
  BY <1>2
<1>5. /\ r \in Seq(Producer) /\ Len(r) = Len(s)
      /\ \A j \in 1 .. Len(s) : r[j] = IF j = p THEN x ELSE s[j]
  BY <1>3, <1>4, ExceptSeq
<1>6. QED
  BY <1>3, <1>5, LenProperties

LEMMA SetInactive ==
  ASSUME NEW s \in Seq(Producer), NEW p \in 1 .. Len(s), NEW b \in BOOLEAN,
         NEW r, r = [s EXCEPT ![p].inactive = b]
  PROVE  /\ r \in Seq(Producer) /\ Len(r) = Len(s) /\ (r[p].inactive <=> b) /\ Len(s) \in Nat
         /\ \A q \in 1 .. Len(s) : /\ r[q].size = s[q].size /\ (r[q].explicit <=> s[q].explicit)
                                   /\ r[q].token = s[q].token
                                   /\ q # p => (r[q].inactive <=> s[q].inactive)
<1>1. s[p] \in Producer
  BY ElementOfSeq
<1>2. PICK x : x = [s[p] EXCEPT !.inactive = b]
  OBVIOUS
<1>3. /\ x \in Producer /\ (x.inactive <=> b) /\ x.size = s[p].size
      /\ (x.explicit <=> s[p].explicit) /\ x.token = s[p].token
  BY <1>1, <1>2 DEF Producer
<1>4. r = [s EXCEPT ![p] = x]
  BY <1>2
<1>5. /\ r \in Seq(Producer) /\ Len(r) = Len(s)
      /\ \A j \in 1 .. Len(s) : r[j] = IF j = p THEN x ELSE s[j]
  BY <1>3, <1>4, ExceptSeq
<1>6. QED
  BY <1>3, <1>5, LenProperties

LEMMA AddLast ==
  ASSUME NEW S, NEW s \in Seq(S), NEW x \in S, NEW r, r = Append(s, x)
  PROVE  /\ r \in Seq(S) /\ Len(s) \in Nat /\ Len(r) = Len(s) + 1 /\ r[Len(s) + 1] = x
         /\ \A i \in 1 .. Len(s) : r[i] = s[i]
BY AppendProperties

LEMMA AddFirst ==
  ASSUME NEW l \in Seq(Nat), NEW x \in Nat, NEW r, r = <<x>> \o l
  PROVE  /\ r \in Seq(Nat) /\ Len(l) \in Nat /\ Len(r) = Len(l) + 1 /\ r[1] = x
         /\ \A i \in 1 .. Len(l) : r[i + 1] = l[i]
<1>1. <<x>> \in Seq(Nat) /\ Len(<<x>>) = 1 /\ <<x>>[1] = x
  OBVIOUS
<1>2. /\ r \in Seq(Nat) /\ Len(r) = 1 + Len(l)
      /\ \A i \in 1 .. 1 + Len(l) : r[i] = IF i <= 1 THEN <<x>>[i] ELSE l[i - 1]
  BY <1>1, ConcatProperties
<1>3. Len(l) \in Nat
  OBVIOUS
<1>4. r[1] = x
  BY <1>1, <1>2, <1>3
<1>5. \A i \in 1 .. Len(l) : r[i + 1] = l[i]
  <2>1. ASSUME NEW i \in 1 .. Len(l) PROVE r[i + 1] = l[i]
    <3>1. i + 1 \in 1 .. 1 + Len(l) /\ ~(i + 1 <= 1) /\ (i + 1) - 1 = i
      BY <1>3
    <3>2. QED
      BY <1>2, <3>1
  <2>2. QED
    BY <2>1
<1>6. QED
  BY <1>2, <1>3, <1>4, <1>5

LEMMA GotoFacts ==
  ASSUME TypeOK, NEW t \in Threads, NEW l \in Labels, Goto(t, l)
  PROVE  pc' \in [Threads -> Labels] /\ pc'[t] = l /\ \A u \in Threads \ {t} : pc'[u] = pc[u]
BY DEF TypeOK, Goto

LEMMA LocalsFacts ==
  ASSUME TypeOK, NEW t \in Users, NEW x \in UserLocals, Locals(t, x)
  PROVE  my' \in [Users -> UserLocals] /\ my'[t] = x /\ \A u \in Users \ {t} : my'[u] = my[u]
BY DEF TypeOK, Locals

LEMMA CallFacts ==
  ASSUME TypeOK, NEW c \in Consumers, NEW x \in CallState, CallLocals(c, x)
  PROVE  /\ call' \in [Consumers -> CallState] /\ call'[c] = x
         /\ \A d \in Consumers \ {c} : call'[d] = call[d]
BY DEF TypeOK, CallLocals

LEMMA ThreadFacts ==
  /\ Enqueuers \subseteq Users /\ Tokens \subseteq Users /\ Users \subseteq Threads
  /\ Consumers \subseteq Threads
  /\ \A t \in Users : t \notin Consumers
  /\ \A e \in Enqueuers : e \notin Tokens
BY ConcurrentQueueAssumption DEF ConcurrentQueueAssumption, Users, Threads

LEMMA NoLocalsFacts ==
  /\ NoLocals \in UserLocals /\ NoLocals.made = NoOne
  /\ NoCall \in CallState /\ NoCall.best = NoOne /\ NoCall.tail = NoOne /\ NoCall.ptr = NoOne
  /\ NoCall.bestSize = 0 /\ NoCall.nonEmpty = 0
BY DEF NoLocals, UserLocals, NoCall, CallState, NoOne

-----------------------------------------------------------------------------
(* The steps of a consumer.                                                *)

ConsumerOnly(c) ==
  /\ UNCHANGED <<listVars, hashVars, token, my>>
  /\ Len(prod') = Len(prod)
  /\ \A p \in 1 .. Len(prod) : /\ prod'[p].token = prod[p].token
                               /\ prod'[p].explicit = prod[p].explicit
                               /\ prod'[p].inactive = prod[p].inactive
  /\ \A u \in Threads \ {c} : pc'[u] = pc[u]
  /\ \A d \in Consumers \ {c} : /\ call'[d] = call[d] /\ ctoken'[d] = ctoken[d]
                                /\ full'[d] = full[d] \/ full'[d] = {}
                                /\ pc[c] = "idle" => full'[d] = {}

\* The others lose no producer that nobody has taken from while they were alone.
LEMMA OtherConsumer ==
  ASSUME IInv, NEW c \in Consumers, ConsumerOnly(c), NEW d \in Consumers, d # c
  PROVE  ConsumerOK(d)' /\ FullOK(d)'
<1>1. /\ ConsumerOK(d) /\ FullOK(d) /\ list' = list /\ Len(prod') = Len(prod)
      /\ pc'[d] = pc[d] /\ call'[d] = call[d] /\ ctoken'[d] = ctoken[d]
  BY ThreadFacts DEF IInv, ConsumersOK, ConsumerOnly, listVars
<1>2. ConsumerOK(d)'
  BY <1>1 DEF ConsumerOK
<1>3. full'[d] = {}
  BY <1>1 DEF ConsumerOnly, FullOK, Contended
<1>4. QED
  BY <1>1, <1>2, <1>3 DEF FullOK

LEMMA ConsumerInv ==
  ASSUME IInv, TypeOK', NEW c \in Consumers, ConsumerOnly(c), ConsumerOK(c)', FullOK(c)'
  PROVE  IInv'
<1>1. TypeOK /\ ListOK /\ HashOK /\ TokensOK /\ Places
  BY PlacesHold DEF IInv
<1>2. /\ list' = list /\ producerCount' = producerCount /\ token' = token /\ my' = my
      /\ tables' = tables /\ hashCount' = hashCount /\ resizing' = resizing
      /\ Len(prod') = Len(prod) /\ Len(prod) \in Nat
      /\ \A t \in Users : pc'[t] = pc[t]
  BY <1>1, ThreadFacts DEF ConsumerOnly, listVars, hashVars, Places
<1>3. ListOK'
  BY <1>1, <1>2, ListFrame
<1>4. HashOK'
  BY <1>1, <1>2, ThreadFacts, HashFrame
<1>5. TokensOK'
  <2>1. \A p : Listed(list, p) => Listed(list', p)
    BY <1>2
  <2>2. \A p \in 1 .. Len(prod') : p > Len(prod) => ~prod'[p].inactive
    BY <1>2
  <2>3. QED
    BY <1>1, <1>2, <2>1, <2>2, ThreadFacts, TokensFrame DEF ConsumerOnly
<1>6. ConsumersOK'
  BY OtherConsumer DEF ConsumersOK
<1>7. QED
  BY <1>3, <1>4, <1>5, <1>6 DEF IInv

\* What c gets from a producer, and what is left.
LEMMA TakeFacts ==
  ASSUME IInv, NEW c \in Consumers, NEW p \in 1 .. Len(prod), NEW n \in Given(c, p),
         NEW done \in BOOLEAN, TakeFrom(c, p, n, done)
  PROVE  /\ n \in Nat /\ n <= call[c].left /\ prod[p].size \in Nat
         /\ prod' \in Seq(Producer) /\ full' \in [Consumers -> SUBSET Nat]
         /\ Len(prod') = Len(prod)
         /\ \A q \in 1 .. Len(prod) : /\ prod'[q].token = prod[q].token
                                      /\ prod'[q].explicit = prod[q].explicit
                                      /\ prod'[q].inactive = prod[q].inactive
         /\ \A d \in Consumers \ {c} : full'[d] = full[d]
         /\ full'[c] \subseteq full[c]
         /\ done => full'[c] = {}
         /\ \A q \in full'[c] : Listed(list, q)
         /\ ~done /\ (n # call[c].left \/ n = prod[p].size) =>
              p \notin full'[c] /\ \A q \in full'[c] : prod'[q].size > 0
<1>1. /\ TypeOK /\ FullOK(c) /\ Places
  BY PlacesHold DEF IInv, ConsumersOK
<1>2. prod \in Seq(Producer) /\ prod[p] \in Producer /\ call[c] \in CallState
  BY <1>1, ElementOfSeq DEF TypeOK
<1>3. PICK s \in Nat : s = prod[p].size
  BY <1>2 DEF Producer
<1>4. PICK l \in Nat : l = call[c].left
  BY <1>2 DEF CallState
<1>5. /\ n \in Nat /\ n <= l /\ n <= s
      /\ ~Contended(c) => n = l \/ n = s
  BY <1>3, <1>4 DEF Given, Shown, SmallerOf
<1>6. PICK r \in Nat : r = s - n
  BY <1>5
<1>7. prod' = [prod EXCEPT ![p].size = r]
  BY <1>3, <1>6 DEF TakeFrom
<1>8. /\ prod' \in Seq(Producer) /\ Len(prod') = Len(prod)
      /\ \A q \in 1 .. Len(prod) : /\ prod'[q].token = prod[q].token
                                   /\ prod'[q].explicit = prod[q].explicit
                                   /\ prod'[q].inactive = prod[q].inactive
                                   /\ q # p => prod'[q].size = prod[q].size
  BY <1>2, <1>7, SetSize, SMTT(60)
<1>9. full \in [Consumers -> SUBSET Nat]
  BY <1>1 DEF TypeOK
<1>10. PICK f : f = IF done THEN {} ELSE IF n = s THEN full[c] \ {p} ELSE full[c]
  OBVIOUS
<1>11. full' = [full EXCEPT ![c] = f] /\ f \subseteq full[c] /\ f \in SUBSET Nat
  BY <1>3, <1>9, <1>10 DEF TakeFrom
<1>12. /\ full'[c] = f /\ full' \in [Consumers -> SUBSET Nat]
       /\ \A d \in Consumers \ {c} : full'[d] = full[d]
  BY <1>9, <1>11
<1>13. \A q \in f : Listed(list, q) /\ q \in 1 .. Len(prod) /\ prod[q].size > 0
  BY <1>1, <1>11 DEF FullOK, Places
<1>14. ASSUME ~done, n # l \/ n = s PROVE p \notin f /\ \A q \in f : prod'[q].size > 0
  <2>1. f # {} => n = s
    BY <1>1, <1>5, <1>11, <1>14 DEF FullOK
  <2>2. p \notin f
    BY <1>10, <1>14, <2>1
  <2>3. QED
    BY <1>8, <1>13, <2>2
<1>15. QED
  BY <1>3, <1>4, <1>5, <1>8, <1>10, <1>11, <1>12, <1>13, <1>14

\* A call has come to its answer.
LEMMA Returned ==
  ASSUME IInv, TypeOK', NEW c \in Consumers, ConsumerOnly(c),
         pc'[c] \in {"idle", "short", "quota"}, call'[c] = NoCall, full'[c] = {},
         ListedOrNone(list, ctoken'[c].current), ListedOrNone(list, ctoken'[c].desired),
         ctoken'[c].desired # NoOne => ctoken'[c].current # NoOne
  PROVE  IInv'
<1>1. list' = list
  BY DEF ConsumerOnly, listVars
<1>2. ConsumerOK(c)'
  BY <1>1, NoLocalsFacts DEF ConsumerOK, ListedOrNone
<1>3. FullOK(c)'
  BY DEF FullOK
<1>4. QED
  BY <1>2, <1>3, ConsumerInv

LEMMA BeginDequeueInv ==
  ASSUME IInv, NEW c \in Consumers, NEW l \in Labels, NEW x \in CallState, BeginDequeue(c, l, x),
         x.best = NoOne, x.tail = NoOne, x.nonEmpty = 0, x.bestSize = 0,
         l \in {"score", "walk", "from", "short", "rotation", "current"},
         l = "score" => x.ptr = ListTail /\ x.left = 1,
         l = "walk" => x.ptr = ListTail /\ list # <<>>,
         l = "short" => list = <<>>,
         l = "from" => x.ptr \in 1 .. Len(prod),
         l = "current" => ctoken[c].desired # NoOne
  PROVE  IInv'
<1>1. TypeOK /\ ConsumerOK(c) /\ FullOK(c) /\ Places
  BY PlacesHold DEF IInv, ConsumersOK
<1>2. /\ pc[c] = "idle" /\ calls' = calls + 1
      /\ UNCHANGED <<prod, listVars, hashVars, globalOffset, ctoken, token, my>>
      /\ CallLocals(c, x) /\ Goto(c, l)
      /\ full' = [d \in Consumers |-> IF d = c /\ ~Contended(c) THEN NonEmpty ELSE {}]
  BY DEF BeginDequeue, Begin
<1>3. /\ pc' \in [Threads -> Labels] /\ pc'[c] = l /\ \A u \in Threads \ {c} : pc'[u] = pc[u]
  BY <1>1, <1>2, ThreadFacts, GotoFacts
<1>4. /\ call' \in [Consumers -> CallState] /\ call'[c] = x
      /\ \A d \in Consumers \ {c} : call'[d] = call[d]
  BY <1>1, <1>2, CallFacts
<1>5. NonEmpty \in SUBSET Nat /\ \A p \in NonEmpty : Listed(list, p) /\ prod[p].size > 0
  BY <1>1 DEF NonEmpty, Listed, TypeOK
<1>6. /\ full' \in [Consumers -> SUBSET Nat]
      /\ \A d \in Consumers \ {c} : full'[d] = {}
      /\ full'[c] \subseteq NonEmpty
      /\ Contended(c) => full'[c] = {}
  BY <1>2, <1>5
<1>7. TypeOK'
  BY <1>1, <1>2, <1>3, <1>4, <1>6 DEF TypeOK, listVars, hashVars
<1>8. ConsumerOnly(c)
  BY <1>2, <1>3, <1>4, <1>6 DEF ConsumerOnly
<1>9. list' = list /\ prod' = prod /\ ctoken' = ctoken
  BY <1>2 DEF listVars
<1>10. /\ list # <<>> => Listed(list, ListTail) /\ \A p \in full'[c] : Depth(list, p) <= Depth(list, ListTail)
       /\ list = <<>> => full'[c] = {} /\ ListTail = NoOne
       /\ list # <<>> => ListTail # NoOne
  BY <1>1, <1>5, <1>6, ListTailFacts
<1>11. ConsumerOK(c)'
  BY <1>1, <1>3, <1>4, <1>9, <1>10 DEF ConsumerOK, ListedOrNone
<1>12. Contended(c)' <=> Contended(c)
  BY <1>3, ThreadFacts DEF Contended
<1>13. \A p \in full'[c] : p # NoOne
  BY <1>1, <1>5, <1>6 DEF Places
<1>14. FullOK(c)'
  BY <1>3, <1>4, <1>5, <1>6, <1>9, <1>10, <1>12, <1>13 DEF FullOK
<1>15. QED
  BY <1>7, <1>8, <1>11, <1>14, ConsumerInv

LEMMA ConsumerCallInv ==
  ASSUME IInv, NEW c \in Consumers, ConsumerCall(c)
  PROVE  IInv'
<1>1. TypeOK /\ ConsumerOK(c) /\ TokensOK /\ Places
  BY PlacesHold DEF IInv, ConsumersOK
<1>2. ListTail \in Nat /\ (ListTail = NoOne <=> list = <<>>)
  BY <1>1, ListTailFacts, NoOneFacts DEF Places
<1>3. MaxBulk \in Nat \ {0}
  BY ConcurrentQueueAssumption DEF ConcurrentQueueAssumption
<1>4. CASE BeginScored(c)
  <2>1. PICK x : x = [NoCall EXCEPT !.left = 1, !.ptr = ListTail]
    OBVIOUS
  <2>2. /\ x \in CallState /\ x.best = NoOne /\ x.tail = NoOne /\ x.nonEmpty = 0 /\ x.bestSize = 0
        /\ x.ptr = ListTail /\ x.left = 1
    BY <1>2, <2>1, NoLocalsFacts DEF CallState, NoCall
  <2>3. BeginDequeue(c, "score", x)
    BY <1>4, <2>1 DEF BeginScored
  <2>4. QED
    BY <2>2, <2>3, BeginDequeueInv DEF Labels
<1>5. ASSUME NEW bulk \in BOOLEAN, NEW max \in Nat, BeginWithToken(c, bulk, max) PROVE IInv'
  <2>1. PICK x : x = [NoCall EXCEPT !.bulk = bulk, !.left = max]
    OBVIOUS
  <2>2. x \in CallState /\ x.best = NoOne /\ x.tail = NoOne /\ x.nonEmpty = 0 /\ x.bestSize = 0
    BY <2>1, NoLocalsFacts DEF CallState, NoCall
  <2>3. \/ BeginDequeue(c, "rotation", x)
        \/ BeginDequeue(c, "current", x) /\ ctoken[c].desired # NoOne
    BY <1>5, <2>1 DEF BeginWithToken
  <2>4. QED
    BY <2>2, <2>3, BeginDequeueInv DEF Labels
<1>6. ASSUME NEW max \in Nat, BeginWalk(c, max) PROVE IInv'
  <2>1. PICK x : x = [NoCall EXCEPT !.left = max, !.ptr = ListTail]
    OBVIOUS
  <2>2. /\ x \in CallState /\ x.best = NoOne /\ x.tail = NoOne /\ x.nonEmpty = 0 /\ x.bestSize = 0
        /\ x.ptr = ListTail
    BY <1>2, <2>1, NoLocalsFacts DEF CallState, NoCall
  <2>3. \/ list = <<>> /\ BeginDequeue(c, "short", NoCall)
        \/ list # <<>> /\ BeginDequeue(c, "walk", x)
    BY <1>6, <2>1 DEF BeginWalk
  <2>4. QED
    BY <2>2, <2>3, NoLocalsFacts, BeginDequeueInv DEF Labels
<1>7. ASSUME NEW max \in Nat, NEW k \in Tokens, BeginFrom(c, k, max) PROVE IInv'
  <2>1. PICK x : x = [NoCall EXCEPT !.left = max, !.ptr = token[k]]
    OBVIOUS
  <2>2. token[k] \in 1 .. Len(prod) /\ token[k] \in Nat /\ BeginDequeue(c, "from", x)
    BY <1>1, <1>7, <2>1 DEF BeginFrom, TokensOK, Places
  <2>3. /\ x \in CallState /\ x.best = NoOne /\ x.tail = NoOne /\ x.nonEmpty = 0 /\ x.bestSize = 0
        /\ x.ptr = token[k]
    BY <2>1, <2>2, NoLocalsFacts DEF CallState, NoCall
  <2>4. QED
    BY <2>2, <2>3, BeginDequeueInv DEF Labels
<1>8. 1 \in Nat /\ \A max \in 1 .. MaxBulk : max \in Nat
  BY <1>3
<1>9. QED
  BY <1>4, <1>5, <1>6, <1>7, <1>8 DEF ConsumerCall

\* Steps of a consumer that take nothing from a producer.
LEMMA LooksOnly ==
  ASSUME IInv, NEW c \in Consumers, NEW l \in Labels, Goto(c, l), pc[c] # "idle",
         NEW x \in CallState, CallLocals(c, x),
         ctoken' \in [Consumers -> TokenState], \A d \in Consumers \ {c} : ctoken'[d] = ctoken[d],
         UNCHANGED <<prod, listVars, hashVars, globalOffset, token, my, calls, full>>
  PROVE  /\ TypeOK' /\ ConsumerOnly(c) /\ pc'[c] = l /\ call'[c] = x
         /\ full'[c] = full[c] /\ list' = list /\ prod' = prod
         /\ Contended(c)' <=> Contended(c)
<1>1. TypeOK
  BY DEF IInv
<1>2. /\ pc' \in [Threads -> Labels] /\ pc'[c] = l /\ \A u \in Threads \ {c} : pc'[u] = pc[u]
  BY <1>1, ThreadFacts, GotoFacts
<1>3. /\ call' \in [Consumers -> CallState] /\ call'[c] = x
      /\ \A d \in Consumers \ {c} : call'[d] = call[d]
  BY <1>1, CallFacts
<1>5. TypeOK'
  BY <1>1, <1>2, <1>3 DEF TypeOK, listVars, hashVars
<1>6. ConsumerOnly(c)
  BY <1>2, <1>3 DEF ConsumerOnly
<1>7. Contended(c)' <=> Contended(c)
  BY <1>2, ThreadFacts DEF Contended
<1>8. QED
  BY <1>2, <1>3, <1>5, <1>6, <1>7 DEF listVars

LEMMA TokenSame ==
  ASSUME TypeOK, NEW c \in Consumers
  PROVE  /\ [ctoken EXCEPT ![c] = ctoken[c]] = ctoken /\ ctoken[c] \in TokenState
         /\ [call EXCEPT ![c] = call[c]] = call /\ call[c] \in CallState
         /\ [pc EXCEPT ![c] = pc[c]] = pc /\ pc[c] \in Labels
BY ThreadFacts DEF TypeOK

LEMMA AnswerShortInv ==
  ASSUME IInv, NEW c \in Consumers, AnswerShort(c)
  PROVE  IInv'
<1>1. TypeOK /\ ConsumerOK(c)
  BY DEF IInv, ConsumersOK
<1>2. /\ Goto(c, "idle") /\ full' = [full EXCEPT ![c] = {}] /\ pc[c] = "short"
      /\ UNCHANGED <<prod, listVars, hashVars, consumerVars, token, my, calls>>
  BY DEF AnswerShort
<1>3. /\ pc' \in [Threads -> Labels] /\ pc'[c] = "idle" /\ \A u \in Threads \ {c} : pc'[u] = pc[u]
  BY <1>1, <1>2, ThreadFacts, GotoFacts DEF Labels
<1>4. /\ full' \in [Consumers -> SUBSET Nat] /\ full'[c] = {}
      /\ \A d \in Consumers \ {c} : full'[d] = full[d]
  BY <1>1, <1>2 DEF TypeOK
<1>5. TypeOK' /\ ConsumerOnly(c) /\ list' = list /\ call' = call /\ ctoken' = ctoken
  BY <1>1, <1>2, <1>3, <1>4 DEF TypeOK, ConsumerOnly, listVars, hashVars, consumerVars
<1>6. ConsumerOK(c)'
  BY <1>1, <1>3, <1>5 DEF ConsumerOK
<1>7. FullOK(c)'
  BY <1>3, <1>4 DEF FullOK
<1>8. QED
  BY <1>5, <1>6, <1>7, ConsumerInv

\* A look that ends in a short answer: there was nothing left to find.
LEMMA ShortInv ==
  ASSUME IInv, NEW c \in Consumers, NEW l \in {"short", "idle"}, Return(c, l), pc[c] # "idle",
         full[c] = {},
         UNCHANGED <<prod, listVars, hashVars, globalOffset, ctoken, token, my, calls, full>>
  PROVE  IInv'
<1>1. TypeOK /\ ConsumerOK(c)
  BY DEF IInv, ConsumersOK
<1>2. ctoken \in [Consumers -> TokenState]
  BY <1>1 DEF TypeOK
<1>3. Goto(c, l) /\ CallLocals(c, NoCall) /\ l \in Labels
  BY DEF Return, Labels
<1>6. UNCHANGED <<prod, listVars, hashVars, globalOffset, token, my, calls, full>>
  OBVIOUS
<1>4. /\ TypeOK' /\ ConsumerOnly(c) /\ pc'[c] = l /\ call'[c] = NoCall
      /\ full'[c] = full[c]
  BY <1>2, <1>3, <1>6, NoLocalsFacts, LooksOnly
<1>5. QED
  BY <1>1, <1>4, Returned DEF ConsumerOK

LEMMA ScoreInv ==
  ASSUME IInv, NEW c \in Consumers, Score(c)
  PROVE  IInv'
<1>1. TypeOK /\ ConsumerOK(c) /\ FullOK(c) /\ Places
  BY PlacesHold DEF IInv, ConsumersOK
<1>2. pc[c] = "score" /\ call[c].ptr # NoOne /\ Listed(list, call[c].ptr)
  BY <1>1 DEF Score, ConsumerOK, ListedOrNone
<1>3. PICK p \in 1 .. Len(prod) : p = call[c].ptr /\ p \in Nat
  BY <1>1, <1>2 DEF Places
<1>4. PICK s \in Nat : s = prod[p].size
  <2>1. prod[p] \in Producer
    BY <1>1, ElementOfSeq DEF TypeOK
  <2>2. QED
    BY <2>1 DEF Producer
<1>5. PICK size \in Shown(c, s) :
        LET next == [call[c] EXCEPT !.ptr = NextProd(@), !.nonEmpty = IF size > 0 THEN @ + 1 ELSE @]
        IN CallLocals(c, IF size > call[c].bestSize
                         THEN [next EXCEPT !.best = call[c].ptr, !.bestSize = size] ELSE next)
  BY <1>3, <1>4 DEF Score
<1>6. size \in Nat /\ (~Contended(c) => size = s)
  BY <1>4, <1>5 DEF Shown
<1>7. PICK n : n = NextProd(p)
  OBVIOUS
<1>8. IF Depth(list, p) = 0 THEN n = NoOne ELSE Listed(list, n) /\ Depth(list, n) = Depth(list, p) - 1
  BY <1>1, <1>2, <1>3, <1>7, NextProdFacts
<1>9. n \in Nat /\ ListedOrNone(list, n)
  BY <1>1, <1>8, NoOneFacts DEF Places, ListedOrNone
<1>10. call[c] \in CallState /\ call[c].bestSize \in Nat /\ call[c].nonEmpty \in Nat
  BY <1>1 DEF TypeOK, CallState
<1>11. PICK m \in Nat : m = IF size > 0 THEN call[c].nonEmpty + 1 ELSE call[c].nonEmpty
  BY <1>6, <1>10
<1>12. PICK x : x = IF size > call[c].bestSize
                    THEN [call[c] EXCEPT !.ptr = n, !.nonEmpty = m, !.best = p, !.bestSize = size]
                    ELSE [call[c] EXCEPT !.ptr = n, !.nonEmpty = m]
  OBVIOUS
<1>13. /\ x \in CallState /\ x.ptr = n /\ x.nonEmpty = m /\ x.left = call[c].left
       /\ x.best = IF size > call[c].bestSize THEN p ELSE call[c].best
       /\ x.bestSize = IF size > call[c].bestSize THEN size ELSE call[c].bestSize
  BY <1>3, <1>6, <1>9, <1>10, <1>11, <1>12 DEF CallState
<1>14. CallLocals(c, x)
  BY <1>3, <1>5, <1>7, <1>10, <1>11, <1>12 DEF CallState
<1>15. UNCHANGED <<prod, listVars, hashVars, globalOffset, ctoken, token, pc, my, calls, full>>
  BY DEF Score
<1>16. /\ TypeOK' /\ ConsumerOnly(c) /\ pc'[c] = "score" /\ call'[c] = x /\ ctoken'[c] = ctoken[c]
       /\ full'[c] = full[c] /\ list' = list /\ prod' = prod
       /\ Contended(c)' <=> Contended(c)
  <2>1. Goto(c, "score") /\ ctoken \in [Consumers -> TokenState]
    BY <1>1, <1>2, <1>15, TokenSame DEF Goto, TypeOK
  <2>2. "score" \in Labels
    BY DEF Labels
  <2>3. QED
    BY <1>2, <1>13, <1>14, <1>15, <2>1, <2>2, LooksOnly
<1>17. ConsumerOK(c)'
  BY <1>1, <1>2, <1>3, <1>9, <1>13, <1>16 DEF ConsumerOK, ListedOrNone
<1>18. ASSUME x.best = NoOne
       PROVE  /\ m = 0 /\ x.bestSize = 0
              /\ \A q \in full[c] : n # NoOne /\ Depth(list, q) <= Depth(list, n)
  <2>1. p # NoOne
    BY <1>2, <1>3
  <2>2. size <= call[c].bestSize /\ call[c].best = NoOne
    BY <1>6, <1>10, <1>13, <1>18, <2>1
  <2>3. call[c].nonEmpty = 0 /\ call[c].bestSize = 0
    BY <1>1, <1>2, <2>2 DEF FullOK
  <2>4. size = 0 /\ m = 0 /\ x.bestSize = 0
    BY <1>6, <1>11, <1>13, <2>2, <2>3
  <2>5. ASSUME NEW q \in full[c] PROVE n # NoOne /\ Depth(list, q) <= Depth(list, n)
    <3>1. ~Contended(c) /\ s = 0
      BY <1>1, <1>6, <2>4, <2>5 DEF FullOK
    <3>2. Listed(list, q) /\ prod[q].size > 0 /\ Depth(list, q) <= Depth(list, p)
      BY <1>1, <1>2, <1>3, <2>2, <2>5 DEF FullOK
    <3>3. q # p
      <4>1. SUFFICES ASSUME q = p PROVE FALSE
        OBVIOUS
      <4>2. prod[p].size = 0 /\ prod[p].size > 0
        BY <1>4, <3>1, <3>2, <4>1
      <4>3. QED
        BY <4>2
    <3>4. Depth(list, q) # Depth(list, p) /\ Depth(list, q) \in Nat /\ Depth(list, p) \in Nat
      BY <1>1, <1>2, <1>3, <3>2, <3>3 DEF Places
    <3>5. QED
      BY <1>1, <1>8, <3>2, <3>4 DEF Places
  <2>6. QED
    BY <2>4, <2>5
<1>19. FullOK(c)'
  BY <1>1, <1>2, <1>13, <1>16, <1>18 DEF FullOK
<1>20. QED
  BY <1>16, <1>17, <1>19, ConsumerInv

LEMMA ScoreNoneInv ==
  ASSUME IInv, NEW c \in Consumers, ScoreNone(c)
  PROVE  IInv'
<1>1. FullOK(c)
  BY DEF IInv, ConsumersOK
<1>2. full[c] = {}
  BY <1>1 DEF ScoreNone, ScoreDone, FullOK
<1>3. QED
  BY <1>2, ShortInv DEF ScoreNone, ScoreDone

\* Steps of a consumer that take elements from a producer.
LEMMA Takes ==
  ASSUME IInv, NEW c \in Consumers, NEW p \in 1 .. Len(prod), NEW n \in Given(c, p),
         NEW done \in BOOLEAN, TakeFrom(c, p, n, done),
         NEW l \in Labels, Goto(c, l), pc[c] # "idle", NEW x \in CallState, CallLocals(c, x),
         ctoken' \in [Consumers -> TokenState], \A d \in Consumers \ {c} : ctoken'[d] = ctoken[d],
         UNCHANGED <<listVars, hashVars, globalOffset, token, my, calls>>
  PROVE  /\ TypeOK' /\ ConsumerOnly(c) /\ pc'[c] = l /\ call'[c] = x /\ list' = list
         /\ Len(prod') = Len(prod)
         /\ Contended(c)' <=> Contended(c)
<1>1. TypeOK
  BY DEF IInv
<1>2. /\ pc' \in [Threads -> Labels] /\ pc'[c] = l /\ \A u \in Threads \ {c} : pc'[u] = pc[u]
  BY <1>1, ThreadFacts, GotoFacts
<1>3. /\ call' \in [Consumers -> CallState] /\ call'[c] = x
      /\ \A d \in Consumers \ {c} : call'[d] = call[d]
  BY <1>1, CallFacts
<1>4. /\ prod' \in Seq(Producer) /\ full' \in [Consumers -> SUBSET Nat]
      /\ Len(prod') = Len(prod)
      /\ \A q \in 1 .. Len(prod) : /\ prod'[q].token = prod[q].token
                                   /\ prod'[q].explicit = prod[q].explicit
                                   /\ prod'[q].inactive = prod[q].inactive
      /\ \A d \in Consumers \ {c} : full'[d] = full[d]
  BY TakeFacts
<1>5. TypeOK'
  BY <1>1, <1>2, <1>3, <1>4 DEF TypeOK, listVars, hashVars
<1>6. ConsumerOnly(c)
  BY <1>2, <1>3, <1>4 DEF ConsumerOnly
<1>7. Contended(c)' <=> Contended(c)
  BY <1>2, ThreadFacts DEF Contended
<1>8. QED
  BY <1>2, <1>3, <1>4, <1>5, <1>6, <1>7 DEF listVars

\* The next producer of the walk, which is not the one that it has seen.
LEMMA WalksOn ==
  ASSUME IInv, NEW c \in Consumers, TypeOK', ConsumerOnly(c), list' = list,
         pc'[c] = "walk", ctoken'[c] = ctoken[c],
         Listed(list, call'[c].ptr), ListedOrNone(list, call'[c].best),
         full'[c] # {} => full[c] # {}, Contended(c)' <=> Contended(c),
         \A q \in full'[c] : /\ Listed(list, q) /\ prod'[q].size > 0 /\ q # call'[c].best
                             /\ Depth(list, q) <= Depth(list, call'[c].ptr)
  PROVE  IInv'
<1>1. ConsumerOK(c) /\ FullOK(c)
  BY DEF IInv, ConsumersOK
<1>2. ConsumerOK(c)'
  BY <1>1 DEF ConsumerOK
<1>3. FullOK(c)'
  BY <1>1 DEF FullOK
<1>4. QED
  BY <1>2, <1>3, ConsumerInv

LEMMA TakeBestInv ==
  ASSUME IInv, NEW c \in Consumers, TakeBest(c)
  PROVE  IInv'
<1>1. TypeOK /\ ConsumerOK(c) /\ FullOK(c) /\ Places
  BY PlacesHold DEF IInv, ConsumersOK
<1>2. /\ pc[c] = "score" /\ call[c].best # NoOne /\ Listed(list, call[c].best) /\ call[c].left = 1
  BY <1>1 DEF TakeBest, ScoreDone, ConsumerOK, ListedOrNone, FullOK
<1>3. PICK best \in 1 .. Len(prod) : best = call[c].best /\ best \in Nat
  BY <1>1, <1>2 DEF Places
<1>4. PICK given \in Given(c, best) :
        /\ TakeFrom(c, best, given, given = 1)
        /\ IF given = 1 THEN Return(c, "idle")
           ELSE WalkFrom(c, ListTail, [NoCall EXCEPT !.left = 1, !.best = best])
  BY <1>3 DEF TakeBest
<1>5. UNCHANGED <<listVars, hashVars, globalOffset, ctoken, token, my, calls>>
  BY DEF TakeBest
<1>6. ctoken \in [Consumers -> TokenState] /\ ctoken' = ctoken
  BY <1>1, <1>5 DEF TypeOK
<1>7. PICK done \in BOOLEAN : (done <=> given = 1) /\ TakeFrom(c, best, given, done)
  BY <1>4
<1>8. /\ full'[c] \subseteq full[c]
      /\ done => full'[c] = {}
      /\ \A q \in full'[c] : Listed(list, q)
      /\ ~done => best \notin full'[c] /\ \A q \in full'[c] : prod'[q].size > 0
  BY <1>2, <1>7, TakeFacts
<1>9. CASE done
  <2>1. Goto(c, "idle") /\ CallLocals(c, NoCall)
    BY <1>4, <1>7, <1>9 DEF Return
  <2>2. /\ TypeOK' /\ ConsumerOnly(c) /\ pc'[c] = "idle" /\ call'[c] = NoCall
    BY <1>2, <1>5, <1>6, <1>7, <2>1, NoLocalsFacts, Takes DEF Labels
  <2>3. QED
    BY <1>1, <1>6, <1>8, <1>9, <2>2, Returned DEF ConsumerOK
<1>10. CASE ~done
  <2>1. /\ ListTail # NoOne /\ Listed(list, ListTail)
        /\ \A q : Listed(list, q) => Depth(list, q) <= Depth(list, ListTail)
    BY <1>1, <1>2, ListTailFacts
  <2>2. PICK t \in Nat : t = ListTail
    BY <1>1, <2>1 DEF Places
  <2>3. PICK x : x = [NoCall EXCEPT !.left = 1, !.best = best, !.ptr = t]
    OBVIOUS
  <2>4. x \in CallState /\ x.best = best /\ x.ptr = t
    <3>1. x = [bulk |-> FALSE, left |-> 1, tail |-> NoOne, ptr |-> t, best |-> best,
               bestSize |-> 0, nonEmpty |-> 0, prodCount |-> 0]
      BY <2>3 DEF NoCall
    <3>2. best \in Nat /\ t \in Nat /\ NoOne \in Nat
      BY <1>3, <2>2 DEF NoOne
    <3>3. QED
      BY <3>1, <3>2 DEF CallState
  <2>5. Goto(c, "walk") /\ CallLocals(c, x)
    BY <1>4, <1>7, <1>10, <2>1, <2>2, <2>3 DEF WalkFrom
  <2>6. /\ TypeOK' /\ ConsumerOnly(c) /\ pc'[c] = "walk" /\ call'[c] = x /\ list' = list
        /\ Contended(c)' <=> Contended(c)
    BY <1>2, <1>5, <1>6, <1>7, <2>4, <2>5, Takes DEF Labels
  <2>7. QED
    BY <1>2, <1>3, <1>6, <1>8, <1>10, <2>1, <2>2, <2>4, <2>6, WalksOn DEF ListedOrNone
<1>11. QED
  BY <1>9, <1>10

\* Those that are left further on, where p is and is not one of them.
LEMMA Further ==
  ASSUME Places, NEW p, Listed(list, p), NEW q, Listed(list, q), q # p,
         Depth(list, q) <= Depth(list, p)
  PROVE  /\ NextProd(p) # NoOne /\ Listed(list, NextProd(p))
         /\ Depth(list, q) <= Depth(list, NextProd(p))
<1>1. /\ Depth(list, p) \in 0 .. Len(list) - 1 /\ Depth(list, q) \in 0 .. Len(list) - 1
      /\ Len(list) \in Nat /\ Depth(list, p) # Depth(list, q)
  BY DEF Places
<1>2. Depth(list, p) # 0
  BY <1>1
<1>3. Listed(list, NextProd(p)) /\ Depth(list, NextProd(p)) = Depth(list, p) - 1
  BY <1>2, NextProdFacts
<1>4. QED
  BY <1>1, <1>3 DEF Places

LEMMA NextProdNat ==
  ASSUME Places, NEW p, Listed(list, p)
  PROVE  NextProd(p) \in Nat /\ ListedOrNone(list, NextProd(p))
BY NextProdFacts, NoOneFacts DEF Places, ListedOrNone

LEMMA WalkInv ==
  ASSUME IInv, NEW c \in Consumers, Walk(c)
  PROVE  IInv'
<1>1. TypeOK /\ ConsumerOK(c) /\ FullOK(c) /\ Places
  BY PlacesHold DEF IInv, ConsumersOK
<1>2. pc[c] = "walk" /\ Listed(list, call[c].ptr)
  BY <1>1 DEF Walk, ConsumerOK
<1>3. PICK p \in 1 .. Len(prod) : p = call[c].ptr /\ p \in Nat /\ Listed(list, p)
  BY <1>1, <1>2 DEF Places
<1>4. PICK next \in Nat : next = NextProd(p) /\ ListedOrNone(list, next)
  BY <1>1, <1>3, NextProdNat
<1>5. UNCHANGED <<listVars, hashVars, globalOffset, ctoken, token, my, calls>>
  BY DEF Walk
<1>6. ctoken \in [Consumers -> TokenState] /\ ctoken' = ctoken /\ call[c] \in CallState
  BY <1>1, <1>5 DEF TypeOK
<1>7. \A q \in full[c] : /\ Listed(list, q) /\ prod[q].size > 0 /\ q # call[c].best
                         /\ Depth(list, q) <= Depth(list, p)
  BY <1>1, <1>2, <1>3 DEF FullOK
<1>8. \A q \in full[c] : q # p => next # NoOne /\ Listed(list, next) /\ Depth(list, q) <= Depth(list, next)
  BY <1>1, <1>3, <1>4, <1>7, Further
<1>9. CASE p = call[c].best
  <2>1. WalkFrom(c, next, call[c]) /\ UNCHANGED <<prod, full>>
    BY <1>3, <1>4, <1>9 DEF Walk
  <2>2. CASE next = NoOne
    <3>1. full[c] = {}
      BY <1>7, <1>8, <1>9, <2>2
    <3>2. QED
      BY <1>2, <1>5, <2>1, <2>2, <3>1, ShortInv DEF WalkFrom
  <2>3. CASE next # NoOne
    <3>1. PICK x : x = [call[c] EXCEPT !.ptr = next]
      OBVIOUS
    <3>2. x \in CallState /\ x.ptr = next /\ x.best = call[c].best
      BY <1>6, <3>1 DEF CallState
    <3>3. Goto(c, "walk") /\ CallLocals(c, x)
      BY <2>1, <2>3, <3>1 DEF WalkFrom
    <3>4. /\ TypeOK' /\ ConsumerOnly(c) /\ pc'[c] = "walk" /\ call'[c] = x /\ list' = list
          /\ full'[c] = full[c] /\ prod' = prod
          /\ Contended(c)' <=> Contended(c)
      BY <1>2, <1>5, <1>6, <2>1, <3>2, <3>3, LooksOnly DEF Labels
    <3>5. ListedOrNone(list, call[c].best)
      BY <1>1 DEF ConsumerOK
    <3>6. QED
      BY <1>4, <1>6, <1>7, <1>8, <1>9, <2>3, <3>2, <3>4, <3>5, WalksOn DEF ListedOrNone
  <2>4. QED
    BY <2>2, <2>3
<1>10. CASE p # call[c].best
  <2>1. PICK given \in Given(c, p) :
          /\ TakeFrom(c, p, given, given = call[c].left)
          /\ IF given = call[c].left THEN Return(c, "idle")
             ELSE WalkFrom(c, next, [call[c] EXCEPT !.left = @ - given])
    BY <1>3, <1>4, <1>10 DEF Walk
  <2>2. PICK done \in BOOLEAN : (done <=> given = call[c].left) /\ TakeFrom(c, p, given, done)
    BY <2>1
  <2>3. /\ full'[c] \subseteq full[c] /\ given \in Nat /\ given <= call[c].left
        /\ done => full'[c] = {}
        /\ \A q \in full'[c] : Listed(list, q)
        /\ ~done => p \notin full'[c] /\ \A q \in full'[c] : prod'[q].size > 0
    BY <2>2, TakeFacts
  <2>4. CASE done
    <3>1. Goto(c, "idle") /\ CallLocals(c, NoCall)
      BY <2>1, <2>2, <2>4 DEF Return
    <3>2. TypeOK' /\ ConsumerOnly(c) /\ pc'[c] = "idle" /\ call'[c] = NoCall
      BY <1>2, <1>5, <1>6, <2>2, <3>1, NoLocalsFacts, Takes DEF Labels
    <3>3. QED
      BY <1>1, <1>6, <2>3, <2>4, <3>2, Returned DEF ConsumerOK
  <2>5. CASE ~done /\ next = NoOne
    <3>1. Goto(c, "short") /\ CallLocals(c, NoCall)
      BY <2>1, <2>2, <2>5 DEF Return, WalkFrom
    <3>2. TypeOK' /\ ConsumerOnly(c) /\ pc'[c] = "short" /\ call'[c] = NoCall
      BY <1>2, <1>5, <1>6, <2>2, <3>1, NoLocalsFacts, Takes DEF Labels
    <3>3. full'[c] = {}
      BY <1>8, <2>3, <2>5
    <3>4. QED
      BY <1>1, <1>6, <3>2, <3>3, Returned DEF ConsumerOK
  <2>6. CASE ~done /\ next # NoOne
    <3>1. PICK left \in Nat : left = call[c].left - given
      BY <1>6, <2>3 DEF CallState
    <3>2. PICK x : x = [call[c] EXCEPT !.left = left, !.ptr = next]
      OBVIOUS
    <3>3. x \in CallState /\ x.ptr = next /\ x.best = call[c].best
      BY <1>6, <3>2 DEF CallState
    <3>4. Goto(c, "walk") /\ CallLocals(c, x)
      BY <2>1, <2>2, <2>6, <3>1, <3>2 DEF WalkFrom
    <3>5. /\ TypeOK' /\ ConsumerOnly(c) /\ pc'[c] = "walk" /\ call'[c] = x /\ list' = list
          /\ Contended(c)' <=> Contended(c)
      BY <1>2, <1>5, <1>6, <2>2, <3>3, <3>4, Takes DEF Labels
    <3>6. ListedOrNone(list, call[c].best)
      BY <1>1 DEF ConsumerOK
    <3>7. \A q \in full'[c] : q # call[c].best /\ Depth(list, q) <= Depth(list, next)
      BY <1>7, <1>8, <2>3, <2>6
    <3>8. QED
      BY <1>4, <1>6, <2>3, <2>6, <3>3, <3>5, <3>6, <3>7, WalksOn DEF ListedOrNone
  <2>7. QED
    BY <2>4, <2>5, <2>6
<1>11. QED
  BY <1>9, <1>10

LEMMA TakeFromOneInv ==
  ASSUME IInv, NEW c \in Consumers, TakeFromOne(c)
  PROVE  IInv'
<1>1. TypeOK /\ ConsumerOK(c)
  BY DEF IInv, ConsumersOK
<1>2. PICK p \in 1 .. Len(prod) : p = call[c].ptr
  BY <1>1 DEF TakeFromOne, ConsumerOK
<1>3. PICK given \in Given(c, p) : TakeFrom(c, p, given, TRUE)
  BY <1>2 DEF TakeFromOne
<1>4. /\ Goto(c, "idle") /\ CallLocals(c, NoCall) /\ pc[c] = "from" /\ ctoken' = ctoken
      /\ UNCHANGED <<listVars, hashVars, globalOffset, token, my, calls>>
  BY DEF TakeFromOne, Return
<1>5. ctoken \in [Consumers -> TokenState]
  BY <1>1 DEF TypeOK
<1>6. TypeOK' /\ ConsumerOnly(c) /\ pc'[c] = "idle" /\ call'[c] = NoCall
  BY <1>3, <1>4, <1>5, NoLocalsFacts, Takes DEF Labels
<1>7. full'[c] = {}
  BY <1>3, TakeFacts
<1>8. QED
  BY <1>1, <1>4, <1>6, <1>7, Returned DEF ConsumerOK

\* One step of the round.
LEMMA RoundGoesOn ==
  ASSUME NEW p \in Nat, NEW current \in Nat, NEW tail \in Nat, NEW next \in Nat, NEW d \in Nat,
         next = IF p = 0 THEN tail ELSE p - 1, p <= tail, current <= tail, d # p,
         IF p = current THEN d <= tail ELSE OnTheWay(d, p, current, tail)
  PROVE  next <= tail /\ next # current /\ OnTheWay(d, next, current, tail)
BY DEF OnTheWay

LEMMA AroundFacts ==
  ASSUME Places, NEW tail, Listed(list, tail), NEW p, Listed(list, p), NEW k \in Int
  PROVE  Listed(list, Around(tail, p, k))
<1>1. Place(tail) \in 1 .. Len(list) /\ Place(p) \in 1 .. Len(list) /\ Len(list) \in Nat
  BY DEF Places
<1>2. PICK first \in 1 .. Len(list) : first = Place(tail)
  BY <1>1
<1>3. PICK a \in Int : a = Place(p) - first + k
  BY <1>1, <1>2
<1>4. PICK m \in Nat \ {0} : m = Len(list) - first + 1
  BY <1>1, <1>2
<1>5. a % m \in 0 .. m - 1
  BY <1>3, <1>4
<1>6. first + (a % m) \in 1 .. Len(list)
  BY <1>1, <1>4, <1>5
<1>7. Around(tail, p, k) = list[first + (a % m)]
  BY <1>2, <1>3, <1>4 DEF Around
<1>8. QED
  BY <1>6, <1>7 DEF Places

LEMMA RotationTailInv ==
  ASSUME IInv, NEW c \in Consumers, RotationTail(c)
  PROVE  IInv'
<1>1. TypeOK /\ ConsumerOK(c) /\ FullOK(c) /\ Places
  BY PlacesHold DEF IInv, ConsumersOK
<1>2. /\ pc[c] = "rotation"
      /\ UNCHANGED <<prod, listVars, hashVars, globalOffset, ctoken, token, my, calls, full>>
  BY DEF RotationTail
<1>3. CASE ListTail = NoOne
  <2>1. full[c] = {}
    BY <1>1, <1>3, ListTailFacts DEF FullOK
  <2>2. QED
    BY <1>2, <1>3, <2>1, ShortInv DEF RotationTail
<1>4. CASE ListTail # NoOne
  <2>1. PICK t \in Nat : t = ListTail /\ Listed(list, t)
    BY <1>1, <1>4, ListTailFacts DEF Places
  <2>2. PICK x : x = [call[c] EXCEPT !.tail = t]
    OBVIOUS
  <2>3. x \in CallState /\ x.tail = t /\ x.best = call[c].best
    BY <1>1, <2>2 DEF CallState, TypeOK
  <2>4. CallLocals(c, x) /\ Goto(c, "rotationCount")
    BY <1>4, <2>1, <2>2 DEF RotationTail
  <2>5. /\ TypeOK' /\ ConsumerOnly(c) /\ pc'[c] = "rotationCount" /\ call'[c] = x
        /\ full'[c] = full[c] /\ list' = list /\ prod' = prod /\ ctoken' = ctoken
        /\ Contended(c)' <=> Contended(c)
    BY <1>1, <1>2, <2>3, <2>4, LooksOnly DEF Labels, TypeOK
  <2>6. ConsumerOK(c)'
    BY <1>1, <2>1, <2>3, <2>5 DEF ConsumerOK
  <2>7. FullOK(c)'
    BY <1>1, <1>2, <2>5 DEF FullOK
  <2>8. QED
    BY <2>5, <2>6, <2>7, ConsumerInv
<1>5. QED
  BY <1>3, <1>4

\* The count is read after the tail, and covers what the list has been since.
LEMMA RotationCountInv ==
  ASSUME IInv, NEW c \in Consumers, RotationCount(c)
  PROVE  IInv'
<1>1. TypeOK /\ ListOK /\ ConsumerOK(c) /\ FullOK(c) /\ Places
  BY PlacesHold DEF IInv, ConsumersOK
<1>2. /\ pc[c] = "rotationCount"
      /\ UNCHANGED <<prod, listVars, hashVars, globalOffset, ctoken, token, my, calls, full>>
      /\ CallLocals(c, [call[c] EXCEPT !.prodCount = producerCount]) /\ Goto(c, "rotate")
  BY DEF RotationCount
<1>3. PICK n \in Nat : n = producerCount /\ n = Len(prod)
  BY <1>1 DEF TypeOK, ListOK
<1>4. PICK x : x = [call[c] EXCEPT !.prodCount = n]
  OBVIOUS
<1>5. x \in CallState /\ x.prodCount = n /\ x.best = call[c].best /\ x.tail = call[c].tail
  BY <1>1, <1>4 DEF CallState, TypeOK
<1>6. CallLocals(c, x)
  BY <1>2, <1>3, <1>4
<1>7. /\ TypeOK' /\ ConsumerOnly(c) /\ pc'[c] = "rotate" /\ call'[c] = x
      /\ full'[c] = full[c] /\ list' = list /\ prod' = prod /\ ctoken' = ctoken
      /\ Contended(c)' <=> Contended(c)
  BY <1>1, <1>2, <1>5, <1>6, LooksOnly, SMTT(60) DEF Labels, TypeOK
<1>8. Listed(list, call[c].tail)
  BY <1>1, <1>2 DEF ConsumerOK
<1>9. n > Depth(list, call[c].tail)
  <2>1. Depth(list, call[c].tail) \in 0 .. Len(list) - 1 /\ Len(list) \in Nat
    BY <1>1, <1>8 DEF Places
  <2>2. QED
    BY <1>1, <1>3, <2>1, ListShort
<1>10. ConsumerOK(c)'
  BY <1>1, <1>5, <1>7, <1>8, <1>9 DEF ConsumerOK
<1>11. FullOK(c)'
  BY <1>1, <1>2, <1>7 DEF FullOK
<1>12. QED
  BY <1>7, <1>10, <1>11, ConsumerInv

LEMMA RotateInv ==
  ASSUME IInv, NEW c \in Consumers, Rotate(c)
  PROVE  IInv'
<1>1. TypeOK /\ ConsumerOK(c) /\ FullOK(c) /\ Places
  BY PlacesHold DEF IInv, ConsumersOK
<1>2. /\ pc[c] = "rotate"
      /\ UNCHANGED <<prod, listVars, hashVars, globalOffset, token, my, calls, full>>
      /\ CallLocals(c, [call[c] EXCEPT !.tail = NoOne, !.prodCount = 0]) /\ Goto(c, "current")
  BY DEF Rotate
<1>3. /\ ctoken[c] \in TokenState /\ call[c] \in CallState /\ globalOffset \in Nat
      /\ ctoken \in [Consumers -> TokenState]
  BY <1>1 DEF TypeOK
<1>4. PICK t \in TokenState : t = ctoken[c]
  BY <1>3
<1>5. PICK tail \in Nat : tail = call[c].tail /\ Listed(list, tail)
  BY <1>1, <1>2 DEF ConsumerOK, Places
<1>6. PICK count \in Nat \ {0} : count = call[c].prodCount
  <2>1. Depth(list, tail) \in Nat /\ call[c].prodCount \in Nat /\ call[c].prodCount > Depth(list, tail)
    BY <1>1, <1>2, <1>3, <1>5 DEF ConsumerOK, Places, CallState
  <2>2. QED
    BY <2>1
<1>7. PICK k \in Int : k = count - 1 - (t.initialOffset % count)
  BY DEF TokenState
<1>8. PICK place : place = IF t.desired # NoOne THEN t.desired ELSE Around(tail, tail, k)
  OBVIOUS
<1>9. Listed(list, place)
  <2>1. t.desired # NoOne => Listed(list, t.desired)
    BY <1>1, <1>4 DEF ConsumerOK, ListedOrNone
  <2>2. Listed(list, Around(tail, tail, k))
    BY <1>1, <1>5, AroundFacts
  <2>3. QED
    BY <1>8, <2>1, <2>2
<1>10. PICK j \in Int : j = (globalOffset - t.lastKnown) % count
  BY <1>3 DEF TokenState
<1>11. PICK desired : desired = Around(tail, place, j)
  OBVIOUS
<1>12. Listed(list, desired) /\ desired \in Nat /\ desired # NoOne
  BY <1>1, <1>5, <1>9, <1>11, AroundFacts DEF Places
<1>13. PICK zero \in Nat : zero = 0
  OBVIOUS
<1>14. PICK g \in Nat : g = globalOffset
  BY <1>3
<1>15. PICK u : u = [t EXCEPT !.desired = desired, !.current = desired, !.lastKnown = g, !.consumed = zero]
  OBVIOUS
<1>16. u \in TokenState /\ u.desired = desired /\ u.current = desired
  <2>1. u = [initialOffset |-> t.initialOffset, lastKnown |-> g, consumed |-> zero,
             current |-> desired, desired |-> desired]
    BY <1>15 DEF TokenState
  <2>2. desired \in Nat /\ t.initialOffset \in Nat
    BY <1>12 DEF TokenState
  <2>3. QED
    BY <2>1, <2>2 DEF TokenState
<1>17. ctoken' = [ctoken EXCEPT ![c] = u]
  <2>1. Around(tail, IF t.desired # NoOne THEN t.desired
                     ELSE Around(tail, tail, count - 1 - (t.initialOffset % count)),
               (globalOffset - t.lastKnown) % count) = desired
    BY <1>7, <1>8, <1>10, <1>11
  <2>2. QED
    BY <1>4, <1>5, <1>6, <1>13, <1>14, <1>15, <2>1 DEF Rotate
<1>18. /\ ctoken' \in [Consumers -> TokenState] /\ ctoken'[c] = u
       /\ \A d \in Consumers \ {c} : ctoken'[d] = ctoken[d]
  BY <1>3, <1>16, <1>17
<1>19. PICK x : x = [call[c] EXCEPT !.tail = NoOne, !.prodCount = zero]
  OBVIOUS
<1>20. x \in CallState /\ x.best = call[c].best
  BY <1>3, <1>19, NoOneFacts DEF CallState
<1>21. CallLocals(c, x)
  BY <1>2, <1>13, <1>19
<1>22. /\ TypeOK' /\ ConsumerOnly(c) /\ pc'[c] = "current" /\ call'[c] = x
       /\ full'[c] = full[c] /\ list' = list /\ prod' = prod
       /\ Contended(c)' <=> Contended(c)
  BY <1>2, <1>18, <1>20, <1>21, LooksOnly DEF Labels
<1>23. ConsumerOK(c)'
  BY <1>1, <1>12, <1>16, <1>18, <1>20, <1>22 DEF ConsumerOK, ListedOrNone
<1>24. FullOK(c)'
  BY <1>1, <1>2, <1>22 DEF FullOK
<1>25. QED
  BY <1>22, <1>23, <1>24, ConsumerInv

LEMMA MakeAllRotateInv ==
  ASSUME IInv, NEW c \in Consumers, MakeAllRotate(c)
  PROVE  IInv'
<1>1. TypeOK /\ ConsumerOK(c) /\ FullOK(c)
  BY DEF IInv, ConsumersOK
<1>2. /\ Goto(c, "idle") /\ globalOffset' = globalOffset + 1 /\ pc[c] = "quota"
      /\ UNCHANGED <<prod, listVars, hashVars, ctoken, token, my, call, calls, full>>
  BY DEF MakeAllRotate
<1>3. /\ pc' \in [Threads -> Labels] /\ pc'[c] = "idle" /\ \A u \in Threads \ {c} : pc'[u] = pc[u]
  BY <1>1, <1>2, ThreadFacts, GotoFacts DEF Labels
<1>4. TypeOK' /\ ConsumerOnly(c) /\ list' = list /\ call' = call /\ ctoken' = ctoken /\ full' = full
  BY <1>1, <1>2, <1>3 DEF TypeOK, ConsumerOnly, listVars, hashVars
<1>5. ConsumerOK(c)'
  BY <1>1, <1>3, <1>4 DEF ConsumerOK
<1>6. full[c] = {}
  BY <1>1, <1>2 DEF FullOK
<1>7. FullOK(c)'
  BY <1>3, <1>4, <1>6 DEF FullOK
<1>8. QED
  BY <1>4, <1>5, <1>7, ConsumerInv

\* Where the round goes on, with the producers F that have yet to be seen.
LEMMA OthersFromFacts ==
  ASSUME Places, NEW c, NEW p, NEW tail, NEW current, NEW left \in Nat, NEW F,
         OthersFrom(c, p, tail, current, left),
         Listed(list, p), Listed(list, tail), Listed(list, current),
         Depth(list, p) <= Depth(list, tail), Depth(list, current) <= Depth(list, tail),
         \A q \in F : /\ Listed(list, q) /\ q # p
                      /\ IF p = current THEN Depth(list, q) <= Depth(list, tail)
                         ELSE OnTheWay(Depth(list, q), Depth(list, p), Depth(list, current),
                                       Depth(list, tail))
  PROVE  \/ Goto(c, "short") /\ CallLocals(c, NoCall) /\ F = {}
         \/ \E x \in CallState :
              /\ Goto(c, "others") /\ CallLocals(c, x) /\ x.best = NoOne /\ x.tail = tail
              /\ Listed(list, x.ptr) /\ Depth(list, x.ptr) <= Depth(list, tail)
              /\ x.ptr # current
              /\ \A q \in F : OnTheWay(Depth(list, q), Depth(list, x.ptr), Depth(list, current),
                                       Depth(list, tail))
<1>1. PICK next : next = IF NextProd(p) = NoOne THEN tail ELSE NextProd(p)
  OBVIOUS
<1>2. PICK dp \in Nat : dp = Depth(list, p)
  BY DEF Places
<1>3. PICK dt \in Nat : dt = Depth(list, tail)
  BY DEF Places
<1>4. PICK dc \in Nat : dc = Depth(list, current)
  BY DEF Places
<1>5. PICK dn \in Nat : dn = IF dp = 0 THEN dt ELSE dp - 1
  OBVIOUS
<1>6. Listed(list, next) /\ Depth(list, next) = dn
  <2>1. IF dp = 0 THEN NextProd(p) = NoOne
        ELSE Listed(list, NextProd(p)) /\ Depth(list, NextProd(p)) = dp - 1
    BY <1>2, NextProdFacts
  <2>2. Listed(list, NextProd(p)) => NextProd(p) # NoOne
    BY DEF Places
  <2>3. QED
    BY <1>1, <1>3, <1>5, <2>1, <2>2
<1>7. next = current <=> dn = dc
  BY <1>4, <1>6 DEF Places
<1>8. p = current <=> dp = dc
  BY <1>2, <1>4 DEF Places
<1>9. dn <= dt
  BY <1>2, <1>3, <1>5
<1>10. ASSUME NEW q \in F PROVE dn # dc /\ OnTheWay(Depth(list, q), dn, dc, dt)
  <2>1. PICK d \in Nat : d = Depth(list, q)
    BY DEF Places
  <2>2. d # dp /\ IF dp = dc THEN d <= dt ELSE OnTheWay(d, dp, dc, dt)
    BY <1>2, <1>3, <1>4, <1>8, <2>1 DEF Places
  <2>3. dp <= dt /\ dc <= dt
    BY <1>2, <1>3, <1>4
  <2>4. QED
    BY <1>5, <2>1, <2>2, <2>3, RoundGoesOn
<1>11. CASE next = current
  <2>1. Goto(c, "short") /\ CallLocals(c, NoCall)
    BY <1>1, <1>11 DEF OthersFrom, Return
  <2>2. F = {}
    BY <1>7, <1>10, <1>11
  <2>3. QED
    BY <2>1, <2>2
<1>12. CASE next # current
  <2>1. PICK x : x = [NoCall EXCEPT !.tail = tail, !.ptr = next, !.left = left]
    OBVIOUS
  <2>2. next \in Nat /\ tail \in Nat
    BY <1>6 DEF Places
  <2>3. x \in CallState /\ x.best = NoOne /\ x.tail = tail /\ x.ptr = next
    BY <2>1, <2>2, NoLocalsFacts DEF CallState, NoCall
  <2>4. Goto(c, "others") /\ CallLocals(c, x)
    BY <1>1, <1>12, <2>1 DEF OthersFrom
  <2>5. \A q \in F : OnTheWay(Depth(list, q), Depth(list, next), Depth(list, current), Depth(list, tail))
    BY <1>3, <1>4, <1>6, <1>10
  <2>6. QED
    BY <1>3, <1>6, <1>9, <1>12, <2>3, <2>4, <2>5
<1>13. QED
  BY <1>11, <1>12

\* The consumer is on its round, or has come to its end.
LEMMA RoundInv ==
  ASSUME IInv, TypeOK', NEW c \in Consumers, ConsumerOnly(c), NEW x, call'[c] = x, list' = list,
         NEW current, ctoken'[c].current = current, pc'[c] = "others",
         Listed(list, current), ListedOrNone(list, ctoken'[c].desired),
         x.best = NoOne, Listed(list, x.tail), Listed(list, x.ptr), x.ptr # current,
         Depth(list, x.ptr) <= Depth(list, x.tail), Depth(list, current) <= Depth(list, x.tail),
         Contended(c)' <=> Contended(c), full'[c] # {} => full[c] # {},
         \A q \in full'[c] : /\ Listed(list, q) /\ prod'[q].size > 0
                             /\ OnTheWay(Depth(list, q), Depth(list, x.ptr), Depth(list, current),
                                         Depth(list, x.tail))
  PROVE  IInv'
<1>1. FullOK(c) /\ Places
  BY PlacesHold DEF IInv, ConsumersOK
<1>2. current # NoOne
  BY <1>1 DEF Places
<1>3. ConsumerOK(c)'
  BY <1>2 DEF ConsumerOK, ListedOrNone
<1>4. FullOK(c)'
  BY <1>1 DEF FullOK
<1>5. QED
  BY <1>3, <1>4, ConsumerInv

LEMMA LoadTailInv ==
  ASSUME IInv, NEW c \in Consumers, LoadTail(c)
  PROVE  IInv'
<1>1. TypeOK /\ ConsumerOK(c) /\ FullOK(c) /\ Places
  BY PlacesHold DEF IInv, ConsumersOK
<1>2. PICK left \in Nat : left = call[c].left
  BY <1>1 DEF TypeOK, CallState
<1>3. PICK current : current = ctoken[c].current /\ Listed(list, current) /\ current \notin full[c]
  BY <1>1 DEF LoadTail, ConsumerOK, ListedOrNone, FullOK
<1>4. PICK tail : tail = ListTail /\ Listed(list, tail) /\ \A q : Listed(list, q) => Depth(list, q) <= Depth(list, tail)
  BY <1>1, <1>3, ListTailFacts
<1>5. /\ pc[c] = "tail" /\ OthersFrom(c, current, tail, current, left)
      /\ UNCHANGED <<prod, listVars, hashVars, globalOffset, ctoken, token, my, calls, full>>
  BY <1>2, <1>3, <1>4 DEF LoadTail
<1>6. \A q \in full[c] : Listed(list, q) /\ prod[q].size > 0
  BY <1>1 DEF FullOK
<1>7. \/ Goto(c, "short") /\ CallLocals(c, NoCall) /\ full[c] = {}
      \/ \E x \in CallState :
           /\ Goto(c, "others") /\ CallLocals(c, x) /\ x.best = NoOne /\ x.tail = tail
           /\ Listed(list, x.ptr) /\ Depth(list, x.ptr) <= Depth(list, tail)
           /\ x.ptr # current
           /\ \A q \in full[c] : OnTheWay(Depth(list, q), Depth(list, x.ptr), Depth(list, current),
                                          Depth(list, tail))
  <2>1. \A q \in full[c] : /\ Listed(list, q) /\ q # current
                           /\ Depth(list, q) <= Depth(list, tail)
    BY <1>3, <1>4, <1>6
  <2>2. Depth(list, current) <= Depth(list, tail)
    BY <1>3, <1>4
  <2>3. QED
    BY <1>1, <1>3, <1>4, <1>5, <2>1, <2>2, OthersFromFacts
<1>8. CASE Goto(c, "short") /\ CallLocals(c, NoCall) /\ full[c] = {}
  BY <1>5, <1>8, ShortInv DEF Return
<1>9. ASSUME NEW x \in CallState,
             Goto(c, "others"), CallLocals(c, x), x.best = NoOne, x.tail = tail,
             Listed(list, x.ptr), Depth(list, x.ptr) <= Depth(list, tail), x.ptr # current,
             \A q \in full[c] : OnTheWay(Depth(list, q), Depth(list, x.ptr), Depth(list, current),
                                         Depth(list, tail))
      PROVE  IInv'
  <2>1. /\ TypeOK' /\ ConsumerOnly(c) /\ pc'[c] = "others" /\ call'[c] = x
        /\ full'[c] = full[c] /\ list' = list /\ prod' = prod /\ ctoken' = ctoken
        /\ Contended(c)' <=> Contended(c)
    BY <1>1, <1>5, <1>9, LooksOnly DEF Labels, TypeOK
  <2>2. ctoken'[c].current = current /\ ListedOrNone(list, ctoken'[c].desired)
    BY <1>1, <1>3, <2>1 DEF ConsumerOK
  <2>3. Depth(list, current) <= Depth(list, x.tail)
    BY <1>3, <1>4, <1>9
  <2>4. QED
    BY <1>3, <1>4, <1>6, <1>9, <2>1, <2>2, <2>3, RoundInv
<1>10. QED
  BY <1>7, <1>8, <1>9

LEMMA TakeOtherInv ==
  ASSUME IInv, NEW c \in Consumers, TakeOther(c)
  PROVE  IInv'
<1>1. TypeOK /\ ConsumerOK(c) /\ FullOK(c) /\ Places
  BY PlacesHold DEF IInv, ConsumersOK
<1>2. /\ pc[c] = "others" /\ UNCHANGED <<listVars, hashVars, globalOffset, token, my, calls>>
      /\ ctoken \in [Consumers -> TokenState] /\ ctoken[c] \in TokenState /\ call[c] \in CallState
  BY <1>1 DEF TakeOther, TypeOK
<1>3. PICK p \in 1 .. Len(prod) : p = call[c].ptr /\ p \in Nat /\ Listed(list, p) /\ p # NoOne
  BY <1>1, <1>2 DEF ConsumerOK, Places
<1>4. PICK tail : /\ tail = call[c].tail /\ Listed(list, tail) /\ tail \in Nat
                  /\ Depth(list, p) <= Depth(list, tail)
  BY <1>1, <1>2, <1>3 DEF ConsumerOK, Places
<1>5. PICK was : /\ was = ctoken[c].current /\ Listed(list, was) /\ was \in Nat /\ was # p
                 /\ Depth(list, was) <= Depth(list, tail)
  BY <1>1, <1>2, <1>3, <1>4 DEF ConsumerOK, ListedOrNone, Places
<1>6. \A q \in full[c] : /\ Listed(list, q)
                         /\ OnTheWay(Depth(list, q), Depth(list, p), Depth(list, was), Depth(list, tail))
  BY <1>1, <1>2, <1>3, <1>4, <1>5 DEF FullOK
<1>7. PICK given \in Given(c, p) :
        LET done == given = call[c].left
            current == IF given = 0 THEN ctoken[c].current ELSE p
        IN /\ TakeFrom(c, p, given, done)
           /\ ctoken' = IF given = 0 THEN ctoken
                        ELSE [ctoken EXCEPT ![c].current = p, ![c].consumed = given]
           /\ IF done THEN Return(c, "idle")
              ELSE OthersFrom(c, p, call[c].tail, current, call[c].left - given)
  BY <1>3 DEF TakeOther
<1>8. PICK done \in BOOLEAN : (done <=> given = call[c].left) /\ TakeFrom(c, p, given, done)
  BY <1>7
<1>9. /\ full'[c] \subseteq full[c] /\ given \in Nat /\ given <= call[c].left
      /\ done => full'[c] = {}
      /\ ~done => p \notin full'[c] /\ \A q \in full'[c] : prod'[q].size > 0
  BY <1>8, TakeFacts
<1>10. PICK current : current = IF given = 0 THEN was ELSE p
  OBVIOUS
<1>11. /\ ctoken' \in [Consumers -> TokenState] /\ ctoken'[c].current = current
       /\ ctoken'[c].desired = ctoken[c].desired
       /\ \A d \in Consumers \ {c} : ctoken'[d] = ctoken[d]
  <2>1. CASE given = 0
    BY <1>2, <1>5, <1>7, <1>10, <2>1
  <2>2. CASE given # 0
    <3>1. PICK u : u = [ctoken[c] EXCEPT !.current = p, !.consumed = given]
      OBVIOUS
    <3>2. u \in TokenState /\ u.current = p /\ u.desired = ctoken[c].desired
      BY <1>2, <1>3, <1>9, <3>1 DEF TokenState
    <3>3. ctoken' = [ctoken EXCEPT ![c] = u]
      BY <1>2, <1>7, <2>2, <3>1
    <3>4. QED
      BY <1>2, <1>10, <2>2, <3>2, <3>3
  <2>3. QED
    BY <2>1, <2>2
<1>12. /\ Listed(list, current) /\ Depth(list, current) <= Depth(list, tail) /\ current # NoOne
       /\ ListedOrNone(list, ctoken[c].desired) /\ ListedOrNone(list, current)
  BY <1>1, <1>3, <1>4, <1>5, <1>10 DEF ConsumerOK, ListedOrNone, Places
<1>13. CASE done
  <2>1. Goto(c, "idle") /\ CallLocals(c, NoCall)
    BY <1>7, <1>8, <1>13 DEF Return
  <2>2. TypeOK' /\ ConsumerOnly(c) /\ pc'[c] = "idle" /\ call'[c] = NoCall
    BY <1>2, <1>8, <1>11, <2>1, NoLocalsFacts, Takes DEF Labels
  <2>3. QED
    BY <1>9, <1>11, <1>12, <1>13, <2>2, Returned
<1>14. CASE ~done
  <2>1. PICK left \in Nat : left = call[c].left - given
    BY <1>2, <1>9 DEF CallState
  <2>2. OthersFrom(c, p, tail, current, left)
    BY <1>4, <1>5, <1>7, <1>8, <1>10, <1>14, <2>1
  <2>3. PICK F : F = full'[c]
    OBVIOUS
  <2>4. \A q \in F : /\ Listed(list, q) /\ q # p
                     /\ IF p = current THEN Depth(list, q) <= Depth(list, tail)
                        ELSE OnTheWay(Depth(list, q), Depth(list, p), Depth(list, current),
                                      Depth(list, tail))
    <3>1. ASSUME NEW q \in F
          PROVE  /\ Listed(list, q) /\ q # p /\ Depth(list, q) <= Depth(list, tail)
                 /\ OnTheWay(Depth(list, q), Depth(list, p), Depth(list, was), Depth(list, tail))
      <4>1. q \in full[c] /\ q # p
        BY <1>9, <1>14, <2>3
      <4>2. Listed(list, q) /\ OnTheWay(Depth(list, q), Depth(list, p), Depth(list, was), Depth(list, tail))
        BY <1>6, <4>1
      <4>3. QED
        BY <4>1, <4>2 DEF OnTheWay
    <3>2. p # current => current = was
      BY <1>10
    <3>3. QED
      BY <3>1, <3>2
  <2>5. \/ Goto(c, "short") /\ CallLocals(c, NoCall) /\ F = {}
        \/ \E x \in CallState :
             /\ Goto(c, "others") /\ CallLocals(c, x) /\ x.best = NoOne /\ x.tail = tail
             /\ Listed(list, x.ptr) /\ Depth(list, x.ptr) <= Depth(list, tail)
             /\ x.ptr # current
             /\ \A q \in F : OnTheWay(Depth(list, q), Depth(list, x.ptr), Depth(list, current),
                                      Depth(list, tail))
    BY <1>1, <1>3, <1>4, <1>12, <2>2, <2>4, OthersFromFacts
  <2>6. CASE Goto(c, "short") /\ CallLocals(c, NoCall) /\ F = {}
    <3>1. TypeOK' /\ ConsumerOnly(c) /\ pc'[c] = "short" /\ call'[c] = NoCall
      BY <1>2, <1>8, <1>11, <2>6, NoLocalsFacts, Takes DEF Labels
    <3>2. QED
      BY <1>11, <1>12, <2>3, <2>6, <3>1, Returned
  <2>7. ASSUME NEW x \in CallState,
               Goto(c, "others"), CallLocals(c, x), x.best = NoOne, x.tail = tail,
               Listed(list, x.ptr), Depth(list, x.ptr) <= Depth(list, tail), x.ptr # current,
               \A q \in F : OnTheWay(Depth(list, q), Depth(list, x.ptr), Depth(list, current),
                                     Depth(list, tail))
        PROVE  IInv'
    <3>1. /\ TypeOK' /\ ConsumerOnly(c) /\ pc'[c] = "others" /\ call'[c] = x /\ list' = list
          /\ Contended(c)' <=> Contended(c)
      BY <1>2, <1>8, <1>11, <2>7, Takes DEF Labels
    <3>2. \A q \in full'[c] : /\ Listed(list, q) /\ prod'[q].size > 0
                              /\ OnTheWay(Depth(list, q), Depth(list, x.ptr), Depth(list, current),
                                          Depth(list, x.tail))
      BY <1>9, <1>14, <2>3, <2>4, <2>7
    <3>3. full'[c] # {} => full[c] # {}
      BY <1>9
    <3>4. QED
      BY <1>4, <1>11, <1>12, <2>7, <3>1, <3>2, <3>3, RoundInv
  <2>8. QED
    BY <2>5, <2>6, <2>7
<1>15. QED
  BY <1>13, <1>14

LEMMA TakeCurrentInv ==
  ASSUME IInv, NEW c \in Consumers, TakeCurrent(c)
  PROVE  IInv'
<1>1. TypeOK /\ ConsumerOK(c) /\ FullOK(c) /\ Places
  BY PlacesHold DEF IInv, ConsumersOK
<1>2. /\ pc[c] = "current" /\ UNCHANGED <<listVars, hashVars, globalOffset, token, my, calls>>
      /\ ctoken \in [Consumers -> TokenState] /\ ctoken[c] \in TokenState /\ call[c] \in CallState
  BY <1>1 DEF TakeCurrent, TypeOK
<1>3. PICK p \in 1 .. Len(prod) : p = ctoken[c].current /\ Listed(list, p) /\ p # NoOne
  BY <1>1, <1>2 DEF ConsumerOK, ListedOrNone, Places
<1>4. PICK given \in Given(c, p) :
        LET done == given = call[c].left
            consumed == ctoken[c].consumed + given
            rotates == IF call[c].bulk THEN consumed >= Quota ELSE consumed = Quota
        IN /\ TakeFrom(c, p, given, done)
           /\ ctoken' = [ctoken EXCEPT ![c].consumed = consumed]
           /\ IF done THEN Return(c, IF rotates THEN "quota" ELSE "idle")
              ELSE Goto(c, "tail") /\ CallLocals(c, [call[c] EXCEPT !.left = @ - given])
  BY <1>3 DEF TakeCurrent
<1>5. PICK done \in BOOLEAN : (done <=> given = call[c].left) /\ TakeFrom(c, p, given, done)
  BY <1>4
<1>6. /\ full'[c] \subseteq full[c] /\ given \in Nat /\ given <= call[c].left
      /\ done => full'[c] = {}
      /\ ~done => p \notin full'[c] /\ \A q \in full'[c] : prod'[q].size > 0
      /\ \A q \in full'[c] : Listed(list, q)
  BY <1>5, TakeFacts
<1>7. PICK consumed \in Nat : consumed = ctoken[c].consumed + given
  BY <1>2, <1>6 DEF TokenState
<1>8. /\ ctoken' \in [Consumers -> TokenState] /\ ctoken'[c].current = ctoken[c].current
      /\ ctoken'[c].desired = ctoken[c].desired
      /\ \A d \in Consumers \ {c} : ctoken'[d] = ctoken[d]
  <2>1. PICK u : u = [ctoken[c] EXCEPT !.consumed = consumed]
    OBVIOUS
  <2>2. u \in TokenState /\ u.current = ctoken[c].current /\ u.desired = ctoken[c].desired
    BY <1>2, <2>1 DEF TokenState
  <2>3. ctoken' = [ctoken EXCEPT ![c] = u]
    BY <1>4, <1>7, <2>1
  <2>4. QED
    BY <1>2, <2>2, <2>3
<1>9. /\ ListedOrNone(list, ctoken'[c].current) /\ ListedOrNone(list, ctoken'[c].desired)
      /\ ctoken'[c].current # NoOne
  BY <1>1, <1>3, <1>8 DEF ConsumerOK
<1>10. CASE done
  <2>1. PICK l \in {"quota", "idle"} : Goto(c, l) /\ CallLocals(c, NoCall)
    BY <1>4, <1>5, <1>10 DEF Return
  <2>2. TypeOK' /\ ConsumerOnly(c) /\ pc'[c] = l /\ call'[c] = NoCall
    BY <1>2, <1>5, <1>8, <2>1, NoLocalsFacts, Takes DEF Labels
  <2>3. QED
    BY <1>6, <1>9, <1>10, <2>2, Returned
<1>11. CASE ~done
  <2>1. PICK left \in Nat : left = call[c].left - given
    BY <1>2, <1>6 DEF CallState
  <2>2. PICK x : x = [call[c] EXCEPT !.left = left]
    OBVIOUS
  <2>3. x \in CallState /\ x.best = call[c].best
    BY <1>2, <2>2 DEF CallState
  <2>4. Goto(c, "tail") /\ CallLocals(c, x)
    BY <1>4, <1>5, <1>11, <2>1, <2>2
  <2>5. /\ TypeOK' /\ ConsumerOnly(c) /\ pc'[c] = "tail" /\ call'[c] = x /\ list' = list
        /\ Contended(c)' <=> Contended(c)
    BY <1>2, <1>5, <1>8, <2>3, <2>4, Takes DEF Labels
  <2>6. ConsumerOK(c)'
    BY <1>1, <1>9, <2>3, <2>5 DEF ConsumerOK
  <2>7. FullOK(c)'
    BY <1>1, <1>2, <1>3, <1>6, <1>8, <1>11, <2>5 DEF FullOK
  <2>8. QED
    BY <2>5, <2>6, <2>7, ConsumerInv
<1>12. QED
  BY <1>10, <1>11

LEMMA ConsumerStepInv ==
  ASSUME IInv, NEW c \in Consumers, ConsumerStep(c)
  PROVE  IInv'
BY AnswerShortInv, ScoreInv, ScoreNoneInv, TakeBestInv, WalkInv, TakeFromOneInv, RotationTailInv,
   RotationCountInv, RotateInv, TakeCurrentInv, MakeAllRotateInv, LoadTailInv, TakeOtherInv
   DEF ConsumerStep

-----------------------------------------------------------------------------
(* The steps of a token.                                                   *)

LEMMA LocalsSame ==
  ASSUME TypeOK, NEW t \in Users
  PROVE  /\ [my EXCEPT ![t] = my[t]] = my /\ my[t] \in UserLocals
         /\ [pc EXCEPT ![t] = pc[t]] = pc /\ pc[t] \in Labels /\ my[t].made \in Nat
         /\ t \in Threads
BY ThreadFacts DEF TypeOK, UserLocals

\* A step of a token that leaves the list, and the elements of the producers, alone.
LEMMA TokenTurn ==
  ASSUME IInv, NEW k \in Tokens, NEW l \in Labels \ {"push"}, Goto(k, l),
         NEW x \in UserLocals, Locals(k, x),
         UNCHANGED <<listVars, hashVars, consumerVars, full>>, calls' \in Nat,
         prod' \in Seq(Producer), Len(prod') = Len(prod),
         \A p \in 1 .. Len(prod) : prod'[p].size = prod[p].size,
         token' \in [Tokens -> Nat], TokensOK'
  PROVE  IInv'
<1>1. TypeOK /\ ListOK /\ HashOK /\ ConsumersOK /\ Places
  BY PlacesHold DEF IInv
<1>2. k \in Users /\ k \in Threads /\ k \notin Enqueuers /\ k \notin Consumers
  BY ThreadFacts
<1>3. /\ pc' \in [Threads -> Labels] /\ pc'[k] = l /\ \A u \in Threads \ {k} : pc'[u] = pc[u]
  BY <1>1, <1>2, GotoFacts
<1>4. /\ my' \in [Users -> UserLocals] /\ my'[k] = x /\ \A u \in Users \ {k} : my'[u] = my[u]
  BY <1>1, <1>2, LocalsFacts
<1>5. /\ list' = list /\ producerCount' = producerCount /\ tables' = tables
      /\ hashCount' = hashCount /\ resizing' = resizing /\ Len(prod) \in Nat
      /\ ctoken' = ctoken /\ call' = call /\ full' = full
  BY <1>1 DEF listVars, hashVars, consumerVars, Places
<1>6. TypeOK'
  BY <1>1, <1>3, <1>4 DEF TypeOK, listVars, hashVars, consumerVars
<1>7. ListOK'
  <2>1. \A t \in Users : pc'[t] = "push" => pc[t] = "push" /\ my'[t].made = my[t].made
    BY <1>3, <1>4, ThreadFacts
  <2>2. QED
    BY <1>1, <1>5, <2>1, ListFrame
<1>8. HashOK'
  BY <1>1, <1>2, <1>3, <1>4, <1>5, ThreadFacts, HashFrame
<1>9. ConsumersOK'
  <2>1. \A p \in 1 .. Len(prod) : prod'[p].size >= prod[p].size
    <3>1. ASSUME NEW p \in 1 .. Len(prod) PROVE prod'[p].size >= prod[p].size
      <4>1. prod[p] \in Producer
        BY <1>1, ElementOfSeq DEF TypeOK
      <4>2. PICK s \in Nat : s = prod[p].size
        BY <4>1 DEF Producer
      <4>3. QED
        BY <4>2
    <3>2. QED
      BY <3>1
  <2>2. ListGrows
    BY <1>5, <2>1 DEF ListGrows
  <2>3. QED
    BY <1>1, <1>2, <1>3, <1>5, <1>6, <2>2, ThreadFacts, ConsumersFrame
<1>10. QED
  BY <1>6, <1>7, <1>8, <1>9 DEF IInv

LEMMA RecycleInv ==
  ASSUME IInv, NEW k \in Tokens, Recycle(k)
  PROVE  IInv'
<1>1. TypeOK /\ ListOK /\ TokensOK /\ Places
  BY PlacesHold DEF IInv
<1>2. k \in Users /\ pc[k] = "recycle" /\ my[k] \in UserLocals
  BY <1>1, ThreadFacts, LocalsSame DEF Recycle
<1>3. PICK p \in Nat : p = my[k].made
  BY <1>2 DEF UserLocals
<1>4. /\ UNCHANGED <<listVars, hashVars, consumerVars, token, calls, full>>
      /\ prod \in Seq(Producer) /\ token \in [Tokens -> Nat] /\ calls \in Nat
      /\ list' = list
  BY <1>1 DEF Recycle, TypeOK, listVars
<1>5. /\ token' = token /\ token[k] = NoOne /\ calls' \in Nat
      /\ UNCHANGED <<listVars, hashVars, consumerVars, full>>
  BY <1>1, <1>2, <1>4 DEF TokensOK
<1>6. CASE p = NoOne /\ Goto(k, "create") /\ UNCHANGED <<prod, my>>
  <2>1. Locals(k, my[k])
    BY <1>1, <1>2, <1>6, LocalsSame DEF Locals
  <2>2. /\ pc'[k] = "create" /\ \A u \in Threads \ {k} : pc'[u] = pc[u]
    BY <1>1, <1>2, <1>6, ThreadFacts, GotoFacts DEF Labels
  <2>3. TokensOK'
    BY <1>1, <1>4, <1>5, <1>6, <2>2, ThreadFacts DEF TokensOK, Holds
  <2>4. QED
    BY <1>2, <1>4, <1>5, <1>6, <2>1, <2>3, TokenTurn DEF Labels
<1>7. CASE /\ p # NoOne /\ ~(prod[p].explicit /\ prod[p].inactive)
           /\ Locals(k, [my[k] EXCEPT !.made = NextProd(p)]) /\ UNCHANGED <<prod, pc>>
  <2>1. Goto(k, pc[k]) /\ pc[k] \in Labels \ {"push"}
    BY <1>1, <1>2, <1>7, LocalsSame DEF Goto
  <2>2. Listed(list, p)
    BY <1>1, <1>2, <1>3, <1>7 DEF TokensOK
  <2>3. PICK q \in Nat : q = NextProd(p) /\ (q = NoOne \/ Listed(list, q))
    BY <1>1, <2>2, NextProdFacts, NoOneFacts DEF Places
  <2>4. PICK x : x = [my[k] EXCEPT !.made = q]
    OBVIOUS
  <2>5. x \in UserLocals /\ x.made = q /\ Locals(k, x)
    BY <1>2, <1>7, <2>3, <2>4 DEF UserLocals
  <2>6. my'[k] = x /\ \A u \in Users \ {k} : my'[u] = my[u]
    BY <1>1, <1>2, <2>5, LocalsFacts
  <2>7. TokensOK'
    BY <1>1, <1>2, <1>4, <1>5, <1>7, <2>3, <2>5, <2>6, ThreadFacts, SMTT(60) DEF TokensOK, Holds
  <2>8. QED
    BY <1>2, <1>4, <1>5, <1>7, <2>1, <2>5, <2>7, TokenTurn
<1>8. CASE /\ p # NoOne /\ prod[p].explicit /\ prod[p].inactive
           /\ prod' = [prod EXCEPT ![p].inactive = FALSE]
           /\ Goto(k, "link") /\ UNCHANGED my
  <2>1. Locals(k, my[k])
    BY <1>1, <1>2, <1>8, LocalsSame DEF Locals
  <2>2. /\ pc'[k] = "link" /\ \A u \in Threads \ {k} : pc'[u] = pc[u]
    BY <1>1, <1>2, <1>8, ThreadFacts, GotoFacts DEF Labels
  <2>3. p \in 1 .. Len(prod)
    BY <1>1, <1>2, <1>3, <1>8 DEF TokensOK, Places
  <2>4. /\ prod' \in Seq(Producer) /\ Len(prod') = Len(prod) /\ ~prod'[p].inactive
        /\ \A q \in 1 .. Len(prod) : /\ prod'[q].size = prod[q].size
                                     /\ (prod'[q].explicit <=> prod[q].explicit)
                                     /\ prod'[q].token = prod[q].token
                                     /\ q # p => (prod'[q].inactive <=> prod[q].inactive)
    <3>1. PICK b \in BOOLEAN : b <=> FALSE
      BY Zenon
    <3>2. prod' = [prod EXCEPT ![p].inactive = b]
      BY <1>8, <3>1, Zenon
    <3>3. /\ prod' \in Seq(Producer) /\ Len(prod') = Len(prod) /\ (prod'[p].inactive <=> b)
          /\ \A q \in 1 .. Len(prod) : /\ prod'[q].size = prod[q].size
                                       /\ (prod'[q].explicit <=> prod[q].explicit)
                                       /\ prod'[q].token = prod[q].token
                                       /\ q # p => (prod'[q].inactive <=> prod[q].inactive)
      BY <1>4, <2>3, <3>2, SetInactive, SMTT(60)
    <3>4. QED
      BY <3>1, <3>3, Zenon
  <2>5. prod[p].token = NoOne
    BY <1>1, <1>8, <2>3 DEF TokensOK
  <2>6. /\ \A j \in Tokens : token[j] # NoOne => token[j] # p
        /\ \A j \in Tokens : Holds(j) => my[j].made # p
    BY <1>1, <1>8 DEF TokensOK
  <2>7. \A j \in Tokens : Holds(j)' <=> Holds(j) \/ j = k
    BY <2>2, ThreadFacts DEF Holds
  <2>8. my'[k].made = p /\ my' = my
    BY <1>3, <1>8
  <2>9. \A j \in Tokens : token[j] # NoOne =>
          /\ token[j] \in 1 .. Len(prod') /\ prod'[token[j]].token = j
          /\ prod'[token[j]].explicit /\ ~prod'[token[j]].inactive
    BY <1>1, <2>4, <2>6 DEF TokensOK
  <2>10. \A j \in Tokens : Holds(j)' =>
          /\ my[j].made \in 1 .. Len(prod') /\ prod'[my[j].made].token = NoOne
          /\ prod'[my[j].made].explicit /\ ~prod'[my[j].made].inactive
    BY <1>1, <1>3, <1>8, <2>3, <2>4, <2>5, <2>6, <2>7 DEF TokensOK
  <2>11. \A i, j \in Tokens : Holds(i)' /\ Holds(j)' /\ my[i].made = my[j].made => i = j
    BY <1>1, <1>3, <2>6, <2>7 DEF TokensOK
  <2>12. /\ \A j \in Tokens : pc'[j] # "idle" => token[j] = NoOne
         /\ \A j \in Tokens : pc'[j] = "recycle" => my[j].made = NoOne \/ Listed(list', my[j].made)
    BY <1>1, <1>2, <1>4, <2>2, ThreadFacts DEF TokensOK
  <2>13. \A q \in 1 .. Len(prod') : prod'[q].inactive => prod'[q].token = NoOne
    BY <1>1, <2>4 DEF TokensOK
  <2>14. TokensOK'
    BY <1>5, <2>8, <2>9, <2>10, <2>11, <2>12, <2>13 DEF TokensOK
  <2>15. QED
    BY <1>2, <1>4, <1>5, <2>1, <2>4, <2>14, <1>8, TokenTurn DEF Labels
<1>9. QED
  BY <1>3, <1>6, <1>7, <1>8 DEF Recycle

LEMMA ConstructInv ==
  ASSUME IInv, NEW k \in Tokens, Construct(k)
  PROVE  IInv'
<1>1. TypeOK /\ ListOK /\ TokensOK /\ Places
  BY PlacesHold DEF IInv
<1>2. /\ k \in Users /\ pc[k] = "idle" /\ token[k] = NoOne
      /\ UNCHANGED <<prod, listVars, hashVars, consumerVars, token, full>>
      /\ Goto(k, "recycle") /\ Locals(k, [NoLocals EXCEPT !.made = ListTail])
      /\ prod \in Seq(Producer) /\ token \in [Tokens -> Nat]
  BY <1>1, ThreadFacts DEF Construct, Begin, TypeOK
<1>3. calls' \in Nat /\ list' = list /\ token' = token /\ prod' = prod
  BY <1>1, <1>2 DEF Construct, Begin, TypeOK, listVars
<1>4. PICK q \in Nat : q = ListTail /\ (q = NoOne \/ Listed(list, q))
  BY <1>1, ListTailFacts, NoOneFacts DEF Places
<1>5. PICK x : x = [NoLocals EXCEPT !.made = q]
  OBVIOUS
<1>6. x \in UserLocals /\ x.made = q
  BY <1>5, NoLocalsFacts DEF UserLocals
<1>7. Locals(k, x)
  BY <1>2, <1>4, <1>5
<1>8. my'[k] = x /\ \A u \in Users \ {k} : my'[u] = my[u]
  BY <1>1, <1>2, <1>6, <1>7, LocalsFacts
<1>9. /\ pc'[k] = "recycle" /\ \A u \in Threads \ {k} : pc'[u] = pc[u]
  BY <1>1, <1>2, ThreadFacts, GotoFacts DEF Labels
<1>10. TokensOK'
  BY <1>1, <1>2, <1>3, <1>4, <1>6, <1>8, <1>9, ThreadFacts DEF TokensOK, Holds
<1>11. QED
  BY <1>2, <1>3, <1>6, <1>7, <1>10, TokenTurn DEF Labels

LEMMA LinkInv ==
  ASSUME IInv, NEW k \in Tokens, Link(k)
  PROVE  IInv'
<1>1. TypeOK /\ ListOK /\ TokensOK /\ Places
  BY PlacesHold DEF IInv
<1>2. /\ k \in Users /\ pc[k] = "link" /\ Holds(k) /\ token[k] = NoOne
      /\ UNCHANGED <<listVars, hashVars, consumerVars, calls, full>>
      /\ Goto(k, "idle") /\ Locals(k, NoLocals)
      /\ prod \in Seq(Producer) /\ token \in [Tokens -> Nat]
  BY <1>1, ThreadFacts DEF Link, TypeOK, Holds, TokensOK
<1>3. calls' \in Nat /\ list' = list
  BY <1>1, <1>2 DEF TypeOK, listVars
<1>4. PICK p \in 1 .. Len(prod) : p = my[k].made /\ p \in Nat /\ p # NoOne
  BY <1>1, <1>2, NoOneFacts DEF TokensOK, Places
<1>5. /\ prod[p].token = NoOne /\ prod[p].explicit /\ ~prod[p].inactive
      /\ \A j \in Tokens \ {k} : Holds(j) => my[j].made # p
      /\ \A j \in Tokens : token[j] # p
  BY <1>1, <1>2, <1>4, NoOneFacts DEF TokensOK
<1>6. /\ prod' \in Seq(Producer) /\ Len(prod') = Len(prod) /\ prod'[p].token = k
      /\ \A q \in 1 .. Len(prod) : /\ prod'[q].size = prod[q].size
                                   /\ (prod'[q].explicit <=> prod[q].explicit)
                                   /\ (prod'[q].inactive <=> prod[q].inactive)
                                   /\ q # p => prod'[q].token = prod[q].token
  <2>1. k \in Tokens \cup {NoOne} /\ prod' = [prod EXCEPT ![p].token = k]
    BY <1>4 DEF Link
  <2>2. QED
    BY <1>2, <2>1, SetToken
<1>7. /\ token' \in [Tokens -> Nat] /\ token'[k] = p
      /\ \A j \in Tokens \ {k} : token'[j] = token[j]
  BY <1>2, <1>4 DEF Link
<1>8. my'[k] = NoLocals /\ \A u \in Users \ {k} : my'[u] = my[u]
  BY <1>1, <1>2, NoLocalsFacts, LocalsFacts
<1>9. /\ pc'[k] = "idle" /\ \A u \in Threads \ {k} : pc'[u] = pc[u]
  BY <1>1, <1>2, ThreadFacts, GotoFacts DEF Labels
<1>10. \A j \in Tokens : Holds(j)' <=> Holds(j) /\ j # k
  BY <1>9, ThreadFacts DEF Holds
<1>11. \A j \in Tokens : token'[j] # NoOne =>
         /\ token'[j] \in 1 .. Len(prod') /\ prod'[token'[j]].token = j
         /\ prod'[token'[j]].explicit /\ ~prod'[token'[j]].inactive
  BY <1>1, <1>5, <1>6, <1>7 DEF TokensOK
<1>12. \A j \in Tokens : Holds(j)' =>
         /\ my'[j].made \in 1 .. Len(prod') /\ prod'[my'[j].made].token = NoOne
         /\ prod'[my'[j].made].explicit /\ ~prod'[my'[j].made].inactive
  BY <1>1, <1>5, <1>6, <1>8, <1>10, ThreadFacts DEF TokensOK
<1>13. \A i, j \in Tokens : Holds(i)' /\ Holds(j)' /\ my'[i].made = my'[j].made => i = j
  BY <1>1, <1>8, <1>10, ThreadFacts DEF TokensOK
<1>14. /\ \A j \in Tokens : pc'[j] # "idle" => token'[j] = NoOne
       /\ \A j \in Tokens : pc'[j] = "recycle" => my'[j].made = NoOne \/ Listed(list', my'[j].made)
  BY <1>1, <1>3, <1>7, <1>8, <1>9, ThreadFacts DEF TokensOK
<1>15. \A q \in 1 .. Len(prod') : prod'[q].inactive => prod'[q].token = NoOne
  BY <1>1, <1>5, <1>6 DEF TokensOK
<1>16. TokensOK'
  BY <1>11, <1>12, <1>13, <1>14, <1>15 DEF TokensOK
<1>17. QED
  BY <1>2, <1>3, <1>6, <1>7, <1>16, NoLocalsFacts, TokenTurn DEF Labels

LEMMA BeginDestroyInv ==
  ASSUME IInv, NEW k \in Tokens, BeginDestroy(k)
  PROVE  IInv'
<1>1. TypeOK /\ ListOK /\ TokensOK /\ Places
  BY PlacesHold DEF IInv
<1>2. /\ k \in Users /\ pc[k] = "idle" /\ token[k] # NoOne
      /\ UNCHANGED <<listVars, hashVars, consumerVars, full>>
      /\ Goto(k, "deactivate") /\ Locals(k, [NoLocals EXCEPT !.made = token[k]])
      /\ prod \in Seq(Producer) /\ token \in [Tokens -> Nat]
  BY <1>1, ThreadFacts DEF BeginDestroy, Begin, TypeOK
<1>3. calls' \in Nat /\ list' = list
  BY <1>1, <1>2 DEF BeginDestroy, Begin, TypeOK, listVars
<1>4. PICK p \in 1 .. Len(prod) : p = token[k] /\ p \in Nat /\ p # NoOne
  BY <1>1, <1>2, NoOneFacts DEF TokensOK, Places
<1>5. /\ prod[p].token = k /\ prod[p].explicit /\ ~prod[p].inactive
      /\ \A j \in Tokens : Holds(j) => my[j].made # p
      /\ \A j \in Tokens \ {k} : token[j] # p
  BY <1>1, <1>2, <1>4, NoOneFacts DEF TokensOK
<1>6. /\ prod' \in Seq(Producer) /\ Len(prod') = Len(prod) /\ prod'[p].token = NoOne
      /\ \A q \in 1 .. Len(prod) : /\ prod'[q].size = prod[q].size
                                   /\ (prod'[q].explicit <=> prod[q].explicit)
                                   /\ (prod'[q].inactive <=> prod[q].inactive)
                                   /\ q # p => prod'[q].token = prod[q].token
  <2>1. NoOne \in Tokens \cup {NoOne} /\ prod' = [prod EXCEPT ![p].token = NoOne]
    BY <1>4 DEF BeginDestroy
  <2>2. prod \in Seq(Producer)
    BY <1>2
  <2>3. QED
    BY <2>1, <2>2, SetToken, SMTT(60)
<1>7. /\ token' \in [Tokens -> Nat] /\ token'[k] = NoOne
      /\ \A j \in Tokens \ {k} : token'[j] = token[j]
  BY <1>2, NoOneFacts DEF BeginDestroy
<1>8. PICK x : x = [NoLocals EXCEPT !.made = p]
  OBVIOUS
<1>9. x \in UserLocals /\ x.made = p
  BY <1>4, <1>8, NoLocalsFacts DEF UserLocals
<1>10. Locals(k, x)
  BY <1>2, <1>4, <1>8
<1>11. my'[k] = x /\ \A u \in Users \ {k} : my'[u] = my[u]
  BY <1>1, <1>2, <1>9, <1>10, LocalsFacts
<1>12. /\ pc'[k] = "deactivate" /\ \A u \in Threads \ {k} : pc'[u] = pc[u]
  BY <1>1, <1>2, ThreadFacts, GotoFacts DEF Labels
<1>13. \A j \in Tokens : Holds(j)' <=> Holds(j) \/ j = k
  BY <1>12, ThreadFacts DEF Holds
<1>14. \A j \in Tokens : token'[j] # NoOne =>
         /\ token'[j] \in 1 .. Len(prod') /\ prod'[token'[j]].token = j
         /\ prod'[token'[j]].explicit /\ ~prod'[token'[j]].inactive
  BY <1>1, <1>5, <1>6, <1>7 DEF TokensOK
<1>15. \A j \in Tokens : Holds(j)' =>
         /\ my'[j].made \in 1 .. Len(prod') /\ prod'[my'[j].made].token = NoOne
         /\ prod'[my'[j].made].explicit /\ ~prod'[my'[j].made].inactive
  BY <1>1, <1>5, <1>6, <1>9, <1>11, <1>13, ThreadFacts DEF TokensOK
<1>16. \A i, j \in Tokens : Holds(i)' /\ Holds(j)' /\ my'[i].made = my'[j].made => i = j
  BY <1>1, <1>5, <1>9, <1>11, <1>13, ThreadFacts DEF TokensOK
<1>17. /\ \A j \in Tokens : pc'[j] # "idle" => token'[j] = NoOne
       /\ \A j \in Tokens : pc'[j] = "recycle" => my'[j].made = NoOne \/ Listed(list', my'[j].made)
  BY <1>1, <1>3, <1>7, <1>11, <1>12, ThreadFacts DEF TokensOK
<1>18. \A q \in 1 .. Len(prod') : prod'[q].inactive => prod'[q].token = NoOne
  BY <1>1, <1>5, <1>6 DEF TokensOK
<1>19. TokensOK'
  BY <1>14, <1>15, <1>16, <1>17, <1>18 DEF TokensOK
<1>20. QED
  BY <1>2, <1>3, <1>6, <1>7, <1>9, <1>10, <1>19, TokenTurn DEF Labels

LEMMA DeactivateInv ==
  ASSUME IInv, NEW k \in Tokens, Deactivate(k)
  PROVE  IInv'
<1>1. TypeOK /\ ListOK /\ TokensOK /\ Places
  BY PlacesHold DEF IInv
<1>2. /\ k \in Users /\ pc[k] = "deactivate" /\ Holds(k) /\ token[k] = NoOne
      /\ UNCHANGED <<listVars, hashVars, consumerVars, token, calls, full>>
      /\ Goto(k, "idle") /\ Locals(k, NoLocals)
      /\ prod \in Seq(Producer) /\ token \in [Tokens -> Nat]
  BY <1>1, ThreadFacts DEF Deactivate, TypeOK, Holds, TokensOK
<1>3. calls' \in Nat /\ list' = list /\ token' = token
  BY <1>1, <1>2 DEF TypeOK, listVars
<1>4. PICK p \in 1 .. Len(prod) : p = my[k].made /\ p \in Nat /\ p # NoOne
  BY <1>1, <1>2, NoOneFacts DEF TokensOK, Places
<1>5. /\ prod[p].token = NoOne
      /\ \A j \in Tokens \ {k} : Holds(j) => my[j].made # p
      /\ \A j \in Tokens : token[j] # p
  BY <1>1, <1>2, <1>4, NoOneFacts DEF TokensOK
<1>6. /\ prod' \in Seq(Producer) /\ Len(prod') = Len(prod)
      /\ \A q \in 1 .. Len(prod) : /\ prod'[q].size = prod[q].size
                                   /\ (prod'[q].explicit <=> prod[q].explicit)
                                   /\ prod'[q].token = prod[q].token
                                   /\ q # p => (prod'[q].inactive <=> prod[q].inactive)
  <2>1. PICK b \in BOOLEAN : b <=> TRUE
    BY Zenon
  <2>2. prod' = [prod EXCEPT ![p].inactive = b]
    BY <1>4, <2>1, Zenon DEF Deactivate
  <2>3. QED
    BY <1>2, <2>2, SetInactive, SMTT(60)
<1>8. my'[k] = NoLocals /\ \A u \in Users \ {k} : my'[u] = my[u]
  BY <1>1, <1>2, NoLocalsFacts, LocalsFacts
<1>9. /\ pc'[k] = "idle" /\ \A u \in Threads \ {k} : pc'[u] = pc[u]
  BY <1>1, <1>2, ThreadFacts, GotoFacts DEF Labels
<1>10. \A j \in Tokens : Holds(j)' <=> Holds(j) /\ j # k
  BY <1>9, ThreadFacts DEF Holds
<1>11. \A j \in Tokens : token[j] # NoOne =>
         /\ token[j] \in 1 .. Len(prod') /\ prod'[token[j]].token = j
         /\ prod'[token[j]].explicit /\ ~prod'[token[j]].inactive
  BY <1>1, <1>5, <1>6 DEF TokensOK
<1>12. \A j \in Tokens : Holds(j)' =>
         /\ my'[j].made \in 1 .. Len(prod') /\ prod'[my'[j].made].token = NoOne
         /\ prod'[my'[j].made].explicit /\ ~prod'[my'[j].made].inactive
  BY <1>1, <1>5, <1>6, <1>8, <1>10, ThreadFacts DEF TokensOK
<1>13. \A i, j \in Tokens : Holds(i)' /\ Holds(j)' /\ my'[i].made = my'[j].made => i = j
  BY <1>1, <1>8, <1>10, ThreadFacts DEF TokensOK
<1>14. /\ \A j \in Tokens : pc'[j] # "idle" => token[j] = NoOne
       /\ \A j \in Tokens : pc'[j] = "recycle" => my'[j].made = NoOne \/ Listed(list', my'[j].made)
  BY <1>1, <1>2, <1>3, <1>8, <1>9, ThreadFacts DEF TokensOK
<1>15. \A q \in 1 .. Len(prod') : prod'[q].inactive => prod'[q].token = NoOne
  BY <1>1, <1>5, <1>6 DEF TokensOK
<1>16. TokensOK'
  BY <1>3, <1>11, <1>12, <1>13, <1>14, <1>15 DEF TokensOK
<1>17. QED
  BY <1>2, <1>3, <1>6, <1>16, NoLocalsFacts, TokenTurn DEF Labels

LEMMA SwapInv ==
  ASSUME IInv, NEW k \in Tokens, NEW j \in Tokens, Swap(k, j)
  PROVE  IInv'
<1>1. TypeOK /\ ListOK /\ TokensOK /\ Places
  BY PlacesHold DEF IInv
<1>2. /\ k \in Users /\ pc[k] = "idle" /\ pc[j] = "idle" /\ k # j /\ token[k] # NoOne
      /\ UNCHANGED <<listVars, hashVars, consumerVars, pc, my, full>>
      /\ prod \in Seq(Producer) /\ token \in [Tokens -> Nat] /\ pc[k] # "push"
  BY <1>1, ThreadFacts DEF Swap, Begin, TypeOK
<1>3. calls' \in Nat /\ list' = list /\ my' = my /\ pc' = pc
  BY <1>1, <1>2 DEF Swap, Begin, TypeOK, listVars
<1>4. Goto(k, pc[k]) /\ Locals(k, my[k]) /\ pc[k] \in Labels /\ my[k] \in UserLocals
  BY <1>1, <1>2, LocalsSame DEF Goto, Locals
<1>5. PICK p \in 1 .. Len(prod) : p = token[k] /\ p \in Nat /\ p # NoOne
  BY <1>1, <1>2, NoOneFacts DEF TokensOK, Places
<1>6. PICK q \in Nat : q = token[j]
  BY <1>2
<1>7. /\ q # NoOne => q \in 1 .. Len(prod) /\ prod[q].token = j /\ prod[q].explicit /\ ~prod[q].inactive
      /\ prod[p].token = k /\ prod[p].explicit /\ ~prod[p].inactive /\ p # q
      /\ \A i \in Tokens \ {k, j} : token[i] # NoOne => token[i] # p /\ token[i] # q
      /\ \A i \in Tokens : Holds(i) => my[i].made # p /\ (q # NoOne => my[i].made # q)
  BY <1>1, <1>2, <1>5, <1>6, NoOneFacts DEF TokensOK
<1>8. /\ token' \in [Tokens -> Nat] /\ token'[k] = q /\ token'[j] = p
      /\ \A i \in Tokens \ {k, j} : token'[i] = token[i]
  BY <1>2, <1>5, <1>6 DEF Swap
<1>9. ASSUME NEW i \in 1 .. Len(prod), NEW t \in Tokens
      PROVE  [prod[i] EXCEPT !.token = t] \in Producer
  <2>1. prod \in Seq(Producer)
    BY <1>2
  <2>2. prod[i] \in Producer
    BY <2>1, ElementOfSeq
  <2>3. QED
    BY <2>2 DEF Producer
<1>10. prod' = [i \in 1 .. Len(prod) |->
                 IF i = p THEN [prod[i] EXCEPT !.token = j]
                 ELSE IF i = q THEN [prod[i] EXCEPT !.token = k] ELSE prod[i]]
  <2>1. DOMAIN prod = 1 .. Len(prod)
    BY <1>2
  <2>2. QED
    BY <1>5, <1>6, <2>1 DEF Swap
<1>11. Len(prod) \in Nat /\ \A i \in 1 .. Len(prod) : prod[i] \in Producer
  BY <1>2, ElementOfSeq, LenProperties
<1>12. prod' \in Seq(Producer) /\ Len(prod') = Len(prod)
  <2>1. prod' \in [1 .. Len(prod) -> Producer]
    BY <1>9, <1>10, <1>11, Zenon
  <2>2. QED
    BY <1>11, <2>1, LenProperties, IsASeq
<1>13. \A i \in 1 .. Len(prod) :
         /\ prod'[i].size = prod[i].size
         /\ (prod'[i].explicit <=> prod[i].explicit)
         /\ (prod'[i].inactive <=> prod[i].inactive)
         /\ prod'[i].token = IF i = p THEN j ELSE IF i = q THEN k ELSE prod[i].token
  <2>1. ASSUME NEW i \in 1 .. Len(prod), NEW t \in Tokens, NEW r, r = [prod[i] EXCEPT !.token = t]
        PROVE  /\ r.size = prod[i].size /\ (r.explicit <=> prod[i].explicit)
               /\ (r.inactive <=> prod[i].inactive) /\ r.token = t
    <3>1. prod[i] \in Producer
      BY <1>11
    <3>2. QED
      BY <2>1, <3>1 DEF Producer
  <2>2. ASSUME NEW i \in 1 .. Len(prod)
        PROVE  /\ prod'[i].size = prod[i].size
               /\ (prod'[i].explicit <=> prod[i].explicit)
               /\ (prod'[i].inactive <=> prod[i].inactive)
               /\ prod'[i].token = IF i = p THEN j ELSE IF i = q THEN k ELSE prod[i].token
    <3>1. CASE i = p
      <4>1. prod'[i] = [prod[i] EXCEPT !.token = j]
        BY <1>10, <3>1
      <4>2. QED
        BY <2>1, <3>1, <4>1
    <3>2. CASE i # p /\ i = q
      <4>1. prod'[i] = [prod[i] EXCEPT !.token = k]
        BY <1>10, <3>2
      <4>2. QED
        BY <2>1, <3>2, <4>1
    <3>3. CASE i # p /\ i # q
      BY <1>10, <3>3
    <3>4. QED
      BY <3>1, <3>2, <3>3
  <2>3. QED
    BY <2>2
<1>14. \A i \in Tokens : token'[i] # NoOne =>
         /\ token'[i] \in 1 .. Len(prod') /\ prod'[token'[i]].token = i
         /\ prod'[token'[i]].explicit /\ ~prod'[token'[i]].inactive
  <2>1. SUFFICES ASSUME NEW i \in Tokens, token'[i] # NoOne
                 PROVE  /\ token'[i] \in 1 .. Len(prod') /\ prod'[token'[i]].token = i
                        /\ prod'[token'[i]].explicit /\ ~prod'[token'[i]].inactive
    OBVIOUS
  <2>2. CASE i = k
    BY <1>7, <1>8, <1>12, <1>13, <2>1, <2>2
  <2>3. CASE i = j
    BY <1>7, <1>8, <1>12, <1>13, <2>1, <2>3
  <2>4. CASE i # k /\ i # j
    <3>1. /\ token'[i] = token[i] /\ token[i] \in 1 .. Len(prod) /\ prod[token[i]].token = i
          /\ prod[token[i]].explicit /\ ~prod[token[i]].inactive
      BY <1>1, <1>8, <2>1, <2>4 DEF TokensOK
    <3>2. QED
      BY <1>7, <1>12, <1>13, <2>1, <2>4, <3>1
  <2>5. QED
    BY <2>2, <2>3, <2>4
<1>15. \A i \in Tokens : Holds(i)' <=> Holds(i)
  BY <1>3 DEF Holds
<1>16. \A i \in Tokens : Holds(i)' =>
         /\ my'[i].made \in 1 .. Len(prod') /\ prod'[my'[i].made].token = NoOne
         /\ prod'[my'[i].made].explicit /\ ~prod'[my'[i].made].inactive
  <2>1. SUFFICES ASSUME NEW i \in Tokens, Holds(i)
                 PROVE  /\ my[i].made \in 1 .. Len(prod') /\ prod'[my[i].made].token = NoOne
                        /\ prod'[my[i].made].explicit /\ ~prod'[my[i].made].inactive
    BY <1>3, <1>15
  <2>2. /\ my[i].made \in 1 .. Len(prod) /\ prod[my[i].made].token = NoOne
        /\ prod[my[i].made].explicit /\ ~prod[my[i].made].inactive
    BY <1>1, <2>1 DEF TokensOK
  <2>3. my[i].made # p /\ my[i].made # q
    BY <1>7, <2>1, <2>2, NoOneFacts
  <2>4. QED
    BY <1>12, <1>13, <2>2, <2>3
<1>17. /\ \A i \in Tokens : pc'[i] # "idle" => token'[i] = NoOne
       /\ \A i \in Tokens : pc'[i] = "recycle" => my'[i].made = NoOne \/ Listed(list', my'[i].made)
       /\ \A h, i \in Tokens : Holds(h)' /\ Holds(i)' /\ my'[h].made = my'[i].made => h = i
  BY <1>1, <1>2, <1>3, <1>8, <1>15 DEF TokensOK
<1>18. \A i \in 1 .. Len(prod') : prod'[i].inactive => prod'[i].token = NoOne
  BY <1>1, <1>7, <1>12, <1>13, NoOneFacts DEF TokensOK
<1>19. TokensOK'
  BY <1>14, <1>16, <1>17, <1>18 DEF TokensOK
<1>20. \A i \in 1 .. Len(prod) : prod'[i].size = prod[i].size
  BY <1>13
<1>21. QED
  BY <1>2, <1>3, <1>4, <1>8, <1>12, <1>19, <1>20, TokenTurn

\* The elements of a producer are those of the enqueuer; that is no concern of the others.
LEMMA EnqueueWithInv ==
  ASSUME IInv, NEW k \in Tokens, NEW n \in Batches, EnqueueWith(k, n)
  PROVE  IInv'
<1>1. TypeOK /\ ListOK /\ HashOK /\ TokensOK /\ ConsumersOK /\ Places
  BY PlacesHold DEF IInv
<1>2. /\ token[k] # NoOne /\ n \in Nat
      /\ UNCHANGED <<listVars, hashVars, consumerVars, token, pc, my, full>>
      /\ calls' \in Nat
  BY <1>1, ConcurrentQueueAssumption DEF EnqueueWith, Begin, TypeOK, ConcurrentQueueAssumption
<1>3. PICK p \in 1 .. Len(prod) : p = token[k]
  BY <1>1, <1>2 DEF TokensOK
<1>4. prod \in Seq(Producer) /\ prod[p] \in Producer /\ Len(prod) \in Nat
  BY <1>1, ElementOfSeq DEF TypeOK, Places
<1>5. PICK s \in Nat : s = prod[p].size
  BY <1>4 DEF Producer
<1>6. PICK m \in Nat : m = s + n /\ m >= s
  BY <1>2
<1>7. prod' = [prod EXCEPT ![p].size = m]
  BY <1>3, <1>5, <1>6 DEF EnqueueWith
<1>8. /\ prod' \in Seq(Producer) /\ Len(prod') = Len(prod) /\ prod'[p].size = m
      /\ \A q \in 1 .. Len(prod) : /\ prod'[q].token = prod[q].token
                                   /\ prod'[q].explicit = prod[q].explicit
                                   /\ prod'[q].inactive = prod[q].inactive
                                   /\ q # p => prod'[q].size = prod[q].size
  <2>1. prod \in Seq(Producer)
    BY <1>4
  <2>2. QED
    BY <1>7, <2>1, SetSize, SMTT(60)
<1>9. \A q \in 1 .. Len(prod) : prod'[q].size >= prod[q].size
  <2>1. ASSUME NEW q \in 1 .. Len(prod) PROVE prod'[q].size >= prod[q].size
    <3>1. prod[q] \in Producer
      BY <1>4, ElementOfSeq
    <3>2. PICK z \in Nat : z = prod[q].size
      BY <3>1 DEF Producer
    <3>3. QED
      BY <1>5, <1>6, <1>8, <3>2
  <2>2. QED
    BY <2>1
<1>10. TypeOK'
  BY <1>1, <1>2, <1>8 DEF TypeOK, listVars, hashVars, consumerVars
<1>11. /\ list' = list /\ producerCount' = producerCount /\ tables' = tables
       /\ hashCount' = hashCount /\ resizing' = resizing /\ token' = token
       /\ ctoken' = ctoken /\ call' = call /\ full' = full /\ pc' = pc /\ my' = my
  BY <1>2 DEF listVars, hashVars, consumerVars
<1>12. ListOK' /\ HashOK'
  BY <1>1, <1>4, <1>8, <1>11, ListFrame, HashFrame
<1>13. TokensOK'
  <2>1. /\ \A q \in 1 .. Len(prod') : q > Len(prod) => ~prod'[q].inactive
        /\ \A q : Listed(list, q) => Listed(list', q)
    BY <1>4, <1>8, <1>11
  <2>2. QED
    BY <1>1, <1>4, <1>8, <1>11, <2>1, TokensFrame
<1>14. ConsumersOK'
  <2>1. ListGrows
    BY <1>4, <1>8, <1>9, <1>11 DEF ListGrows
  <2>2. QED
    BY <1>1, <1>10, <1>11, <2>1, ConsumersFrame
<1>15. QED
  BY <1>10, <1>12, <1>13, <1>14 DEF IInv

-----------------------------------------------------------------------------
(* A new producer, and its way into the list.                              *)

LEMMA NewProducerFacts ==
  ASSUME NEW b \in BOOLEAN, NEW x, x = NewProducer(b)
  PROVE  x \in Producer /\ (x.explicit <=> b) /\ ~x.inactive /\ x.token = NoOne /\ x.size = 0
BY DEF NewProducer, Producer

LEMMA CreateFacts ==
  ASSUME IInv, NEW t \in Users, NEW b \in BOOLEAN, b <=> t \in Tokens,
         prod' = Append(prod, NewProducer(b)), producerCount' = producerCount + 1,
         list' = list, pc'[t] = "push", my'[t].made = Len(prod) + 1,
         \A u \in Users \ {t} : pc'[u] = pc[u] /\ my'[u] = my[u]
  PROVE  /\ ListOK' /\ ListGrows /\ prod' \in Seq(Producer) /\ producerCount' \in Nat
         /\ Len(prod) \in Nat /\ Len(prod') = Len(prod) + 1
         /\ \A q \in 1 .. Len(prod) : prod'[q] = prod[q]
         /\ ~prod'[Len(prod) + 1].inactive /\ prod'[Len(prod) + 1].token = NoOne
         /\ prod'[Len(prod) + 1].explicit <=> t \in Tokens
<1>1. TypeOK /\ ListOK /\ Places
  BY PlacesHold DEF IInv
<1>2. prod \in Seq(Producer) /\ Len(prod) \in Nat /\ producerCount \in Nat
  BY <1>1 DEF TypeOK, Places
<1>3. PICK x : x = NewProducer(b)
  OBVIOUS
<1>4. x \in Producer /\ (x.explicit <=> b) /\ ~x.inactive /\ x.token = NoOne
  BY <1>3, NewProducerFacts
<1>5. prod' = Append(prod, x)
  BY <1>3
<1>6. /\ prod' \in Seq(Producer) /\ Len(prod') = Len(prod) + 1 /\ prod'[Len(prod) + 1] = x
      /\ \A i \in 1 .. Len(prod) : prod'[i] = prod[i]
  BY <1>2, <1>4, <1>5, AddLast
<1>7. PICK n \in Nat : n = Len(prod)
  BY <1>2
<1>8. ListOK'
  <2>1. producerCount' = Len(prod')
    BY <1>1, <1>6 DEF ListOK
  <2>2. \A i \in 1 .. Len(list) : list[i] \in 1 .. Len(prod') /\ list[i] # n + 1
    BY <1>1, <1>6, <1>7 DEF ListOK
  <2>3. \A u \in Users \ {t} : pc'[u] = "push" =>
          /\ my'[u].made \in 1 .. Len(prod') /\ ~Listed(list, my'[u].made)
          /\ my'[u].made # n + 1
    BY <1>1, <1>6, <1>7 DEF ListOK
  <2>4. my'[t].made = n + 1 /\ n + 1 \in 1 .. Len(prod') /\ ~Listed(list, n + 1)
    BY <1>6, <1>7, <2>2 DEF Listed
  <2>5. \A u \in Users : pc'[u] = "push" =>
          my'[u].made \in 1 .. Len(prod') /\ ~Listed(list', my'[u].made)
    BY <2>3, <2>4
  <2>6. \A u, v \in Users : pc'[u] = "push" /\ pc'[v] = "push" /\ my'[u].made = my'[v].made => u = v
    BY <1>1, <2>3, <2>4 DEF ListOK
  <2>7. \A i, j \in 1 .. Len(list) : list[i] = list[j] => i = j
    BY <1>1 DEF ListOK
  <2>8. QED
    BY <2>1, <2>2, <2>5, <2>6, <2>7 DEF ListOK
<1>9. ListGrows
  <2>1. \A q \in 1 .. Len(prod) : prod'[q].size >= prod[q].size
    <3>1. ASSUME NEW q \in 1 .. Len(prod) PROVE prod'[q].size >= prod[q].size
      <4>1. prod[q] \in Producer
        BY <1>2, ElementOfSeq
      <4>2. PICK s \in Nat : s = prod[q].size
        BY <4>1 DEF Producer
      <4>3. QED
        BY <1>6, <4>2
    <3>2. QED
      BY <3>1
  <2>2. QED
    BY <1>2, <1>6, <2>1 DEF ListGrows
<1>10. QED
  BY <1>2, <1>4, <1>6, <1>8, <1>9

LEMMA PushFacts ==
  ASSUME IInv, NEW t \in Users, pc[t] = "push", list' = <<my[t].made>> \o list,
         prod' = prod, producerCount' = producerCount, pc'[t] # "push",
         \A u \in Users \ {t} : pc'[u] = pc[u] /\ my'[u] = my[u]
  PROVE  /\ ListOK' /\ list' \in Seq(Nat) /\ Listed(list', my[t].made)
         /\ \A q : Listed(list, q) => Listed(list', q)
         /\ TypeOK' => ListGrows
<1>1. TypeOK /\ ListOK /\ Places
  BY PlacesHold DEF IInv
<1>2. /\ list \in Seq(Nat) /\ Len(prod) \in Nat /\ prod \in Seq(Producer)
      /\ \A q \in 1 .. Len(prod) : q \in Nat
  BY <1>1 DEF TypeOK, Places
<1>3. PICK p \in 1 .. Len(prod) : p = my[t].made /\ p \in Nat
  BY <1>1, <1>2 DEF ListOK
<1>4. list' = <<p>> \o list
  BY <1>3
<1>5. /\ list' \in Seq(Nat) /\ Len(list) \in Nat /\ Len(list') = Len(list) + 1 /\ list'[1] = p
      /\ \A i \in 1 .. Len(list) : list'[i + 1] = list[i]
  BY <1>2, <1>3, <1>4, AddFirst
<1>6. PICK n \in Nat : n = Len(list)
  BY <1>5
<1>7. /\ \A i \in 1 .. n : list[i] \in 1 .. Len(prod) /\ list[i] # p
      /\ \A i, j \in 1 .. n : list[i] = list[j] => i = j
  BY <1>1, <1>3, <1>6 DEF ListOK, Listed
<1>8. ASSUME NEW i \in 1 .. n + 1
      PROVE  \/ i = 1 /\ list'[i] = p
             \/ \E j \in 1 .. n : i = j + 1 /\ list'[i] = list[j]
  <2>1. CASE i = 1
    BY <1>5, <2>1
  <2>2. CASE i # 1
    <3>1. i - 1 \in 1 .. n /\ (i - 1) + 1 = i
      BY <2>2
    <3>2. list'[i] = list[i - 1]
      BY <1>5, <1>6, <3>1
    <3>3. QED
      BY <3>1, <3>2
  <2>3. QED
    BY <2>1, <2>2
<1>9. Len(list') = n + 1
  BY <1>5, <1>6
<1>10. \A q : Listed(list', q) <=> q = p \/ Listed(list, q)
  <2>1. ASSUME NEW q, Listed(list', q) PROVE q = p \/ Listed(list, q)
    BY <1>6, <1>8, <1>9, <2>1 DEF Listed
  <2>2. ASSUME NEW q, Listed(list, q) PROVE Listed(list', q)
    <3>1. PICK i \in 1 .. n : list[i] = q
      BY <1>6, <2>2 DEF Listed
    <3>2. i + 1 \in 1 .. n + 1 /\ list'[i + 1] = q
      BY <1>5, <1>6, <3>1
    <3>3. QED
      BY <1>9, <3>2 DEF Listed
  <2>3. Listed(list', p)
    <3>1. 1 \in 1 .. n + 1
      OBVIOUS
    <3>2. QED
      BY <1>5, <1>9, <3>1 DEF Listed
  <2>4. QED
    BY <2>1, <2>2, <2>3
<1>11. ListOK'
  <2>1. \A i \in 1 .. Len(list') : list'[i] \in 1 .. Len(prod)
    BY <1>7, <1>8, <1>9
  <2>2. \A i, j \in 1 .. Len(list') : list'[i] = list'[j] => i = j
    <3>1. ASSUME NEW i \in 1 .. n + 1, NEW j \in 1 .. n + 1, list'[i] = list'[j] PROVE i = j
      <4>1. CASE i = 1
        <5>1. list'[j] = p
          BY <1>5, <3>1, <4>1
        <5>2. ASSUME NEW b \in 1 .. n, list'[j] = list[b] PROVE FALSE
          BY <1>7, <5>1, <5>2
        <5>3. QED
          BY <1>8, <4>1, <5>2
      <4>2. CASE i # 1 /\ j = 1
        <5>1. list'[i] = p
          BY <1>5, <3>1, <4>2
        <5>2. ASSUME NEW b \in 1 .. n, list'[i] = list[b] PROVE FALSE
          BY <1>7, <5>1, <5>2
        <5>3. QED
          BY <1>8, <4>2, <5>2
      <4>3. CASE i # 1 /\ j # 1
        <5>1. PICK a \in 1 .. n : i = a + 1 /\ list'[i] = list[a]
          BY <1>8, <4>3
        <5>2. PICK b \in 1 .. n : j = b + 1 /\ list'[j] = list[b]
          BY <1>8, <4>3
        <5>3. a = b
          BY <1>7, <3>1, <5>1, <5>2
        <5>4. QED
          BY <5>1, <5>2, <5>3
      <4>4. QED
        BY <4>1, <4>2, <4>3
    <3>2. QED
      BY <1>9, <3>1
  <2>3. \A u \in Users : pc'[u] = "push" =>
          /\ u # t /\ pc[u] = "push" /\ my'[u].made = my[u].made
          /\ my[u].made \in 1 .. Len(prod) /\ ~Listed(list, my[u].made) /\ my[u].made # p
    BY <1>1, <1>3 DEF ListOK
  <2>4. \A u \in Users : pc'[u] = "push" =>
          my'[u].made \in 1 .. Len(prod) /\ ~Listed(list', my'[u].made)
    BY <1>10, <2>3
  <2>5. \A u, v \in Users : pc'[u] = "push" /\ pc'[v] = "push" /\ my'[u].made = my'[v].made => u = v
    BY <1>1, <2>3 DEF ListOK
  <2>6. producerCount = Len(prod)
    BY <1>1 DEF ListOK
  <2>7. QED
    BY <2>1, <2>2, <2>4, <2>5, <2>6 DEF ListOK
<1>12. ASSUME TypeOK' PROVE ListGrows
  <2>1. Places'
    BY <1>11, <1>12, PlacesNext
  <2>2. ASSUME NEW q, Listed(list, q) PROVE Depth(list', q) = Depth(list, q)
    <3>1. PICK i \in 1 .. n : list[i] = q
      BY <1>6, <2>2 DEF Listed
    <3>2. Depth(list, q) = n - i
      BY <1>1, <1>6, <3>1 DEF Places
    <3>3. i + 1 \in 1 .. n + 1 /\ list'[i + 1] = q
      BY <1>5, <1>6, <3>1
    <3>4. Depth(list', q) = (n + 1) - (i + 1)
      BY <1>9, <2>1, <3>3 DEF Places
    <3>5. QED
      BY <3>2, <3>4
  <2>3. \A q \in 1 .. Len(prod) : prod[q].size >= prod[q].size
    <3>1. ASSUME NEW q \in 1 .. Len(prod) PROVE prod[q].size >= prod[q].size
      <4>1. prod[q] \in Producer
        BY <1>2, ElementOfSeq
      <4>2. PICK s \in Nat : s = prod[q].size
        BY <4>1 DEF Producer
      <4>3. QED
        BY <4>2
    <3>2. QED
      BY <3>1
  <2>4. QED
    BY <1>2, <1>10, <2>2, <2>3 DEF ListGrows
<1>13. QED
  BY <1>3, <1>5, <1>10, <1>11, <1>12

LEMMA CreateForToken ==
  ASSUME IInv, NEW k \in Tokens, Create(k)
  PROVE  IInv'
<1>1. TypeOK /\ ListOK /\ HashOK /\ TokensOK /\ ConsumersOK /\ Places
  BY PlacesHold DEF IInv
<1>2. /\ k \in Users /\ k \in Threads /\ k \notin Enqueuers /\ k \notin Consumers
      /\ pc[k] = "create" /\ token[k] = NoOne /\ my[k] \in UserLocals
      /\ UNCHANGED <<list, tables, resizing, consumerVars, token, calls, full>>
      /\ prod \in Seq(Producer) /\ token \in [Tokens -> Nat] /\ calls \in Nat /\ list' = list
  BY <1>1, ThreadFacts DEF Create, TypeOK, TokensOK
<1>3. /\ list' = list /\ tables' = tables /\ resizing' = resizing /\ token' = token
      /\ ctoken' = ctoken /\ call' = call /\ full' = full
  BY <1>2 DEF consumerVars
<1>4. CASE /\ hashCount' = hashCount /\ Locals(k, NoLocals) /\ Goto(k, "idle")
           /\ UNCHANGED <<prod, producerCount>>
  <2>1. /\ pc'[k] = "idle" /\ \A u \in Threads \ {k} : pc'[u] = pc[u]
    BY <1>1, <1>2, <1>4, GotoFacts DEF Labels
  <2>2. my'[k] = NoLocals /\ \A u \in Users \ {k} : my'[u] = my[u]
    BY <1>1, <1>2, <1>4, NoLocalsFacts, LocalsFacts
  <2>3. TokensOK'
    BY <1>1, <1>2, <1>3, <1>4, <2>1, <2>2, ThreadFacts DEF TokensOK, Holds
  <2>4. UNCHANGED <<listVars, hashVars, consumerVars, full>> /\ calls' \in Nat
    BY <1>2, <1>4 DEF listVars, hashVars
  <2>5. QED
    BY <1>2, <1>3, <1>4, <2>3, <2>4, NoLocalsFacts, TokenTurn DEF Labels
<1>5. CASE /\ prod' = Append(prod, NewProducer(k \in Tokens))
           /\ producerCount' = producerCount + 1
           /\ Locals(k, [my[k] EXCEPT !.made = Len(prod) + 1]) /\ Goto(k, "push")
           /\ UNCHANGED hashCount
  <2>1. /\ pc' \in [Threads -> Labels] /\ pc'[k] = "push" /\ \A u \in Threads \ {k} : pc'[u] = pc[u]
    BY <1>1, <1>2, <1>5, GotoFacts DEF Labels
  <2>2. PICK n \in Nat : n = Len(prod)
    BY <1>1 DEF Places
  <2>3. PICK x : x = [my[k] EXCEPT !.made = n + 1]
    OBVIOUS
  <2>4. x \in UserLocals /\ x.made = n + 1 /\ Locals(k, x)
    <3>1. PICK m \in Nat : m = n + 1
      OBVIOUS
    <3>2. my[k] \in UserLocals /\ x = [my[k] EXCEPT !.made = m]
      BY <1>2, <2>3, <3>1
    <3>3. x \in UserLocals /\ x.made = m
      BY <3>2 DEF UserLocals
    <3>4. Locals(k, x)
      BY <1>5, <2>2, <2>3
    <3>5. QED
      BY <3>1, <3>3, <3>4
  <2>5. /\ my' \in [Users -> UserLocals] /\ my'[k] = x /\ \A u \in Users \ {k} : my'[u] = my[u]
    BY <1>1, <1>2, <2>4, LocalsFacts
  <2>6. PICK b \in BOOLEAN : (b <=> k \in Tokens) /\ prod' = Append(prod, NewProducer(b))
    BY <1>5, Zenon
  <2>7. /\ ListOK' /\ ListGrows /\ prod' \in Seq(Producer) /\ producerCount' \in Nat
        /\ Len(prod') = n + 1 /\ \A q \in 1 .. n : prod'[q] = prod[q]
        /\ ~prod'[n + 1].inactive /\ prod'[n + 1].token = NoOne /\ prod'[n + 1].explicit
    <3>1. my'[k].made = Len(prod) + 1 /\ \A u \in Users \ {k} : pc'[u] = pc[u] /\ my'[u] = my[u]
      BY <2>1, <2>2, <2>4, <2>5, ThreadFacts
    <3>2. QED
      BY <1>2, <1>5, <2>1, <2>2, <2>6, <3>1, CreateFacts
  <2>8. TypeOK'
    BY <1>1, <1>2, <1>5, <2>1, <2>5, <2>7 DEF TypeOK, consumerVars
  <2>9. HashOK'
    BY <1>1, <1>2, <1>3, <1>5, <2>1, <2>2, <2>5, <2>7, ThreadFacts, HashFrame
  <2>10. ConsumersOK'
    BY <1>1, <1>2, <1>3, <2>1, <2>7, <2>8, ThreadFacts, ConsumersFrame
  <2>11. TokensOK'
    <3>1. \A j \in Tokens : Holds(j)' <=> Holds(j) \/ j = k
      BY <2>1, ThreadFacts DEF Holds
    <3>2. \A j \in Tokens : token[j] # NoOne =>
            /\ token[j] \in 1 .. Len(prod') /\ prod'[token[j]].token = j
            /\ prod'[token[j]].explicit /\ ~prod'[token[j]].inactive
      BY <1>1, <2>2, <2>7 DEF TokensOK
    <3>3. \A j \in Tokens \ {k} : Holds(j) =>
            /\ my'[j].made \in 1 .. n /\ prod'[my'[j].made].token = NoOne
            /\ prod'[my'[j].made].explicit /\ ~prod'[my'[j].made].inactive
      BY <1>1, <2>2, <2>5, <2>7, ThreadFacts DEF TokensOK
    <3>4. \A j \in Tokens : Holds(j)' =>
            /\ my'[j].made \in 1 .. Len(prod') /\ prod'[my'[j].made].token = NoOne
            /\ prod'[my'[j].made].explicit /\ ~prod'[my'[j].made].inactive
      BY <2>4, <2>5, <2>7, <3>1, <3>3
    <3>5. \A i, j \in Tokens : Holds(i)' /\ Holds(j)' /\ my'[i].made = my'[j].made => i = j
      <4>1. \A i, j \in Tokens \ {k} : Holds(i) /\ Holds(j) /\ my'[i].made = my'[j].made => i = j
        BY <1>1, <2>5, ThreadFacts DEF TokensOK
      <4>2. \A j \in Tokens \ {k} : Holds(j) => my'[j].made # n + 1
        BY <3>3
      <4>3. QED
        BY <2>4, <2>5, <3>1, <4>1, <4>2
    <3>6. /\ \A j \in Tokens : pc'[j] # "idle" => token[j] = NoOne
          /\ \A j \in Tokens : pc'[j] = "recycle" => my'[j].made = NoOne \/ Listed(list, my'[j].made)
      BY <1>1, <1>2, <2>1, <2>5, ThreadFacts DEF TokensOK
    <3>7. \A q \in 1 .. n + 1 : prod'[q].inactive => prod'[q].token = NoOne
      <4>1. \A q \in 1 .. n : prod'[q].inactive => prod'[q].token = NoOne
        BY <1>1, <2>2, <2>7 DEF TokensOK
      <4>2. \A q \in 1 .. n + 1 : q \in 1 .. n \/ q = n + 1
        OBVIOUS
      <4>3. QED
        BY <2>7, <4>1, <4>2
    <3>8. QED
      BY <1>3, <2>7, <3>2, <3>4, <3>5, <3>6, <3>7 DEF TokensOK
  <2>12. QED
    BY <2>7, <2>8, <2>9, <2>10, <2>11 DEF IInv
<1>6. QED
  BY <1>2, <1>4, <1>5 DEF Create

LEMMA PushForToken ==
  ASSUME IInv, NEW k \in Tokens, Push(k)
  PROVE  IInv'
<1>1. TypeOK /\ ListOK /\ HashOK /\ TokensOK /\ ConsumersOK /\ Places
  BY PlacesHold DEF IInv
<1>2. /\ k \in Users /\ k \in Threads /\ k \notin Enqueuers /\ k \notin Consumers
      /\ pc[k] = "push" /\ Goto(k, "link") /\ my' = my /\ list' = <<my[k].made>> \o list
      /\ UNCHANGED <<prod, producerCount, hashVars, consumerVars, token, calls, full>>
  BY ThreadFacts DEF Push
<1>3. /\ pc' \in [Threads -> Labels] /\ pc'[k] = "link" /\ \A u \in Threads \ {k} : pc'[u] = pc[u]
  BY <1>1, <1>2, GotoFacts DEF Labels
<1>4. /\ prod' = prod /\ producerCount' = producerCount /\ tables' = tables
      /\ hashCount' = hashCount /\ resizing' = resizing /\ token' = token
      /\ ctoken' = ctoken /\ call' = call /\ full' = full
  BY <1>2 DEF hashVars, consumerVars
<1>5. /\ ListOK' /\ list' \in Seq(Nat) /\ \A q : Listed(list, q) => Listed(list', q)
      /\ TypeOK' => ListGrows
  <2>1. \A u \in Users \ {k} : pc'[u] = pc[u] /\ my'[u] = my[u]
    BY <1>2, <1>3, ThreadFacts
  <2>2. pc'[k] # "push"
    BY <1>3
  <2>3. QED
    BY <1>2, <1>4, <2>1, <2>2, PushFacts
<1>6. TypeOK'
  BY <1>1, <1>2, <1>3, <1>5 DEF TypeOK, hashVars, consumerVars
<1>7. HashOK'
  BY <1>1, <1>2, <1>3, <1>4, ThreadFacts, HashFrame DEF Places
<1>8. TokensOK'
  <2>1. \A j \in Tokens : Holds(j)' <=> Holds(j)
    BY <1>2, <1>3, ThreadFacts DEF Holds
  <2>2. /\ \A j \in Tokens : pc'[j] # "idle" => token[j] = NoOne
        /\ \A j \in Tokens : pc'[j] = "recycle" => my[j].made = NoOne \/ Listed(list', my[j].made)
    BY <1>1, <1>2, <1>3, <1>5, ThreadFacts DEF TokensOK
  <2>3. QED
    BY <1>1, <1>2, <1>4, <2>1, <2>2 DEF TokensOK
<1>9. ConsumersOK'
  BY <1>1, <1>2, <1>3, <1>4, <1>5, <1>6, ThreadFacts, ConsumersFrame
<1>10. QED
  BY <1>5, <1>6, <1>7, <1>8, <1>9 DEF IInv

LEMMA TokenInv ==
  ASSUME IInv, NEW k \in Tokens, TokenCall(k) \/ TokenStep(k)
  PROVE  IInv'
BY RecycleInv, ConstructInv, LinkInv, BeginDestroyInv, DeactivateInv, SwapInv, EnqueueWithInv,
   CreateForToken, PushForToken DEF TokenCall, TokenStep

-----------------------------------------------------------------------------
(* The hash tables and their counts.                                       *)

LEMMA RoomOf ==
  ASSUME NEW a \in Nat, NEW b \in Nat, a <= b
  PROVE  /\ (a \div 2) + (a \div 4) \in Nat
         /\ (a \div 2) + (a \div 4) <= (b \div 2) + (b \div 4)
         /\ a > 0 => (a \div 2) + (a \div 4) < a
OBVIOUS

LEMMA CapacityFacts ==
  ASSUME HashOK, NEW h \in 1 .. Len(tables)
  PROVE  /\ Capacity(h) \in Nat \ {0} /\ DOMAIN tables[h] = 0 .. Capacity(h) - 1
         /\ tables[h] \in [0 .. Capacity(h) - 1 -> Slot] /\ Room(h) \in Nat
         /\ Room(h) < Capacity(h)
<1>1. tables[h] \in Table
  BY ElementOfSeq DEF HashOK
<1>2. PICK n \in Nat \ {0} : tables[h] \in [0 .. n - 1 -> Slot]
  BY <1>1 DEF Table
<1>3. Capacity(h) = n
  BY <1>2, UpTo DEF Capacity
<1>4. Room(h) = (n \div 2) + (n \div 4)
  BY <1>3 DEF Room
<1>5. Room(h) \in Nat /\ Room(h) < n
  BY <1>4, RoomOf
<1>6. QED
  BY <1>2, <1>3, <1>5

LEMMA RoomGrows ==
  ASSUME HashOK, NEW g \in 1 .. Len(tables), NEW h \in 1 .. Len(tables), g <= h
  PROVE  Room(g) <= Room(h)
<1>1. Capacity(g) \in Nat /\ Capacity(h) \in Nat
  BY CapacityFacts
<1>2. Capacity(g) <= Capacity(h)
  BY DEF HashOK
<1>3. QED
  BY <1>1, <1>2, RoomOf DEF Room

\* One thread more, or one less.
LEMMA OneThread ==
  ASSUME NEW S \in SUBSET Enqueuers, NEW T \in SUBSET Enqueuers, NEW e \in Enqueuers,
         S \ {e} = T \ {e}
  PROVE  /\ Cardinality(S) \in Nat
         /\ (e \in S <=> e \in T) => Cardinality(T) = Cardinality(S)
         /\ e \notin S /\ e \in T => Cardinality(T) = Cardinality(S) + 1
         /\ e \in S /\ e \notin T => Cardinality(T) = Cardinality(S) - 1
<1>1. IsFiniteSet(S) /\ IsFiniteSet(T)
  BY ConcurrentQueueAssumption, FS_Subset DEF ConcurrentQueueAssumption
<1>2. Cardinality(S) \in Nat /\ Cardinality(T) \in Nat
  BY <1>1, FS_CardinalityType
<1>3. (e \in S <=> e \in T) => S = T
  OBVIOUS
<1>4. ASSUME e \notin S, e \in T PROVE Cardinality(T) = Cardinality(S) + 1
  <2>1. T = S \cup {e}
    BY <1>4
  <2>2. QED
    BY <1>1, <1>4, <2>1, FS_AddElement
<1>5. ASSUME e \in S, e \notin T PROVE Cardinality(T) = Cardinality(S) - 1
  <2>1. S = T \cup {e}
    BY <1>5
  <2>2. Cardinality(S) = Cardinality(T) + 1
    BY <1>1, <1>5, <2>1, FS_AddElement
  <2>3. QED
    BY <1>2, <2>2
<1>6. QED
  BY <1>2, <1>3, <1>4, <1>5

LEMMA FewerThreads ==
  ASSUME NEW T \in SUBSET Enqueuers, NEW S \in SUBSET T
  PROVE  /\ Cardinality(S) \in Nat /\ Cardinality(T) \in Nat /\ Cardinality(S) <= Cardinality(T)
BY ConcurrentQueueAssumption, FS_Subset, FS_CardinalityType DEF ConcurrentQueueAssumption

\* A step of an enqueuer that leaves the tables alone.
LEMMA HashTurn ==
  ASSUME HashOK, NEW e \in Enqueuers, tables' = tables,
         Len(prod) \in Nat, Len(prod') \in Nat, Len(prod') >= Len(prod),
         \A d \in Enqueuers \ {e} : pc'[d] = pc[d] /\ my'[d] = my[d],
         EnqueuerOK(e)',
         \/ \A p \in Nat : Owns(e, p)' => Owns(e, p)
         \/ Len(prod') > Len(prod) /\ \A p \in Nat : Owns(e, p)' => p = Len(prod) + 1,
         \/ (e \in Reserved <=> e \in Reserved') /\ hashCount' = hashCount
         \/ e \notin Reserved /\ e \in Reserved' /\ hashCount' = hashCount + 1
         \/ e \in Reserved /\ e \notin Reserved' /\ hashCount' = hashCount - 1,
         \A h \in 1 .. Len(tables) : \A k \in Nat :
           k + 1 >= Room(h) /\ Entering(e)' /\ my'[e].hash <= h =>
             e \in Admitted(h) \cup WaitingWith(k),
         \A k \in Nat : Waiting(e)' /\ my'[e].newCount <= k => e \in WaitingWith(k) \/ hashCount' <= k,
         HasLock(e)' => HasLock(e) \/ ~resizing,
         resizing' <=> HasLock(e)' \/ (resizing /\ ~HasLock(e))
  PROVE  HashOK'
<1>1. /\ \A h : Capacity(h)' = Capacity(h) /\ Room(h)' = Room(h)
      /\ \A d, h : Has(d, h)' <=> Has(d, h)
  BY DEF Capacity, Room, Has
<1>2. \A d : Known(d)' <=> Known(d)
  BY <1>1 DEF Known
<1>3. \A d \in Enqueuers \ {e} : \A p : Owns(d, p)' <=> Owns(d, p)
  BY DEF Owns
<1>4. \A d \in Enqueuers \ {e} : /\ Waiting(d)' <=> Waiting(d)
                                 /\ Entering(d)' <=> Entering(d)
                                 /\ HasLock(d)' <=> HasLock(d)
  BY DEF Waiting, Entering, HasLock
<1>5. \A d \in Enqueuers : EnqueuerOK(d)'
  <2>1. ASSUME NEW d \in Enqueuers \ {e} PROVE EnqueuerOK(d)'
    <3>1. EnqueuerOK(d) /\ pc'[d] = pc[d] /\ my'[d] = my[d]
      BY DEF HashOK
    <3>2. QED
      BY <1>1, <1>2, <1>4, <3>1 DEF EnqueuerOK
  <2>2. QED
    BY <2>1
<1>6. hashCount' = Cardinality(Reserved')
  <2>1. Reserved \ {e} = Reserved' \ {e}
    BY <1>2, <1>4 DEF Reserved
  <2>2. Reserved \in SUBSET Enqueuers /\ Reserved' \in SUBSET Enqueuers
    BY DEF Reserved
  <2>3. hashCount = Cardinality(Reserved)
    BY DEF HashOK
  <2>4. QED
    BY <2>1, <2>2, <2>3, OneThread
<1>7. ASSUME NEW h \in 1 .. Len(tables), NEW k \in Nat, k + 1 >= Room(h)
      PROVE  Cardinality(Admitted(h)' \cup WaitingWith(k)') <= k
  <2>1. \A d \in Enqueuers \ {e} :
          d \in Admitted(h)' \cup WaitingWith(k)' => d \in Admitted(h) \cup WaitingWith(k)
    BY <1>1, <1>4 DEF Admitted, WaitingWith
  <2>2. e \in Admitted(h)' => e \in Admitted(h) \cup WaitingWith(k)
    BY <1>1, <1>7 DEF Admitted
  <2>3. e \in WaitingWith(k)' => e \in WaitingWith(k) \/ hashCount' <= k
    BY DEF WaitingWith
  <2>4. CASE hashCount' <= k
    <3>1. Admitted(h)' \cup WaitingWith(k)' \subseteq Reserved' /\ Reserved' \subseteq Enqueuers
      BY DEF Admitted, WaitingWith, Reserved, Known
    <3>2. QED
      BY <1>6, <2>4, <3>1, FewerThreads
  <2>5. CASE ~(hashCount' <= k)
    <3>1. Admitted(h)' \cup WaitingWith(k)' \subseteq Admitted(h) \cup WaitingWith(k)
      BY <2>1, <2>2, <2>3, <2>5 DEF Admitted, WaitingWith
    <3>2. Admitted(h) \cup WaitingWith(k) \subseteq Enqueuers
      BY DEF Admitted, WaitingWith
    <3>3. Cardinality(Admitted(h) \cup WaitingWith(k)) <= k
      BY <1>7 DEF HashOK
    <3>4. QED
      BY <3>1, <3>2, <3>3, FewerThreads
  <2>6. QED
    BY <2>4, <2>5
<1>8. /\ \A d \in Enqueuers : \A p \in Nat : Owns(d, p)' => p \in 1 .. Len(prod')
      /\ \A d \in Enqueuers : \A p, q \in Nat : Owns(d, p)' /\ Owns(d, q)' => p = q
      /\ \A d, c \in Enqueuers : \A p \in Nat : Owns(d, p)' /\ Owns(c, p)' => d = c
  <2>1. /\ \A d \in Enqueuers : \A p \in Nat : Owns(d, p) => p \in 1 .. Len(prod) /\ p # Len(prod) + 1
        /\ \A d \in Enqueuers : \A p, q \in Nat : Owns(d, p) /\ Owns(d, q) => p = q
        /\ \A d, c \in Enqueuers : \A p \in Nat : Owns(d, p) /\ Owns(c, p) => d = c
    BY DEF HashOK
  <2>2. CASE \A p \in Nat : Owns(e, p)' => Owns(e, p)
    <3>1. \A d \in Enqueuers : \A p \in Nat : Owns(d, p)' => Owns(d, p)
      BY <1>3, <2>2
    <3>2. QED
      BY <2>1, <3>1
  <2>3. CASE Len(prod') > Len(prod) /\ \A p \in Nat : Owns(e, p)' => p = Len(prod) + 1
    <3>1. \A d \in Enqueuers \ {e} : \A p \in Nat : Owns(d, p)' => Owns(d, p)
      BY <1>3
    <3>2. Len(prod) + 1 \in 1 .. Len(prod')
      BY <2>3
    <3>3. QED
      BY <2>1, <2>3, <3>1, <3>2
  <2>4. QED
    BY <2>2, <2>3
<1>9. /\ \A d, c \in Enqueuers : HasLock(d)' /\ HasLock(c)' => d = c
      /\ resizing' <=> \E d \in Enqueuers : HasLock(d)'
  <2>1. /\ \A d, c \in Enqueuers : HasLock(d) /\ HasLock(c) => d = c
        /\ resizing <=> \E d \in Enqueuers : HasLock(d)
    BY DEF HashOK
  <2>2. QED
    BY <1>4, <2>1
<1>10. /\ tables' \in Seq(Table) /\ tables' # <<>>
       /\ \A h \in 1 .. Len(tables) : KeysDiffer(tables'[h])
       /\ \A g, h \in 1 .. Len(tables) : g <= h => Capacity(g)' <= Capacity(h)'
  BY <1>1 DEF HashOK
<1>11. \A h \in 1 .. Len(tables) : \A k \in Nat :
         k + 1 >= Room(h)' => Cardinality(Admitted(h)' \cup WaitingWith(k)') <= k
  BY <1>1, <1>7
<1>12. QED
  BY <1>5, <1>6, <1>8, <1>9, <1>10, <1>11 DEF HashOK, KeysDiffer

-----------------------------------------------------------------------------
(* The steps of an enqueuer that leave the tables and the producers alone. *)

LEMMA SameTables ==
  ASSUME tables' = tables
  PROVE  /\ \A d, h : Has(d, h)' <=> Has(d, h)
         /\ \A d : Known(d)' <=> Known(d)
         /\ \A h : Capacity(h)' = Capacity(h)
BY DEF Has, Known, Capacity

LEMMA EnqueuerMoves ==
  ASSUME TypeOK, NEW e \in Enqueuers, NEW l \in Labels, Goto(e, l), NEW x \in UserLocals, Locals(e, x)
  PROVE  /\ pc' \in [Threads -> Labels] /\ pc'[e] = l /\ \A u \in Threads \ {e} : pc'[u] = pc[u]
         /\ my' \in [Users -> UserLocals] /\ my'[e] = x /\ \A u \in Users \ {e} : my'[u] = my[u]
         /\ \A d \in Enqueuers \ {e} : pc'[d] = pc[d] /\ my'[d] = my[d]
         /\ \A k \in Tokens : pc'[k] = pc[k] /\ my'[k] = my[k]
         /\ \A c \in Consumers : pc'[c] = pc[c]
<1>1. e \in Users /\ e \in Threads
  BY ThreadFacts
<1>2. /\ pc' \in [Threads -> Labels] /\ pc'[e] = l /\ \A u \in Threads \ {e} : pc'[u] = pc[u]
  BY <1>1, GotoFacts
<1>3. /\ my' \in [Users -> UserLocals] /\ my'[e] = x /\ \A u \in Users \ {e} : my'[u] = my[u]
  BY <1>1, LocalsFacts
<1>4. \A c \in Consumers \cup Tokens : c # e
  BY ThreadFacts
<1>5. QED
  BY <1>2, <1>3, <1>4, ThreadFacts

LEMMA EnqueuerTurn ==
  ASSUME IInv, NEW e \in Enqueuers, NEW l \in Labels \ {"push"}, Goto(e, l),
         NEW x \in UserLocals, Locals(e, x),
         UNCHANGED <<prod, listVars, consumerVars, token, full>>,
         calls' \in Nat, resizing' \in BOOLEAN, HashOK'
  PROVE  IInv'
<1>1. TypeOK /\ ListOK /\ TokensOK /\ ConsumersOK /\ Places
  BY PlacesHold DEF IInv
<1>2. /\ pc' \in [Threads -> Labels] /\ pc'[e] = l /\ \A u \in Threads \ {e} : pc'[u] = pc[u]
      /\ my' \in [Users -> UserLocals] /\ my'[e] = x /\ \A u \in Users \ {e} : my'[u] = my[u]
      /\ \A k \in Tokens : pc'[k] = pc[k] /\ my'[k] = my[k]
      /\ \A c \in Consumers : pc'[c] = pc[c]
  BY <1>1, EnqueuerMoves
<1>3. /\ prod' = prod /\ list' = list /\ producerCount' = producerCount /\ token' = token
      /\ ctoken' = ctoken /\ call' = call /\ full' = full /\ Len(prod) \in Nat
  BY <1>1 DEF listVars, consumerVars, Places
<1>4. hashCount' \in Nat
  <2>1. hashCount' = Cardinality(Reserved') /\ Reserved' \in SUBSET Enqueuers
    BY DEF HashOK, Reserved
  <2>2. QED
    BY <2>1, FewerThreads
<1>5. TypeOK'
  BY <1>1, <1>2, <1>4 DEF TypeOK, listVars, consumerVars
<1>6. ListOK'
  <2>1. \A t \in Users : pc'[t] = "push" => pc[t] = "push" /\ my'[t].made = my[t].made
    BY <1>2, ThreadFacts
  <2>2. QED
    BY <1>1, <1>3, <2>1, ListFrame
<1>7. TokensOK'
  <2>1. /\ \A p \in 1 .. Len(prod') : p > Len(prod) => ~prod'[p].inactive
        /\ \A p : Listed(list, p) => Listed(list', p)
    BY <1>3
  <2>2. QED
    BY <1>1, <1>2, <1>3, <2>1, TokensFrame
<1>8. ConsumersOK'
  <2>1. \A p \in 1 .. Len(prod) : prod[p].size >= prod[p].size
    <3>1. ASSUME NEW p \in 1 .. Len(prod) PROVE prod[p].size >= prod[p].size
      <4>1. prod[p] \in Producer
        BY <1>1, ElementOfSeq DEF TypeOK
      <4>2. PICK s \in Nat : s = prod[p].size
        BY <4>1 DEF Producer
      <4>3. QED
        BY <4>2
    <3>2. QED
      BY <3>1
  <2>2. ListGrows
    BY <1>3, <2>1 DEF ListGrows
  <2>3. QED
    BY <1>1, <1>2, <1>3, <1>5, <2>2, ConsumersFrame
<1>9. QED
  BY <1>5, <1>6, <1>7, <1>8 DEF IInv

LEMMA ReserveInv ==
  ASSUME IInv, NEW e \in Enqueuers, Reserve(e)
  PROVE  IInv'
<1>1. TypeOK /\ HashOK /\ Places /\ EnqueuerOK(e)
  BY PlacesHold DEF IInv, HashOK
<1>2. /\ pc[e] = "reserve" /\ my[e] \in UserLocals /\ hashCount \in Nat /\ e \in Users
      /\ UNCHANGED <<prod, listVars, consumerVars, token, full>>
      /\ tables' = tables /\ resizing' = resizing /\ resizing \in BOOLEAN /\ calls' \in Nat
      /\ prod' = prod
  BY <1>1, ThreadFacts DEF Reserve, TypeOK
<1>3. PICK n \in Nat : n = hashCount + 1 /\ n > 0
  BY <1>2
<1>4. PICK x : x = [my[e] EXCEPT !.newCount = n]
  OBVIOUS
<1>5. x \in UserLocals /\ x.newCount = n /\ x.hash = my[e].hash /\ x.made = my[e].made
  BY <1>2, <1>4 DEF UserLocals
<1>6. Goto(e, "grow") /\ Locals(e, x) /\ hashCount' = n
  BY <1>3, <1>4 DEF Reserve
<1>7. /\ pc'[e] = "grow" /\ my'[e] = x
      /\ \A d \in Enqueuers \ {e} : pc'[d] = pc[d] /\ my'[d] = my[d]
  BY <1>1, <1>5, <1>6, EnqueuerMoves DEF Labels
<1>8. EnqueuerOK(e)'
  BY <1>1, <1>2, <1>3, <1>5, <1>7, SameTables DEF EnqueuerOK, Waiting, Entering
<1>9. \A p \in Nat : Owns(e, p)' => Owns(e, p)
  BY <1>2, <1>5, <1>7 DEF Owns
<1>10. e \notin Reserved /\ e \in Reserved' /\ hashCount' = hashCount + 1
  BY <1>1, <1>2, <1>3, <1>6, <1>7 DEF Reserved, EnqueuerOK, Waiting, Entering
<1>11. ~Entering(e)' /\ my'[e].newCount = hashCount'
  BY <1>5, <1>6, <1>7 DEF Entering
<1>12. ~HasLock(e)' /\ ~HasLock(e)
  BY <1>2, <1>7 DEF HasLock
<1>13. HashOK'
  BY <1>1, <1>2, <1>7, <1>8, <1>9, <1>10, <1>11, <1>12, HashTurn DEF Places
<1>14. QED
  BY <1>2, <1>5, <1>6, <1>13, EnqueuerTurn DEF Labels

\* The step of which the counting is all about: a table with room for one more than it has
\* admitted, and than wait with a smaller count.
LEMMA CheckRoomInv ==
  ASSUME IInv, NEW e \in Enqueuers, pc[e] \in {"grow", "unlock"}, CheckRoom(e),
         UNCHANGED <<prod, listVars, tables, hashCount, consumerVars, token, calls, full>>,
         resizing' \in BOOLEAN, resizing' <=> resizing /\ ~HasLock(e)
  PROVE  IInv'
<1>1. TypeOK /\ HashOK /\ Places /\ EnqueuerOK(e)
  BY PlacesHold DEF IInv, HashOK
<1>2. /\ my[e] \in UserLocals /\ Waiting(e) /\ ~Entering(e) /\ tables' = tables
      /\ hashCount' = hashCount /\ calls' \in Nat /\ prod' = prod
      /\ UNCHANGED <<prod, listVars, consumerVars, token, full>>
  BY <1>1, ThreadFacts DEF TypeOK, Waiting, Entering
<1>3. my[e].hash \in 1 .. Len(tables) /\ ~Known(e) /\ my[e].made = NoOne /\ my[e].newCount \in Nat
  BY <1>1, <1>2 DEF EnqueuerOK, Waiting, UserLocals
<1>4. PICK c \in Nat : c = my[e].newCount
  BY <1>3
<1>5. CASE /\ c < Room(my[e].hash) /\ Goto(e, "create")
           /\ Locals(e, [my[e] EXCEPT !.newCount = 0])
  <2>1. PICK z \in Nat : z = 0
    OBVIOUS
  <2>2. PICK x : x = [my[e] EXCEPT !.newCount = z]
    OBVIOUS
  <2>3. x \in UserLocals /\ x.hash = my[e].hash /\ x.made = my[e].made
    BY <1>2, <2>2 DEF UserLocals
  <2>4. Locals(e, x)
    BY <1>5, <2>1, <2>2
  <2>5. /\ pc'[e] = "create" /\ my'[e] = x
        /\ \A d \in Enqueuers \ {e} : pc'[d] = pc[d] /\ my'[d] = my[d]
    BY <1>1, <1>5, <2>3, <2>4, EnqueuerMoves DEF Labels
  <2>6. EnqueuerOK(e)'
    BY <1>2, <1>3, <2>3, <2>5, SameTables DEF EnqueuerOK, Waiting, Entering
  <2>7. \A p \in Nat : Owns(e, p)' => Owns(e, p)
    BY <1>2, <2>3, <2>5 DEF Owns
  <2>8. (e \in Reserved <=> e \in Reserved')
    BY <1>2, <2>5 DEF Reserved, Entering
  <2>9. ASSUME NEW h \in 1 .. Len(tables), NEW k \in Nat, k + 1 >= Room(h), my'[e].hash <= h
        PROVE  e \in WaitingWith(k)
    <3>1. Room(my[e].hash) <= Room(h) /\ Room(my[e].hash) \in Nat /\ Room(h) \in Nat
      BY <1>1, <1>3, <2>3, <2>5, <2>9, CapacityFacts, RoomGrows
    <3>2. c <= k
      BY <1>5, <2>9, <3>1
    <3>3. QED
      BY <1>2, <1>4, <3>2 DEF WaitingWith
  <2>10. ~Waiting(e)' /\ ~HasLock(e)'
    BY <2>5 DEF Waiting, HasLock
  <2>11. HashOK'
    BY <1>1, <1>2, <2>5, <2>6, <2>7, <2>8, <2>9, <2>10, HashTurn DEF Places
  <2>12. QED
    BY <1>2, <1>5, <2>3, <2>4, <2>11, EnqueuerTurn DEF Labels
<1>6. CASE Goto(e, "reload") /\ UNCHANGED my
  <2>1. Locals(e, my[e])
    BY <1>1, <1>6, LocalsSame, ThreadFacts DEF Locals
  <2>2. /\ pc'[e] = "reload" /\ my'[e] = my[e]
        /\ \A d \in Enqueuers \ {e} : pc'[d] = pc[d] /\ my'[d] = my[d]
    BY <1>1, <1>2, <1>6, <2>1, EnqueuerMoves DEF Labels
  <2>3. EnqueuerOK(e)'
    BY <1>1, <1>2, <1>3, <2>2, SameTables DEF EnqueuerOK, Waiting, Entering
  <2>4. \A p \in Nat : Owns(e, p)' => Owns(e, p)
    BY <1>2, <2>2 DEF Owns
  <2>5. (e \in Reserved <=> e \in Reserved')
    BY <1>2, <2>2 DEF Reserved, Waiting
  <2>6. ~Entering(e)' /\ ~HasLock(e)'
    BY <2>2 DEF Entering, HasLock
  <2>7. \A k \in Nat : my'[e].newCount <= k => e \in WaitingWith(k)
    BY <1>2, <2>2 DEF WaitingWith
  <2>8. HashOK'
    BY <1>1, <1>2, <2>2, <2>3, <2>4, <2>5, <2>6, <2>7, HashTurn DEF Places
  <2>9. QED
    BY <1>2, <1>6, <2>1, <2>8, EnqueuerTurn DEF Labels
<1>7. QED
  BY <1>4, <1>5, <1>6 DEF CheckRoom, Room

\* A thread that waits, waits on with the same count.
LEMMA WaitsOn ==
  ASSUME IInv, NEW e \in Enqueuers, NEW l \in {"grow", "resize", "allocate", "unlock"}, Goto(e, l),
         NEW x \in UserLocals, Locals(e, x), Waiting(e),
         x.made = my[e].made, x.newCount = my[e].newCount, x.hash \in 1 .. Len(tables),
         l = "allocate" => /\ x.hash = Len(tables) /\ x.newCapacity >= Capacity(x.hash)
                           /\ x.newCapacity > 0,
         UNCHANGED <<prod, listVars, tables, hashCount, consumerVars, token, calls, full>>,
         resizing' \in BOOLEAN,
         HasLock(e)' => HasLock(e) \/ ~resizing,
         resizing' <=> HasLock(e)' \/ (resizing /\ ~HasLock(e))
  PROVE  IInv'
<1>1. TypeOK /\ HashOK /\ Places /\ EnqueuerOK(e)
  BY PlacesHold DEF IInv, HashOK
<1>2. /\ tables' = tables /\ hashCount' = hashCount /\ calls' \in Nat /\ prod' = prod
      /\ UNCHANGED <<prod, listVars, consumerVars, token, full>> /\ l \in Labels \ {"push"}
  BY <1>1 DEF TypeOK, Labels
<1>3. ~Known(e) /\ my[e].made = NoOne /\ my[e].newCount > 0
  BY <1>1 DEF EnqueuerOK, Waiting
<1>4. /\ pc'[e] = l /\ my'[e] = x
      /\ \A d \in Enqueuers \ {e} : pc'[d] = pc[d] /\ my'[d] = my[d]
  BY <1>1, <1>2, EnqueuerMoves
<1>5. EnqueuerOK(e)'
  BY <1>2, <1>3, <1>4, SameTables DEF EnqueuerOK, Waiting, Entering
<1>6. \A p \in Nat : Owns(e, p)' => Owns(e, p)
  BY <1>2, <1>4 DEF Owns
<1>7. (e \in Reserved <=> e \in Reserved')
  BY <1>4 DEF Reserved, Waiting
<1>8. ~Entering(e)' /\ \A k \in Nat : my'[e].newCount <= k => e \in WaitingWith(k)
  BY <1>4 DEF Entering, WaitingWith
<1>9. HashOK'
  BY <1>1, <1>2, <1>4, <1>5, <1>6, <1>7, <1>8, HashTurn DEF Places
<1>10. QED
  BY <1>2, <1>9, EnqueuerTurn

LEMMA TestAndSetInv ==
  ASSUME IInv, NEW e \in Enqueuers, TestAndSet(e)
  PROVE  IInv'
<1>1. TypeOK /\ HashOK /\ EnqueuerOK(e) /\ e \in Users
  BY ThreadFacts DEF IInv, HashOK
<1>2. /\ pc[e] = "grow" /\ Waiting(e) /\ ~HasLock(e) /\ my[e] \in UserLocals
      /\ UNCHANGED <<prod, listVars, tables, hashCount, consumerVars, token, calls, full>>
  BY <1>1, LocalsSame DEF TestAndSet, Waiting, HasLock
<1>3. CASE ~resizing /\ resizing' = TRUE /\ Goto(e, "resize") /\ UNCHANGED my
  <2>1. Locals(e, my[e])
    BY <1>1, <1>3, LocalsSame DEF Locals
  <2>2. HasLock(e)' <=> pc'[e] \in {"resize", "allocate", "unlock", "unlockFailed"}
    BY DEF HasLock
  <2>3. pc'[e] = "resize"
    BY <1>1, <1>2, <1>3, <2>1, EnqueuerMoves DEF Labels
  <2>4. my[e].hash \in 1 .. Len(tables)
    BY <1>1, <1>2 DEF EnqueuerOK
  <2>5. resizing' \in BOOLEAN /\ HasLock(e)' /\ resizing' /\ ~resizing
    BY <1>3, <2>2, <2>3
  <2>6. Goto(e, "resize")
    BY <1>3
  <2>7. QED
    BY <1>2, <2>1, <2>4, <2>5, <2>6, WaitsOn
<1>4. CASE UNCHANGED resizing /\ CheckRoom(e)
  BY <1>1, <1>2, <1>4, CheckRoomInv DEF TypeOK
<1>5. QED
  BY <1>3, <1>4 DEF TestAndSet

LEMMA ReloadInv ==
  ASSUME IInv, NEW e \in Enqueuers, Reload(e)
  PROVE  IInv'
<1>1. TypeOK /\ HashOK /\ EnqueuerOK(e) /\ e \in Users
  BY ThreadFacts DEF IInv, HashOK
<1>2. /\ pc[e] = "reload" /\ Waiting(e) /\ ~HasLock(e) /\ my[e] \in UserLocals
      /\ UNCHANGED <<prod, listVars, tables, hashCount, consumerVars, token, calls, full>>
      /\ resizing' = resizing /\ resizing \in BOOLEAN
  BY <1>1, LocalsSame DEF Reload, Waiting, HasLock, hashVars, TypeOK
<1>3. PICK n \in Nat : n = Len(tables) /\ n \in 1 .. Len(tables)
  BY <1>1, EmptySeq, LenProperties DEF HashOK
<1>4. PICK x : x = [my[e] EXCEPT !.hash = n]
  OBVIOUS
<1>5. x \in UserLocals /\ x.hash = n /\ x.made = my[e].made /\ x.newCount = my[e].newCount
  BY <1>2, <1>4 DEF UserLocals
<1>6. Locals(e, x) /\ Goto(e, "grow")
  BY <1>3, <1>4 DEF Reload
<1>7. pc'[e] = "grow"
  BY <1>1, <1>5, <1>6, EnqueuerMoves DEF Labels
<1>8. ~HasLock(e)'
  BY <1>7 DEF HasLock
<1>9. QED
  BY <1>2, <1>3, <1>5, <1>6, <1>8, WaitsOn

LEMMA ResizeInv ==
  ASSUME IInv, NEW e \in Enqueuers, Resize(e)
  PROVE  IInv'
<1>1. TypeOK /\ HashOK /\ EnqueuerOK(e) /\ e \in Users
  BY ThreadFacts DEF IInv, HashOK
<1>2. /\ pc[e] = "resize" /\ Waiting(e) /\ HasLock(e) /\ my[e] \in UserLocals
      /\ UNCHANGED <<prod, listVars, tables, hashCount, consumerVars, token, calls, full>>
      /\ resizing' = resizing /\ resizing \in BOOLEAN /\ resizing
  BY <1>1, LocalsSame DEF Resize, Waiting, HasLock, hashVars, TypeOK, HashOK
<1>3. PICK n \in Nat : n = Len(tables) /\ n \in 1 .. Len(tables)
  BY <1>1, EmptySeq, LenProperties DEF HashOK
<1>4. PICK c \in Nat \ {0} : c = Capacity(n)
  BY <1>1, <1>3, CapacityFacts
<1>5. PICK m \in Nat : m = c * 2 /\ m >= c /\ m > 0
  <2>1. c * 2 \in Nat /\ c * 2 >= c /\ c * 2 > 0
    OBVIOUS
  <2>2. QED
    BY <2>1
<1>6. CASE Locals(e, [my[e] EXCEPT !.hash = n, !.newCapacity = m]) /\ Goto(e, "allocate")
  <2>1. PICK x : x = [my[e] EXCEPT !.hash = n, !.newCapacity = m]
    OBVIOUS
  <2>2. /\ x \in UserLocals /\ x.hash = n /\ x.made = my[e].made /\ x.newCount = my[e].newCount
        /\ x.newCapacity = m
    BY <1>2, <2>1 DEF UserLocals
  <2>3. Locals(e, x) /\ Goto(e, "allocate")
    BY <1>6, <2>1
  <2>4. pc'[e] = "allocate"
    BY <1>1, <2>2, <2>3, EnqueuerMoves DEF Labels
  <2>5. HasLock(e)'
    BY <2>4 DEF HasLock
  <2>6. QED
    BY <1>2, <1>3, <1>4, <1>5, <2>2, <2>3, <2>5, WaitsOn
<1>7. CASE Locals(e, [my[e] EXCEPT !.hash = n]) /\ Goto(e, "unlock")
  <2>1. PICK x : x = [my[e] EXCEPT !.hash = n]
    OBVIOUS
  <2>2. x \in UserLocals /\ x.hash = n /\ x.made = my[e].made /\ x.newCount = my[e].newCount
    BY <1>2, <2>1 DEF UserLocals
  <2>3. Locals(e, x) /\ Goto(e, "unlock")
    BY <1>7, <2>1
  <2>4. pc'[e] = "unlock"
    BY <1>1, <2>2, <2>3, EnqueuerMoves DEF Labels
  <2>5. HasLock(e)'
    BY <2>4 DEF HasLock
  <2>6. QED
    BY <1>2, <1>3, <2>2, <2>3, <2>5, WaitsOn
<1>8. QED
  BY <1>3, <1>4, <1>5, <1>6, <1>7 DEF Resize

LEMMA DoubleInv ==
  ASSUME IInv, NEW e \in Enqueuers, Double(e)
  PROVE  IInv'
<1>1. TypeOK /\ HashOK /\ EnqueuerOK(e) /\ e \in Users
  BY ThreadFacts DEF IInv, HashOK
<1>2. /\ pc[e] = "allocate" /\ Waiting(e) /\ HasLock(e) /\ my[e] \in UserLocals
      /\ UNCHANGED <<prod, listVars, tables, hashCount, consumerVars, token, calls, full>>
      /\ resizing' = resizing /\ resizing \in BOOLEAN /\ resizing /\ Goto(e, "allocate")
  BY <1>1, LocalsSame DEF Double, Waiting, HasLock, hashVars, TypeOK, HashOK, Goto
<1>3. PICK n \in Nat : n = my[e].newCapacity
  BY <1>2 DEF UserLocals
<1>4. /\ my[e].hash = Len(tables) /\ my[e].hash \in 1 .. Len(tables)
      /\ n >= Capacity(my[e].hash) /\ n > 0
  BY <1>1, <1>2, <1>3 DEF EnqueuerOK
<1>5. PICK c \in Nat : c = Capacity(my[e].hash)
  BY <1>1, <1>4, CapacityFacts
<1>6. PICK m \in Nat : m = n * 2 /\ m >= c /\ m > 0
  <2>1. n * 2 \in Nat /\ n * 2 >= c /\ n * 2 > 0
    BY <1>4, <1>5
  <2>2. QED
    BY <2>1
<1>7. PICK x : x = [my[e] EXCEPT !.newCapacity = m]
  OBVIOUS
<1>8. /\ x \in UserLocals /\ x.hash = my[e].hash /\ x.made = my[e].made
      /\ x.newCount = my[e].newCount /\ x.newCapacity = m
  BY <1>2, <1>7 DEF UserLocals
<1>9. Locals(e, x)
  BY <1>3, <1>6, <1>7 DEF Double
<1>10. pc'[e] = "allocate"
  BY <1>1, <1>2, <1>8, <1>9, EnqueuerMoves DEF Labels
<1>11. HasLock(e)'
  BY <1>10 DEF HasLock
<1>12. QED
  BY <1>2, <1>4, <1>5, <1>6, <1>8, <1>9, <1>11, WaitsOn

\* A thread whose call is over, with its place in the count given back if it has not got into
\* a table.
LEMMA CallOver ==
  ASSUME IInv, NEW e \in Enqueuers, NEW l \in {"idle", "unlockFailed"}, Goto(e, l),
         NEW x \in UserLocals, Locals(e, x), x.made = NoOne, l # "idle" => ~Known(e),
         UNCHANGED <<prod, listVars, tables, consumerVars, token, calls, full>>,
         \/ (e \in Reserved <=> Known(e)) /\ hashCount' = hashCount
         \/ e \in Reserved /\ ~Known(e) /\ hashCount' = hashCount - 1,
         resizing' \in BOOLEAN, l = "unlockFailed" <=> HasLock(e) /\ resizing',
         resizing' <=> l = "unlockFailed" \/ (resizing /\ ~HasLock(e))
  PROVE  IInv'
<1>1. TypeOK /\ HashOK /\ Places /\ EnqueuerOK(e)
  BY PlacesHold DEF IInv, HashOK
<1>2. /\ tables' = tables /\ calls' \in Nat /\ prod' = prod
      /\ UNCHANGED <<prod, listVars, consumerVars, token, full>> /\ l \in Labels \ {"push"}
  BY <1>1 DEF TypeOK, Labels
<1>3. /\ pc'[e] = l /\ my'[e] = x
      /\ \A d \in Enqueuers \ {e} : pc'[d] = pc[d] /\ my'[d] = my[d]
  BY <1>1, <1>2, EnqueuerMoves
<1>4. EnqueuerOK(e)'
  BY <1>2, <1>3, SameTables DEF EnqueuerOK, Waiting, Entering
<1>5. \A p \in Nat : Owns(e, p)' => Owns(e, p)
  BY <1>2, <1>3 DEF Owns
<1>6. ~Waiting(e)' /\ ~Entering(e)' /\ (e \in Reserved' <=> Known(e))
  BY <1>2, <1>3, SameTables DEF Reserved, Waiting, Entering
<1>7. HasLock(e)' <=> l = "unlockFailed"
  BY <1>3 DEF HasLock
<1>8. HashOK'
  BY <1>1, <1>2, <1>3, <1>4, <1>5, <1>6, <1>7, HashTurn DEF Places
<1>9. QED
  BY <1>2, <1>8, EnqueuerTurn

LEMMA UnlockInv ==
  ASSUME IInv, NEW e \in Enqueuers, Unlock(e)
  PROVE  IInv'
<1>1. TypeOK /\ HashOK /\ EnqueuerOK(e) /\ e \in Users
  BY ThreadFacts DEF IInv, HashOK
<1>2. /\ HasLock(e) /\ resizing' = FALSE
      /\ UNCHANGED <<prod, listVars, tables, hashCount, consumerVars, token, calls, full>>
      /\ hashCount' = hashCount
  BY DEF Unlock, HasLock
<1>3. FALSE \in BOOLEAN
  BY Zenon
<1>4. resizing' \in BOOLEAN /\ (resizing' <=> resizing /\ ~HasLock(e)) /\ ~resizing'
  BY <1>2, <1>3, Zenon
<1>5. CASE pc[e] = "unlock" /\ CheckRoom(e)
  BY <1>2, <1>4, <1>5, CheckRoomInv
<1>6. CASE pc[e] = "unlockFailed" /\ Goto(e, "idle") /\ Locals(e, NoLocals)
  <2>1. e \in Reserved <=> Known(e)
    BY <1>6 DEF Reserved, Waiting, Entering
  <2>2. Goto(e, "idle") /\ Locals(e, NoLocals)
    BY <1>6
  <2>3. QED
    BY <1>2, <1>4, <2>1, <2>2, NoLocalsFacts, CallOver
<1>7. QED
  BY <1>5, <1>6 DEF Unlock

LEMMA AllocateFails ==
  ASSUME IInv, NEW e \in Enqueuers, pc[e] = "allocate", hashCount' = hashCount - 1,
         Goto(e, "unlockFailed"), UNCHANGED <<tables, my>>,
         UNCHANGED <<prod, listVars, resizing, consumerVars, token, calls, full>>
  PROVE  IInv'
<1>1. TypeOK /\ HashOK /\ EnqueuerOK(e) /\ e \in Users
  BY ThreadFacts DEF IInv, HashOK
<1>2. /\ HasLock(e) /\ Waiting(e) /\ resizing' = resizing /\ resizing /\ resizing \in BOOLEAN
      /\ UNCHANGED <<prod, listVars, tables, consumerVars, token, calls, full>>
  BY <1>1 DEF HasLock, Waiting, HashOK, TypeOK
<1>3. Locals(e, my[e]) /\ my[e] \in UserLocals
  BY <1>1, LocalsSame DEF Locals
<1>4. ~Known(e) /\ my[e].made = NoOne /\ e \in Reserved
  BY <1>1, <1>2 DEF EnqueuerOK, Waiting, Reserved
<1>5. resizing' \in BOOLEAN /\ resizing'
  BY <1>2
<1>6. QED
  BY <1>2, <1>3, <1>4, <1>5, CallOver

LEMMA CreateFails ==
  ASSUME IInv, NEW e \in Enqueuers, pc[e] = "create", hashCount' = hashCount - 1,
         Goto(e, "idle"), Locals(e, NoLocals),
         UNCHANGED <<prod, listVars, tables, resizing, consumerVars, token, calls, full>>
  PROVE  IInv'
<1>1. TypeOK /\ HashOK /\ EnqueuerOK(e)
  BY DEF IInv, HashOK
<1>2. /\ ~HasLock(e) /\ resizing' = resizing /\ resizing \in BOOLEAN
      /\ UNCHANGED <<prod, listVars, tables, consumerVars, token, calls, full>>
  BY <1>1 DEF HasLock, TypeOK
<1>3. ~Known(e) /\ e \in Reserved
  BY <1>1 DEF EnqueuerOK, Entering, Reserved
<1>4. resizing' \in BOOLEAN /\ (resizing' <=> resizing)
  BY <1>2
<1>5. QED
  BY <1>2, <1>3, <1>4, NoLocalsFacts, CallOver

\* A producer found in a table is the thread's own.
LEMMA FoundIsOwn ==
  ASSUME TypeOK, HashOK, NEW e \in Enqueuers, NEW h \in Knows(e)
  PROVE  /\ h \in 1 .. Len(tables) /\ Has(e, h)
         /\ \E p \in Nat : /\ p = tables[h][CHOOSE i \in SlotOf(e, h) : TRUE].value
                           /\ Owns(e, p) /\ p # NoOne
<1>1. h \in 1 .. Len(tables) /\ SlotOf(e, h) # {}
  BY DEF Knows, HashOK
<1>2. PICK j : j = CHOOSE i \in SlotOf(e, h) : TRUE
  OBVIOUS
<1>3. j \in SlotOf(e, h)
  BY <1>1, <1>2
<1>4. j \in DOMAIN tables[h] /\ tables[h][j].key = e
  BY <1>3 DEF SlotOf
<1>5. tables[h][j] \in Slot
  BY <1>1, <1>4, CapacityFacts
<1>6. PICK p \in Nat : p = tables[h][j].value
  BY <1>5 DEF Slot
<1>7. Owns(e, p)
  BY <1>1, <1>4, <1>6 DEF Owns
<1>8. p \in 1 .. Len(prod) /\ Len(prod) \in Nat
  BY <1>7 DEF HashOK, TypeOK
<1>9. Has(e, h)
  BY <1>4 DEF Has
<1>10. p = tables[h][CHOOSE i \in SlotOf(e, h) : TRUE].value /\ p # NoOne
  BY <1>2, <1>6, <1>8 DEF NoOne
<1>11. QED
  BY <1>1, <1>7, <1>9, <1>10

LEMMA LookupInv ==
  ASSUME IInv, NEW e \in Enqueuers, Lookup(e)
  PROVE  IInv'
<1>1. TypeOK /\ HashOK /\ Places /\ EnqueuerOK(e) /\ e \in Users
  BY PlacesHold, ThreadFacts DEF IInv, HashOK
<1>2. /\ pc[e] = "idle" /\ calls' \in Nat /\ prod' = prod
      /\ UNCHANGED <<prod, listVars, hashVars, consumerVars, token, full>>
      /\ tables' = tables /\ hashCount' = hashCount /\ resizing' = resizing
      /\ resizing' \in BOOLEAN
  BY <1>1 DEF Lookup, Begin, TypeOK, hashVars
<1>3. ~Waiting(e) /\ ~Entering(e) /\ ~HasLock(e)
  BY <1>2 DEF Waiting, Entering, HasLock
<1>4. PICK n \in Nat : n = Len(tables) /\ n \in 1 .. Len(tables)
  BY <1>1, EmptySeq, LenProperties DEF HashOK
<1>5. ASSUME Knows(e) = {}, Goto(e, "reserve"), Locals(e, [NoLocals EXCEPT !.hash = n])
      PROVE  IInv'
  <2>1. PICK x : x = [NoLocals EXCEPT !.hash = n]
    OBVIOUS
  <2>2. x \in UserLocals /\ x.hash = n /\ x.made = NoOne
    BY <2>1, NoLocalsFacts DEF UserLocals
  <2>3. Locals(e, x)
    BY <1>5, <2>1
  <2>4. /\ pc'[e] = "reserve" /\ my'[e] = x
        /\ \A d \in Enqueuers \ {e} : pc'[d] = pc[d] /\ my'[d] = my[d]
    BY <1>1, <1>5, <2>2, <2>3, EnqueuerMoves DEF Labels
  <2>5. ~Known(e)
    <3>1. DOMAIN tables = 1 .. Len(tables)
      BY <1>1 DEF HashOK
    <3>2. QED
      BY <1>5, <3>1 DEF Known, Has, Knows, SlotOf
  <2>6. EnqueuerOK(e)'
    BY <1>2, <1>4, <2>2, <2>4, <2>5, SameTables DEF EnqueuerOK, Waiting, Entering
  <2>7. \A p \in Nat : Owns(e, p)' => Owns(e, p)
    BY <1>2, <2>2, <2>4 DEF Owns
  <2>8. ~Waiting(e)' /\ ~Entering(e)' /\ ~HasLock(e)'
    BY <2>4 DEF Waiting, Entering, HasLock
  <2>9. (e \in Reserved <=> e \in Reserved')
    BY <1>2, <1>3, <2>8, SameTables DEF Reserved
  <2>10. HashOK'
    BY <1>1, <1>2, <1>3, <2>4, <2>6, <2>7, <2>8, <2>9, HashTurn DEF Places
  <2>11. QED
    BY <1>2, <1>5, <2>2, <2>3, <2>10, EnqueuerTurn DEF Labels
<1>6. ASSUME NEW h \in Knows(e), \A g \in Knows(e) : g <= h, Found(e, h)
      PROVE  IInv'
  <2>1. /\ h \in 1 .. Len(tables) /\ Has(e, h) /\ Known(e)
    BY <1>1, FoundIsOwn DEF Known
  <2>2. PICK p \in Nat : /\ p = tables[h][CHOOSE i \in SlotOf(e, h) : TRUE].value
                         /\ Owns(e, p) /\ p # NoOne
    BY <1>1, FoundIsOwn
  <2>3. CASE Goto(e, "enqueue") /\ Locals(e, [NoLocals EXCEPT !.made = p])
    <3>1. PICK x : x = [NoLocals EXCEPT !.made = p]
      OBVIOUS
    <3>2. x \in UserLocals /\ x.made = p
      BY <3>1, NoLocalsFacts DEF UserLocals
    <3>3. Locals(e, x)
      BY <2>3, <3>1
    <3>4. /\ pc'[e] = "enqueue" /\ my'[e] = x
          /\ \A d \in Enqueuers \ {e} : pc'[d] = pc[d] /\ my'[d] = my[d]
      BY <1>1, <2>3, <3>2, <3>3, EnqueuerMoves DEF Labels
    <3>5. EnqueuerOK(e)'
      BY <1>2, <2>2, <3>2, <3>4 DEF EnqueuerOK, Waiting, Entering
    <3>6. \A q \in Nat : Owns(e, q)' => Owns(e, q)
      BY <1>2, <2>2, <3>2, <3>4 DEF Owns
    <3>7. ~Waiting(e)' /\ ~Entering(e)' /\ ~HasLock(e)'
      BY <3>4 DEF Waiting, Entering, HasLock
    <3>8. (e \in Reserved <=> e \in Reserved')
      BY <1>2, <2>1, SameTables DEF Reserved
    <3>9. HashOK'
      BY <1>1, <1>2, <1>3, <3>4, <3>5, <3>6, <3>7, <3>8, HashTurn DEF Places
    <3>10. QED
      BY <1>2, <2>3, <3>2, <3>3, <3>9, EnqueuerTurn DEF Labels
  <2>4. CASE /\ h # n /\ Goto(e, "probe")
             /\ Locals(e, [NoLocals EXCEPT !.hash = n, !.slot = HashOf[e], !.made = p])
    <3>1. PICK s \in Nat : s = HashOf[e]
      BY ConcurrentQueueAssumption DEF ConcurrentQueueAssumption
    <3>2. PICK x : x = [NoLocals EXCEPT !.hash = n, !.slot = s, !.made = p]
      OBVIOUS
    <3>3. x \in UserLocals /\ x.made = p /\ x.hash = n
      BY <3>2, NoLocalsFacts DEF UserLocals
    <3>4. Locals(e, x)
      BY <2>4, <3>1, <3>2
    <3>5. /\ pc'[e] = "probe" /\ my'[e] = x
          /\ \A d \in Enqueuers \ {e} : pc'[d] = pc[d] /\ my'[d] = my[d]
      BY <1>1, <2>4, <3>3, <3>4, EnqueuerMoves DEF Labels
    <3>6. ~Has(e, n)
      <4>1. DOMAIN tables = 1 .. Len(tables) /\ h \in Nat
        BY <1>1, <2>1 DEF HashOK
      <4>2. Has(e, n) => n \in Knows(e)
        BY <1>4, <4>1 DEF Has, Knows, SlotOf
      <4>3. n \in Knows(e) => n <= h
        BY <1>6
      <4>4. QED
        BY <1>4, <2>1, <2>4, <4>1, <4>2, <4>3
    <3>7. EnqueuerOK(e)'
      BY <1>2, <1>4, <2>2, <3>3, <3>5, <3>6, SameTables DEF EnqueuerOK, Waiting, Entering
    <3>8. \A q \in Nat : Owns(e, q)' => Owns(e, q)
      BY <1>2, <2>2, <3>3, <3>5 DEF Owns
    <3>9. ~Waiting(e)' /\ ~HasLock(e)'
      BY <3>5 DEF Waiting, HasLock
    <3>10. (e \in Reserved <=> e \in Reserved')
      BY <1>2, <2>1, SameTables DEF Reserved
    <3>11. \A g \in 1 .. Len(tables) : my'[e].hash <= g => e \in Admitted(g)
      BY <1>4, <2>1, <3>3, <3>5 DEF Admitted
    <3>12. HashOK'
      BY <1>1, <1>2, <1>3, <3>5, <3>7, <3>8, <3>9, <3>10, <3>11, HashTurn DEF Places
    <3>13. QED
      BY <1>2, <2>4, <3>3, <3>4, <3>12, EnqueuerTurn DEF Labels
  <2>5. QED
    BY <1>4, <1>6, <2>2, <2>3, <2>4 DEF Found
<1>7. QED
  BY <1>4, <1>5, <1>6 DEF Lookup

-----------------------------------------------------------------------------
(* A thread gets into a table.                                             *)

LEMMA PutFacts ==
  ASSUME HashOK, NEW h \in 1 .. Len(tables), NEW i \in DOMAIN tables[h], NEW x \in Slot,
         tables' = [tables EXCEPT ![h][i] = x]
  PROVE  /\ tables' \in Seq(Table) /\ Len(tables') = Len(tables) /\ tables' # <<>>
         /\ \A g \in 1 .. Len(tables) : DOMAIN tables'[g] = DOMAIN tables[g]
         /\ \A g \in 1 .. Len(tables) : g # h => tables'[g] = tables[g]
         /\ tables'[h][i] = x /\ \A j \in DOMAIN tables[h] \ {i} : tables'[h][j] = tables[h][j]
<1>1. tables \in Seq(Table) /\ tables # <<>>
  BY DEF HashOK
<1>2. tables[h] \in Table
  BY <1>1, ElementOfSeq
<1>3. PICK n \in Nat \ {0} : tables[h] \in [0 .. n - 1 -> Slot]
  BY <1>2 DEF Table
<1>4. PICK t : t = [tables[h] EXCEPT ![i] = x]
  OBVIOUS
<1>5. /\ t \in [0 .. n - 1 -> Slot] /\ t[i] = x /\ DOMAIN t = DOMAIN tables[h]
      /\ \A j \in DOMAIN tables[h] \ {i} : t[j] = tables[h][j]
  BY <1>3, <1>4
<1>6. t \in Table
  BY <1>5 DEF Table
<1>7. tables' = [tables EXCEPT ![h] = t]
  BY <1>4
<1>8. /\ tables' \in Seq(Table) /\ Len(tables') = Len(tables)
      /\ \A g \in 1 .. Len(tables) : tables'[g] = IF g = h THEN t ELSE tables[g]
  BY <1>1, <1>6, <1>7, ExceptSeq
<1>9. tables' # <<>>
  <2>1. Len(tables) # 0
    BY <1>1, EmptySeq
  <2>2. QED
    BY <1>8, <2>1, EmptySeq
<1>10. \A g \in 1 .. Len(tables) : DOMAIN tables'[g] = DOMAIN tables[g]
  BY <1>5, <1>8
<1>11. QED
  BY <1>5, <1>8, <1>9, <1>10

LEMMA ProbeInv ==
  ASSUME IInv, NEW e \in Enqueuers, Probe(e)
  PROVE  IInv'
<1>1. TypeOK /\ HashOK /\ Places /\ EnqueuerOK(e) /\ e \in Users
  BY PlacesHold, ThreadFacts DEF IInv, HashOK
<1>2. /\ pc[e] = "probe" /\ calls' \in Nat /\ prod' = prod /\ my[e] \in UserLocals
      /\ UNCHANGED <<prod, listVars, consumerVars, token, full>>
      /\ hashCount' = hashCount /\ resizing' = resizing /\ resizing' \in BOOLEAN
  BY <1>1, LocalsSame DEF Probe, TypeOK
<1>3. ~Waiting(e) /\ Entering(e) /\ ~HasLock(e)
  BY <1>2 DEF Waiting, Entering, HasLock
<1>4. PICK h \in 1 .. Len(tables) : h = my[e].hash /\ ~Has(e, h)
  BY <1>1, <1>2, <1>3 DEF EnqueuerOK
<1>5. PICK p \in Nat : p = my[e].made /\ p # NoOne
  BY <1>1, <1>2 DEF EnqueuerOK, UserLocals
<1>6. PICK c \in Nat \ {0} : c = Capacity(h) /\ DOMAIN tables[h] = 0 .. c - 1
  BY <1>1, CapacityFacts
<1>7. PICK i \in 0 .. c - 1 : i = my[e].slot % c
  <2>1. PICK s \in Nat : s = my[e].slot
    BY <1>2 DEF UserLocals
  <2>2. s % c \in 0 .. c - 1
    OBVIOUS
  <2>3. QED
    BY <2>1, <2>2
<1>8. CASE Locals(e, [my[e] EXCEPT !.slot = i + 1]) /\ UNCHANGED <<tables, pc>>
  <2>1. PICK s \in Nat : s = i + 1
    OBVIOUS
  <2>2. PICK x : x = [my[e] EXCEPT !.slot = s]
    OBVIOUS
  <2>3. x \in UserLocals /\ x.hash = my[e].hash /\ x.made = my[e].made
    BY <1>2, <2>2 DEF UserLocals
  <2>4. Locals(e, x) /\ Goto(e, "probe") /\ tables' = tables
    BY <1>1, <1>2, <1>8, <2>1, <2>2, LocalsSame DEF Goto
  <2>5. /\ pc'[e] = "probe" /\ my'[e] = x
        /\ \A d \in Enqueuers \ {e} : pc'[d] = pc[d] /\ my'[d] = my[d]
    BY <1>1, <2>3, <2>4, EnqueuerMoves DEF Labels
  <2>6. EnqueuerOK(e)'
    BY <1>1, <1>2, <1>4, <1>5, <2>3, <2>4, <2>5, SameTables DEF EnqueuerOK, Waiting, Entering
  <2>7. \A q \in Nat : Owns(e, q)' => Owns(e, q)
    BY <2>3, <2>4, <2>5 DEF Owns
  <2>8. ~Waiting(e)' /\ Entering(e)' /\ ~HasLock(e)'
    BY <2>5 DEF Waiting, Entering, HasLock
  <2>9. (e \in Reserved <=> e \in Reserved')
    BY <1>3, <2>8 DEF Reserved
  <2>10. \A g \in 1 .. Len(tables) : my'[e].hash <= g => e \in Admitted(g)
    BY <1>3, <2>3, <2>5 DEF Admitted
  <2>11. HashOK'
    <3>1. Len(prod) \in Nat /\ Len(prod') = Len(prod)
      BY <1>1, <1>2 DEF Places
    <3>2. /\ tables' = tables /\ hashCount' = hashCount /\ (resizing' <=> resizing)
          /\ \A d \in Enqueuers \ {e} : pc'[d] = pc[d] /\ my'[d] = my[d]
      BY <1>2, <2>4, <2>5
    <3>3. HashOK /\ ~HasLock(e)
      BY <1>1, <1>3
    <3>4. QED
      BY <2>6, <2>7, <2>8, <2>9, <2>10, <3>1, <3>2, <3>3, HashTurn
  <2>12. QED
    BY <1>2, <2>3, <2>4, <2>11, EnqueuerTurn DEF Labels
<1>9. CASE /\ tables[h][i].key = NoOne
           /\ tables' = [tables EXCEPT ![h][i] = [key |-> e, value |-> p]]
           /\ Goto(e, "enqueue") /\ Locals(e, [NoLocals EXCEPT !.made = p])
  <2>1. PICK x : x = [NoLocals EXCEPT !.made = p]
    OBVIOUS
  <2>2. x \in UserLocals /\ x.made = p /\ Locals(e, x)
    BY <1>9, <2>1, NoLocalsFacts DEF UserLocals
  <2>3. /\ pc'[e] = "enqueue" /\ my'[e] = x
        /\ \A d \in Enqueuers \ {e} : pc'[d] = pc[d] /\ my'[d] = my[d]
    BY <1>1, <1>9, <2>2, EnqueuerMoves DEF Labels
  <2>4. PICK s : s = [key |-> e, value |-> p]
    OBVIOUS
  <2>5. s \in Slot /\ s.key = e /\ s.value = p
    BY <2>4 DEF Slot
  <2>6. i \in DOMAIN tables[h] /\ tables' = [tables EXCEPT ![h][i] = s]
    BY <1>6, <1>9, <2>4
  <2>7. /\ tables' \in Seq(Table) /\ Len(tables') = Len(tables) /\ tables' # <<>>
        /\ \A g \in 1 .. Len(tables) : DOMAIN tables'[g] = DOMAIN tables[g]
        /\ \A g \in 1 .. Len(tables) : g # h => tables'[g] = tables[g]
        /\ tables'[h][i] = s /\ \A j \in DOMAIN tables[h] \ {i} : tables'[h][j] = tables[h][j]
    BY <1>1, <2>5, <2>6, PutFacts
  <2>8. /\ \A g \in 1 .. Len(tables) : Capacity(g)' = Capacity(g) /\ Room(g)' = Room(g)
        /\ \A d \in Enqueuers \ {e} : \A g \in 1 .. Len(tables) : Has(d, g)' <=> Has(d, g)
        /\ \A g \in 1 .. Len(tables) : Has(e, g)' <=> g = h \/ Has(e, g)
    <3>1. \A g \in 1 .. Len(tables) : Capacity(g)' = Capacity(g) /\ Room(g)' = Room(g)
      BY <2>7 DEF Capacity, Room
    <3>2. NoOne \notin Enqueuers
      BY NoOneFacts
    <3>3. ASSUME NEW d \in Enqueuers, NEW g \in 1 .. Len(tables)
          PROVE  Has(d, g)' <=> (d = e /\ g = h) \/ Has(d, g)
      <4>1. CASE g # h
        BY <2>7, <4>1 DEF Has
      <4>2. CASE g = h
        <5>1. \A j \in DOMAIN tables[h] : tables'[h][j].key = IF j = i THEN e ELSE tables[h][j].key
          BY <2>5, <2>7
        <5>2. QED
          BY <1>9, <2>6, <2>7, <3>2, <4>2, <5>1 DEF Has
      <4>3. QED
        BY <4>1, <4>2
    <3>4. QED
      BY <3>1, <3>3
  <2>9. /\ \A d \in Enqueuers \ {e} : Known(d)' <=> Known(d)
        /\ Known(e)'
    BY <2>7, <2>8 DEF Known
  <2>10. ASSUME NEW d \in Enqueuers, NEW q \in Nat, Owns(d, q)' PROVE Owns(d, q)
    <3>1. \A u \in Enqueuers : my'[u].made = my[u].made
      BY <1>5, <2>2, <2>3
    <3>2. CASE my[d].made = q /\ q # NoOne
      BY <3>2 DEF Owns
    <3>3. CASE ~(my[d].made = q /\ q # NoOne)
      <4>1. PICK g \in 1 .. Len(tables) : \E j \in DOMAIN tables'[g] :
              tables'[g][j].key = d /\ tables'[g][j].value = q
        BY <2>7, <2>10, <3>1, <3>3 DEF Owns
      <4>2. CASE g # h
        BY <2>7, <4>1, <4>2 DEF Owns
      <4>3. CASE g = h
        <5>1. PICK j \in DOMAIN tables[h] : tables'[h][j].key = d /\ tables'[h][j].value = q
          BY <2>7, <4>1, <4>3
        <5>2. CASE j = i
          BY <1>5, <2>5, <2>7, <3>3, <5>1, <5>2
        <5>3. CASE j # i
          BY <2>7, <5>1, <5>3 DEF Owns
        <5>4. QED
          BY <5>2, <5>3
      <4>4. QED
        BY <4>2, <4>3
    <3>4. QED
      BY <3>2, <3>3
  <2>11. \A d \in Enqueuers \ {e} : /\ Waiting(d)' <=> Waiting(d)
                                    /\ Entering(d)' <=> Entering(d)
                                    /\ HasLock(d)' <=> HasLock(d)
    BY <2>3 DEF Waiting, Entering, HasLock
  <2>12. ~Waiting(e)' /\ ~Entering(e)' /\ ~HasLock(e)'
    BY <2>3 DEF Waiting, Entering, HasLock
  <2>13. EnqueuerOK(e)'
    BY <1>5, <2>2, <2>3, <2>12 DEF EnqueuerOK
  <2>14. ASSUME NEW d \in Enqueuers \ {e} PROVE EnqueuerOK(d)'
    <3>1. EnqueuerOK(d) /\ pc'[d] = pc[d] /\ my'[d] = my[d]
      BY <1>1, <2>3 DEF HashOK
    <3>2. QED
      BY <2>7, <2>8, <2>9, <2>11, <3>1 DEF EnqueuerOK, Waiting, Entering
  <2>15. Reserved' = Reserved
    BY <1>3, <2>9, <2>11 DEF Reserved
  <2>16. ASSUME NEW g \in 1 .. Len(tables), NEW k \in Nat
         PROVE  Admitted(g)' \cup WaitingWith(k)' \subseteq Admitted(g) \cup WaitingWith(k)
    <3>1. WaitingWith(k)' \subseteq WaitingWith(k)
      BY <2>3, <2>11, <2>12 DEF WaitingWith
    <3>2. \A d \in Enqueuers \ {e} : d \in Admitted(g)' => d \in Admitted(g)
      <4>1. \A f \in 1 .. g : f \in 1 .. Len(tables)
        BY <1>1 DEF HashOK
      <4>2. QED
        BY <2>3, <2>8, <2>11, <4>1 DEF Admitted
    <3>3. e \in Admitted(g)' => e \in Admitted(g)
      <4>1. \A f \in 1 .. g : f \in 1 .. Len(tables) /\ (f = h => h <= g)
        BY <1>1 DEF HashOK
      <4>2. QED
        BY <1>3, <1>4, <2>8, <2>12, <4>1 DEF Admitted
    <3>4. QED
      BY <3>1, <3>2, <3>3 DEF Admitted
  <2>17. ASSUME NEW g \in 1 .. Len(tables), NEW k \in Nat, k + 1 >= Room(g)
         PROVE  Cardinality(Admitted(g)' \cup WaitingWith(k)') <= k
    <3>1. Admitted(g) \cup WaitingWith(k) \in SUBSET Enqueuers
      BY DEF Admitted, WaitingWith
    <3>2. Cardinality(Admitted(g) \cup WaitingWith(k)) <= k
      BY <1>1, <2>17 DEF HashOK
    <3>3. QED
      BY <2>16, <3>1, <3>2, FewerThreads
  <2>18. \A g \in 1 .. Len(tables) : KeysDiffer(tables'[g])
    <3>1. ASSUME NEW g \in 1 .. Len(tables) PROVE KeysDiffer(tables'[g])
      <4>1. KeysDiffer(tables[g])
        BY <1>1 DEF HashOK
      <4>2. CASE g # h
        BY <2>7, <4>1, <4>2
      <4>3. CASE g = h
        <5>1. \A j \in DOMAIN tables[h] : tables'[h][j].key = IF j = i THEN e ELSE tables[h][j].key
          BY <2>5, <2>7
        <5>2. \A j \in DOMAIN tables[h] : tables[h][j].key # e
          BY <1>4 DEF Has
        <5>3. QED
          BY <2>7, <4>1, <4>3, <5>1, <5>2 DEF KeysDiffer
      <4>4. QED
        BY <4>2, <4>3
    <3>2. QED
      BY <3>1
  <2>19. HashOK'
    <3>1. /\ hashCount' = Cardinality(Reserved') /\ Len(prod') = Len(prod)
          /\ \A d, f \in Enqueuers : HasLock(d)' /\ HasLock(f)' => d = f
          /\ resizing' <=> \E d \in Enqueuers : HasLock(d)'
      BY <1>1, <1>2, <1>3, <2>11, <2>12, <2>15 DEF HashOK
    <3>2. /\ \A d \in Enqueuers : \A q \in Nat : Owns(d, q)' => q \in 1 .. Len(prod')
          /\ \A d \in Enqueuers : \A q, r \in Nat : Owns(d, q)' /\ Owns(d, r)' => q = r
          /\ \A d, f \in Enqueuers : \A q \in Nat : Owns(d, q)' /\ Owns(f, q)' => d = f
      BY <1>1, <2>10, <3>1 DEF HashOK
    <3>3. \A g, k \in 1 .. Len(tables) : g <= k => Capacity(g)' <= Capacity(k)'
      BY <1>1, <2>8 DEF HashOK
    <3>4. \A g \in 1 .. Len(tables) : \A k \in Nat :
            k + 1 >= Room(g)' => Cardinality(Admitted(g)' \cup WaitingWith(k)') <= k
      BY <2>8, <2>17
    <3>5. \A d \in Enqueuers : EnqueuerOK(d)'
      BY <2>13, <2>14
    <3>6. QED
      BY <2>7, <2>18, <3>1, <3>2, <3>3, <3>4, <3>5 DEF HashOK
  <2>20. QED
    BY <1>2, <1>9, <2>2, <2>19, EnqueuerTurn DEF Labels
<1>10. QED
  BY <1>4, <1>5, <1>6, <1>7, <1>8, <1>9 DEF Probe

\* A new table has room for all that the last one has admitted, and for more.
LEMMA AllocateGrows ==
  ASSUME IInv, NEW e \in Enqueuers, pc[e] = "allocate",
         tables' = Append(tables, EmptyTable(my[e].newCapacity)),
         Locals(e, [my[e] EXCEPT !.hash = Len(tables) + 1, !.newCapacity = 0]),
         Goto(e, "unlock"),
         UNCHANGED <<prod, listVars, hashCount, resizing, consumerVars, token, calls, full>>
  PROVE  IInv'
<1>1. TypeOK /\ HashOK /\ Places /\ EnqueuerOK(e)
  BY PlacesHold DEF IInv, HashOK
<1>2. /\ calls' \in Nat /\ prod' = prod /\ my[e] \in UserLocals
      /\ UNCHANGED <<prod, listVars, consumerVars, token, full>>
      /\ hashCount' = hashCount /\ resizing' = resizing /\ resizing' \in BOOLEAN
  BY <1>1, LocalsSame, ThreadFacts DEF TypeOK
<1>3. Waiting(e) /\ ~Entering(e) /\ HasLock(e)
  BY DEF Waiting, Entering, HasLock
<1>4. PICK n \in Nat : n = Len(tables) /\ n \in 1 .. Len(tables)
  BY <1>1, EmptySeq, LenProperties DEF HashOK
<1>5. PICK c \in Nat \ {0} : c = my[e].newCapacity /\ c >= Capacity(n)
  BY <1>1, <1>2, <1>4 DEF EnqueuerOK, UserLocals
<1>6. PICK z \in Nat : z = 0
  OBVIOUS
<1>7. PICK x : x = [my[e] EXCEPT !.hash = n + 1, !.newCapacity = z]
  OBVIOUS
<1>8. /\ x \in UserLocals /\ x.hash = n + 1 /\ x.made = my[e].made /\ x.newCount = my[e].newCount
  <2>1. PICK m \in Nat : m = n + 1
    OBVIOUS
  <2>2. my[e] \in UserLocals /\ x = [my[e] EXCEPT !.hash = m, !.newCapacity = z]
    BY <1>2, <1>7, <2>1
  <2>3. /\ x \in UserLocals /\ x.hash = m /\ x.made = my[e].made /\ x.newCount = my[e].newCount
    BY <2>2 DEF UserLocals
  <2>4. QED
    BY <2>1, <2>3
<1>9. Locals(e, x)
  BY <1>4, <1>6, <1>7
<1>10. /\ pc'[e] = "unlock" /\ my'[e] = x
       /\ \A d \in Enqueuers \ {e} : pc'[d] = pc[d] /\ my'[d] = my[d]
  BY <1>1, <1>8, <1>9, EnqueuerMoves DEF Labels
<1>11. PICK t : t = EmptyTable(c)
  OBVIOUS
<1>12. /\ t \in Table /\ DOMAIN t = 0 .. c - 1
       /\ \A i \in DOMAIN t : t[i].key = NoOne /\ t[i].value = NoOne
  <2>1. Vacant \in Slot /\ Vacant.key = NoOne /\ Vacant.value = NoOne
    BY NoOneFacts DEF Vacant, Slot
  <2>2. t \in [0 .. c - 1 -> Slot] /\ \A i \in 0 .. c - 1 : t[i] = Vacant
    BY <1>11, <2>1 DEF EmptyTable
  <2>3. QED
    BY <2>1, <2>2 DEF Table
<1>13. /\ tables' \in Seq(Table) /\ Len(tables') = n + 1 /\ tables'[n + 1] = t
       /\ \A h \in 1 .. n : tables'[h] = tables[h]
  <2>1. tables \in Seq(Table) /\ tables' = Append(tables, t)
    BY <1>1, <1>5, <1>11 DEF HashOK
  <2>2. QED
    BY <1>4, <1>12, <2>1, AddLast
<1>14. /\ \A h \in 1 .. n : Capacity(h)' = Capacity(h) /\ Room(h)' = Room(h)
       /\ Capacity(n + 1)' = c /\ Room(n + 1)' = (c \div 2) + (c \div 4)
  <2>1. \A h \in 1 .. n : Capacity(h)' = Capacity(h)
    BY <1>13 DEF Capacity
  <2>2. Capacity(n + 1)' = c
    BY <1>12, <1>13, UpTo DEF Capacity
  <2>3. QED
    BY <2>1, <2>2 DEF Room
<1>15. /\ \A d \in Enqueuers : \A h \in 1 .. n : Has(d, h)' <=> Has(d, h)
       /\ \A d \in Enqueuers : ~Has(d, n + 1)'
  <2>1. NoOne \notin Enqueuers
    BY NoOneFacts
  <2>2. QED
    BY <1>12, <1>13, <2>1 DEF Has
<1>16. \A h : h \in 1 .. n + 1 <=> h \in 1 .. n \/ h = n + 1
  OBVIOUS
<1>17. \A d \in Enqueuers : Known(d)' <=> Known(d)
  BY <1>4, <1>13, <1>15, <1>16 DEF Known
<1>18. ASSUME NEW d \in Enqueuers, NEW p \in Nat, Owns(d, p)' PROVE Owns(d, p)
  <2>1. my'[d].made = my[d].made
    BY <1>8, <1>10
  <2>2. ASSUME NEW h \in 1 .. n + 1, NEW i \in DOMAIN tables'[h],
               tables'[h][i].key = d, tables'[h][i].value = p
        PROVE  Owns(d, p)
    <3>1. h # n + 1
      BY <1>12, <1>13, <2>2, NoOneFacts
    <3>2. h \in 1 .. n
      BY <1>16, <3>1
    <3>3. QED
      BY <1>4, <1>13, <2>2, <3>2 DEF Owns
  <2>3. QED
    BY <1>13, <1>18, <2>1, <2>2 DEF Owns
<1>19. \A d \in Enqueuers : /\ Waiting(d)' <=> Waiting(d)
                            /\ Entering(d)' <=> Entering(d)
                            /\ HasLock(d)' <=> HasLock(d)
  BY <1>3, <1>10 DEF Waiting, Entering, HasLock
<1>20. EnqueuerOK(e)'
  <2>1. ~Known(e) /\ my[e].made = NoOne /\ my[e].newCount > 0
    BY <1>1, <1>3 DEF EnqueuerOK
  <2>2. n + 1 \in 1 .. Len(tables')
    BY <1>13
  <2>3. QED
    BY <1>8, <1>10, <1>17, <2>1, <2>2 DEF EnqueuerOK, Waiting, Entering
<1>21. ASSUME NEW d \in Enqueuers \ {e} PROVE EnqueuerOK(d)'
  <2>1. EnqueuerOK(d) /\ pc'[d] = pc[d] /\ my'[d] = my[d]
    BY <1>1, <1>10 DEF HashOK
  <2>2. pc[d] # "allocate"
    BY <1>1, <1>3 DEF HashOK, HasLock
  <2>3. Waiting(d) \/ Entering(d) \/ pc[d] = "reserve" =>
          my[d].hash \in 1 .. n /\ my[d].hash \in 1 .. Len(tables')
    BY <1>4, <1>13, <1>16, <2>1 DEF EnqueuerOK
  <2>4. pc[d] = "probe" => ~Has(d, my[d].hash)'
    BY <1>15, <2>1, <2>3 DEF EnqueuerOK, Entering
  <2>5. QED
    BY <1>17, <1>19, <2>1, <2>2, <2>3, <2>4 DEF EnqueuerOK
<1>22. Reserved' = Reserved
  BY <1>17, <1>19 DEF Reserved
<1>23. \A k : WaitingWith(k)' = WaitingWith(k)
  BY <1>8, <1>10, <1>19 DEF WaitingWith
<1>24. \A h \in 1 .. n : Admitted(h)' \subseteq Admitted(h)
  <2>1. ASSUME NEW h \in 1 .. n, NEW d \in Enqueuers, d \in Admitted(h)' PROVE d \in Admitted(h)
    <3>1. \A g \in 1 .. h : g \in 1 .. n
      OBVIOUS
    <3>2. Entering(d) => my'[d] = my[d]
      BY <1>3, <1>10
    <3>3. QED
      BY <1>15, <1>19, <2>1, <3>1, <3>2 DEF Admitted
  <2>2. QED
    BY <2>1 DEF Admitted
<1>25. Admitted(n + 1)' \subseteq Admitted(n)
  <2>1. ASSUME NEW d \in Enqueuers, d \in Admitted(n + 1)' PROVE d \in Admitted(n)
    <3>1. CASE \E g \in 1 .. n + 1 : Has(d, g)'
      <4>1. \E g \in 1 .. n : Has(d, g)
        BY <1>15, <1>16, <3>1
      <4>2. QED
        BY <4>1 DEF Admitted
    <3>2. CASE Entering(d)
      <4>1. my[d].hash \in 1 .. n
        BY <1>1, <1>4, <3>2 DEF HashOK, EnqueuerOK
      <4>2. my[d].hash <= n
        BY <4>1
      <4>3. QED
        BY <3>2, <4>2 DEF Admitted
    <3>3. QED
      BY <1>19, <2>1, <3>1, <3>2 DEF Admitted
  <2>2. QED
    BY <2>1 DEF Admitted
<1>26. ASSUME NEW h \in 1 .. n, NEW k \in Nat, k + 1 >= Room(h),
              NEW S, S \subseteq Admitted(h)
       PROVE  Cardinality(S \cup WaitingWith(k)) <= k
  <2>1. Admitted(h) \cup WaitingWith(k) \in SUBSET Enqueuers
    BY DEF Admitted, WaitingWith
  <2>2. Cardinality(Admitted(h) \cup WaitingWith(k)) <= k
    BY <1>1, <1>4, <1>26 DEF HashOK
  <2>3. S \cup WaitingWith(k) \subseteq Admitted(h) \cup WaitingWith(k)
    BY <1>26
  <2>4. QED
    BY <2>1, <2>2, <2>3, FewerThreads
<1>27. Room(n) \in Nat /\ Room(n) <= (c \div 2) + (c \div 4) /\ (c \div 2) + (c \div 4) \in Nat
  <2>1. Capacity(n) \in Nat
    BY <1>1, <1>4, CapacityFacts
  <2>2. QED
    BY <1>5, <2>1, RoomOf DEF Room
<1>28. ASSUME NEW h \in 1 .. n + 1, NEW k \in Nat, k + 1 >= Room(h)'
       PROVE  Cardinality(Admitted(h)' \cup WaitingWith(k)') <= k
  <2>1. CASE h = n + 1
    <3>1. k + 1 >= Room(n)
      BY <1>14, <1>27, <1>28, <2>1
    <3>2. n \in 1 .. n
      BY <1>4
    <3>3. Admitted(h)' \subseteq Admitted(n)
      BY <1>25, <2>1
    <3>4. Cardinality(Admitted(h)' \cup WaitingWith(k)) <= k
      BY <1>26, <3>1, <3>2, <3>3
    <3>5. QED
      BY <1>23, <3>4
  <2>2. CASE h # n + 1
    <3>1. h \in 1 .. n /\ Admitted(h)' \subseteq Admitted(h) /\ k + 1 >= Room(h)
      BY <1>14, <1>16, <1>24, <1>28, <2>2
    <3>2. Cardinality(Admitted(h)' \cup WaitingWith(k)) <= k
      BY <1>26, <3>1
    <3>3. QED
      BY <1>23, <3>2
  <2>3. QED
    BY <2>1, <2>2
<1>29. ASSUME NEW g \in 1 .. n + 1, NEW h \in 1 .. n + 1, g <= h
       PROVE  Capacity(g)' <= Capacity(h)'
  <2>1. CASE h \in 1 .. n
    <3>1. g \in 1 .. n
      BY <1>29, <2>1
    <3>2. Capacity(g) <= Capacity(h)
      BY <1>1, <1>4, <1>29, <2>1, <3>1 DEF HashOK
    <3>3. QED
      BY <1>14, <2>1, <3>1, <3>2
  <2>2. CASE h = n + 1 /\ g = n + 1
    BY <1>14, <2>2
  <2>3. CASE h = n + 1 /\ g \in 1 .. n
    <3>1. Capacity(g) <= Capacity(n) /\ Capacity(g) \in Nat /\ Capacity(n) \in Nat
      BY <1>1, <1>4, <2>3, CapacityFacts DEF HashOK
    <3>2. Capacity(g) <= c
      BY <1>5, <3>1
    <3>3. QED
      BY <1>14, <2>3, <3>2
  <2>4. QED
    BY <1>16, <2>1, <2>2, <2>3
<1>30. \A h \in 1 .. n + 1 : KeysDiffer(tables'[h])
  <2>1. \A h \in 1 .. n : KeysDiffer(tables[h])
    BY <1>1, <1>4 DEF HashOK
  <2>2. KeysDiffer(t)
    BY <1>12 DEF KeysDiffer
  <2>3. QED
    BY <1>13, <1>16, <2>1, <2>2
<1>31. HashOK'
  <2>1. /\ hashCount' = Cardinality(Reserved') /\ Len(prod') = Len(prod)
        /\ \A d, f \in Enqueuers : HasLock(d)' /\ HasLock(f)' => d = f
        /\ resizing' <=> \E d \in Enqueuers : HasLock(d)'
    BY <1>1, <1>2, <1>19, <1>22 DEF HashOK
  <2>2. /\ \A d \in Enqueuers : \A q \in Nat : Owns(d, q)' => q \in 1 .. Len(prod')
        /\ \A d \in Enqueuers : \A q, r \in Nat : Owns(d, q)' /\ Owns(d, r)' => q = r
        /\ \A d, f \in Enqueuers : \A q \in Nat : Owns(d, q)' /\ Owns(f, q)' => d = f
    BY <1>1, <1>18, <2>1 DEF HashOK
  <2>3. tables' # <<>>
    BY <1>13, EmptySeq
  <2>4. \A d \in Enqueuers : EnqueuerOK(d)'
    BY <1>20, <1>21
  <2>5. QED
    BY <1>13, <1>28, <1>29, <1>30, <2>1, <2>2, <2>3, <2>4 DEF HashOK
<1>32. QED
  BY <1>2, <1>8, <1>9, <1>31, EnqueuerTurn DEF Labels

LEMMA AllocateInv ==
  ASSUME IInv, NEW e \in Enqueuers, Allocate(e)
  PROVE  IInv'
BY AllocateGrows, AllocateFails DEF Allocate

-----------------------------------------------------------------------------
(* The steps of an enqueuer that change the producers.                     *)

LEMMA EnqueueInv ==
  ASSUME IInv, NEW e \in Enqueuers, NEW n \in Batches, Enqueue(e, n)
  PROVE  IInv'
<1>1. TypeOK /\ ListOK /\ HashOK /\ TokensOK /\ ConsumersOK /\ Places /\ EnqueuerOK(e)
  BY PlacesHold DEF IInv, HashOK
<1>2. /\ pc[e] = "enqueue" /\ n \in Nat /\ Goto(e, "idle") /\ Locals(e, NoLocals)
      /\ UNCHANGED <<listVars, hashVars, consumerVars, token, calls, full>>
      /\ tables' = tables /\ hashCount' = hashCount /\ resizing' = resizing
  BY ConcurrentQueueAssumption DEF Enqueue, ConcurrentQueueAssumption, hashVars
<1>3. ~Waiting(e) /\ ~Entering(e) /\ ~HasLock(e)
  BY <1>2 DEF Waiting, Entering, HasLock
<1>4. PICK p \in 1 .. Len(prod) : p = my[e].made
  <2>1. my[e].made # NoOne /\ my[e].made \in Nat
    BY <1>1, <1>2, LocalsSame, ThreadFacts DEF EnqueuerOK
  <2>2. Owns(e, my[e].made)
    BY <2>1 DEF Owns
  <2>3. QED
    BY <1>1, <2>1, <2>2 DEF HashOK
<1>5. prod \in Seq(Producer) /\ Len(prod) \in Nat
  BY <1>1 DEF TypeOK, Places
<1>6. PICK s \in Nat : s = prod[p].size
  <2>1. prod[p] \in Producer
    BY <1>5, ElementOfSeq
  <2>2. QED
    BY <2>1 DEF Producer
<1>7. PICK m \in Nat : m = s + n /\ m >= s
  BY <1>2
<1>8. prod' = [prod EXCEPT ![p].size = m]
  BY <1>4, <1>6, <1>7 DEF Enqueue
<1>9. /\ prod' \in Seq(Producer) /\ Len(prod') = Len(prod) /\ prod'[p].size = m
      /\ \A q \in 1 .. Len(prod) : /\ prod'[q].token = prod[q].token
                                   /\ prod'[q].explicit = prod[q].explicit
                                   /\ prod'[q].inactive = prod[q].inactive
                                   /\ q # p => prod'[q].size = prod[q].size
  <2>1. prod \in Seq(Producer)
    BY <1>5
  <2>2. QED
    BY <1>8, <2>1, SetSize, SMTT(60)
<1>10. \A q \in 1 .. Len(prod) : prod'[q].size >= prod[q].size
  <2>1. ASSUME NEW q \in 1 .. Len(prod) PROVE prod'[q].size >= prod[q].size
    <3>1. prod[q] \in Producer
      BY <1>5, ElementOfSeq
    <3>2. PICK z \in Nat : z = prod[q].size
      BY <3>1 DEF Producer
    <3>3. QED
      BY <1>6, <1>7, <1>9, <3>2
  <2>2. QED
    BY <2>1
<1>11. /\ pc' \in [Threads -> Labels] /\ pc'[e] = "idle" /\ \A u \in Threads \ {e} : pc'[u] = pc[u]
       /\ my' \in [Users -> UserLocals] /\ my'[e] = NoLocals /\ \A u \in Users \ {e} : my'[u] = my[u]
       /\ \A d \in Enqueuers \ {e} : pc'[d] = pc[d] /\ my'[d] = my[d]
       /\ \A k \in Tokens : pc'[k] = pc[k] /\ my'[k] = my[k]
       /\ \A c \in Consumers : pc'[c] = pc[c]
  BY <1>1, <1>2, NoLocalsFacts, EnqueuerMoves DEF Labels
<1>12. TypeOK'
  BY <1>1, <1>2, <1>9, <1>11 DEF TypeOK, listVars, hashVars, consumerVars
<1>13. /\ list' = list /\ producerCount' = producerCount /\ token' = token
       /\ ctoken' = ctoken /\ call' = call /\ full' = full
  BY <1>2 DEF listVars, consumerVars
<1>14. ListOK'
  <2>1. \A t \in Users : pc'[t] = "push" => pc[t] = "push" /\ my'[t].made = my[t].made
    BY <1>11, ThreadFacts
  <2>2. QED
    BY <1>1, <1>9, <1>13, <2>1, ListFrame
<1>15. HashOK'
  <2>1. EnqueuerOK(e)'
    BY <1>11, NoLocalsFacts DEF EnqueuerOK, Waiting, Entering
  <2>2. \A q \in Nat : Owns(e, q)' => Owns(e, q)
    BY <1>2, <1>11, NoLocalsFacts DEF Owns
  <2>3. ~Waiting(e)' /\ ~Entering(e)' /\ ~HasLock(e)'
    BY <1>11 DEF Waiting, Entering, HasLock
  <2>4. (e \in Reserved <=> e \in Reserved')
    BY <1>2, <1>3, <2>3, SameTables DEF Reserved
  <2>5. HashOK /\ ~HasLock(e) /\ (resizing' <=> resizing)
    BY <1>1, <1>2, <1>3
  <2>6. QED
    BY <1>2, <1>5, <1>9, <1>11, <2>1, <2>2, <2>3, <2>4, <2>5, HashTurn
<1>16. TokensOK'
  <2>1. /\ \A q \in 1 .. Len(prod') : q > Len(prod) => ~prod'[q].inactive
        /\ \A q : Listed(list, q) => Listed(list', q)
    BY <1>5, <1>9, <1>13
  <2>2. QED
    BY <1>1, <1>5, <1>9, <1>11, <1>13, <2>1, TokensFrame
<1>17. ConsumersOK'
  <2>1. ListGrows
    BY <1>5, <1>9, <1>10, <1>13 DEF ListGrows
  <2>2. QED
    BY <1>1, <1>11, <1>12, <1>13, <2>1, ConsumersFrame
<1>18. QED
  BY <1>12, <1>14, <1>15, <1>16, <1>17 DEF IInv

LEMMA CreateInv ==
  ASSUME IInv, NEW e \in Enqueuers, Create(e)
  PROVE  IInv'
<1>1. TypeOK /\ ListOK /\ HashOK /\ TokensOK /\ ConsumersOK /\ Places /\ EnqueuerOK(e)
  BY PlacesHold DEF IInv, HashOK
<1>2. /\ pc[e] = "create" /\ my[e] \in UserLocals /\ e \in Users /\ e \notin Tokens
      /\ UNCHANGED <<list, tables, resizing, consumerVars, token, calls, full>>
      /\ list' = list /\ tables' = tables /\ resizing' = resizing /\ token' = token
      /\ ctoken' = ctoken /\ call' = call /\ full' = full
  BY <1>1, LocalsSame, ThreadFacts DEF Create, consumerVars
<1>3. ~Waiting(e) /\ Entering(e) /\ ~HasLock(e)
  BY <1>2 DEF Waiting, Entering, HasLock
<1>4. CASE /\ hashCount' = hashCount - 1 /\ Locals(e, NoLocals) /\ Goto(e, "idle")
           /\ UNCHANGED <<prod, producerCount>>
  <2>1. UNCHANGED <<prod, listVars, tables, resizing, consumerVars, token, calls, full>>
    BY <1>2, <1>4 DEF listVars
  <2>2. QED
    BY <1>2, <1>4, <2>1, CreateFails
<1>5. CASE /\ prod' = Append(prod, NewProducer(e \in Tokens))
           /\ producerCount' = producerCount + 1
           /\ Locals(e, [my[e] EXCEPT !.made = Len(prod) + 1]) /\ Goto(e, "push")
           /\ UNCHANGED hashCount
  <2>1. PICK n \in Nat : n = Len(prod)
    BY <1>1 DEF Places
  <2>2. PICK m \in Nat : m = n + 1
    OBVIOUS
  <2>3. PICK x : x = [my[e] EXCEPT !.made = m]
    OBVIOUS
  <2>4. x \in UserLocals /\ x.made = m /\ x.hash = my[e].hash
    BY <1>2, <2>3 DEF UserLocals
  <2>5. Locals(e, x) /\ Goto(e, "push")
    BY <1>5, <2>1, <2>2, <2>3
  <2>6. /\ pc' \in [Threads -> Labels] /\ pc'[e] = "push" /\ \A u \in Threads \ {e} : pc'[u] = pc[u]
        /\ my' \in [Users -> UserLocals] /\ my'[e] = x /\ \A u \in Users \ {e} : my'[u] = my[u]
        /\ \A d \in Enqueuers \ {e} : pc'[d] = pc[d] /\ my'[d] = my[d]
        /\ \A k \in Tokens : pc'[k] = pc[k] /\ my'[k] = my[k]
        /\ \A c \in Consumers : pc'[c] = pc[c]
    BY <1>1, <2>4, <2>5, EnqueuerMoves DEF Labels
  <2>7. PICK b \in BOOLEAN : (b <=> e \in Tokens) /\ prod' = Append(prod, NewProducer(b))
    <3>1. PICK b \in BOOLEAN : b <=> e \in Tokens
      BY Zenon
    <3>2. b = (e \in Tokens)
      BY <3>1, Zenon
    <3>3. prod' = Append(prod, NewProducer(e \in Tokens))
      BY <1>5
    <3>4. prod' = Append(prod, NewProducer(b))
      BY <3>2, <3>3, Zenon
    <3>5. QED
      BY <3>1, <3>4, Zenon
  <2>8. /\ ListOK' /\ ListGrows /\ prod' \in Seq(Producer) /\ producerCount' \in Nat
        /\ Len(prod') = n + 1 /\ \A q \in 1 .. n : prod'[q] = prod[q]
        /\ ~prod'[n + 1].inactive
    <3>1. my'[e].made = Len(prod) + 1 /\ \A u \in Users \ {e} : pc'[u] = pc[u] /\ my'[u] = my[u]
      BY <2>1, <2>2, <2>4, <2>6, ThreadFacts
    <3>2. QED
      BY <1>2, <1>5, <2>1, <2>6, <2>7, <3>1, CreateFacts
  <2>9. TypeOK'
    BY <1>1, <1>2, <1>5, <2>6, <2>8 DEF TypeOK, consumerVars
  <2>10. HashOK'
    <3>1. /\ my[e].hash \in 1 .. Len(tables) /\ ~Known(e) /\ my[e].made = NoOne
      BY <1>1, <1>2, <1>3 DEF EnqueuerOK, Waiting
    <3>2. m # NoOne
      BY <2>2, NoOneFacts
    <3>3. EnqueuerOK(e)'
      BY <1>2, <2>4, <2>6, <3>1, <3>2, SameTables DEF EnqueuerOK, Waiting, Entering
    <3>4. \A p \in Nat : Owns(e, p)' => p = n + 1
      BY <1>2, <2>2, <2>4, <2>6, <3>1 DEF Owns, Known, Has
    <3>5. ~Waiting(e)' /\ Entering(e)' /\ ~HasLock(e)'
      BY <2>6 DEF Waiting, Entering, HasLock
    <3>6. (e \in Reserved <=> e \in Reserved')
      BY <1>3, <3>5 DEF Reserved
    <3>7. \A g \in 1 .. Len(tables) : my'[e].hash <= g => e \in Admitted(g)
      BY <1>3, <2>4, <2>6 DEF Admitted
    <3>8. HashOK /\ ~HasLock(e) /\ (resizing' <=> resizing) /\ hashCount' = hashCount
      BY <1>1, <1>2, <1>3, <1>5
    <3>9. Len(prod') > Len(prod)
      BY <2>1, <2>8
    <3>10. QED
      BY <1>2, <2>1, <2>6, <2>8, <3>3, <3>4, <3>5, <3>6, <3>7, <3>8, <3>9, HashTurn
  <2>11. TokensOK'
    <3>1. \A p \in 1 .. n + 1 : p > n => p = n + 1
      OBVIOUS
    <3>2. /\ \A p \in 1 .. Len(prod') : p > Len(prod) => ~prod'[p].inactive
          /\ \A p : Listed(list, p) => Listed(list', p)
          /\ \A p \in 1 .. Len(prod) : /\ prod'[p].token = prod[p].token
                                       /\ prod'[p].explicit = prod[p].explicit
                                       /\ prod'[p].inactive = prod[p].inactive
      BY <1>2, <2>1, <2>8, <3>1
    <3>3. Len(prod) \in Nat /\ Len(prod') \in Nat /\ Len(prod') >= Len(prod)
      BY <2>1, <2>8
    <3>4. QED
      BY <1>1, <1>2, <2>6, <3>2, <3>3, TokensFrame
  <2>12. ConsumersOK'
    BY <1>1, <1>2, <2>6, <2>8, <2>9, ConsumersFrame
  <2>13. QED
    BY <2>8, <2>9, <2>10, <2>11, <2>12 DEF IInv
<1>6. QED
  BY <1>2, <1>4, <1>5 DEF Create

LEMMA PushInv ==
  ASSUME IInv, NEW e \in Enqueuers, Push(e)
  PROVE  IInv'
<1>1. TypeOK /\ ListOK /\ HashOK /\ TokensOK /\ ConsumersOK /\ Places /\ EnqueuerOK(e)
  BY PlacesHold DEF IInv, HashOK
<1>2. /\ pc[e] = "push" /\ my[e] \in UserLocals /\ e \in Users /\ e \notin Tokens
      /\ list' = <<my[e].made>> \o list /\ Goto(e, "probe")
      /\ Locals(e, [my[e] EXCEPT !.slot = HashOf[e]])
      /\ prod' = prod /\ producerCount' = producerCount /\ tables' = tables
      /\ hashCount' = hashCount /\ resizing' = resizing /\ token' = token
      /\ ctoken' = ctoken /\ call' = call /\ full' = full
      /\ UNCHANGED <<prod, producerCount, hashVars, consumerVars, token, calls, full>>
  BY <1>1, LocalsSame, ThreadFacts DEF Push, hashVars, consumerVars
<1>3. ~Waiting(e) /\ Entering(e) /\ ~HasLock(e)
  BY <1>2 DEF Waiting, Entering, HasLock
<1>4. PICK s \in Nat : s = HashOf[e]
  BY ConcurrentQueueAssumption DEF ConcurrentQueueAssumption
<1>5. PICK x : x = [my[e] EXCEPT !.slot = s]
  OBVIOUS
<1>6. x \in UserLocals /\ x.made = my[e].made /\ x.hash = my[e].hash
  BY <1>2, <1>5 DEF UserLocals
<1>7. Locals(e, x)
  BY <1>2, <1>4, <1>5
<1>8. /\ pc' \in [Threads -> Labels] /\ pc'[e] = "probe" /\ \A u \in Threads \ {e} : pc'[u] = pc[u]
      /\ my' \in [Users -> UserLocals] /\ my'[e] = x /\ \A u \in Users \ {e} : my'[u] = my[u]
      /\ \A d \in Enqueuers \ {e} : pc'[d] = pc[d] /\ my'[d] = my[d]
      /\ \A k \in Tokens : pc'[k] = pc[k] /\ my'[k] = my[k]
      /\ \A c \in Consumers : pc'[c] = pc[c]
  BY <1>1, <1>2, <1>6, <1>7, EnqueuerMoves DEF Labels
<1>9. /\ ListOK' /\ list' \in Seq(Nat) /\ \A q : Listed(list, q) => Listed(list', q)
      /\ TypeOK' => ListGrows
  <2>1. \A u \in Users \ {e} : pc'[u] = pc[u] /\ my'[u] = my[u]
    BY <1>8, ThreadFacts
  <2>2. pc'[e] # "push"
    BY <1>8
  <2>3. QED
    BY <1>2, <2>1, <2>2, PushFacts
<1>10. TypeOK'
  BY <1>1, <1>2, <1>8, <1>9 DEF TypeOK, hashVars, consumerVars
<1>11. HashOK'
  <2>1. /\ my[e].hash \in 1 .. Len(tables) /\ ~Known(e) /\ my[e].made # NoOne
    BY <1>1, <1>2, <1>3 DEF EnqueuerOK
  <2>2. ~Has(e, my[e].hash)
    BY <2>1 DEF Known
  <2>3. EnqueuerOK(e)'
    BY <1>2, <1>6, <1>8, <2>1, <2>2, SameTables DEF EnqueuerOK, Waiting, Entering
  <2>4. \A p \in Nat : Owns(e, p)' => Owns(e, p)
    BY <1>2, <1>6, <1>8 DEF Owns
  <2>5. ~Waiting(e)' /\ Entering(e)' /\ ~HasLock(e)'
    BY <1>8 DEF Waiting, Entering, HasLock
  <2>6. (e \in Reserved <=> e \in Reserved')
    BY <1>3, <2>5 DEF Reserved
  <2>7. \A g \in 1 .. Len(tables) : my'[e].hash <= g => e \in Admitted(g)
    BY <1>3, <1>6, <1>8 DEF Admitted
  <2>8. HashOK /\ ~HasLock(e) /\ (resizing' <=> resizing) /\ Len(prod') = Len(prod) /\ Len(prod) \in Nat
    BY <1>1, <1>2, <1>3 DEF Places
  <2>9. QED
    BY <1>2, <1>8, <2>3, <2>4, <2>5, <2>6, <2>7, <2>8, HashTurn
<1>12. TokensOK'
  <2>1. Len(prod) \in Nat /\ Len(prod') = Len(prod) /\ \A p \in 1 .. Len(prod) : ~(p > Len(prod))
    BY <1>1, <1>2 DEF Places
  <2>2. QED
    BY <1>1, <1>2, <1>8, <1>9, <2>1, TokensFrame
<1>13. ConsumersOK'
  BY <1>1, <1>2, <1>8, <1>9, <1>10, ConsumersFrame
<1>14. QED
  BY <1>9, <1>10, <1>11, <1>12, <1>13 DEF IInv

LEMMA EnqueuerInv ==
  ASSUME IInv, NEW e \in Enqueuers, Lookup(e) \/ EnqueuerStep(e)
  PROVE  IInv'
BY LookupInv, ProbeInv, ReserveInv, TestAndSetInv, ReloadInv, ResizeInv, DoubleInv, AllocateInv,
   UnlockInv, CreateInv, PushInv, EnqueueInv DEF EnqueuerStep

-----------------------------------------------------------------------------
(* The theorems.                                                           *)

LEMMA InitInv == Init => IInv
<1> SUFFICES ASSUME Init PROVE IInv
  OBVIOUS
<1>1. /\ prod = <<>> /\ list = <<>> /\ producerCount = 0
      /\ tables = <<EmptyTable(InitialSize)>> /\ hashCount = 0 /\ resizing = FALSE
      /\ globalOffset = 0 /\ token = [k \in Tokens |-> NoOne]
      /\ pc = [t \in Threads |-> "idle"] /\ my = [t \in Users |-> NoLocals]
      /\ call = [c \in Consumers |-> NoCall] /\ calls = 0 /\ full = [c \in Consumers |-> {}]
  BY DEF Init
<1>2. PICK offset \in [Consumers -> 0 .. Cardinality(Consumers) - 1] :
        ctoken = [c \in Consumers |-> NewToken(offset[c])]
  BY DEF Init
<1>3. Cardinality(Consumers) \in Nat /\ InitialSize \in Nat \ {0}
  BY ConcurrentQueueAssumption, FS_CardinalityType DEF ConcurrentQueueAssumption
<1>4. \A n \in Nat : NewToken(n) \in TokenState /\ NewToken(n).current = NoOne /\ NewToken(n).desired = NoOne
  BY NoOneFacts DEF NewToken, TokenState
<1>5. \A c \in Consumers : offset[c] \in Nat
  BY <1>2, <1>3
<1>6. /\ ctoken \in [Consumers -> TokenState]
      /\ \A c \in Consumers : ctoken[c].current = NoOne /\ ctoken[c].desired = NoOne
  BY <1>2, <1>4, <1>5
<1>7. /\ \A t \in Users : pc[t] = "idle" /\ my[t] = NoLocals /\ my[t].made = NoOne
      /\ \A c \in Consumers : pc[c] = "idle" /\ call[c] = NoCall
  BY <1>1, ThreadFacts, NoLocalsFacts
<1>8. /\ Len(list) = 0 /\ Len(prod) = 0 /\ prod \in Seq(Producer) /\ list \in Seq(Nat)
  BY <1>1, EmptySeq
<1>9. TypeOK
  <2>1. /\ producerCount \in Nat /\ hashCount \in Nat /\ globalOffset \in Nat /\ calls \in Nat
        /\ token \in [Tokens -> Nat] /\ full \in [Consumers -> SUBSET Nat]
    BY <1>1, NoOneFacts
  <2>2. resizing \in BOOLEAN
    BY <1>1, Zenon
  <2>3. /\ pc \in [Threads -> Labels] /\ my \in [Users -> UserLocals]
        /\ call \in [Consumers -> CallState]
    BY <1>1, NoLocalsFacts DEF Labels
  <2>4. QED
    BY <1>6, <1>8, <2>1, <2>2, <2>3 DEF TypeOK
<1>10. ListOK
  BY <1>1, <1>7, <1>8 DEF ListOK
<1>11. PICK t : t = EmptyTable(InitialSize)
  OBVIOUS
<1>12. t \in Table /\ \A i \in DOMAIN t : t[i].key = NoOne
  <2>1. Vacant \in Slot /\ Vacant.key = NoOne
    BY NoOneFacts DEF Vacant, Slot
  <2>2. /\ t \in [0 .. InitialSize - 1 -> Slot]
        /\ \A i \in 0 .. InitialSize - 1 : t[i] = Vacant
    BY <1>11, <2>1 DEF EmptyTable
  <2>3. QED
    BY <1>3, <2>1, <2>2 DEF Table
<1>13. tables \in Seq(Table) /\ Len(tables) = 1 /\ tables[1] = t /\ tables # <<>>
  <2>1. tables = <<t>>
    BY <1>1, <1>11
  <2>2. QED
    BY <1>12, <2>1
<1>14. \A h : h \in 1 .. Len(tables) <=> h = 1
  BY <1>13
<1>15. \A e \in Enqueuers : ~Known(e) /\ ~Has(e, 1)
  BY <1>12, <1>13, <1>14, NoOneFacts DEF Known, Has
<1>16. \A e \in Enqueuers : /\ ~Waiting(e) /\ ~Entering(e) /\ ~HasLock(e)
                            /\ pc[e] = "idle" /\ my[e].made = NoOne
  BY <1>7, ThreadFacts DEF Waiting, Entering, HasLock
<1>17. \A e \in Enqueuers : \A p : ~Owns(e, p)
  <2>1. \A e \in Enqueuers : \A h \in 1 .. Len(tables) : \A i \in DOMAIN tables[h] : tables[h][i].key # e
    BY <1>15 DEF Known, Has
  <2>2. QED
    BY <1>16, <2>1 DEF Owns
<1>18. Reserved = {} /\ \A h \in 1 .. Len(tables) : \A k : Admitted(h) \cup WaitingWith(k) = {}
  BY <1>14, <1>15, <1>16 DEF Reserved, Admitted, WaitingWith
<1>19. Cardinality({}) = 0
  BY FS_EmptySet
<1>20. \A e \in Enqueuers : EnqueuerOK(e)
  BY <1>15, <1>16 DEF EnqueuerOK
<1>21. HashOK
  <2>1. \A h \in 1 .. Len(tables) : KeysDiffer(tables[h])
    BY <1>12, <1>13, <1>14 DEF KeysDiffer
  <2>2. \A g, h \in 1 .. Len(tables) : g <= h => Capacity(g) <= Capacity(h)
    <3>1. tables[1] \in Table
      BY <1>12, <1>13
    <3>2. PICK n \in Nat \ {0} : tables[1] \in [0 .. n - 1 -> Slot]
      BY <3>1 DEF Table
    <3>3. Capacity(1) = n
      BY <3>2, UpTo DEF Capacity
    <3>4. QED
      BY <1>14, <3>3
  <2>3. \A h \in 1 .. Len(tables) : \A k \in Nat :
          k + 1 >= Room(h) => Cardinality(Admitted(h) \cup WaitingWith(k)) <= k
    <3>1. ASSUME NEW h \in 1 .. Len(tables), NEW k \in Nat
          PROVE  Cardinality(Admitted(h) \cup WaitingWith(k)) <= k
      <4>1. Admitted(h) \cup WaitingWith(k) = {}
        BY <1>18
      <4>2. Cardinality(Admitted(h) \cup WaitingWith(k)) = 0
        BY <1>19, <4>1, Zenon
      <4>3. QED
        BY <4>2
    <3>2. QED
      BY <3>1
  <2>4. hashCount = Cardinality(Reserved)
    BY <1>1, <1>18, <1>19
  <2>5. /\ \A e, d \in Enqueuers : HasLock(e) /\ HasLock(d) => e = d
        /\ (resizing <=> \E e \in Enqueuers : HasLock(e))
    BY <1>1, <1>16
  <2>6. /\ \A e \in Enqueuers : \A p \in Nat : Owns(e, p) => p \in 1 .. Len(prod)
        /\ \A e \in Enqueuers : \A p, q \in Nat : Owns(e, p) /\ Owns(e, q) => p = q
        /\ \A e, d \in Enqueuers : \A p \in Nat : Owns(e, p) /\ Owns(d, p) => e = d
    BY <1>17
  <2>7. QED
    BY <1>13, <1>20, <2>1, <2>2, <2>3, <2>4, <2>5, <2>6 DEF HashOK
<1>22. TokensOK
  <2>1. \A k \in Tokens : token[k] = NoOne /\ pc[k] = "idle" /\ ~Holds(k)
    BY <1>1, <1>7, ThreadFacts DEF Holds
  <2>2. \A p \in 1 .. Len(prod) : FALSE
    BY <1>8
  <2>3. QED
    BY <2>1, <2>2 DEF TokensOK
<1>23. ConsumersOK
  <2>1. ASSUME NEW c \in Consumers PROVE ConsumerOK(c) /\ FullOK(c)
    <3>1. /\ pc[c] = "idle" /\ call[c] = NoCall /\ full[c] = {}
          /\ ctoken[c].current = NoOne /\ ctoken[c].desired = NoOne
      BY <1>1, <1>6, <1>7
    <3>2. ConsumerOK(c)
      BY <3>1, NoLocalsFacts DEF ConsumerOK, ListedOrNone
    <3>3. FullOK(c)
      BY <3>1 DEF FullOK
    <3>4. QED
      BY <3>2, <3>3
  <2>2. QED
    BY <2>1 DEF ConsumersOK
<1>24. QED
  BY <1>9, <1>10, <1>21, <1>22, <1>23 DEF IInv

LEMMA NextInv == IInv /\ [Next]_vars => IInv'
<1> SUFFICES ASSUME IInv, [Next]_vars PROVE IInv'
  OBVIOUS
<1>1. CASE Next
  BY <1>1, EnqueuerInv, TokenInv, ConsumerCallInv, ConsumerStepInv DEF Next
<1>2. CASE UNCHANGED vars
  <2>1. /\ prod' = prod /\ list' = list /\ producerCount' = producerCount /\ tables' = tables
        /\ hashCount' = hashCount /\ resizing' = resizing /\ globalOffset' = globalOffset
        /\ token' = token /\ ctoken' = ctoken /\ pc' = pc /\ my' = my /\ call' = call
        /\ calls' = calls /\ full' = full
    BY <1>2 DEF vars
  <2>2. TypeOK /\ ListOK /\ HashOK /\ TokensOK /\ ConsumersOK /\ Places
    BY PlacesHold DEF IInv
  <2>3. TypeOK'
    BY <2>1, <2>2 DEF TypeOK
  <2>4. Len(prod) \in Nat /\ Len(prod') = Len(prod)
    BY <2>1, <2>2 DEF Places
  <2>5. ListOK' /\ HashOK'
    BY <2>1, <2>2, <2>4, ListFrame, HashFrame
  <2>6. TokensOK'
    BY <2>1, <2>2, <2>4, TokensFrame
  <2>7. ConsumersOK'
    <3>1. \A p \in 1 .. Len(prod) : prod[p].size >= prod[p].size
      <4>1. ASSUME NEW p \in 1 .. Len(prod) PROVE prod[p].size >= prod[p].size
        <5>1. prod[p] \in Producer
          BY <2>2, ElementOfSeq DEF TypeOK
        <5>2. PICK s \in Nat : s = prod[p].size
          BY <5>1 DEF Producer
        <5>3. QED
          BY <5>2
      <4>2. QED
        BY <4>1
    <3>2. ListGrows
      BY <2>1, <2>4, <3>1 DEF ListGrows
    <3>3. QED
      BY <2>1, <2>2, <2>3, <3>2, ConsumersFrame
  <2>8. QED
    BY <2>3, <2>5, <2>6, <2>7 DEF IInv
<1>3. QED
  BY <1>1, <1>2

\* The strengthening of all that follows holds in every state.
THEOREM Invariance == Spec => []IInv
BY InitInv, NextInv, PTL DEF Spec

\* Every variable keeps its type, whatever the calls.
THEOREM Typing == Spec => []TypeOK
<1>1. IInv => TypeOK
  BY DEF IInv
<1>2. QED
  BY <1>1, Invariance, PTL

\* Of the implicit producers in the tables and on the way into them, a thread has one, and
\* has it alone: get_or_add_implicit_producer, with any number of threads and resizes.
THEOREM ProducerIsOwn == Spec => []OwnProducer
<1>1. IInv => OwnProducer
  <2> SUFFICES ASSUME IInv PROVE OwnProducer
    OBVIOUS
  <2>1. TypeOK /\ HashOK /\ DOMAIN tables = 1 .. Len(tables)
    BY DEF IInv, HashOK
  <2>2. ASSUME NEW e \in Enqueuers, NEW p \in ProducersOf(e) PROVE p \in Nat /\ Owns(e, p)
    <3>1. CASE p \in {my[e].made} \ {NoOne}
      BY <2>1, <3>1, LocalsSame, ThreadFacts DEF Owns
    <3>2. CASE p \in UNION {{tables[h][i].value : i \in SlotOf(e, h)} : h \in DOMAIN tables}
      <4>1. PICK h \in DOMAIN tables : p \in {tables[h][i].value : i \in SlotOf(e, h)}
        BY <3>2
      <4>2. PICK i \in SlotOf(e, h) : p = tables[h][i].value
        BY <4>1
      <4>3. h \in 1 .. Len(tables) /\ i \in DOMAIN tables[h] /\ tables[h][i].key = e
        BY <2>1, <4>2 DEF SlotOf
      <4>4. tables[h][i] \in Slot
        BY <2>1, <4>3, CapacityFacts
      <4>5. QED
        BY <4>2, <4>3, <4>4 DEF Owns, Slot
    <3>3. QED
      BY <2>2, <3>1, <3>2 DEF ProducersOf
  <2>3. ASSUME NEW e \in Enqueuers PROVE Cardinality(ProducersOf(e)) <= 1
    <3>1. \A p, q \in ProducersOf(e) : p = q
      BY <2>1, <2>2 DEF HashOK
    <3>2. CASE ProducersOf(e) = {}
      BY <3>2, FS_EmptySet
    <3>3. CASE ProducersOf(e) # {}
      <4>1. PICK p : p \in ProducersOf(e)
        BY <3>3
      <4>2. ProducersOf(e) = {p}
        BY <3>1, <4>1
      <4>3. QED
        BY <4>2, FS_Singleton
    <3>4. QED
      BY <3>2, <3>3
  <2>4. \A e, d \in Enqueuers : e # d => ProducersOf(e) \cap ProducersOf(d) = {}
    BY <2>1, <2>2 DEF HashOK
  <2>5. QED
    BY <2>3, <2>4 DEF OwnProducer
<1>2. QED
  BY <1>1, Invariance, PTL

\* A valid token and its producer know each other, however tokens are swapped, moved and
\* destroyed, and their producers found again by others.
THEOREM TokensKeepTheirs == Spec => []TokensLinked
<1>1. IInv => TokensLinked
  BY DEF IInv, TokensOK, TokensLinked
<1>2. QED
  BY <1>1, Invariance, PTL

\* The count a rotation divides by is not zero, and covers the list from its tail on:
\* update_current_producer_after_rotation, against any number of add_producer.
THEOREM RotationCovers == Spec => []CountCoversList
<1>1. IInv => CountCoversList
  <2> SUFFICES ASSUME IInv, NEW c \in Consumers, pc[c] = "rotate"
               PROVE  /\ call[c].prodCount > 0
                      /\ call[c].prodCount >= Len(list) - Place(call[c].tail) + 1
    BY DEF CountCoversList
  <2>1. TypeOK /\ ConsumerOK(c) /\ Places
    BY PlacesHold DEF IInv, ConsumersOK
  <2>2. Listed(list, call[c].tail) /\ call[c].prodCount > Depth(list, call[c].tail)
    BY <2>1 DEF ConsumerOK
  <2>3. PICK n \in Nat : n = call[c].prodCount
    BY <2>1, TokenSame DEF CallState
  <2>4. /\ Place(call[c].tail) = Len(list) - Depth(list, call[c].tail)
        /\ Depth(list, call[c].tail) \in 0 .. Len(list) - 1 /\ Len(list) \in Nat
    BY <2>1, <2>2 DEF Places
  <2>5. QED
    BY <2>2, <2>3, <2>4
<1>2. QED
  BY <1>1, Invariance, PTL

\* A dequeue alone that answers with less than it was asked for has seen every producer
\* without elements: the four ways to go through the list, with or without tokens.
THEOREM ShortMeansEmpty == Spec => []ShortAnswersHonest
<1>1. IInv => ShortAnswersHonest
  BY DEF IInv, ConsumersOK, FullOK, ShortAnswersHonest
<1>2. QED
  BY <1>1, Invariance, PTL

\* Every table has a free slot for the probing to stop at, and the lock of the resize has
\* one holder: for any number of threads, and any sizes of the tables.
THEOREM ProbingStops == Spec => []NobodySpins
<1>1. IInv => NobodySpins
  <2> SUFFICES ASSUME IInv PROVE NobodySpins
    OBVIOUS
  <2>1. TypeOK /\ HashOK /\ DOMAIN tables = 1 .. Len(tables)
    BY DEF IInv, HashOK
  <2>2. ASSUME NEW h \in 1 .. Len(tables), \A i \in DOMAIN tables[h] : tables[h][i].key # NoOne
        PROVE  FALSE
    <3>1. PICK c \in Nat \ {0} : /\ c = Capacity(h) /\ DOMAIN tables[h] = 0 .. c - 1
                                 /\ Room(h) \in Nat /\ Room(h) < c
                                 /\ tables[h] \in [0 .. c - 1 -> Slot]
      BY <2>1, CapacityFacts
    <3>2. PICK k \in Nat : k + 1 >= Room(h) /\ k < c
      <4>1. c - 1 \in Nat /\ (c - 1) + 1 >= Room(h) /\ c - 1 < c
        BY <3>1
      <4>2. QED
        BY <4>1
    <3>3. Cardinality(Admitted(h) \cup WaitingWith(k)) <= k
      BY <2>1, <3>2 DEF HashOK
    <3>4. Admitted(h) \in SUBSET (Admitted(h) \cup WaitingWith(k))
          /\ Admitted(h) \cup WaitingWith(k) \in SUBSET Enqueuers /\ Admitted(h) \in SUBSET Enqueuers
      BY DEF Admitted, WaitingWith
    <3>5. /\ Cardinality(Admitted(h)) \in Nat /\ Cardinality(Admitted(h)) <= k
          /\ IsFiniteSet(Admitted(h))
      BY <3>2, <3>3, <3>4, FewerThreads, FS_Subset, ConcurrentQueueAssumption
         DEF ConcurrentQueueAssumption
    <3>6. PICK f : f = [i \in 0 .. c - 1 |-> tables[h][i].key]
      OBVIOUS
    <3>7. \A i \in 0 .. c - 1 : tables[h][i].key \in Admitted(h)
      <4>1. ASSUME NEW i \in 0 .. c - 1 PROVE tables[h][i].key \in Admitted(h)
        <5>1. tables[h][i] \in Slot /\ tables[h][i].key # NoOne
          BY <2>2, <3>1
        <5>2. tables[h][i].key \in Enqueuers /\ Has(tables[h][i].key, h)
          BY <3>1, <5>1 DEF Slot, Has
        <5>3. h \in 1 .. h
          OBVIOUS
        <5>4. QED
          BY <5>2, <5>3 DEF Admitted
      <4>2. QED
        BY <4>1
    <3>8. \A i, j \in 0 .. c - 1 : tables[h][i].key = tables[h][j].key => i = j
      <4>1. KeysDiffer(tables[h])
        BY <2>1 DEF HashOK
      <4>2. QED
        BY <2>2, <3>1, <4>1 DEF KeysDiffer
    <3>9. f \in Injection(0 .. c - 1, Admitted(h))
      BY <3>6, <3>7, <3>8 DEF Injection, IsInjective
    <3>10. IsFiniteSet(0 .. c - 1) /\ Cardinality(0 .. c - 1) = c
      BY UpTo
    <3>11. Cardinality(0 .. c - 1) <= Cardinality(Admitted(h))
      BY <3>5, <3>9, FS_Injection DEF ExistsInjection
    <3>12. QED
      BY <3>2, <3>5, <3>10, <3>11
  <2>3. PICK lockers : lockers = {e \in Enqueuers : pc[e] \in {"resize", "allocate", "unlock", "unlockFailed"}}
    OBVIOUS
  <2>4. lockers = {e \in Enqueuers : HasLock(e)}
    BY <2>3 DEF HasLock
  <2>5. CASE resizing
    <3>1. PICK e \in Enqueuers : HasLock(e)
      BY <2>1, <2>5 DEF HashOK
    <3>2. lockers = {e}
      BY <2>1, <2>4, <3>1 DEF HashOK
    <3>3. QED
      BY <2>1, <2>2, <2>3, <2>5, <3>2, FS_Singleton DEF NobodySpins
  <2>6. CASE ~resizing
    <3>1. lockers = {}
      BY <2>1, <2>4, <2>6 DEF HashOK
    <3>2. QED
      BY <2>1, <2>2, <2>3, <2>6, <3>1, FS_EmptySet DEF NobodySpins
  <2>7. QED
    BY <2>5, <2>6
<1>2. QED
  BY <1>1, Invariance, PTL
==============================================================================
