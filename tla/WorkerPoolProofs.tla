--------------------------- MODULE WorkerPoolProofs ---------------------------
(***************************************************************************)
(* Theorems about WorkerPool that hold for every number of cores and       *)
(* fibers, and for every client that calls in a sensible order.            *)
(***************************************************************************)
EXTENDS WorkerPool, SequenceTheorems, TLAPS

-----------------------------------------------------------------------------
(* The clients.                                                            *)

\* What may be left of a program: it destroys what it has created at its end,
\* starts the workers once at most, and waits for them if it does, later on.
Remains(p) ==
  /\ p \in Seq(Operations)
  /\ \A i \in 1 .. Len(p) : p[i] \in Destroys <=> i = Len(p)
  /\ \A i \in 1 .. Len(p) : p[i] \in Creates => i = 1
  /\ \A i \in 1 .. Len(p) : p[i] = "Initialize" => p[Len(p)] = "Destroy"
  /\ \A i \in 1 .. Len(p) : p[i] = "InitializePool" => p[Len(p)] = "DestroyPool"
  /\ \A i, j \in 1 .. Len(p) : p[i] = "StartAll" /\ p[j] = "StartAll" => i = j
  /\ \A i, j \in 1 .. Len(p) : p[i] = "StartAll" /\ p[j] = "WaitAll" => i < j
  /\ \A i \in 1 .. Len(p) : p[i] = "StartAll" => \E j \in 1 .. Len(p) : p[j] = "WaitAll"

\* A program: it starts with what creates the workers.
Disciplined(p) == p # <<>> /\ p[1] \in Creates /\ Remains(p)

Has(p, op) == \E i \in 1 .. Len(p) : p[i] = op

LEMMA TailFacts ==
  ASSUME NEW p \in Seq(Operations), p # <<>>
  PROVE  /\ Tail(p) \in Seq(Operations) /\ Len(Tail(p)) = Len(p) - 1 /\ Len(p) \in Nat \ {0}
         /\ \A i \in 1 .. Len(Tail(p)) : Tail(p)[i] = p[i + 1]
         /\ Tail(p) = <<>> <=> Len(p) = 1
         /\ Head(p) = p[1] /\ p[1] \in Operations
         /\ Tail(p) # <<>> => Tail(p)[Len(Tail(p))] = p[Len(p)]
<1>1. Len(p) \in Nat \ {0} /\ Tail(p) \in Seq(Operations) /\ Len(Tail(p)) = Len(p) - 1
  BY HeadTailProperties, EmptySeq
<1>2. \A i \in 1 .. Len(Tail(p)) : Tail(p)[i] = p[i + 1]
  BY HeadTailProperties
<1>3. Tail(p) = <<>> <=> Len(p) = 1
  BY <1>1, EmptySeq
<1>4. Head(p) = p[1] /\ p[1] \in Operations
  BY HeadTailProperties, <1>1
<1>5. Tail(p) # <<>> => Tail(p)[Len(Tail(p))] = p[Len(p)]
  BY <1>1, <1>2, <1>3
<1>6. QED
  BY <1>1, <1>2, <1>3, <1>4, <1>5

\* What is left of a program when a call returns.
LEMMA RemainsNext ==
  ASSUME NEW p, Remains(p), p # <<>>
  PROVE  /\ Remains(Tail(p))
         /\ Tail(p) # <<>> => Tail(p)[1] \notin Creates /\ Tail(p)[Len(Tail(p))] = p[Len(p)]
         /\ p[1] \in Destroys <=> Tail(p) = <<>>
         /\ Has(Tail(p), "StartAll") <=> Has(p, "StartAll") /\ p[1] # "StartAll"
         /\ Has(Tail(p), "WaitAll") => Has(p, "WaitAll")
         /\ p[1] # "WaitAll" /\ Has(p, "WaitAll") => Has(Tail(p), "WaitAll")
<1> DEFINE q == Tail(p)
<1>1. p \in Seq(Operations)
  BY DEF Remains
<1>2. /\ q \in Seq(Operations) /\ Len(q) = Len(p) - 1 /\ Len(p) \in Nat \ {0}
      /\ \A i \in 1 .. Len(q) : q[i] = p[i + 1]
      /\ q = <<>> <=> Len(p) = 1
      /\ q # <<>> => q[Len(q)] = p[Len(p)]
  BY <1>1, TailFacts
<1> HIDE DEF q
<1>3. \A i \in 1 .. Len(q) : i + 1 \in 1 .. Len(p)
  BY <1>2
<1>4. \A i \in 1 .. Len(q) : q[i] \in Destroys <=> i = Len(q)
  BY <1>2, <1>3 DEF Remains
<1>5. \A i \in 1 .. Len(q) : q[i] \notin Creates
  BY <1>2, <1>3 DEF Remains
<1>6. \A i, j \in 1 .. Len(q) : q[i] = "StartAll" /\ q[j] = "StartAll" => i = j
  BY <1>2, <1>3 DEF Remains
<1>7. \A i, j \in 1 .. Len(q) : q[i] = "StartAll" /\ q[j] = "WaitAll" => i < j
  BY <1>2, <1>3 DEF Remains
<1>8. \A i \in 1 .. Len(q) : q[i] = "StartAll" => \E j \in 1 .. Len(q) : q[j] = "WaitAll"
  <2>1. SUFFICES ASSUME NEW i \in 1 .. Len(q), q[i] = "StartAll" PROVE \E j \in 1 .. Len(q) : q[j] = "WaitAll"
    OBVIOUS
  <2>2. p[i + 1] = "StartAll" /\ i + 1 \in 1 .. Len(p)
    BY <1>2, <1>3, <2>1
  <2>3. PICK j \in 1 .. Len(p) : p[j] = "WaitAll" /\ i + 1 < j
    BY <2>2 DEF Remains
  <2>4. j - 1 \in 1 .. Len(q) /\ (j - 1) + 1 = j
    BY <1>2, <2>3
  <2>5. QED
    BY <1>2, <2>3, <2>4
<1>9. Remains(q)
  BY <1>2, <1>4, <1>5, <1>6, <1>7, <1>8 DEF Remains, Creates
<1>10. Has(q, "WaitAll") => Has(p, "WaitAll")
  BY <1>2, <1>3 DEF Has
<1>11. ASSUME NEW op, Has(p, op), p[1] # op PROVE Has(q, op)
  <2>1. PICK j \in 1 .. Len(p) : p[j] = op /\ j # 1
    BY <1>11 DEF Has
  <2>2. j - 1 \in 1 .. Len(q) /\ (j - 1) + 1 = j
    BY <1>2, <2>1
  <2>3. QED
    BY <1>2, <2>1, <2>2 DEF Has
<1>12. Has(q, "StartAll") <=> Has(p, "StartAll") /\ p[1] # "StartAll"
  <2>1. ASSUME Has(q, "StartAll") PROVE Has(p, "StartAll") /\ p[1] # "StartAll"
    <3>1. PICK i \in 1 .. Len(q) : q[i] = "StartAll"
      BY <2>1 DEF Has
    <3>2. p[i + 1] = "StartAll" /\ i + 1 \in 1 .. Len(p) /\ i + 1 # 1 /\ 1 \in 1 .. Len(p)
      BY <1>2, <1>3, <3>1
    <3>3. QED
      BY <3>2 DEF Has, Remains
  <2>2. QED
    BY <1>11, <2>1
<1>13. p[1] \in Destroys <=> q = <<>>
  BY <1>2 DEF Remains
<1>14. q # <<>> => q[1] \notin Creates
  <2>1. q # <<>> => 1 \in 1 .. Len(q)
    BY <1>2
  <2>2. QED
    BY <1>5, <2>1
<1>15. QED
  BY <1>2, <1>9, <1>10, <1>11, <1>12, <1>13, <1>14 DEF q

\* What the call a program is at says of the rest of it.
LEMMA RemainsNow ==
  ASSUME NEW p, Remains(p), p # <<>>
  PROVE  /\ p[1] \in Operations
         /\ p[1] \in Destroys => /\ ~Has(p, "StartAll") /\ ~Has(p, "WaitAll")
                                 /\ p[Len(p)] = p[1]
         /\ p[1] = "WaitAll" => ~Has(p, "StartAll")
         /\ Has(p, "StartAll") => Has(p, "WaitAll")
         /\ p[1] = "StartAll" => Has(p, "StartAll")
         /\ p[1] = "Initialize" => p[Len(p)] = "Destroy"
         /\ p[1] = "InitializePool" => p[Len(p)] = "DestroyPool"
         /\ Len(p) \in Nat \ {0}
<1>1. p \in Seq(Operations)
  BY DEF Remains
<1>2. Len(p) \in Nat \ {0} /\ p[1] \in Operations
  BY <1>1, TailFacts
<1>3. 1 \in 1 .. Len(p) /\ Len(p) \in 1 .. Len(p)
  BY <1>2
<1>4. p[1] \in Destroys => Len(p) = 1
  BY <1>3 DEF Remains
<1>5. p[1] \in Destroys => ~Has(p, "StartAll") /\ ~Has(p, "WaitAll") /\ p[Len(p)] = p[1]
  BY <1>2, <1>4 DEF Has, Destroys
<1>6. p[1] = "WaitAll" => ~Has(p, "StartAll")
  BY <1>2, <1>3 DEF Has, Remains
<1>7. QED
  BY <1>2, <1>3, <1>5, <1>6 DEF Has, Remains

-----------------------------------------------------------------------------
(* The inductive invariant.  What matters of todo is the call that the main *)
(* thread is in, and whether StartAll and WaitAll are among those to come.  *)

Now == IF todo = <<>> THEN "none" ELSE todo[1]
Pending(op) == Has(todo, op)
OnlyWorkers == todo # <<>> /\ todo[Len(todo)] = "DestroyPool"

\* No program is under way, or it has yet to create something.
Before == Now \in Creates \cup {"none"}

MainOK ==
  /\ Remains(todo)
  /\ todo # <<>> => at \in Workers
  /\ step \in {"created", "identified"} => Now = "StartAll"
  /\ step \in {"delete", "queues"} => Now \in Destroys
  /\ terminated => ~Pending("StartAll")

PoolOK ==
  /\ fibers = {} \/ 1 \in fibers
  /\ Before \/ OnlyWorkers => fibers = {} /\ ~scheduler /\ ~queues /\ freeFibers = <<>>
  /\ Pending("WaitAll") /\ ~Before =>
       \A i \in 1 .. Len(freeFibers) : freeFibers[i] \in fibers /\ scheduler
  /\ Now \in Destroys /\ (at > 1 \/ step # "begin") => fibers = {}

ObjectOK(v) ==
  /\ Before => object[v] # "live"
  /\ Pending("StartAll") /\ ~Before => object[v] \in {"live", "absent"}
  /\ object[v] # "live" => ~threadFiber[v]
  /\ object[v] = "absent" <=> object[1] = "absent"
  /\ Now \in Destroys /\ (v < at \/ step = "queues") => object[v] # "live"
  /\ step = "delete" /\ v = at => object[v] = "live" /\ ~threadFiber[v]

\* How far StartAll has got with a worker.
StartingOK(w) ==
  /\ Now # "StartAll" => ~Exists(w)
  /\ Now = "StartAll" =>
       /\ w < at => handle[w] /\ threadId[w] = w
       /\ w > at => ~Exists(w)
       /\ w = at /\ step = "begin" => ~Exists(w)
       /\ w = at /\ step # "begin" => wpc[w] = "suspended" /\ handle[w]
       /\ w = at /\ step = "identified" => threadId[w] = w

\* What a thread relies on.
Rooted(w) ==
  /\ Exists(w) =>
       /\ Pending("WaitAll") /\ ~Before /\ ~terminated
       /\ \A v \in Workers : object[v] = "live"
       /\ Pending("StartAll") \/ \A v \in Workers : handle[v]
  /\ Pending("StartAll") => StartingOK(w)
  /\ Exists(w) /\ wpc[w] # "suspended" => \A v \in 1 .. w : threadId[v] = v

\* Where a thread is and what it has with it.
Running(w) ==
  /\ wpc[w] \in OnFiber \cup {"loop", "poll"} => threadFiber[w]
  /\ wpc[w] \in OnFiber => bound[w] \in fibers /\ scheduler
  /\ wpc[w] \in {"find", "quitAll"} => looked[w].at \in Workers
  /\ wpc[w] = "find" => task[w] = "nested" /\ looked[w].at <= w
  /\ wpc[w] = "quitAll" => task[w] = "terminate"
  /\ wpc[w] = "decrement" /\ task[w] = "nested" => looked[w].found = w

IInv ==
  /\ TypeOK /\ MainOK /\ PoolOK
  /\ \A w \in Workers : ObjectOK(w) /\ Rooted(w) /\ Running(w)


LEMMA OneWorks == 1 \in Workers /\ NumCores \in Workers /\ NumCores \in Nat
BY WorkerPoolAssumption DEF WorkerPoolAssumption, Workers

\* The main thread in the terms of the invariant.
LEMMA NowFacts ==
  ASSUME Remains(todo)
  PROVE  /\ todo # <<>> => Now = todo[1] /\ Now \in Operations /\ Head(todo) = Now
         /\ todo = <<>> <=> Now = "none"
         /\ Now \in Destroys =>
              ~Pending("StartAll") /\ ~Pending("WaitAll") /\ (OnlyWorkers <=> Now = "DestroyPool")
         /\ Now = "WaitAll" => ~Pending("StartAll")
         /\ Pending("StartAll") => Pending("WaitAll")
         /\ Now = "StartAll" => Pending("StartAll")
         /\ Now = "Initialize" => ~OnlyWorkers
         /\ Now = "InitializePool" => OnlyWorkers
         /\ Now = "none" => ~Pending("StartAll") /\ ~Pending("WaitAll") /\ ~OnlyWorkers
<1>1. CASE todo = <<>>
  <2>1. Len(todo) = 0
    BY <1>1, EmptySeq
  <2>2. QED
    BY <1>1, <2>1 DEF Now, Pending, Has, OnlyWorkers, Destroys
<1>2. CASE todo # <<>>
  <2>1. Now = todo[1] /\ Now \in Operations /\ Head(todo) = Now
    BY <1>2, TailFacts DEF Now, Remains
  <2>2. Now # "none"
    BY <2>1 DEF Operations, Creates, Destroys
  <2>3. /\ todo[1] \in Destroys => /\ ~Has(todo, "StartAll") /\ ~Has(todo, "WaitAll")
                                   /\ todo[Len(todo)] = todo[1]
        /\ todo[1] = "WaitAll" => ~Has(todo, "StartAll")
        /\ Has(todo, "StartAll") => Has(todo, "WaitAll")
        /\ todo[1] = "StartAll" => Has(todo, "StartAll")
        /\ todo[1] = "Initialize" => todo[Len(todo)] = "Destroy"
        /\ todo[1] = "InitializePool" => todo[Len(todo)] = "DestroyPool"
    BY <1>2, RemainsNow
  <2>4. QED
    BY <1>2, <2>1, <2>2, <2>3 DEF Pending, OnlyWorkers
<1>3. QED
  BY <1>1, <1>2

LEMMA CallsNow ==
  ASSUME Remains(todo), NEW op, Calls(op)
  PROVE  todo # <<>> /\ Now = op
BY NowFacts DEF Calls

\* What a call leaves when it returns.
LEMMA ReturnFacts ==
  ASSUME Remains(todo), todo # <<>>, Return
  PROVE  /\ Remains(todo)' /\ todo' \in Seq(Operations)
         /\ at' = 1 /\ step' = "begin"
         /\ Now' \notin Creates
         /\ Before' <=> Now \in Destroys
         /\ OnlyWorkers' => OnlyWorkers
         /\ Pending("StartAll")' <=> Pending("StartAll") /\ Now # "StartAll"
         /\ Pending("WaitAll")' => Pending("WaitAll")
         /\ Now # "WaitAll" /\ Pending("WaitAll") => Pending("WaitAll")'
<1>1. PICK q : q = todo' /\ q = Tail(todo) /\ at' = 1 /\ step' = "begin"
  BY DEF Return
<1>2. /\ Remains(q)
      /\ q # <<>> => q[1] \notin Creates /\ q[Len(q)] = todo[Len(todo)]
      /\ todo[1] \in Destroys <=> q = <<>>
      /\ Has(q, "StartAll") <=> Has(todo, "StartAll") /\ todo[1] # "StartAll"
      /\ Has(q, "WaitAll") => Has(todo, "WaitAll")
      /\ todo[1] # "WaitAll" /\ Has(todo, "WaitAll") => Has(q, "WaitAll")
  BY <1>1, RemainsNext
<1>3. Now = todo[1]
  BY NowFacts
<1>4. q # <<>> => q[1] \in Operations
  BY <1>2, TailFacts DEF Remains
<1>5. Now' = IF q = <<>> THEN "none" ELSE q[1]
  BY <1>1 DEF Now
<1>6. Now' \notin Creates /\ (Now' = "none" <=> q = <<>>)
  BY <1>2, <1>4, <1>5 DEF Creates, Operations, Destroys
<1>7. q \in Seq(Operations)
  BY <1>2 DEF Remains
<1>8. (OnlyWorkers' => OnlyWorkers)
  BY <1>1, <1>2 DEF OnlyWorkers
<1>9. /\ Pending("StartAll")' = Has(q, "StartAll") /\ Pending("WaitAll")' = Has(q, "WaitAll")
      /\ Pending("StartAll") = Has(todo, "StartAll") /\ Pending("WaitAll") = Has(todo, "WaitAll")
  BY <1>1 DEF Pending
<1>10. Before' <=> Now \in Destroys
  BY <1>2, <1>3, <1>6 DEF Before
<1>11. Remains(todo)'
  BY <1>1, <1>2 DEF Remains
<1>12. QED
  BY <1>1, <1>2, <1>3, <1>6, <1>7, <1>8, <1>9, <1>10, <1>11

-----------------------------------------------------------------------------
(* The steps of a worker.                                                  *)

\* What a step of a worker leaves alone.
OnlyWorker(w) ==
  /\ UNCHANGED <<todo, at, step, terminated, scheduler, queues, fibers, object, handle, threadId>>
  /\ \A v \in Workers \ {w} :
       /\ wpc'[v] = wpc[v] /\ task'[v] = task[v] /\ bound'[v] = bound[v] /\ looked'[v] = looked[v]
       /\ threadFiber'[v] = threadFiber[v]
  /\ threadFiber[w] => threadFiber'[w]
  /\ \/ freeFibers' = freeFibers
     \/ freeFibers # <<>> /\ freeFibers' = Tail(freeFibers)

LEMMA ExistsFacts ==
  ASSUME IInv, NEW w \in Workers, Exists(w)
  PROVE  /\ Pending("WaitAll") /\ ~Before /\ ~terminated
         /\ Now \notin Destroys /\ step \notin {"delete", "queues"}
         /\ \A v \in Workers : object[v] = "live"
<1>1. Rooted(w) /\ MainOK
  BY DEF IInv
<1>2. Pending("WaitAll") /\ ~Before /\ ~terminated /\ \A v \in Workers : object[v] = "live"
  BY <1>1 DEF Rooted
<1>3. Now \notin Destroys
  BY <1>1, <1>2, NowFacts DEF MainOK
<1>4. QED
  BY <1>1, <1>2, <1>3 DEF MainOK

LEMMA FreeFibersNext ==
  ASSUME TypeOK, freeFibers # <<>>
  PROVE  /\ Head(freeFibers) = freeFibers[1] /\ 1 \in 1 .. Len(freeFibers)
         /\ Head(freeFibers) \in SmallFibers /\ Tail(freeFibers) \in Seq(SmallFibers)
         /\ \A i \in 1 .. Len(Tail(freeFibers)) :
              Tail(freeFibers)[i] = freeFibers[i + 1] /\ i + 1 \in 1 .. Len(freeFibers)
<1>1. freeFibers \in Seq(SmallFibers)
  BY DEF TypeOK
<1>2. /\ Head(freeFibers) \in SmallFibers /\ Tail(freeFibers) \in Seq(SmallFibers)
      /\ Len(Tail(freeFibers)) = Len(freeFibers) - 1
      /\ \A i \in 1 .. Len(Tail(freeFibers)) : Tail(freeFibers)[i] = freeFibers[i + 1]
  BY <1>1, HeadTailProperties
<1>3. Len(freeFibers) \in Nat \ {0}
  BY <1>1, EmptySeq
<1>4. QED
  BY <1>2, <1>3

LEMMA WorkerFrame ==
  ASSUME IInv, NEW w \in Workers, wpc[w] \notin {"none", "exited", "suspended"},
         wpc'[w] \notin {"none", "suspended"}, OnlyWorker(w), TypeOK', Running(w)'
  PROVE  IInv'
<1>1. Exists(w)
  BY DEF Exists
<1>2. /\ Pending("WaitAll") /\ ~Before /\ ~terminated
      /\ Now \notin Destroys /\ step \notin {"delete", "queues"}
      /\ \A v \in Workers : object[v] = "live"
  BY <1>1, ExistsFacts
<1>3. /\ UNCHANGED <<todo, at, step, terminated>> /\ UNCHANGED <<scheduler, queues, fibers, object, handle, threadId>>
      /\ UNCHANGED <<Now, Before, OnlyWorkers>>
      /\ Pending("StartAll")' = Pending("StartAll") /\ Pending("WaitAll")' = Pending("WaitAll")
  BY DEF OnlyWorker, Now, Before, OnlyWorkers, Pending
<1>4. MainOK'
  BY <1>3 DEF IInv, MainOK
<1>5. PoolOK'
  <2>1. CASE freeFibers' = freeFibers
    BY <1>3, <2>1 DEF IInv, PoolOK
  <2>2. CASE freeFibers # <<>> /\ freeFibers' = Tail(freeFibers)
    <3>1. ~OnlyWorkers
      BY <2>2 DEF IInv, PoolOK
    <3>2. ASSUME NEW i \in 1 .. Len(freeFibers') PROVE freeFibers'[i] \in fibers /\ scheduler
      <4>1. PICK j \in 1 .. Len(freeFibers) : freeFibers'[i] = freeFibers[j]
        BY <2>2, FreeFibersNext DEF IInv
      <4>2. QED
        BY <1>2, <4>1 DEF IInv, PoolOK
    <3>3. QED
      BY <1>2, <1>3, <3>1, <3>2 DEF IInv, PoolOK
  <2>3. QED
    BY <2>1, <2>2 DEF OnlyWorker, mainVars
<1>6. ASSUME NEW v \in Workers PROVE ObjectOK(v)'
  <2>1. v # w => threadFiber'[v] = threadFiber[v]
    BY DEF OnlyWorker
  <2>2. ObjectOK(v)
    BY DEF IInv
  <2>3. QED
    BY <1>2, <1>3, <2>1, <2>2 DEF ObjectOK
<1>7. ASSUME NEW v \in Workers \ {w} PROVE Rooted(v)' /\ Running(v)'
  <2>1. /\ wpc'[v] = wpc[v] /\ task'[v] = task[v] /\ bound'[v] = bound[v] /\ looked'[v] = looked[v]
        /\ threadFiber'[v] = threadFiber[v]
    BY DEF OnlyWorker
  <2>2. Rooted(v) /\ Running(v)
    BY DEF IInv
  <2>3. Rooted(v)'
    BY <1>3, <2>1, <2>2 DEF Rooted, StartingOK, Exists
  <2>4. Running(v)'
    BY <1>3, <2>1, <2>2 DEF Running
  <2>5. QED
    BY <2>3, <2>4
<1>8. Rooted(w)'
  <2>1. Rooted(w)
    BY DEF IInv
  <2>2. w \in Int /\ at \in Int
    BY DEF IInv, TypeOK, Workers, None
  <2>3. QED
    BY <1>1, <1>2, <1>3, <2>1, <2>2 DEF Rooted, StartingOK, Exists
<1>9. QED
  BY <1>4, <1>5, <1>6, <1>7, <1>8 DEF IInv

\* A step that sets the place of the thread and nothing else of it.
LEMMA MovesOn ==
  ASSUME IInv, NEW w \in Workers, NEW l \in ThreadStates \ {"none", "suspended"}, Goto(w, l),
         wpc[w] \notin {"none", "exited", "suspended"},
         UNCHANGED <<mainVars, scheduler, queues, fibers, freeFibers, object, handle, threadId, threadFiber,
                     task, bound, looked>>,
         tasks' \in Seq({"nested", "terminate"}), counter' \in Int, quit' \in [Workers -> BOOLEAN],
         Running(w)'
  PROVE  IInv'
<1>1. /\ \A v \in Workers \ {w} : wpc'[v] = wpc[v]
      /\ wpc'[w] = l /\ wpc' \in [Workers -> ThreadStates]
  BY DEF IInv, TypeOK, Goto
<1>2. TypeOK'
  BY <1>1 DEF IInv, TypeOK, mainVars
<1>3. OnlyWorker(w)
  BY <1>1 DEF OnlyWorker, mainVars
<1>4. QED
  BY <1>1, <1>2, <1>3, WorkerFrame

LEMMA WorkerInv ==
  ASSUME IInv, NEW w \in Workers, Worker(w)
  PROVE  IInv'
<1>1. Running(w) /\ Rooted(w) /\ TypeOK
  BY DEF IInv
<1>2. /\ wpc \in [Workers -> ThreadStates] /\ task \in [Workers -> {"none", "nested", "terminate"}]
      /\ bound \in [Workers -> Fibers \cup {None}] /\ quit \in [Workers -> BOOLEAN]
      /\ looked \in [Workers -> [at : Workers \cup {None}, found : Workers \cup {None}]]
      /\ threadFiber \in [Workers -> BOOLEAN]
      /\ tasks \in Seq({"nested", "terminate"}) /\ counter \in Int
  BY <1>1 DEF TypeOK
<1>3. CASE ConvertThreadToFiber(w)
  <2>1. /\ wpc[w] = "ready" /\ wpc' = [wpc EXCEPT ![w] = "loop"]
        /\ threadFiber' = [threadFiber EXCEPT ![w] = TRUE]
        /\ UNCHANGED <<mainVars, poolVars, object, handle, threadId, quit, task, bound, looked>>
    BY <1>3 DEF ConvertThreadToFiber, Goto
  <2>2. /\ \A v \in Workers \ {w} : wpc'[v] = wpc[v] /\ threadFiber'[v] = threadFiber[v]
        /\ wpc'[w] = "loop" /\ threadFiber'[w] = TRUE
        /\ wpc' \in [Workers -> ThreadStates] /\ threadFiber' \in [Workers -> BOOLEAN]
    BY <1>2, <2>1 DEF ThreadStates
  <2>3. TypeOK'
    BY <1>1, <2>1, <2>2 DEF TypeOK, mainVars, poolVars
  <2>4. OnlyWorker(w)
    BY <2>1, <2>2 DEF OnlyWorker, mainVars, poolVars
  <2>5. Running(w)'
    BY <2>2 DEF Running, OnFiber
  <2>6. QED
    BY <2>1, <2>2, <2>3, <2>4, <2>5, WorkerFrame
<1>4. CASE CheckQuit(w)
  <2>1. PICK l \in {"exited", "poll"} : Goto(w, l)
    BY <1>4 DEF CheckQuit
  <2>2. wpc[w] = "loop" /\ UNCHANGED <<mainVars, poolVars, objectVars, task, bound, looked>> /\ wpc'[w] = l
    BY <1>2, <1>4, <2>1 DEF CheckQuit, Goto
  <2>3. Running(w)'
    BY <1>1, <2>2 DEF Running, OnFiber, objectVars
  <2>4. QED
    BY <1>2, <2>1, <2>2, <2>3, MovesOn DEF ThreadStates, poolVars, objectVars
<1>5. CASE PollMiss(w)
  <2>1. /\ Goto(w, "loop") /\ wpc[w] = "poll" /\ wpc'[w] = "loop"
        /\ UNCHANGED <<mainVars, poolVars, objectVars, task, bound, looked>>
    BY <1>2, <1>5 DEF PollMiss, Goto
  <2>2. Running(w)'
    BY <1>1, <2>1 DEF Running, OnFiber, objectVars
  <2>3. QED
    BY <1>2, <2>1, <2>2, MovesOn DEF ThreadStates, poolVars, objectVars
<1>6. CASE TakeTask(w)
  <2>1. /\ wpc[w] = "poll" /\ tasks # <<>> /\ freeFibers # <<>>
        /\ task' = [task EXCEPT ![w] = Head(tasks)] /\ tasks' = Tail(tasks)
        /\ bound' = [bound EXCEPT ![w] = Head(freeFibers)] /\ freeFibers' = Tail(freeFibers)
        /\ looked' = [looked EXCEPT ![w] = [at |-> 1, found |-> None]]
        /\ wpc' = [wpc EXCEPT ![w] = IF Head(tasks) = "nested" THEN "find" ELSE "quitAll"]
        /\ UNCHANGED <<mainVars, scheduler, queues, fibers, counter, objectVars>>
    BY <1>6 DEF TakeTask, Goto
  <2>2. Head(tasks) \in {"nested", "terminate"} /\ Tail(tasks) \in Seq({"nested", "terminate"})
    BY <1>2, <2>1, HeadTailProperties
  <2>3. /\ Head(freeFibers) \in SmallFibers /\ Tail(freeFibers) \in Seq(SmallFibers)
        /\ Head(freeFibers) = freeFibers[1] /\ 1 \in 1 .. Len(freeFibers)
    BY <1>1, <2>1, FreeFibersNext
  <2>4. SmallFibers \subseteq Fibers
    BY WorkerPoolAssumption DEF WorkerPoolAssumption, SmallFibers, Fibers
  <2>5. PICK l \in {"find", "quitAll"} : l = IF Head(tasks) = "nested" THEN "find" ELSE "quitAll"
    OBVIOUS
  <2>6. /\ \A v \in Workers \ {w} : wpc'[v] = wpc[v] /\ task'[v] = task[v] /\ bound'[v] = bound[v]
                                    /\ looked'[v] = looked[v]
        /\ wpc'[w] = l /\ task'[w] = Head(tasks) /\ bound'[w] = freeFibers[1]
        /\ looked'[w] = [at |-> 1, found |-> None]
    BY <1>2, <2>1, <2>3, <2>5
  <2>7. /\ wpc' \in [Workers -> ThreadStates] /\ task' \in [Workers -> {"none", "nested", "terminate"}]
        /\ bound' \in [Workers -> Fibers \cup {None}]
        /\ looked' \in [Workers -> [at : Workers \cup {None}, found : Workers \cup {None}]]
    <3>1. wpc' \in [Workers -> ThreadStates]
      BY <1>2, <2>1 DEF ThreadStates, OnFiber
    <3>2. task' \in [Workers -> {"none", "nested", "terminate"}]
      BY <1>2, <2>1, <2>2
    <3>3. bound' \in [Workers -> Fibers \cup {None}]
      BY <1>2, <2>1, <2>3, <2>4
    <3>4. looked' \in [Workers -> [at : Workers \cup {None}, found : Workers \cup {None}]]
      <4>1. [at |-> 1, found |-> None] \in [at : Workers \cup {None}, found : Workers \cup {None}]
        BY OneWorks
      <4>2. QED
        BY <1>2, <2>1, <4>1
    <3>5. QED
      BY <3>1, <3>2, <3>3, <3>4
  <2>8. TypeOK'
    BY <1>1, <2>1, <2>2, <2>3, <2>7 DEF TypeOK, mainVars, objectVars
  <2>9. OnlyWorker(w)
    BY <2>1, <2>6 DEF OnlyWorker, mainVars, objectVars
  <2>10. freeFibers[1] \in fibers /\ scheduler
    <3>1. Exists(w)
      BY <2>1 DEF Exists
    <3>2. QED
      BY <2>3, <3>1, ExistsFacts DEF IInv, PoolOK
  <2>11. Running(w)'
    <3>1. looked'[w].at = 1 /\ 1 <= w
      BY <2>6 DEF Workers
    <3>2. threadFiber'[w]
      BY <1>1, <2>1 DEF Running, objectVars
    <3>3. task'[w] = IF l = "find" THEN "nested" ELSE "terminate"
      BY <2>2, <2>5, <2>6
    <3>4. bound'[w] \in fibers' /\ scheduler'
      BY <2>1, <2>6, <2>10
    <3>5. QED
      BY <2>5, <2>6, <3>1, <3>2, <3>3, <3>4, OneWorks DEF Running
  <2>12. QED
    BY <2>1, <2>5, <2>6, <2>8, <2>9, <2>11, WorkerFrame
<1>7. CASE SameId(w)
  <2>1. /\ wpc[w] = "find" /\ threadId[looked[w].at] \in {w, Uninitialized}
        /\ looked' = [looked EXCEPT ![w].found = looked[w].at] /\ wpc' = [wpc EXCEPT ![w] = "decrement"]
        /\ UNCHANGED <<mainVars, poolVars, objectVars, task, bound>>
    BY <1>7 DEF SameId, Goto
  <2>2. looked[w].at = w
    <3>1. looked[w].at \in 1 .. w /\ threadId[looked[w].at] = looked[w].at
      BY <1>1, <2>1 DEF Running, Rooted, Exists, Workers
    <3>2. QED
      BY <2>1, <3>1 DEF Uninitialized, Workers
  <2>3. /\ looked'[w].found = w /\ wpc'[w] = "decrement"
        /\ \A v \in Workers \ {w} : looked'[v] = looked[v] /\ wpc'[v] = wpc[v]
        /\ wpc' \in [Workers -> ThreadStates]
        /\ looked' \in [Workers -> [at : Workers \cup {None}, found : Workers \cup {None}]]
    BY <1>2, <2>1, <2>2 DEF ThreadStates, OnFiber
  <2>4. TypeOK'
    BY <1>1, <2>1, <2>3 DEF TypeOK, mainVars, poolVars, objectVars
  <2>5. OnlyWorker(w)
    BY <2>1, <2>3 DEF OnlyWorker, mainVars, poolVars, objectVars
  <2>6. Running(w)'
    BY <1>1, <2>1, <2>3 DEF Running, OnFiber, poolVars, objectVars
  <2>7. QED
    BY <2>1, <2>3, <2>4, <2>5, <2>6, WorkerFrame
<1>8. CASE OtherId(w)
  <2>1. /\ wpc[w] = "find" /\ threadId[looked[w].at] # w
        /\ UNCHANGED <<mainVars, poolVars, objectVars, task, bound>>
    BY <1>8 DEF OtherId
  <2>2. /\ looked[w].at \in 1 .. w /\ threadId[looked[w].at] = looked[w].at
    BY <1>1, <2>1 DEF Running, Rooted, Exists, Workers
  <2>3. looked[w].at < w /\ looked[w].at # NumCores /\ looked[w].at + 1 \in Workers /\ looked[w].at + 1 <= w
    BY <2>1, <2>2, OneWorks DEF Workers
  <2>4. looked' = [looked EXCEPT ![w].at = looked[w].at + 1] /\ UNCHANGED wpc
    BY <1>8, <2>3 DEF OtherId
  <2>5. /\ looked'[w].at = looked[w].at + 1
        /\ \A v \in Workers \ {w} : looked'[v] = looked[v]
        /\ looked' \in [Workers -> [at : Workers \cup {None}, found : Workers \cup {None}]]
    BY <1>2, <2>3, <2>4
  <2>6. TypeOK'
    BY <1>1, <2>1, <2>4, <2>5 DEF TypeOK, mainVars, poolVars, objectVars
  <2>7. OnlyWorker(w)
    BY <2>1, <2>4, <2>5 DEF OnlyWorker, mainVars, poolVars, objectVars
  <2>8. Running(w)'
    BY <1>1, <2>1, <2>3, <2>4, <2>5 DEF Running, OnFiber, poolVars, objectVars
  <2>9. QED
    BY <2>1, <2>4, <2>6, <2>7, <2>8, WorkerFrame
<1>9. CASE SignalQuit(w)
  <2>1. /\ wpc[w] = "quitAll" /\ quit' = [quit EXCEPT ![looked[w].at] = TRUE]
        /\ UNCHANGED <<mainVars, poolVars, object, handle, threadId, threadFiber, task, bound>>
    BY <1>9 DEF SignalQuit
  <2>2. looked[w].at \in Workers /\ task[w] = "terminate" /\ quit' \in [Workers -> BOOLEAN]
    BY <1>1, <1>2, <2>1 DEF Running
  <2>3. CASE looked[w].at = NumCores
    <3>1. Goto(w, "decrement") /\ UNCHANGED looked /\ wpc'[w] = "decrement"
      BY <1>2, <1>9, <2>3 DEF SignalQuit, Goto
    <3>2. Running(w)'
      BY <1>1, <2>1, <2>2, <3>1 DEF Running, OnFiber, poolVars
    <3>3. QED
      BY <1>2, <2>1, <2>2, <3>1, <3>2, MovesOn DEF ThreadStates, OnFiber, poolVars
  <2>4. CASE looked[w].at # NumCores
    <3>1. looked' = [looked EXCEPT ![w].at = looked[w].at + 1] /\ UNCHANGED wpc
      BY <1>9, <2>4 DEF SignalQuit
    <3>2. looked[w].at + 1 \in Workers
      BY <2>2, <2>4, OneWorks DEF Workers
    <3>3. /\ looked'[w].at = looked[w].at + 1
          /\ \A v \in Workers \ {w} : looked'[v] = looked[v]
          /\ looked' \in [Workers -> [at : Workers \cup {None}, found : Workers \cup {None}]]
      BY <1>2, <3>1, <3>2
    <3>4. TypeOK'
      BY <1>1, <2>1, <2>2, <3>1, <3>3 DEF TypeOK, mainVars, poolVars
    <3>5. OnlyWorker(w)
      BY <2>1, <3>1, <3>3 DEF OnlyWorker, mainVars, poolVars
    <3>6. Running(w)'
      BY <1>1, <2>1, <2>2, <3>1, <3>2, <3>3 DEF Running, OnFiber, poolVars
    <3>7. QED
      BY <2>1, <3>1, <3>4, <3>5, <3>6, WorkerFrame
  <2>5. QED
    BY <2>3, <2>4
<1>10. CASE Decrement(w)
  <2>1. /\ Goto(w, "leave") /\ wpc[w] = "decrement" /\ wpc'[w] = "leave" /\ counter' = counter - 1
        /\ UNCHANGED <<mainVars, scheduler, queues, fibers, freeFibers, tasks, objectVars, task, bound, looked>>
    BY <1>2, <1>10 DEF Decrement, Goto
  <2>2. Running(w)'
    BY <1>1, <2>1 DEF Running, OnFiber, objectVars
  <2>3. QED
    BY <1>2, <2>1, <2>2, MovesOn DEF ThreadStates, OnFiber, objectVars
<1>11. CASE LeaveFiber(w)
  <2>1. /\ wpc[w] = "leave" /\ bound' = [bound EXCEPT ![w] = None] /\ task' = [task EXCEPT ![w] = "none"]
        /\ wpc' = [wpc EXCEPT ![w] = "loop"]
        /\ UNCHANGED <<mainVars, poolVars, objectVars, looked>>
    BY <1>11 DEF LeaveFiber, Goto
  <2>2. /\ \A v \in Workers \ {w} : wpc'[v] = wpc[v] /\ bound'[v] = bound[v] /\ task'[v] = task[v]
        /\ wpc'[w] = "loop"
        /\ wpc' \in [Workers -> ThreadStates] /\ task' \in [Workers -> {"none", "nested", "terminate"}]
        /\ bound' \in [Workers -> Fibers \cup {None}]
    BY <1>2, <2>1 DEF ThreadStates
  <2>3. TypeOK'
    BY <1>1, <2>1, <2>2 DEF TypeOK, mainVars, poolVars, objectVars
  <2>4. OnlyWorker(w)
    BY <2>1, <2>2 DEF OnlyWorker, mainVars, poolVars, objectVars
  <2>5. Running(w)'
    BY <1>1, <2>1, <2>2 DEF Running, OnFiber, objectVars
  <2>6. QED
    BY <2>1, <2>2, <2>3, <2>4, <2>5, WorkerFrame
<1>12. CASE NoFreeFiber(w)
  <2>1. /\ wpc[w] = "poll" /\ tasks # <<>> /\ fault' = "noFiber"
        /\ task' = [task EXCEPT ![w] = Head(tasks)] /\ tasks' = Tail(tasks)
        /\ UNCHANGED <<todo, at, step, programs, terminated, scheduler, queues, fibers, freeFibers,
                       counter, objectVars, wpc, bound, looked>>
    BY <1>12 DEF NoFreeFiber
  <2>2. Head(tasks) \in {"nested", "terminate"} /\ Tail(tasks) \in Seq({"nested", "terminate"})
    BY <1>2, <2>1, HeadTailProperties
  <2>3. /\ \A v \in Workers \ {w} : task'[v] = task[v]
        /\ task' \in [Workers -> {"none", "nested", "terminate"}]
    BY <1>2, <2>1, <2>2
  <2>4. TypeOK'
    BY <1>1, <2>1, <2>2, <2>3 DEF TypeOK, objectVars
  <2>5. OnlyWorker(w)
    BY <2>1, <2>3 DEF OnlyWorker, objectVars
  <2>6. Running(w)'
    BY <1>1, <2>1 DEF Running, OnFiber, objectVars
  <2>7. QED
    BY <2>1, <2>4, <2>5, <2>6, WorkerFrame
<1>13. QED
  BY <1>3, <1>4, <1>5, <1>6, <1>7, <1>8, <1>9, <1>10, <1>11, <1>12 DEF Worker, DequeueTask

-----------------------------------------------------------------------------
(* The calls of the main thread that create and destroy nothing.           *)

\* The next iteration of a loop, or the end of the call.
LEMMA NextWorkerFacts ==
  ASSUME MainOK, TypeOK, todo # <<>>, NextWorker
  PROVE  \/ at < NumCores /\ at' = at + 1 /\ step' = "begin" /\ UNCHANGED todo /\ at' \in Workers
         \/ at = NumCores /\ Return
<1>1. at \in Workers
  BY DEF MainOK
<1>2. QED
  BY <1>1, OneWorks DEF NextWorker, Workers

LEMMA QuietCall ==
  ASSUME IInv, todo # <<>>, Now \in {"RunNested", "RunTerminate", "WaitForCounter", "SignalQuitAll"},
         \/ Return
         \/ at' = at + 1 /\ step' = "begin" /\ UNCHANGED todo /\ at' \in Workers,
         UNCHANGED <<terminated, scheduler, queues, fibers, freeFibers, object, handle, threadId,
                     threadFiber, threadVars>>,
         TypeOK'
  PROVE  IInv'
<1>1. /\ Remains(todo)' /\ at' \in Workers /\ step' = "begin"
      /\ ~Before' /\ ~Before /\ Now' \notin {"none"} /\ Now \notin Destroys
      /\ OnlyWorkers' => OnlyWorkers
      /\ Pending("StartAll")' <=> Pending("StartAll")
      /\ Pending("WaitAll")' <=> Pending("WaitAll")
      /\ Now' = "StartAll" => at' = 1
      /\ Now' \in Destroys => at' = 1
  <2>1. Remains(todo) /\ ~Before /\ Now \notin Destroys
    BY DEF IInv, MainOK, Before, Creates, Destroys
  <2>2. CASE Return
    BY <2>1, <2>2, ReturnFacts, OneWorks DEF Before
  <2>3. CASE at' = at + 1 /\ step' = "begin" /\ UNCHANGED todo /\ at' \in Workers
    <3>1. UNCHANGED <<Now, OnlyWorkers>> /\ Pending("StartAll")' = Pending("StartAll")
          /\ Pending("WaitAll")' = Pending("WaitAll") /\ Remains(todo)'
      BY <2>1, <2>3 DEF Now, OnlyWorkers, Pending
    <3>2. QED
      BY <2>1, <2>3, <3>1 DEF Before, Creates, Destroys
  <2>4. QED
    BY <2>2, <2>3
<1>2. MainOK'
  BY <1>1 DEF IInv, MainOK
<1>3. PoolOK'
  BY <1>1 DEF IInv, PoolOK
<1>4. ASSUME NEW v \in Workers PROVE ObjectOK(v)'
  BY <1>1 DEF IInv, ObjectOK, Workers
<1>5. ASSUME NEW w \in Workers PROVE Rooted(w)' /\ Running(w)'
  <2>1. Rooted(w) /\ Running(w)
    BY DEF IInv
  <2>2. Running(w)'
    BY <2>1 DEF Running, threadVars
  <2>3. Pending("StartAll") => ~Exists(w)
    BY <2>1 DEF Rooted, StartingOK
  <2>4. Pending("StartAll")' => StartingOK(w)'
    <3>1. Pending("StartAll")' => ~Exists(w)'
      BY <1>1, <2>3 DEF Exists, threadVars
    <3>2. w \in Int /\ w >= 1
      BY DEF Workers
    <3>3. step' = "begin" /\ (Now' = "StartAll" => at' = 1)
      BY <1>1
    <3>4. ~Exists(w)' => StartingOK(w)'
      BY <3>2, <3>3 DEF StartingOK
    <3>5. QED
      BY <3>1, <3>4
  <2>5. Rooted(w)'
    BY <1>1, <2>1, <2>4 DEF Rooted, Exists, threadVars
  <2>6. QED
    BY <2>2, <2>5
<1>6. QED
  BY <1>2, <1>3, <1>4, <1>5 DEF IInv

LEMMA QuietInv ==
  ASSUME IInv, RunTasks \/ MainWaitForCounter \/ MainSignalQuit
  PROVE  IInv'
<1> USE DEF IInv
<1>1. Remains(todo) /\ TypeOK /\ MainOK
  BY DEF MainOK
<1>2. ASSUME NEW op \in {"RunNested", "RunTerminate"}, NEW t \in {"nested", "terminate"}, Submit(op, t)
      PROVE  IInv'
  <2>1. /\ todo # <<>> /\ Now = op /\ Return
        /\ counter' = counter + 1 /\ tasks' = Append(tasks, t)
        /\ UNCHANGED <<programs, terminated, fault, scheduler, queues, fibers, freeFibers, objectVars,
                       threadVars>>
    BY <1>1, <1>2, CallsNow DEF Submit
  <2>2. tasks' \in Seq({"nested", "terminate"})
    BY <1>1, <2>1, AppendProperties DEF TypeOK
  <2>3. TypeOK'
    BY <1>1, <2>1, <2>2, ReturnFacts, OneWorks DEF TypeOK, objectVars, threadVars
  <2>4. QED
    BY <2>1, <2>3, QuietCall DEF objectVars
<1>3. CASE MainWaitForCounter
  <2>1. /\ todo # <<>> /\ Now = "WaitForCounter" /\ Return
        /\ UNCHANGED <<programs, terminated, fault, poolVars, objectVars, threadVars>>
    BY <1>1, <1>3, CallsNow DEF MainWaitForCounter
  <2>2. TypeOK'
    BY <1>1, <2>1, ReturnFacts, OneWorks DEF TypeOK, poolVars, objectVars, threadVars
  <2>3. QED
    BY <2>1, <2>2, QuietCall DEF poolVars, objectVars
<1>4. CASE MainSignalQuit
  <2>1. /\ todo # <<>> /\ Now = "SignalQuitAll" /\ NextWorker
        /\ quit' = [quit EXCEPT ![at] = TRUE]
        /\ UNCHANGED <<programs, terminated, fault, poolVars, object, handle, threadId, threadFiber, threadVars>>
    BY <1>1, <1>4, CallsNow DEF MainSignalQuit
  <2>2. \/ Return
        \/ at' = at + 1 /\ step' = "begin" /\ UNCHANGED todo /\ at' \in Workers
    BY <1>1, <2>1, NextWorkerFacts
  <2>3. todo' \in Seq(Operations) /\ at' \in Workers /\ step' = "begin"
    BY <1>1, <2>1, <2>2, ReturnFacts, OneWorks DEF TypeOK
  <2>4. quit' \in [Workers -> BOOLEAN]
    BY <1>1, <2>1 DEF TypeOK
  <2>5. TypeOK'
    BY <1>1, <2>1, <2>3, <2>4 DEF TypeOK, poolVars, threadVars
  <2>6. QED
    BY <2>1, <2>2, <2>5, QuietCall DEF poolVars
<1>5. ASSUME NEW op \in {"RunNested", "RunTerminate"}, SubmitNowhere(op) PROVE IInv'
  <2>1. /\ todo # <<>> /\ Now = op /\ Return
        /\ UNCHANGED <<programs, terminated, fault, poolVars, objectVars, threadVars>>
    BY <1>1, <1>5, CallsNow DEF SubmitNowhere
  <2>2. TypeOK'
    BY <1>1, <2>1, ReturnFacts, OneWorks DEF TypeOK, poolVars, objectVars, threadVars
  <2>3. QED
    BY <2>1, <2>2, QuietCall DEF poolVars, objectVars
<1>6. ASSUME NEW op \in {"RunNested", "RunTerminate"}, SubmitToNull(op) PROVE IInv'
  <2>1. /\ counter' = counter + 1 /\ fault' = "nullQueue"
        /\ UNCHANGED <<todo, at, step, programs, terminated, scheduler, queues, fibers, freeFibers, tasks,
                       objectVars, threadVars>>
    BY <1>6 DEF SubmitToNull
  <2>2. TypeOK'
    BY <1>1, <2>1 DEF TypeOK, objectVars, threadVars
  <2>3. MainOK' /\ PoolOK'
    BY <2>1 DEF MainOK, PoolOK, Remains, Before, Now, Pending, OnlyWorkers
  <2>4. ASSUME NEW v \in Workers PROVE ObjectOK(v)' /\ Rooted(v)' /\ Running(v)'
    BY <2>1 DEF ObjectOK, Rooted, Running, Exists, StartingOK, Before, Now, Pending, objectVars, threadVars
  <2>5. QED
    BY <2>2, <2>3, <2>4
<1>7. QED
  BY <1>2, <1>3, <1>4, <1>5, <1>6 DEF RunTasks

\* WaitAll returns when every thread has ended: StartAll has come before it, so that all
\* handles are there, or there has never been a thread.
LEMMA WaitAllInv ==
  ASSUME IInv, WaitAll
  PROVE  IInv'
<1>1. Remains(todo) /\ TypeOK /\ MainOK
  BY DEF IInv, MainOK
<1>2. /\ todo # <<>> /\ Now = "WaitAll" /\ Joined /\ Return /\ terminated' = TRUE
      /\ UNCHANGED <<programs, fault, poolVars, objectVars, threadVars>>
  BY <1>1, CallsNow DEF WaitAll
<1>3. ~Pending("StartAll")
  BY <1>1, <1>2, NowFacts
<1>4. ASSUME NEW w \in Workers PROVE ~Exists(w)
  BY <1>2, <1>3 DEF IInv, Rooted, Joined, Exists
<1>5. /\ Remains(todo)' /\ at' = 1 /\ step' = "begin" /\ todo' \in Seq(Operations)
      /\ ~Before' /\ ~Pending("StartAll")' /\ (OnlyWorkers' => OnlyWorkers)
      /\ Pending("WaitAll")' => Pending("WaitAll")
  BY <1>1, <1>2, <1>3, ReturnFacts DEF Destroys
<1>6. Before <=> FALSE
  BY <1>2 DEF Before, Creates
<1>7. TypeOK'
  BY <1>1, <1>2, <1>5, OneWorks DEF TypeOK, poolVars, objectVars, threadVars
<1>8. MainOK'
  BY <1>5, OneWorks DEF MainOK
<1>9. PoolOK'
  BY <1>2, <1>5, <1>6 DEF IInv, PoolOK, poolVars
<1>10. ASSUME NEW v \in Workers PROVE ObjectOK(v)'
  BY <1>2, <1>5, <1>6 DEF IInv, ObjectOK, objectVars, Workers
<1>11. ASSUME NEW w \in Workers PROVE Rooted(w)' /\ Running(w)'
  <2>1. wpc[w] \in {"none", "exited"} /\ wpc'[w] = wpc[w]
    BY <1>2, <1>4 DEF Exists, threadVars
  <2>2. QED
    BY <1>5, <2>1 DEF Rooted, Running, Exists, OnFiber
<1>12. QED
  BY <1>7, <1>8, <1>9, <1>10, <1>11 DEF IInv

-----------------------------------------------------------------------------
(* Creating and destroying.                                                *)

LEMMA NoThreads ==
  ASSUME IInv, Before \/ Now \in Destroys
  PROVE  \A w \in Workers : ~Exists(w)
BY ExistsFacts

\* Where there is no thread, and none is being started.
LEMMA StillNoThread ==
  ASSUME NEW w \in Workers, wpc'[w] \in {"none", "exited"},
         Now' = "StartAll" => at' = 1 /\ step' = "begin"
  PROVE  Rooted(w)' /\ Running(w)'
<1>1. ~Exists(w)' /\ w \in Int /\ w >= 1
  BY DEF Exists, Workers
<1>2. StartingOK(w)'
  BY <1>1 DEF StartingOK
<1>3. Rooted(w)'
  BY <1>1, <1>2 DEF Rooted
<1>4. Running(w)'
  BY DEF Running, OnFiber
<1>5. QED
  BY <1>3, <1>4

LEMMA BeginInv ==
  ASSUME IInv, Begin, \A p \in Programs : Disciplined(p)
  PROVE  IInv'
<1>1. /\ todo = <<>> /\ todo' # <<>> /\ todo'[1] \in Creates /\ Remains(todo)'
      /\ at' = 1 /\ step' = "begin" /\ programs' = programs + 1 /\ programs < MaxPrograms
      /\ terminated' = FALSE
      /\ UNCHANGED <<fault, poolVars, objectVars, threadVars>>
  BY DEF Begin, Disciplined, Remains
<1>2. Before /\ Before' /\ Now' # "StartAll" /\ Now' \notin Destroys
  BY <1>1 DEF Before, Now, Creates, Destroys
<1>3. TypeOK'
  <2>1. programs' \in 0 .. MaxPrograms
    BY <1>1, WorkerPoolAssumption DEF IInv, TypeOK, WorkerPoolAssumption
  <2>2. todo' \in Seq(Operations)
    BY <1>1 DEF Remains
  <2>3. QED
    BY <1>1, <2>1, <2>2, OneWorks DEF IInv, TypeOK, poolVars, objectVars, threadVars
<1>4. MainOK'
  BY <1>1, OneWorks DEF MainOK
<1>5. PoolOK'
  BY <1>1, <1>2 DEF IInv, PoolOK, poolVars
<1>6. ASSUME NEW v \in Workers PROVE ObjectOK(v)'
  BY <1>1, <1>2 DEF IInv, ObjectOK, objectVars
<1>7. ASSUME NEW w \in Workers PROVE Rooted(w)' /\ Running(w)'
  BY <1>1, <1>2, NoThreads, StillNoThread DEF Exists, threadVars
<1>8. QED
  BY <1>3, <1>4, <1>5, <1>6, <1>7 DEF IInv

LEMMA NewWorkersInv ==
  ASSUME IInv, todo # <<>>, Now \in Creates, NewWorkers, Return, PoolOK', TypeOK', UNCHANGED terminated
  PROVE  IInv'
<1>1. /\ Remains(todo)' /\ at' = 1 /\ step' = "begin" /\ ~Before'
      /\ Pending("StartAll")' => Pending("StartAll")
  BY ReturnFacts DEF IInv, MainOK, Creates, Destroys
<1>2. \A v \in Workers : object'[v] = "live" /\ wpc'[v] = "none" /\ threadFiber'[v] = FALSE
  BY DEF NewWorkers
<1>3. MainOK'
  BY <1>1, OneWorks DEF IInv, MainOK
<1>4. ASSUME NEW v \in Workers PROVE ObjectOK(v)'
  BY <1>1, <1>2, OneWorks DEF ObjectOK, Workers
<1>5. ASSUME NEW w \in Workers PROVE Rooted(w)' /\ Running(w)'
  BY <1>1, <1>2, StillNoThread
<1>6. QED
  BY <1>3, <1>4, <1>5 DEF IInv

LEMMA NewWorkersType ==
  ASSUME TypeOK, NewWorkers
  PROVE  /\ object' \in [Workers -> {"absent", "live", "deleted"}] /\ handle' \in [Workers -> BOOLEAN]
         /\ threadId' \in [Workers -> Workers \cup {None, Uninitialized}]
         /\ threadFiber' \in [Workers -> BOOLEAN] /\ quit' \in [Workers -> BOOLEAN]
         /\ wpc' \in [Workers -> ThreadStates]
         /\ UNCHANGED <<task, bound, looked>>
BY DEF NewWorkers, TypeOK, ThreadStates

LEMMA InitializeInv ==
  ASSUME IInv, InitializePool \/ Initialize \/ InitializeFails
  PROVE  IInv'
<1>1. Remains(todo) /\ TypeOK /\ MainOK /\ PoolOK
  BY DEF IInv, MainOK
<1>2. CASE InitializePool
  <2>1. todo # <<>> /\ Now = "InitializePool" /\ NewWorkers /\ Return /\ UNCHANGED <<programs, terminated, fault, poolVars>>
    BY <1>1, <1>2, CallsNow DEF InitializePool
  <2>2. /\ Before /\ ~Before' /\ at' = 1 /\ step' = "begin" /\ todo' \in Seq(Operations)
        /\ Remains(todo)'
    BY <1>1, <2>1, ReturnFacts DEF Before, Creates, Destroys
  <2>3. fibers' = {} /\ ~scheduler' /\ ~queues' /\ freeFibers' = <<>>
    BY <1>1, <2>1, <2>2 DEF PoolOK, poolVars
  <2>4. PoolOK'
    BY <2>2, <2>3, EmptySeq DEF PoolOK
  <2>5. TypeOK'
    BY <1>1, <2>1, <2>2, NewWorkersType, OneWorks DEF TypeOK, poolVars
  <2>6. QED
    BY <2>1, <2>4, <2>5, NewWorkersInv DEF Creates
<1>3. CASE Initialize
  <2>1. /\ todo # <<>> /\ Now = "Initialize" /\ NewWorkers /\ Return /\ UNCHANGED <<programs, terminated, fault>>
        /\ scheduler' = TRUE /\ queues' = TRUE /\ fibers' = Fibers /\ freeFibers' = [i \in 1 .. NumSmall |-> i]
        /\ tasks' = <<>> /\ counter' = 0
    BY <1>1, <1>3, CallsNow DEF Initialize
  <2>2. /\ Before /\ ~Before' /\ at' = 1 /\ step' = "begin" /\ todo' \in Seq(Operations)
        /\ ~OnlyWorkers'
    BY <1>1, <2>1, ReturnFacts, NowFacts DEF Before, Creates, Destroys
  <2>3. /\ freeFibers' \in Seq(SmallFibers) /\ Len(freeFibers') = NumSmall
        /\ \A i \in 1 .. NumSmall : freeFibers'[i] = i
    <3>1. NumSmall \in Nat
      BY WorkerPoolAssumption DEF WorkerPoolAssumption
    <3>2. freeFibers' \in [1 .. NumSmall -> SmallFibers]
      BY <2>1 DEF SmallFibers
    <3>3. freeFibers' \in Seq(SmallFibers) /\ Len(freeFibers') = NumSmall
      BY <3>1, <3>2, SeqDef, LenProperties
    <3>4. QED
      BY <2>1, <3>3
  <2>4. 1 \in Fibers /\ 1 .. NumSmall \subseteq Fibers
    BY WorkerPoolAssumption DEF WorkerPoolAssumption, Fibers
  <2>5. PoolOK'
    <3>1. fibers' = Fibers /\ scheduler' /\ step' = "begin" /\ at' = 1
      BY <2>1, <2>2
    <3>2. \A i \in 1 .. Len(freeFibers') : freeFibers'[i] \in fibers'
      BY <2>3, <2>4, <3>1
    <3>3. QED
      BY <2>2, <2>4, <3>1, <3>2 DEF PoolOK
  <2>6. tasks' \in Seq({"nested", "terminate"})
    BY <2>1, EmptySeq
  <2>7. TypeOK'
    <3>1. /\ fibers' = Fibers /\ scheduler' = TRUE /\ queues' = TRUE /\ counter' = 0 /\ UNCHANGED <<programs, terminated, fault>>
          /\ NewWorkers
      BY <2>1
    <3>2. /\ object' \in [Workers -> {"absent", "live", "deleted"}] /\ handle' \in [Workers -> BOOLEAN]
          /\ threadId' \in [Workers -> Workers \cup {None, Uninitialized}]
          /\ threadFiber' \in [Workers -> BOOLEAN] /\ quit' \in [Workers -> BOOLEAN]
          /\ wpc' \in [Workers -> ThreadStates]
          /\ UNCHANGED <<task, bound, looked>>
      BY <1>1, <3>1, NewWorkersType
    <3>3. /\ todo' \in Seq(Operations) /\ at' \in Workers \cup {None} /\ step' = "begin"
          /\ programs' \in 0 .. MaxPrograms /\ terminated' \in BOOLEAN
          /\ scheduler' \in BOOLEAN /\ queues' \in BOOLEAN /\ fibers' \subseteq Fibers
          /\ counter' \in Int /\ fault' \in {"none", "nullQueue", "noFiber"}
      BY <1>1, <2>2, <3>1, OneWorks DEF TypeOK
    <3>4. freeFibers' \in Seq(SmallFibers)
      BY <2>3
    <3>5. QED
      BY <1>1, <2>6, <3>2, <3>3, <3>4 DEF TypeOK
  <2>8. QED
    BY <2>1, <2>5, <2>7, NewWorkersInv DEF Creates
<1>4. CASE InitializeFails
  <2>1. PICK n \in 0 .. NumSmall + NumBig - 1 : fibers' = 1 .. n
    BY <1>4 DEF InitializeFails
  <2>2. /\ todo # <<>> /\ Now = "Initialize" /\ Return
        /\ scheduler' = TRUE /\ queues' = FALSE /\ tasks' = <<>> /\ counter' = 0 /\ freeFibers' = <<>>
        /\ object' = [w \in Workers |-> "absent"]
        /\ UNCHANGED <<programs, terminated, fault, handle, threadId, threadFiber, quit, threadVars>>
    BY <1>1, <1>4, CallsNow DEF InitializeFails
  <2>3. Before
    BY <2>2 DEF Before, Creates
  <2>4. /\ Remains(todo)' /\ todo' \in Seq(Operations) /\ at' = 1 /\ step' = "begin"
        /\ ~Before' /\ ~OnlyWorkers'
        /\ Pending("StartAll")' => Pending("StartAll")
    BY <1>1, <2>2, ReturnFacts, NowFacts DEF Destroys
  <2>5. TypeOK'
    <3>1. fibers' \subseteq Fibers
      BY <2>1, WorkerPoolAssumption DEF WorkerPoolAssumption, Fibers
    <3>2. tasks' \in Seq({"nested", "terminate"}) /\ freeFibers' \in Seq(SmallFibers)
      BY <2>2, EmptySeq
    <3>3. object' \in [Workers -> {"absent", "live", "deleted"}]
      BY <2>2
    <3>4. scheduler' \in BOOLEAN /\ queues' \in BOOLEAN
      BY <2>2, Zenon
    <3>5. counter' \in Int
      BY <2>2
    <3>6. QED
      BY <1>1, <2>2, <2>4, <3>1, <3>2, <3>3, <3>4, <3>5, OneWorks DEF TypeOK, threadVars
  <2>6. MainOK'
    BY <1>1, <2>2, <2>4, OneWorks DEF MainOK
  <2>7. PoolOK'
    <3>1. fibers' = {} \/ 1 \in fibers'
      BY <2>1
    <3>2. Len(freeFibers') = 0
      BY <2>2, EmptySeq
    <3>3. QED
      BY <2>4, <3>1, <3>2 DEF PoolOK
  <2>8. ASSUME NEW v \in Workers PROVE ObjectOK(v)'
    <3>1. ~threadFiber'[v] /\ object'[v] = "absent" /\ object'[1] = "absent" /\ v >= 1
      BY <2>2, <2>3, OneWorks DEF IInv, ObjectOK, Workers
    <3>2. QED
      BY <2>4, <3>1 DEF ObjectOK
  <2>9. ASSUME NEW w \in Workers PROVE Rooted(w)' /\ Running(w)'
    BY <2>2, <2>3, <2>4, NoThreads, StillNoThread DEF Exists, threadVars
  <2>10. QED
    BY <2>5, <2>6, <2>7, <2>8, <2>9 DEF IInv
<1>5. QED
  BY <1>2, <1>3, <1>4

\* StartAll and SignalQuitAll of a pool without workers: then there is no thread.
LEMMA LoopOverNothingInv ==
  ASSUME IInv, LoopOverNothing
  PROVE  IInv'
<1>1. Remains(todo) /\ TypeOK /\ MainOK /\ PoolOK
  BY DEF IInv, MainOK
<1>2. /\ todo # <<>> /\ Now \in {"StartAll", "SignalQuitAll"} /\ object[at] = "absent" /\ Return
      /\ UNCHANGED <<programs, terminated, fault, poolVars, objectVars, threadVars>>
  BY <1>1, CallsNow DEF LoopOverNothing
<1>3. at \in Workers
  BY <1>1, <1>2 DEF MainOK
<1>4. ASSUME NEW w \in Workers PROVE ~Exists(w)
  BY <1>2, <1>3, ExistsFacts
<1>5. /\ Remains(todo)' /\ at' = 1 /\ step' = "begin" /\ todo' \in Seq(Operations)
      /\ ~Before' /\ (OnlyWorkers' => OnlyWorkers)
      /\ Pending("StartAll")' => Pending("StartAll")
      /\ Pending("WaitAll")' => Pending("WaitAll")
  BY <1>1, <1>2, ReturnFacts DEF Destroys
<1>6. Before <=> FALSE
  BY <1>2 DEF Before, Creates
<1>7. TypeOK'
  BY <1>1, <1>2, <1>5, OneWorks DEF TypeOK, poolVars, objectVars, threadVars
<1>8. MainOK'
  BY <1>1, <1>2, <1>5, OneWorks DEF MainOK
<1>9. PoolOK'
  BY <1>1, <1>2, <1>5, <1>6 DEF PoolOK, poolVars
<1>10. ASSUME NEW v \in Workers PROVE ObjectOK(v)'
  BY <1>2, <1>5, <1>6 DEF IInv, ObjectOK, objectVars, Workers
<1>11. ASSUME NEW w \in Workers PROVE Rooted(w)' /\ Running(w)'
  <2>1. wpc'[w] \in {"none", "exited"}
    BY <1>2, <1>4 DEF Exists, threadVars
  <2>2. QED
    BY <1>5, <2>1, StillNoThread
<1>12. QED
  BY <1>7, <1>8, <1>9, <1>10, <1>11 DEF IInv

LEMMA StartAllInv ==
  ASSUME IInv, CreateThread \/ SetThreadId \/ ResumeThread, CreateMayFail = FALSE
  PROVE  IInv'
<1>1. Remains(todo) /\ TypeOK /\ MainOK /\ PoolOK
  BY DEF IInv, MainOK
<1>2. todo # <<>> /\ Now = "StartAll"
  BY <1>1, CallsNow DEF CreateThread, SetThreadId, ResumeThread
<1>3. /\ Pending("StartAll") /\ Pending("WaitAll") /\ ~Before /\ Now \notin Destroys /\ ~terminated
      /\ at \in Workers /\ step \notin {"delete", "queues"}
  BY <1>1, <1>2, NowFacts DEF MainOK, Before, Creates, Destroys
<1>4. \A v \in Workers : object[v] = "live"
  <2>1. object[at] # "absent"
    <3>1. CASE CreateThread
      BY <3>1 DEF CreateThread
    <3>2. CASE SetThreadId \/ ResumeThread
      <4>1. wpc[at] = "suspended"
        BY <1>2, <1>3, <3>2 DEF IInv, Rooted, StartingOK, SetThreadId, ResumeThread
      <4>2. QED
        BY <1>3, <4>1, ExistsFacts DEF Exists
    <3>3. QED
      BY <3>1, <3>2
  <2>2. QED
    BY <1>3, <2>1 DEF IInv, ObjectOK
<1>5. \A v \in Workers : StartingOK(v) /\ Rooted(v) /\ Running(v) /\ ObjectOK(v)
  BY <1>3 DEF IInv, Rooted
<1>6. at \in Int /\ \A v \in Workers : v \in Int
  BY <1>3 DEF Workers
<1>7. CASE CreateThread
  <2>1. /\ step = "begin" /\ handle' = [handle EXCEPT ![at] = TRUE] /\ wpc' = [wpc EXCEPT ![at] = "suspended"]
        /\ step' = "created"
        /\ UNCHANGED <<todo, at, programs, terminated, fault, poolVars, object, threadId, threadFiber, quit,
                       task, bound, looked>>
    BY <1>7 DEF CreateThread
  <2>2. /\ UNCHANGED <<Now, Before, OnlyWorkers>> /\ Pending("StartAll")' = Pending("StartAll")
        /\ Pending("WaitAll")' = Pending("WaitAll") /\ Remains(todo)'
    BY <1>1, <2>1 DEF Now, Before, OnlyWorkers, Pending
  <2>3. /\ wpc'[at] = "suspended" /\ handle'[at] = TRUE
        /\ \A v \in Workers \ {at} : wpc'[v] = wpc[v] /\ handle'[v] = handle[v]
        /\ wpc' \in [Workers -> ThreadStates] /\ handle' \in [Workers -> BOOLEAN]
    BY <1>1, <1>3, <2>1 DEF TypeOK, ThreadStates
  <2>4. TypeOK'
    BY <1>1, <2>1, <2>3 DEF TypeOK, poolVars
  <2>5. MainOK'
    BY <1>1, <1>2, <1>3, <2>1, <2>2 DEF MainOK
  <2>6. PoolOK'
    BY <1>1, <1>3, <2>1, <2>2 DEF PoolOK, poolVars
  <2>7. ASSUME NEW v \in Workers PROVE ObjectOK(v)'
    BY <1>3, <1>5, <2>1, <2>2 DEF ObjectOK
  <2>8. ASSUME NEW w \in Workers PROVE Rooted(w)' /\ Running(w)'
    <3>1. StartingOK(w) /\ Rooted(w) /\ Running(w) /\ w \in Int
      BY <1>5, <1>6
    <3>2. CASE w = at
      BY <1>2, <1>3, <1>4, <1>6, <2>1, <2>2, <2>3, <3>2
      DEF Rooted, Running, StartingOK, Exists, OnFiber
    <3>3. CASE w # at
      <4>1. wpc'[w] = wpc[w] /\ handle'[w] = handle[w]
        BY <2>3, <3>3
      <4>2. Running(w)'
        BY <2>1, <3>1, <4>1 DEF Running, poolVars
      <4>3. StartingOK(w)'
        BY <1>2, <1>6, <2>1, <2>2, <3>1, <3>3, <4>1 DEF StartingOK, Exists
      <4>4. Rooted(w)'
        BY <1>3, <1>4, <2>1, <2>2, <3>1, <4>1, <4>3 DEF Rooted, Exists
      <4>5. QED
        BY <4>2, <4>4
    <3>4. QED
      BY <3>2, <3>3
  <2>9. QED
    BY <2>4, <2>5, <2>6, <2>7, <2>8 DEF IInv
<1>8. CASE SetThreadId
  <2>1. /\ step = "created" /\ threadId' = [threadId EXCEPT ![at] = IF handle[at] THEN at ELSE None]
        /\ step' = "identified"
        /\ UNCHANGED <<todo, at, programs, terminated, fault, poolVars, object, handle, threadFiber, quit,
                       threadVars>>
    BY <1>8 DEF SetThreadId
  <2>2. /\ UNCHANGED <<Now, Before, OnlyWorkers>> /\ Pending("StartAll")' = Pending("StartAll")
        /\ Pending("WaitAll")' = Pending("WaitAll") /\ Remains(todo)'
    BY <1>1, <2>1 DEF Now, Before, OnlyWorkers, Pending
  <2>3. handle[at] /\ wpc[at] = "suspended"
    BY <1>2, <1>3, <1>5, <2>1 DEF StartingOK
  <2>4. /\ threadId'[at] = at /\ \A v \in Workers \ {at} : threadId'[v] = threadId[v]
        /\ threadId' \in [Workers -> Workers \cup {None, Uninitialized}]
    BY <1>1, <1>3, <2>1, <2>3 DEF TypeOK
  <2>5. TypeOK'
    BY <1>1, <2>1, <2>4 DEF TypeOK, poolVars, threadVars
  <2>6. MainOK'
    BY <1>1, <1>2, <1>3, <2>1, <2>2 DEF MainOK
  <2>7. PoolOK'
    BY <1>1, <1>3, <2>1, <2>2 DEF PoolOK, poolVars
  <2>8. ASSUME NEW v \in Workers PROVE ObjectOK(v)'
    BY <1>3, <1>5, <2>1, <2>2 DEF ObjectOK
  <2>9. ASSUME NEW w \in Workers PROVE Rooted(w)' /\ Running(w)'
    <3>1. StartingOK(w) /\ Rooted(w) /\ Running(w) /\ w \in Int
      BY <1>5, <1>6
    <3>2. Running(w)'
      BY <2>1, <3>1 DEF Running, poolVars, threadVars
    <3>3. StartingOK(w)'
      BY <1>2, <1>6, <2>1, <2>2, <2>3, <2>4, <3>1 DEF StartingOK, Exists, threadVars
    <3>4. ASSUME Exists(w), wpc[w] # "suspended", NEW v \in 1 .. w PROVE threadId'[v] = v
      <4>1. v \in Workers /\ threadId[v] = v
        BY <3>1, <3>4, OneWorks DEF Rooted, Workers
      <4>2. QED
        BY <2>4, <4>1
    <3>5. Rooted(w)'
      BY <1>3, <2>1, <2>2, <3>1, <3>3, <3>4 DEF Rooted, Exists, threadVars
    <3>6. QED
      BY <3>2, <3>5
  <2>10. QED
    BY <2>5, <2>6, <2>7, <2>8, <2>9 DEF IInv
<1>9. CASE ResumeThread
  <2>1. /\ step = "identified" /\ wpc' = [wpc EXCEPT ![at] = IF @ = "suspended" THEN "ready" ELSE @]
        /\ NextWorker
        /\ UNCHANGED <<programs, terminated, fault, poolVars, objectVars, task, bound, looked>>
    BY <1>9 DEF ResumeThread
  <2>2. wpc[at] = "suspended" /\ handle[at] /\ threadId[at] = at
    BY <1>2, <1>3, <1>5, <2>1 DEF StartingOK
  <2>3. /\ wpc'[at] = "ready" /\ \A v \in Workers \ {at} : wpc'[v] = wpc[v]
        /\ wpc' \in [Workers -> ThreadStates]
    BY <1>1, <1>3, <2>1, <2>2 DEF TypeOK, ThreadStates
  <2>4. \/ at < NumCores /\ at' = at + 1 /\ step' = "begin" /\ UNCHANGED todo /\ at' \in Workers
        \/ at = NumCores /\ Return
    BY <1>1, <1>2, <2>1, NextWorkerFacts
  <2>5. /\ Remains(todo)' /\ todo' \in Seq(Operations) /\ at' \in Workers /\ step' = "begin"
        /\ ~Before' /\ Pending("WaitAll")' /\ (OnlyWorkers' => OnlyWorkers)
        /\ Now' \in Destroys => at' = 1
        /\ Pending("StartAll")' => at < NumCores /\ at' = at + 1 /\ Now' = "StartAll"
        /\ ~Pending("StartAll")' => at = NumCores
    <3>1. CASE at < NumCores /\ at' = at + 1 /\ step' = "begin" /\ UNCHANGED todo /\ at' \in Workers
      <4>1. /\ UNCHANGED <<Now, Before, OnlyWorkers>> /\ Pending("StartAll")' = Pending("StartAll")
            /\ Pending("WaitAll")' = Pending("WaitAll") /\ Remains(todo)'
        BY <1>1, <3>1 DEF Now, Before, OnlyWorkers, Pending
      <4>2. QED
        BY <1>1, <1>2, <1>3, <3>1, <4>1 DEF TypeOK
    <3>2. CASE at = NumCores /\ Return
      BY <1>1, <1>2, <1>3, <3>2, ReturnFacts, OneWorks
    <3>3. QED
      BY <2>4, <3>1, <3>2
  <2>6. TypeOK'
    BY <1>1, <2>1, <2>3, <2>5 DEF TypeOK, poolVars, objectVars
  <2>7. MainOK'
    BY <1>3, <2>1, <2>5 DEF MainOK
  <2>8. PoolOK'
    BY <1>1, <1>3, <2>1, <2>5 DEF PoolOK, poolVars
  <2>9. ASSUME NEW v \in Workers PROVE ObjectOK(v)'
    <3>1. v \in Int /\ v >= 1
      BY DEF Workers
    <3>2. object'[v] = "live" /\ object'[1] = "live" /\ ~Before' /\ step' = "begin"
      BY <1>4, <2>1, <2>5, OneWorks DEF objectVars
    <3>3. ~(Now' \in Destroys /\ v < at')
      BY <2>5, <3>1
    <3>4. QED
      BY <3>2, <3>3 DEF ObjectOK
  <2>10. ASSUME NEW w \in Workers PROVE Rooted(w)' /\ Running(w)'
    <3>1. StartingOK(w) /\ Rooted(w) /\ Running(w) /\ w \in Int
      BY <1>5, <1>6
    <3>2. Running(w)'
      <4>1. CASE w = at
        BY <2>3, <4>1 DEF Running, OnFiber
      <4>2. CASE w # at
        BY <2>1, <2>3, <3>1, <4>2 DEF Running, poolVars, objectVars
      <4>3. QED
        BY <4>1, <4>2
    <3>3. Pending("StartAll")' => StartingOK(w)'
      <4>1. SUFFICES ASSUME Pending("StartAll")' PROVE StartingOK(w)'
        OBVIOUS
      <4>2. at' = at + 1 /\ Now' = "StartAll" /\ step' = "begin"
        BY <2>5, <4>1
      <4>3. w < at' => handle'[w] /\ threadId'[w] = w
        BY <1>2, <1>6, <2>1, <2>2, <3>1, <4>2 DEF StartingOK, objectVars
      <4>4. w >= at' => ~Exists(w)'
        BY <1>2, <1>6, <2>3, <3>1, <4>2 DEF StartingOK, Exists
      <4>5. at' \in Int
        BY <1>6, <4>2
      <4>6. QED
        BY <3>1, <4>2, <4>3, <4>4, <4>5 DEF StartingOK
    <3>4. ~Pending("StartAll")' => \A v \in Workers : handle'[v]
      <4>1. SUFFICES ASSUME ~Pending("StartAll")', NEW v \in Workers PROVE handle'[v]
        OBVIOUS
      <4>2. v = at \/ v < at
        BY <2>5, <4>1, OneWorks DEF Workers
      <4>3. QED
        BY <1>2, <1>5, <2>1, <2>2, <4>2 DEF StartingOK, objectVars
    <3>5. ASSUME Exists(w)', wpc'[w] # "suspended", NEW v \in 1 .. w PROVE threadId'[v] = v
      <4>1. v \in Workers
        BY OneWorks DEF Workers
      <4>2. CASE w = at
        BY <1>2, <1>5, <2>1, <2>2, <4>1, <4>2 DEF StartingOK, objectVars
      <4>3. CASE w # at
        BY <2>1, <2>3, <3>1, <3>5, <4>3 DEF Rooted, Exists, objectVars
      <4>4. QED
        BY <4>2, <4>3
    <3>6. Rooted(w)'
      BY <1>3, <1>4, <2>1, <2>5, <3>3, <3>4, <3>5 DEF Rooted, objectVars
    <3>7. QED
      BY <3>2, <3>6
  <2>11. QED
    BY <2>6, <2>7, <2>8, <2>9, <2>10 DEF IInv
<1>10. QED
  BY <1>7, <1>8, <1>9

\* While the main thread destroys, there is no thread.
LEMMA DestroyFacts ==
  ASSUME IInv, Now \in Destroys
  PROVE  /\ todo # <<>> /\ at \in Workers /\ at \in Int
         /\ ~Before /\ ~Pending("StartAll") /\ ~Pending("WaitAll")
         /\ OnlyWorkers <=> Now = "DestroyPool"
         /\ Now # "StartAll"
         /\ \A w \in Workers : wpc[w] \in {"none", "exited"}
         /\ fibers \cap SmallFibers = {} => fibers = {}
<1>1. Remains(todo) /\ MainOK
  BY DEF IInv, MainOK
<1>2. todo # <<>> /\ at \in Workers /\ at \in Int
  BY <1>1, NowFacts DEF MainOK, Destroys, Workers
<1>3. \A w \in Workers : wpc[w] \in {"none", "exited"}
  BY NoThreads DEF Exists
<1>4. fibers \cap SmallFibers = {} => fibers = {}
  BY WorkerPoolAssumption DEF WorkerPoolAssumption, IInv, PoolOK, SmallFibers
<1>5. QED
  BY <1>1, <1>2, <1>3, <1>4, NowFacts DEF Before, Creates, Destroys

LEMMA DestroyInv ==
  ASSUME IInv, DestroyFibers \/ DestroyWorker \/ DeleteWorker \/ DestroyQueues
  PROVE  IInv'
<1>1. Remains(todo) /\ TypeOK /\ MainOK /\ PoolOK
  BY DEF IInv, MainOK
<1>2. Now \in Destroys
  <2>1. CASE DeleteWorker
    BY <1>1, <2>1 DEF DeleteWorker, MainOK
  <2>2. QED
    BY <1>1, <2>1, CallsNow DEF DestroyFibers, DestroyWorker, DestroyQueues, Destroys
<1>3. /\ todo # <<>> /\ at \in Workers /\ at \in Int
      /\ ~Before /\ ~Pending("StartAll") /\ ~Pending("WaitAll")
      /\ OnlyWorkers <=> Now = "DestroyPool"
      /\ Now # "StartAll"
      /\ \A w \in Workers : wpc[w] \in {"none", "exited"}
      /\ fibers \cap SmallFibers = {} => fibers = {}
  BY <1>2, DestroyFacts
<1>4. \A v \in Workers : ObjectOK(v) /\ v \in Int /\ v >= 1
  BY DEF IInv, Workers
<1>5. todo' = todo =>
        /\ UNCHANGED <<Now, Before, OnlyWorkers>> /\ Pending("StartAll")' = Pending("StartAll")
        /\ Pending("WaitAll")' = Pending("WaitAll") /\ Remains(todo)'
  BY <1>1 DEF Now, Before, OnlyWorkers, Pending
<1>6. Return =>
        /\ Remains(todo)' /\ todo' \in Seq(Operations) /\ at' = 1 /\ step' = "begin"
        /\ Before' /\ Now' = "none" /\ ~Pending("StartAll")' /\ ~Pending("WaitAll")'
  BY <1>1, <1>2, <1>3, ReturnFacts DEF Before
<1>7. UNCHANGED wpc => \A w \in Workers : (Now' # "StartAll" => Rooted(w)' /\ Running(w)')
  BY <1>3, StillNoThread
<1>8. CASE DestroyFibers
  <2>1. /\ step = "begin" /\ at = 1 /\ fibers' = {}
        /\ UNCHANGED <<mainVars, scheduler, queues, freeFibers, tasks, counter, objectVars, threadVars>>
    BY <1>8 DEF DestroyFibers
  <2>2. TypeOK'
    BY <1>1, <2>1 DEF TypeOK, mainVars, objectVars, threadVars
  <2>3. MainOK'
    BY <1>1, <1>5, <2>1 DEF MainOK, mainVars
  <2>4. PoolOK'
    BY <1>1, <1>3, <1>5, <2>1 DEF PoolOK, mainVars
  <2>5. ASSUME NEW v \in Workers PROVE ObjectOK(v)'
    BY <1>4, <1>5, <2>1 DEF ObjectOK, mainVars, objectVars
  <2>6. QED
    BY <1>3, <1>5, <1>7, <2>1, <2>2, <2>3, <2>4, <2>5 DEF IInv, mainVars, threadVars
<1>9. CASE DestroyWorker
  <2>1. /\ step = "begin" /\ object[at] = "live" /\ (at = 1 => fibers \cap SmallFibers = {})
        /\ threadFiber' = [threadFiber EXCEPT ![at] = FALSE] /\ quit' = [quit EXCEPT ![at] = TRUE]
        /\ step' = "delete"
        /\ UNCHANGED <<todo, at, programs, terminated, fault, poolVars, object, handle, threadId, threadVars>>
    BY <1>9 DEF DestroyWorker
  <2>2. /\ threadFiber'[at] = FALSE /\ \A v \in Workers \ {at} : threadFiber'[v] = threadFiber[v]
        /\ threadFiber' \in [Workers -> BOOLEAN] /\ quit' \in [Workers -> BOOLEAN]
    BY <1>1, <1>3, <2>1 DEF TypeOK
  <2>3. fibers = {}
    BY <1>1, <1>2, <1>3, <2>1 DEF PoolOK, Workers
  <2>4. TypeOK'
    BY <1>1, <2>1, <2>2 DEF TypeOK, poolVars, threadVars
  <2>5. MainOK'
    BY <1>1, <1>2, <1>5, <2>1 DEF MainOK
  <2>6. PoolOK'
    BY <1>1, <1>3, <1>5, <2>1, <2>3 DEF PoolOK, poolVars
  <2>7. ASSUME NEW v \in Workers PROVE ObjectOK(v)'
    BY <1>3, <1>4, <1>5, <2>1, <2>2 DEF ObjectOK
  <2>8. QED
    BY <1>3, <1>5, <1>7, <2>1, <2>4, <2>5, <2>6, <2>7 DEF IInv, threadVars
<1>10. CASE DeleteWorker
  <2>1. /\ step = "delete" /\ object' = [object EXCEPT ![at] = "deleted"]
        /\ UNCHANGED <<programs, terminated, fault, poolVars, handle, threadId, threadFiber, quit, threadVars>>
    BY <1>10 DEF DeleteWorker
  <2>2. \/ at < NumCores /\ at' = at + 1 /\ step' = "begin" /\ UNCHANGED todo
        \/ at = NumCores /\ Now = "DestroyPool" /\ Return
        \/ at = NumCores /\ Now = "Destroy" /\ step' = "queues" /\ UNCHANGED <<todo, at>>
    <3>1. at < NumCores \/ at = NumCores
      BY <1>3, OneWorks DEF Workers
    <3>2. Calls("DestroyPool") <=> Now = "DestroyPool"
      BY <1>1, <1>3, NowFacts DEF Calls
    <3>3. QED
      BY <1>2, <1>10, <3>1, <3>2 DEF DeleteWorker, Destroys
  <2>3. /\ object'[at] = "deleted" /\ \A v \in Workers \ {at} : object'[v] = object[v]
        /\ object' \in [Workers -> {"absent", "live", "deleted"}]
    BY <1>1, <1>3, <2>1 DEF TypeOK
  <2>4. fibers = {}
    BY <1>1, <1>2, <2>1 DEF PoolOK
  <2>5. object[at] = "live" /\ ~threadFiber[at] /\ object[1] # "absent"
    BY <1>3, <1>4, <2>1 DEF ObjectOK
  <2>6. object'[1] # "absent"
    BY <2>3, <2>5, OneWorks
  <2>7. ASSUME NEW v \in Workers PROVE (object'[v] # "live" => ~threadFiber'[v]) /\ (v <= at => object'[v] # "live")
                                        /\ object'[v] # "absent"
    <3>1. CASE v = at
      BY <2>1, <2>3, <2>5, <3>1
    <3>2. CASE v # at
      BY <1>2, <1>3, <1>4, <2>1, <2>3, <3>2 DEF ObjectOK
    <3>3. QED
      BY <3>1, <3>2
  <2>8. CASE at < NumCores /\ at' = at + 1 /\ step' = "begin" /\ UNCHANGED todo
    <3>1. at' \in Workers /\ at' \in Int
      BY <1>3, <2>8, OneWorks DEF Workers
    <3>2. TypeOK'
      BY <1>1, <2>1, <2>3, <2>8, <3>1 DEF TypeOK, poolVars, threadVars
    <3>3. MainOK'
      BY <1>1, <1>5, <2>1, <2>8, <3>1 DEF MainOK
    <3>4. PoolOK'
      BY <1>1, <1>3, <1>5, <2>1, <2>4, <2>8 DEF PoolOK, poolVars
    <3>5. ASSUME NEW v \in Workers PROVE ObjectOK(v)'
      BY <1>3, <1>4, <1>5, <2>6, <2>7, <2>8 DEF ObjectOK
    <3>6. QED
      BY <1>3, <1>5, <1>7, <2>1, <2>8, <3>2, <3>3, <3>4, <3>5 DEF IInv, threadVars
  <2>9. CASE at = NumCores /\ Now = "DestroyPool" /\ Return
    <3>1. TypeOK'
      BY <1>1, <1>6, <2>1, <2>3, <2>9, OneWorks DEF TypeOK, poolVars, threadVars
    <3>2. MainOK'
      BY <1>6, <2>9, OneWorks DEF MainOK
    <3>3. PoolOK'
      BY <1>1, <1>3, <1>6, <2>1, <2>9 DEF PoolOK, poolVars, Destroys
    <3>4. ASSUME NEW v \in Workers PROVE ObjectOK(v)'
      <4>1. object'[v] = "deleted" /\ object'[1] # "absent" /\ ~threadFiber'[v]
        BY <1>4, <2>3, <2>6, <2>7, <2>9 DEF Workers
      <4>2. QED
        BY <1>6, <2>9, <4>1 DEF ObjectOK
    <3>5. QED
      BY <1>6, <1>7, <2>1, <2>9, <3>1, <3>2, <3>3, <3>4 DEF IInv, threadVars
  <2>10. CASE at = NumCores /\ Now = "Destroy" /\ step' = "queues" /\ UNCHANGED <<todo, at>>
    <3>1. TypeOK'
      BY <1>1, <2>1, <2>3, <2>10 DEF TypeOK, poolVars, threadVars
    <3>2. MainOK'
      BY <1>1, <1>2, <1>5, <2>1, <2>10 DEF MainOK
    <3>3. PoolOK'
      BY <1>1, <1>3, <1>5, <2>1, <2>4, <2>10 DEF PoolOK, poolVars
    <3>4. ASSUME NEW v \in Workers PROVE ObjectOK(v)'
      <4>1. object'[v] = "deleted" /\ object'[1] # "absent" /\ ~threadFiber'[v]
        BY <1>4, <2>3, <2>6, <2>7, <2>10 DEF Workers
      <4>2. QED
        BY <1>3, <1>5, <2>10, <4>1 DEF ObjectOK
    <3>5. QED
      BY <1>3, <1>5, <1>7, <2>1, <2>10, <3>1, <3>2, <3>3, <3>4 DEF IInv, threadVars
  <2>11. QED
    BY <2>2, <2>8, <2>9, <2>10
<1>11. CASE DestroyQueues
  <2>1. /\ Now = "Destroy" /\ Return
        /\ \/ step = "queues"
           \/ step = "begin" /\ object[1] = "absent" /\ fibers \cap SmallFibers = {}
        /\ scheduler' = FALSE /\ queues' = FALSE /\ freeFibers' = <<>> /\ tasks' = <<>>
        /\ UNCHANGED <<programs, terminated, fault, fibers, counter, objectVars, threadVars>>
    BY <1>1, <1>11, CallsNow DEF DestroyQueues
  <2>2. fibers = {}
    BY <1>1, <1>2, <1>3, <2>1 DEF PoolOK
  <2>3. \A v \in Workers : object[v] # "live" /\ ~threadFiber[v]
    BY <1>2, <1>4, <2>1 DEF ObjectOK
  <2>4. tasks' \in Seq({"nested", "terminate"}) /\ freeFibers' \in Seq(SmallFibers)
    BY <2>1, EmptySeq
  <2>5. TypeOK'
    BY <1>1, <1>6, <2>1, <2>4, OneWorks DEF TypeOK, objectVars, threadVars
  <2>6. MainOK'
    BY <1>6, <2>1, OneWorks DEF MainOK
  <2>7. PoolOK'
    BY <1>6, <2>1, <2>2 DEF PoolOK, Destroys
  <2>8. ASSUME NEW v \in Workers PROVE ObjectOK(v)'
    BY <1>4, <1>6, <2>1, <2>3 DEF ObjectOK, objectVars, Destroys
  <2>9. QED
    BY <1>6, <1>7, <2>1, <2>5, <2>6, <2>7, <2>8 DEF IInv, threadVars
<1>12. QED
  BY <1>8, <1>9, <1>10, <1>11

-----------------------------------------------------------------------------
(* The theorems.                                                           *)

LEMMA InitInv ==
  ASSUME Init
  PROVE  IInv
<1>1. /\ todo = <<>> /\ Len(todo) = 0 /\ todo \in Seq(Operations)
      /\ freeFibers = <<>> /\ Len(freeFibers) = 0 /\ freeFibers \in Seq(SmallFibers)
      /\ tasks \in Seq({"nested", "terminate"})
  BY EmptySeq DEF Init
<1>2. Remains(todo) /\ Now = "none" /\ ~Pending("StartAll") /\ ~Pending("WaitAll") /\ ~OnlyWorkers
  BY <1>1 DEF Remains, Now, Pending, Has, OnlyWorkers
<1>3. TypeOK
  <2>1. programs \in 0 .. MaxPrograms
    BY WorkerPoolAssumption DEF Init, WorkerPoolAssumption
  <2>2. looked \in [Workers -> [at : Workers \cup {None}, found : Workers \cup {None}]]
    BY DEF Init
  <2>3. /\ threadFiber \in [Workers -> BOOLEAN] /\ quit \in [Workers -> BOOLEAN]
        /\ handle \in [Workers -> BOOLEAN]
    BY DEF Init
  <2>4. wpc \in [Workers -> ThreadStates] /\ object \in [Workers -> {"absent", "live", "deleted"}]
    BY DEF Init, ThreadStates
  <2>5. /\ task \in [Workers -> {"none", "nested", "terminate"}]
        /\ bound \in [Workers -> Fibers \cup {None}]
        /\ threadId \in [Workers -> Workers \cup {None, Uninitialized}]
    BY DEF Init
  <2>6. /\ step \in {"begin", "created", "identified", "delete", "queues"}
        /\ at \in Workers \cup {None} /\ fibers \subseteq Fibers /\ counter \in Int
    BY DEF Init
  <2>7. /\ terminated \in BOOLEAN /\ scheduler \in BOOLEAN /\ queues \in BOOLEAN
        /\ fault \in {"none", "nullQueue", "noFiber"}
    BY Zenon DEF Init
  <2>8. QED
    BY <1>1, <2>1, <2>2, <2>3, <2>4, <2>5, <2>6, <2>7 DEF TypeOK
<1>4. MainOK
  BY <1>1, <1>2 DEF Init, MainOK
<1>5. PoolOK
  BY <1>1, <1>2 DEF Init, PoolOK, Destroys
<1>6. ASSUME NEW v \in Workers PROVE ObjectOK(v)
  BY <1>2 DEF Init, ObjectOK, Destroys
<1>7. ASSUME NEW w \in Workers PROVE Rooted(w) /\ Running(w)
  <2>1. wpc[w] = "none"
    BY DEF Init
  <2>2. QED
    BY <1>2, <2>1 DEF Rooted, Running, Exists, OnFiber, StartingOK
<1>8. QED
  BY <1>3, <1>4, <1>5, <1>6, <1>7 DEF IInv

LEMMA NextInv ==
  ASSUME CreateMayFail = FALSE, \A p \in Programs : Disciplined(p), IInv, [Next]_vars
  PROVE  IInv'
<1>1. CASE Begin
  BY <1>1, BeginInv
<1>2. CASE InitializePool \/ Initialize \/ InitializeFails
  BY <1>2, InitializeInv
<1>3. CASE LoopOverNothing \/ CreateThread \/ SetThreadId \/ ResumeThread
  BY <1>3, LoopOverNothingInv, StartAllInv
<1>4. CASE RunTasks \/ MainWaitForCounter \/ MainSignalQuit
  BY <1>4, QuietInv
<1>5. CASE WaitAll
  BY <1>5, WaitAllInv
<1>6. CASE DestroyFibers \/ DestroyWorker \/ DeleteWorker \/ DestroyQueues
  BY <1>6, DestroyInv
<1>7. CASE \E w \in Workers : Worker(w)
  BY <1>7, WorkerInv
<1>8. CASE UNCHANGED vars
  BY <1>8 DEF vars, mainVars, poolVars, objectVars, threadVars, IInv, TypeOK, MainOK, PoolOK, ObjectOK,
              Rooted, Running, Exists, StartingOK, Before, Now, Pending, OnlyWorkers
<1>9. QED
  BY <1>1, <1>2, <1>3, <1>4, <1>5, <1>6, <1>7, <1>8 DEF Next, Main

\* The life of the scheduler keeps the invariant, whatever the programs are, as
\* long as each follows the order of calls that Disciplined states and every
\* thread is created that StartAll asks for.
THEOREM Invariance ==
  ASSUME CreateMayFail = FALSE, \A p \in Programs : Disciplined(p)
  PROVE  Spec => []IInv
<1>1. Init => IInv
  BY InitInv
<1>2. IInv /\ [Next]_vars => IInv'
  BY NextInv
<1>3. QED
  BY <1>1, <1>2, PTL DEF Spec

\* Every variable stays in its type.
THEOREM Typing ==
  ASSUME CreateMayFail = FALSE, \A p \in Programs : Disciplined(p)
  PROVE  Spec => []TypeOK
<1>1. IInv => TypeOK
  BY DEF IInv
<1>2. QED
  BY <1>1, Invariance, PTL

\* Destroy never takes from a running thread its worker object, its own fiber, the
\* fiber of its task or the workers that it looks through.
THEOREM UseBeforeDestroy ==
  ASSUME CreateMayFail = FALSE, \A p \in Programs : Disciplined(p)
  PROVE  Spec => []NothingDestroyedInUse
<1>1. ASSUME IInv, NEW w \in Workers
      PROVE  /\ Exists(w) => object[w] = "live"
             /\ wpc[w] \in OnFiber \cup {"loop", "poll"} => threadFiber[w]
             /\ wpc[w] \in OnFiber => bound[w] \in fibers /\ scheduler
             /\ wpc[w] \in {"find", "quitAll"} => \A v \in Workers : object[v] = "live"
  <2>1. Rooted(w) /\ Running(w)
    BY <1>1 DEF IInv
  <2>2. wpc[w] \in {"find", "quitAll"} => Exists(w)
    BY DEF Exists
  <2>3. QED
    BY <2>1, <2>2 DEF Rooted, Running
<1>2. IInv => NothingDestroyedInUse
  BY <1>1 DEF NothingDestroyedInUse
<1>3. QED
  BY <1>2, Invariance, PTL

\* When WaitAll has returned no worker thread is left.
THEOREM WaitAllJoins ==
  ASSUME CreateMayFail = FALSE, \A p \in Programs : Disciplined(p)
  PROVE  Spec => []TerminatedMeansEnded
<1>1. IInv => TerminatedMeansEnded
  BY DEF IInv, Rooted, TerminatedMeansEnded
<1>2. QED
  BY <1>1, Invariance, PTL

\* A task that asks for the current worker finds the worker it runs on, although
\* threads run before StartAll has set every m_ThreadId.
THEOREM CurrentWorkerFound ==
  ASSUME CreateMayFail = FALSE, \A p \in Programs : Disciplined(p)
  PROVE  Spec => []FindsItself
<1>1. IInv => FindsItself
  BY DEF IInv, Running, FindsItself
<1>2. QED
  BY <1>1, Invariance, PTL

\* Two programs of a process do not meet: what could still run of the first, and the
\* scheduler, queues and fibers that the second could find, are gone before it
\* begins, also where the first went on after Initialize had failed.
THEOREM CleanBetweenPrograms ==
  ASSUME CreateMayFail = FALSE, \A p \in Programs : Disciplined(p)
  PROVE  Spec => []ProgramsApart
<1>1. ASSUME IInv, todo = <<>> PROVE ProgramsApart
  <2>1. Before
    BY <1>1 DEF Before, Now
  <2>2. fibers = {} /\ ~scheduler /\ ~queues
    BY <1>1, <2>1 DEF IInv, PoolOK
  <2>3. \A w \in Workers : object[w] # "live" /\ ~threadFiber[w]
    BY <1>1, <2>1 DEF IInv, ObjectOK
  <2>4. \A w \in Workers : ~Exists(w)
    BY <1>1, <2>1, NoThreads
  <2>5. QED
    BY <2>2, <2>3, <2>4 DEF ProgramsApart
<1>2. IInv => ProgramsApart
  BY <1>1 DEF ProgramsApart
<1>3. QED
  BY <1>2, Invariance, PTL

\* What the programs of the tests end with, after what comes before it.
Terminate == <<"RunTerminate", "WaitForCounter", "WaitAll", "Destroy">>

LEMMA TerminateDisciplined ==
  ASSUME NEW q \in Seq(Operations), q # <<>>, q[1] = "Initialize",
         \A i \in 1 .. Len(q) : i > 1 => q[i] \notin Creates,
         \A i \in 1 .. Len(q) : q[i] \notin Destroys \cup {"WaitAll"},
         \A i, j \in 1 .. Len(q) : q[i] = "StartAll" /\ q[j] = "StartAll" => i = j
  PROVE  Disciplined(q \o Terminate)
<1>1. PICK p : p = q \o Terminate
  OBVIOUS
<1>2. PICK n \in Nat : n = Len(q) /\ n >= 1
  BY EmptySeq
<1>3. /\ Terminate \in Seq(Operations) /\ Len(Terminate) = 4
      /\ Terminate[1] = "RunTerminate" /\ Terminate[2] = "WaitForCounter"
      /\ Terminate[3] = "WaitAll" /\ Terminate[4] = "Destroy"
  BY DEF Terminate, Operations, Creates, Destroys
<1>4. p \in Seq(Operations) /\ Len(p) = n + 4
  BY <1>1, <1>2, <1>3, ConcatProperties
<1>5. \A i \in 1 .. n + 4 : p[i] = IF i <= n THEN q[i] ELSE Terminate[i - n]
  <2>1. \A i \in 1 .. Len(q) + Len(Terminate) :
          (q \o Terminate)[i] = IF i <= Len(q) THEN q[i] ELSE Terminate[i - Len(q)]
    <3>1. q \in Seq(Operations) /\ Terminate \in Seq(Operations)
      BY <1>3
    <3>2. QED
      BY <3>1, ConcatProperties, ZenonT(60)
  <2>2. QED
    BY <1>1, <1>2, <1>3, <2>1
<1>6. \A i \in 1 .. n : p[i] = q[i]
  BY <1>5
<1>7. /\ p[n + 1] = "RunTerminate" /\ p[n + 2] = "WaitForCounter" /\ p[n + 3] = "WaitAll"
      /\ p[n + 4] = "Destroy"
  <2>1. /\ p[n + 1] = Terminate[(n + 1) - n] /\ p[n + 2] = Terminate[(n + 2) - n]
        /\ p[n + 3] = Terminate[(n + 3) - n] /\ p[n + 4] = Terminate[(n + 4) - n]
    BY <1>5
  <2>2. (n + 1) - n = 1 /\ (n + 2) - n = 2 /\ (n + 3) - n = 3 /\ (n + 4) - n = 4
    OBVIOUS
  <2>3. QED
    BY <1>3, <2>1, <2>2
<1>8. \A i \in 1 .. n + 4 : i \in 1 .. n \/ i = n + 1 \/ i = n + 2 \/ i = n + 3 \/ i = n + 4
  OBVIOUS
<1>9. \A i \in 1 .. n + 4 : p[i] \in Destroys <=> i = n + 4
  BY <1>2, <1>6, <1>7, <1>8 DEF Destroys
<1>10. p[1] = "Initialize" /\ p[n + 4] = "Destroy"
  BY <1>2, <1>6, <1>7
<1>11. \A i \in 1 .. n + 4 : p[i] \in Creates => i = 1
  BY <1>2, <1>6, <1>7, <1>8 DEF Creates
<1>12. \A i \in 1 .. n + 4 : p[i] = "StartAll" => i \in 1 .. n /\ q[i] = "StartAll"
  BY <1>6, <1>7, <1>8
<1>13. \A i, j \in 1 .. n + 4 : p[i] = "StartAll" /\ p[j] = "StartAll" => i = j
  BY <1>2, <1>12
<1>14. \A i \in 1 .. n + 4 : p[i] = "WaitAll" => i > n
  BY <1>2, <1>6
<1>15. \A i, j \in 1 .. n + 4 : p[i] = "StartAll" /\ p[j] = "WaitAll" => i < j
  BY <1>12, <1>14
<1>16. p[n + 3] = "WaitAll" /\ n + 3 \in 1 .. n + 4
  BY <1>7
<1>17. \A i \in 1 .. n + 4 : p[i] # "InitializePool"
  BY <1>10, <1>11 DEF Creates
<1>18. Remains(p)
  BY <1>4, <1>9, <1>10, <1>11, <1>13, <1>15, <1>16, <1>17 DEF Remains
<1>19. p # <<>> /\ p[1] \in Creates
  BY <1>4, <1>10, EmptySeq DEF Creates
<1>20. QED
  BY <1>1, <1>18, <1>19 DEF Disciplined

\* The programs of the tests keep to the order of calls that the theorems ask for.
THEOREM TestsDisciplined == \A p \in TestPrograms : Disciplined(p)
<1>1. ASSUME NEW p, p = <<"InitializePool", "StartAll", "SignalQuitAll", "WaitAll", "DestroyPool">>
      PROVE  Disciplined(p)
  <2>1. /\ p \in Seq(Operations) /\ Len(p) = 5 /\ p # <<>> /\ p[1] = "InitializePool"
        /\ p[2] = "StartAll" /\ p[3] = "SignalQuitAll" /\ p[4] = "WaitAll" /\ p[5] = "DestroyPool"
    BY <1>1 DEF Operations, Creates, Destroys
  <2>2. QED
    BY <2>1 DEF Disciplined, Remains, Creates, Destroys
<1>2. ASSUME NEW p, p = <<"Initialize", "Destroy">> PROVE Disciplined(p)
  <2>1. p \in Seq(Operations) /\ Len(p) = 2 /\ p # <<>> /\ p[1] = "Initialize" /\ p[2] = "Destroy"
    BY <1>2 DEF Operations, Creates, Destroys
  <2>2. QED
    BY <2>1 DEF Disciplined, Remains, Creates, Destroys
<1>3. ASSUME NEW q, q = <<"Initialize", "StartAll">> PROVE Disciplined(q \o Terminate)
  <2>1. q \in Seq(Operations) /\ Len(q) = 2 /\ q # <<>> /\ q[1] = "Initialize" /\ q[2] = "StartAll"
    BY <1>3 DEF Operations, Creates, Destroys
  <2>2. QED
    BY <2>1, TerminateDisciplined DEF Creates, Destroys
<1>4. ASSUME NEW q, q = <<"Initialize", "StartAll", "RunNested", "WaitForCounter">>
      PROVE  Disciplined(q \o Terminate)
  <2>1. /\ q \in Seq(Operations) /\ Len(q) = 4 /\ q # <<>> /\ q[1] = "Initialize"
        /\ q[2] = "StartAll" /\ q[3] = "RunNested" /\ q[4] = "WaitForCounter"
    BY <1>4 DEF Operations, Creates, Destroys
  <2>2. QED
    BY <2>1, TerminateDisciplined DEF Creates, Destroys
<1>5. ASSUME NEW q, q = <<"Initialize", "RunNested", "StartAll", "WaitForCounter">>
      PROVE  Disciplined(q \o Terminate)
  <2>1. /\ q \in Seq(Operations) /\ Len(q) = 4 /\ q # <<>> /\ q[1] = "Initialize"
        /\ q[2] = "RunNested" /\ q[3] = "StartAll" /\ q[4] = "WaitForCounter"
    BY <1>5 DEF Operations, Creates, Destroys
  <2>2. QED
    BY <2>1, TerminateDisciplined DEF Creates, Destroys
<1>6. QED
  BY <1>1, <1>2, <1>3, <1>4, <1>5 DEF TestPrograms, Terminate
==============================================================================
