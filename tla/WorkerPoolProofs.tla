-------------------------- MODULE WorkerPoolProofs --------------------------
(***************************************************************************)
(* For every set of keys and any number of workers, activations and        *)
(* sentinel maps: the queue and the pools of a CRD keep the promise of     *)
(* ReconcileRequests.  The invariant is what client-go's queue keeps in    *)
(* order: a queued item is dirty, queued once and not being processed, a   *)
(* dirty item is queued or being processed, and an item being processed is *)
(* held by exactly one worker.                                             *)
(***************************************************************************)
EXTENDS WorkerPool, TLAPS

Queued(i) == \E n \in 1..Len(queue) : queue[n] = i

\* Queued items are dirty, not handed out, and queued once.
QueueSound ==
    /\ \A n \in 1..Len(queue) : queue[n] \in dirty /\ queue[n] \notin processing
    /\ \A m, n \in 1..Len(queue) : queue[m] = queue[n] => m = n

DirtyPlaced == \A i \in dirty : i \in processing \/ Queued(i)

\* What was handed out is held by one worker, and is never a sentinel.
HeldOnce ==
    /\ \A w \in Worker : held[w] # NoItem => held[w] \in processing /\ held[w] \in KeyItem
    /\ \A v, w \in Worker : held[v] = held[w] /\ held[v] # NoItem => v = w
    /\ \A i \in processing : \E w \in Worker : held[w] = i

OwedPlaced == ~shutdown => owed \subseteq delayed \cup dirty

Active(w) == wpc[w] \in {"top", "get", "reconcile"}

\* Workers of an abandoned pool, and of a pool that is off, were given up.
GivenUp ==
    /\ deactivated => kpc = "off"
    /\ \A w \in Worker : Active(w) /\ (w[1] < gen \/ kpc = "off") => w[1] \in gaveUp

QInv == QueueSound /\ DirtyPlaced /\ HeldOnce /\ OwedPlaced

IInv == TypeOK /\ QInv /\ GivenUp

\* The worker of a pool is a pair of numbers.
LEMMA WorkerType ==
    ASSUME NEW w \in Worker
    PROVE  w[1] \in 1..MaxGen /\ MaxGen \in Nat \ {0} /\ N \in Nat \ {0}
    BY PoolAssumption DEF Worker

\* NoItem is not an item and the sentinel is not the item of a key.
LEMMA ItemType ==
    /\ NoItem \notin Item
    /\ DrainItem \notin KeyItem
    /\ Item = KeyItem \cup {DrainItem}
    BY PoolAssumption DEF Item, KeyItem, DrainItem

\* A new queue and its first pool.
LEMMA InitIInv == Init => IInv
<1> SUFFICES ASSUME Init PROVE IInv
    OBVIOUS
<1>1. TypeOK
  <2>1. wpc \in [Worker -> {"none", "top", "get", "reconcile", "exited"}]
      BY DEF Init
  <2>2. held \in [Worker -> Item \cup {NoItem}] /\ \A w \in Worker : Reconciling(w) <=> held[w] # NoItem
      BY DEF Init, Reconciling
  <2>3. \A w \in Worker : wpc[w] = "none" <=> w[1] > gen
      BY WorkerType DEF Init
  <2>4. /\ queue \in Seq(Item) /\ gen \in 1..MaxGen /\ ptrs \in 0..MaxPtr
        /\ left \in 0..N /\ leaked \in 0..N
      BY PoolAssumption DEF Init
  <2>5. /\ dirty \subseteq Item /\ processing \subseteq Item /\ delayed \subseteq Item
        /\ owed \subseteq Item /\ cancelled \subseteq 1..gen /\ gaveUp \subseteq 1..gen
      BY DEF Init
  <2>6. /\ shutdown \in BOOLEAN /\ deactivated \in BOOLEAN
        /\ kpc \in {"on", "draining", "waiting", "off"} /\ spc \in {"no", "lost", "shut"}
      BY DEF Init
  <2>7. QED
      BY <2>1, <2>2, <2>3, <2>4, <2>5, <2>6 DEF TypeOK
<1>2. QueueSound /\ DirtyPlaced /\ HeldOnce /\ OwedPlaced
    BY DEF Init, QueueSound, DirtyPlaced, HeldOnce, OwedPlaced
<1>3. GivenUp
    BY WorkerType DEF Init, GivenUp, Active
<1>4. QED
    BY <1>1, <1>2, <1>3 DEF IInv, QInv

-----------------------------------------------------------------------------
(* The queue                                                               *)

\* Append puts one item behind the others.
LEMMA Appended ==
    ASSUME NEW S, NEW s \in Seq(S), NEW x \in S
    PROVE  /\ Append(s, x) \in Seq(S)
           /\ Len(Append(s, x)) = Len(s) + 1
           /\ Len(s) \in Nat
           /\ \A n \in 1..Len(s) : Append(s, x)[n] = s[n]
           /\ Append(s, x)[Len(s) + 1] = x
    OBVIOUS

\* Tail takes the first item away.
LEMMA Tailed ==
    ASSUME NEW S, NEW s \in Seq(S), s # <<>>
    PROVE  /\ Tail(s) \in Seq(S)
           /\ Len(s) \in Nat \ {0}
           /\ Len(Tail(s)) = Len(s) - 1
           /\ \A n \in 1..(Len(s) - 1) : Tail(s)[n] = s[n + 1]
           /\ Head(s) = s[1]
           /\ Head(s) \in S
    OBVIOUS

\* Add keeps the queue in order and places the item.
LEMMA AddStep ==
    ASSUME IInv, NEW i \in Item, Add(i), UNCHANGED <<processing, held>>
    PROVE  /\ QueueSound' /\ DirtyPlaced' /\ HeldOnce'
           /\ queue' \in Seq(Item) /\ dirty' \subseteq Item
           /\ ~shutdown => dirty' = dirty \cup {i}
           /\ shutdown => dirty' = dirty
<1> USE DEF IInv, QInv
<1>1. HeldOnce'
    BY DEF HeldOnce
<1>2. CASE shutdown \/ i \in dirty \cup processing
  <2>1. queue' = queue /\ dirty' = IF shutdown THEN dirty ELSE dirty \cup {i}
      BY <1>2 DEF Add
  <2>2. QED
      BY <1>1, <1>2, <2>1 DEF QueueSound, DirtyPlaced, Queued, TypeOK
<1>3. CASE ~(shutdown \/ i \in dirty \cup processing)
  <2>1. queue' = Append(queue, i) /\ dirty' = dirty \cup {i}
      BY <1>3 DEF Add
  <2>2. queue \in Seq(Item)
      BY DEF TypeOK
  <2>3. /\ queue' \in Seq(Item) /\ Len(queue') = Len(queue) + 1 /\ Len(queue) \in Nat
        /\ \A n \in 1..Len(queue) : queue'[n] = queue[n]
        /\ queue'[Len(queue) + 1] = i
      BY <2>1, <2>2, Appended
  <2>4. QueueSound'
      BY <1>3, <2>1, <2>3 DEF QueueSound
  <2>5. DirtyPlaced'
    <3>1. Queued(i)'
        BY <2>3 DEF Queued
    <3>2. \A j : Queued(j) => Queued(j)'
        BY <2>3 DEF Queued
    <3>3. QED
        BY <2>1, <3>1, <3>2 DEF DirtyPlaced
  <2>6. QED
      BY <1>1, <1>3, <2>1, <2>3, <2>4, <2>5 DEF TypeOK
<1>4. QED
    BY <1>2, <1>3

\* Done of an item that one worker holds and gives back.
LEMMA DoneStep ==
    ASSUME IInv, NEW w \in Worker, held[w] # NoItem, Done(held[w]),
           held' = [held EXCEPT ![w] = NoItem]
    PROVE  /\ QueueSound' /\ DirtyPlaced' /\ HeldOnce'
           /\ queue' \in Seq(Item) /\ processing' \subseteq Item /\ dirty' = dirty
<1> USE DEF IInv, QInv
<1> DEFINE i == held[w]
<1>0. held \in [Worker -> Item \cup {NoItem}] /\ NoItem \notin Item
    BY ItemType DEF TypeOK
<1>1. i \in Item /\ i \in processing
    BY <1>0 DEF HeldOnce
<1>2. processing' = processing \ {i} /\ dirty' = dirty
    BY DEF Done
<1>3. HeldOnce'
  <2>1. \A v \in Worker : v # w => held'[v] = held[v]
      BY <1>0
  <2>2. held'[w] = NoItem
      BY <1>0
  <2>3. \A v \in Worker : v # w /\ held[v] # NoItem => held[v] # i
      BY DEF HeldOnce
  <2>4. \A j \in processing' : \E v \in Worker : held'[v] = j
      BY <1>2, <2>1 DEF HeldOnce
  <2>5. QED
      BY <1>2, <2>1, <2>2, <2>3, <2>4 DEF HeldOnce
<1>4. ~Queued(i)
    BY <1>1 DEF Queued, QueueSound
<1>5. CASE i \notin dirty
  <2>1. queue' = queue
      BY <1>5 DEF Done
  <2>2. QueueSound' /\ DirtyPlaced'
      BY <1>2, <1>5, <2>1 DEF QueueSound, DirtyPlaced, Queued
  <2>3. QED
      BY <1>2, <1>3, <2>1, <2>2 DEF TypeOK
<1>6. CASE i \in dirty
  <2>1. queue' = Append(queue, i)
      BY <1>6 DEF Done
  <2>2. queue \in Seq(Item)
      BY DEF TypeOK
  <2>3. /\ queue' \in Seq(Item) /\ Len(queue') = Len(queue) + 1 /\ Len(queue) \in Nat
        /\ \A n \in 1..Len(queue) : queue'[n] = queue[n]
        /\ queue'[Len(queue) + 1] = i
      BY <1>1, <2>1, <2>2, Appended
  <2>4. QueueSound'
      BY <1>2, <1>4, <1>6, <2>3 DEF QueueSound, Queued
  <2>5. DirtyPlaced'
    <3>1. \E n \in 1..Len(queue') : queue'[n] = i
        BY <2>3
    <3>2. ASSUME NEW j \in dirty', j # i, j \notin processing'
          PROVE  \E n \in 1..Len(queue') : queue'[n] = j
      <4>1. PICK n \in 1..Len(queue) : queue[n] = j
          BY <1>2, <3>2 DEF DirtyPlaced, Queued
      <4>2. n \in 1..Len(queue') /\ queue'[n] = j
          BY <2>3, <4>1
      <4>3. QED
          BY <4>2
    <3>3. QED
        BY <3>1, <3>2 DEF DirtyPlaced, Queued
  <2>6. QED
      BY <1>2, <1>3, <2>3, <2>4, <2>5 DEF TypeOK
<1>7. QED
    BY <1>5, <1>6

\* Get takes the first item from the queue and from the dirty set.
LEMMA TakeStep ==
    ASSUME IInv, queue # <<>>, queue' = Tail(queue), dirty' = dirty \ {Head(queue)}
    PROVE  /\ Head(queue) \in Item /\ Head(queue) \in dirty /\ Head(queue) \notin processing
           /\ queue' \in Seq(Item) /\ dirty' \subseteq Item
           /\ \A n \in 1..Len(queue') : queue'[n] \in dirty' /\ queue'[n] \notin processing
           /\ \A m, n \in 1..Len(queue') : queue'[m] = queue'[n] => m = n
           /\ \A j \in dirty' : j \in processing \/ \E n \in 1..Len(queue') : queue'[n] = j
<1> USE DEF IInv, QInv
<1>1. queue \in Seq(Item)
    BY DEF TypeOK
<1>2. /\ queue' \in Seq(Item)
      /\ Len(queue) \in Nat \ {0}
      /\ Len(queue') = Len(queue) - 1
      /\ \A n \in 1..(Len(queue) - 1) : queue'[n] = queue[n + 1]
      /\ Head(queue) = queue[1]
      /\ Head(queue) \in Item
    BY <1>1, Tailed
<1>3. Head(queue) \in dirty /\ Head(queue) \notin processing
    BY <1>2 DEF QueueSound
<1>4. \A n \in 1..Len(queue') : queue'[n] \in dirty' /\ queue'[n] \notin processing
    BY <1>2 DEF QueueSound
<1>5. \A m, n \in 1..Len(queue') : queue'[m] = queue'[n] => m = n
    BY <1>2 DEF QueueSound
<1>6. ASSUME NEW j \in dirty', j \notin processing
      PROVE  \E n \in 1..Len(queue') : queue'[n] = j
  <2>1. PICK n \in 1..Len(queue) : queue[n] = j
      BY <1>6 DEF DirtyPlaced, Queued
  <2>2. n # 1
      BY <1>2, <2>1
  <2>3. n - 1 \in 1..Len(queue') /\ queue'[n - 1] = j
      BY <1>2, <2>1, <2>2
  <2>4. QED
      BY <2>3
<1>7. QED
    BY <1>2, <1>3, <1>4, <1>5, <1>6 DEF TypeOK

-----------------------------------------------------------------------------
(* Steps that leave the queue, the workers or the retry loop alone         *)

\* The queue and what is owed are not touched; ShutDown ends what is owed.
LEMMA QueueQuiet ==
    ASSUME IInv, UNCHANGED <<queue, dirty, processing, delayed, held, owed>>,
           shutdown => shutdown'
    PROVE  QInv'
    BY DEF IInv, QInv, QueueSound, DirtyPlaced, Queued, HeldOnce, OwedPlaced

\* A worker that runs goes on with item y (or none) at x.
LEMMA WorkerMoves ==
    ASSUME IInv, NEW w \in Worker, wpc[w] # "none",
           NEW x \in {"top", "get", "reconcile", "exited"}, NEW y \in Item \cup {NoItem},
           wpc' = [wpc EXCEPT ![w] = x], held' = [held EXCEPT ![w] = y],
           x = "reconcile" <=> y # NoItem, gen' = gen
    PROVE  /\ wpc' \in [Worker -> {"none", "top", "get", "reconcile", "exited"}]
           /\ held' \in [Worker -> Item \cup {NoItem}]
           /\ \A v \in Worker : Reconciling(v)' <=> held'[v] # NoItem
           /\ \A v \in Worker : wpc'[v] = "none" <=> v[1] > gen'
<1>1. /\ wpc \in [Worker -> {"none", "top", "get", "reconcile", "exited"}]
      /\ held \in [Worker -> Item \cup {NoItem}]
      /\ \A v \in Worker : wpc[v] = "reconcile" <=> held[v] # NoItem
      /\ \A v \in Worker : wpc[v] = "none" <=> v[1] > gen
    BY DEF IInv, TypeOK, Reconciling
<1>2. /\ wpc'[w] = x /\ held'[w] = y
      /\ \A v \in Worker : v # w => wpc'[v] = wpc[v] /\ held'[v] = held[v]
    BY <1>1
<1>3. wpc' \in [Worker -> {"none", "top", "get", "reconcile", "exited"}]
    BY <1>1
<1>4. held' \in [Worker -> Item \cup {NoItem}]
    BY <1>1
<1>5. \A v \in Worker : Reconciling(v)' <=> held'[v] # NoItem
    BY <1>1, <1>2 DEF Reconciling
<1>6. \A v \in Worker : wpc'[v] = "none" <=> v[1] > gen'
    BY <1>1, <1>2
<1>7. QED
    BY <1>3, <1>4, <1>5, <1>6

\* A worker that does not hold an item moves and takes none.
LEMMA WorkerWalks ==
    ASSUME IInv, NEW w \in Worker, wpc[w] \in {"top", "get"},
           NEW x \in {"top", "get", "exited"}, wpc' = [wpc EXCEPT ![w] = x],
           held' = held, gen' = gen
    PROVE  /\ wpc' \in [Worker -> {"none", "top", "get", "reconcile", "exited"}]
           /\ held' \in [Worker -> Item \cup {NoItem}]
           /\ \A v \in Worker : Reconciling(v)' <=> held'[v] # NoItem
           /\ \A v \in Worker : wpc'[v] = "none" <=> v[1] > gen'
<1>1. held \in [Worker -> Item \cup {NoItem}] /\ held[w] = NoItem
    BY DEF IInv, TypeOK, Reconciling
<1>2. held' = [held EXCEPT ![w] = NoItem]
    BY <1>1
<1>3. QED
    BY <1>2, WorkerMoves

\* A worker that runs is not started again: the pools given up stay so.
LEMMA WorkerGivenUp ==
    ASSUME IInv, NEW w \in Worker, Active(w), NEW x, wpc' = [wpc EXCEPT ![w] = x],
           UNCHANGED <<gen, kpc, deactivated, gaveUp>>
    PROVE  GivenUp'
<1>1. \A v \in Worker : Active(v)' => Active(v)
    BY DEF IInv, TypeOK, Active
<1>2. QED
    BY <1>1 DEF IInv, GivenUp, Active

\* The pools and the retry loop are not touched.
LEMMA PoolQuiet ==
    ASSUME IInv, UNCHANGED <<wpc, gen, kpc, deactivated, gaveUp>>
    PROVE  GivenUp'
    BY DEF IInv, GivenUp, Active

-----------------------------------------------------------------------------
(* The actions                                                             *)

\* The delay of an item is over.
LEMMA FallDueStep == ASSUME IInv, NEW i \in Item, FallDue(i) PROVE IInv'
<1>1. /\ QueueSound' /\ DirtyPlaced' /\ HeldOnce'
      /\ queue' \in Seq(Item) /\ dirty' \subseteq Item /\ dirty' = dirty \cup {i}
    BY AddStep DEF FallDue, pool
<1>2. TypeOK'
    BY <1>1 DEF IInv, TypeOK, FallDue, Reconciling, pool, contexts, retry, history
<1>3. OwedPlaced'
    BY <1>1 DEF IInv, QInv, OwedPlaced, FallDue, history
<1>4. GivenUp'
    BY PoolQuiet DEF FallDue, pool, contexts, retry, history
<1>5. QED
    BY <1>1, <1>2, <1>3, <1>4 DEF IInv, QInv

\* An event of either kind is accepted.
LEMMA EventStep ==
    ASSUME IInv, NEW i \in Item, Add(i), Owe(i), ptrs' \in 0..MaxPtr,
           UNCHANGED <<processing, delayed, shutdown, pool, contexts, retry, spc>>
    PROVE  IInv'
<1>1. /\ QueueSound' /\ DirtyPlaced' /\ HeldOnce'
      /\ queue' \in Seq(Item) /\ dirty' \subseteq Item
      /\ ~shutdown => dirty' = dirty \cup {i}
    BY AddStep DEF pool
<1>2. owed' \subseteq Item /\ owed' \subseteq owed \cup {i}
    BY DEF IInv, TypeOK, Owe
<1>3. TypeOK'
    BY <1>1, <1>2 DEF IInv, TypeOK, Owe, Reconciling, pool, contexts, retry
<1>4. OwedPlaced'
    BY <1>1, <1>2 DEF IInv, QInv, OwedPlaced
<1>5. GivenUp'
    BY PoolQuiet DEF Owe, pool, contexts, retry
<1>6. QED
    BY <1>1, <1>3, <1>4, <1>5 DEF IInv, QInv

\* handleEvent
LEMMA EnqueueStep == ASSUME IInv, NEW k \in Key, Enqueue(k) PROVE IInv'
<1>1. <<k, 0>> \in Item /\ ptrs' \in 0..MaxPtr
    BY PoolAssumption DEF Item, KeyItem, Enqueue, IInv, TypeOK
<1>2. QED
    BY <1>1, EventStep DEF Enqueue

\* handleUpdateEvent
LEMMA EnqueueWithSentinelsStep ==
    ASSUME IInv, NEW k \in Key, EnqueueWithSentinels(k) PROVE IInv'
<1>1. <<k, ptrs + 1>> \in Item /\ ptrs' \in 0..MaxPtr
    BY PoolAssumption DEF Item, KeyItem, EnqueueWithSentinels, IInv, TypeOK
<1>2. QED
    BY <1>1, EventStep DEF EnqueueWithSentinels

\* The top of the loop, and Get on a queue that is shut down.
LEMMA WalkStep ==
    ASSUME IInv, NEW w \in Worker, LoopTop(w) \/ GetShutdown(w) PROVE IInv'
<1>1. PICK x \in {"top", "get", "exited"} : wpc' = [wpc EXCEPT ![w] = x]
    BY DEF LoopTop, GetShutdown
<1>2. /\ wpc[w] \in {"top", "get"}
      /\ UNCHANGED <<workqueue, ptrs, held, contexts, retry, spc, history>>
    BY DEF LoopTop, GetShutdown
<1>3. TypeOK'
    BY <1>1, <1>2, WorkerWalks
    DEF IInv, TypeOK, workqueue, contexts, retry, history
<1>4. QInv'
    BY <1>2, QueueQuiet DEF workqueue, history
<1>5. GivenUp'
    BY <1>1, <1>2, WorkerGivenUp DEF Active, contexts, retry, history
<1>6. QED
    BY <1>3, <1>4, <1>5 DEF IInv

\* Get of an item to reconcile.
LEMMA GetStep == ASSUME IInv, NEW w \in Worker, Get(w) PROVE IInv'
<1> DEFINE h == Head(queue)
<1>0. /\ wpc[w] = "get" /\ queue # <<>> /\ h # DrainItem
      /\ queue' = Tail(queue) /\ dirty' = dirty \ {h}
      /\ processing' = processing \cup {h} /\ owed' = owed \ {h}
      /\ held' = [held EXCEPT ![w] = h] /\ wpc' = [wpc EXCEPT ![w] = "reconcile"]
      /\ UNCHANGED <<delayed, shutdown, ptrs, contexts, retry, spc, gaveUp>>
    BY DEF Get
<1>1. /\ h \in Item /\ h \in dirty /\ h \notin processing
      /\ queue' \in Seq(Item) /\ dirty' \subseteq Item
      /\ \A n \in 1..Len(queue') : queue'[n] \in dirty' /\ queue'[n] \notin processing
      /\ \A m, n \in 1..Len(queue') : queue'[m] = queue'[n] => m = n
      /\ \A j \in dirty' : j \in processing \/ \E n \in 1..Len(queue') : queue'[n] = j
    BY <1>0, TakeStep
<1>2. h # NoItem /\ h \in KeyItem
    BY <1>0, <1>1, ItemType
<1>3. /\ held \in [Worker -> Item \cup {NoItem}]
      /\ held'[w] = h /\ \A v \in Worker : v # w => held'[v] = held[v]
    BY <1>0 DEF IInv, TypeOK
<1>4. TypeOK'
  <2>1. /\ wpc' \in [Worker -> {"none", "top", "get", "reconcile", "exited"}]
        /\ held' \in [Worker -> Item \cup {NoItem}]
        /\ \A v \in Worker : Reconciling(v)' <=> held'[v] # NoItem
        /\ \A v \in Worker : wpc'[v] = "none" <=> v[1] > gen'
      BY <1>0, <1>1, <1>2, WorkerMoves DEF contexts
  <2>2. QED
      BY <1>0, <1>1, <2>1 DEF IInv, TypeOK, contexts, retry
<1>5. QueueSound'
    BY <1>0, <1>1 DEF QueueSound
<1>6. DirtyPlaced'
    BY <1>0, <1>1 DEF DirtyPlaced, Queued
<1>7. HeldOnce'
  <2>1. \A v \in Worker : held[v] # NoItem => held[v] \in processing /\ held[v] \in KeyItem
      BY DEF IInv, QInv, HeldOnce
  <2>2. held[w] = NoItem
      BY <1>0 DEF IInv, TypeOK, Reconciling
  <2>3. \A v \in Worker : held'[v] # NoItem => held'[v] \in processing' /\ held'[v] \in KeyItem
      BY <1>0, <1>2, <1>3, <2>1
  <2>4. \A u, v \in Worker : held'[u] = held'[v] /\ held'[u] # NoItem => u = v
      BY <1>1, <1>3, <2>1 DEF IInv, QInv, HeldOnce
  <2>5. ASSUME NEW j \in processing' PROVE \E v \in Worker : held'[v] = j
    <3>1. CASE j = h
        BY <1>3, <3>1
    <3>2. CASE j \in processing
      <4>1. PICK v \in Worker : held[v] = j
          BY <3>2 DEF IInv, QInv, HeldOnce
      <4>2. v # w
          BY <2>2, <3>2, <4>1, ItemType DEF IInv, TypeOK
      <4>3. QED
          BY <1>3, <4>1, <4>2
    <3>3. QED
        BY <1>0, <3>1, <3>2
  <2>6. QED
      BY <2>3, <2>4, <2>5 DEF HeldOnce
<1>8. OwedPlaced'
    BY <1>0 DEF IInv, QInv, OwedPlaced
<1>9. GivenUp'
    BY <1>0, WorkerGivenUp DEF Active, contexts, retry
<1>10. QED
    BY <1>4, <1>5, <1>6, <1>7, <1>8, <1>9 DEF IInv, QInv

\* Get of an item that is Done at once: of a cancelled worker, or the sentinel.
LEMMA TakeAndDoneStep == ASSUME IInv, NEW w \in Worker, TakeAndDone(w) PROVE IInv'
<1> DEFINE h == Head(queue)
<1>0. /\ wpc[w] = "get" /\ queue # <<>>
      /\ queue' = Tail(queue) /\ dirty' = dirty \ {h} /\ owed' = owed \ {h}
      /\ wpc' = [wpc EXCEPT ![w] = "top"]
      /\ UNCHANGED <<processing, delayed, shutdown, ptrs, held, contexts, retry, spc, gaveUp>>
    BY DEF TakeAndDone
<1>1. /\ queue' \in Seq(Item) /\ dirty' \subseteq Item
      /\ \A n \in 1..Len(queue') : queue'[n] \in dirty' /\ queue'[n] \notin processing
      /\ \A m, n \in 1..Len(queue') : queue'[m] = queue'[n] => m = n
      /\ \A j \in dirty' : j \in processing \/ \E n \in 1..Len(queue') : queue'[n] = j
    BY <1>0, TakeStep
<1>2. TypeOK'
  <2>1. /\ wpc' \in [Worker -> {"none", "top", "get", "reconcile", "exited"}]
        /\ held' \in [Worker -> Item \cup {NoItem}]
        /\ \A v \in Worker : Reconciling(v)' <=> held'[v] # NoItem
        /\ \A v \in Worker : wpc'[v] = "none" <=> v[1] > gen'
      BY <1>0, WorkerWalks DEF contexts
  <2>2. QED
      BY <1>0, <1>1, <2>1 DEF IInv, TypeOK, contexts, retry
<1>3. QueueSound'
    BY <1>0, <1>1 DEF QueueSound
<1>4. DirtyPlaced'
    BY <1>0, <1>1 DEF DirtyPlaced, Queued
<1>5. HeldOnce'
    BY <1>0 DEF IInv, QInv, HeldOnce
<1>6. OwedPlaced'
    BY <1>0 DEF IInv, QInv, OwedPlaced
<1>7. GivenUp'
    BY <1>0, WorkerGivenUp DEF Active, contexts, retry
<1>8. QED
    BY <1>2, <1>3, <1>4, <1>5, <1>6, <1>7 DEF IInv, QInv

\* A reconcile ends or is gated: the item is Done, and perhaps delayed and owed
\* again; a panic keeps a slot that was free.
LEMMA ReconcileEndsStep ==
    ASSUME IInv, NEW w \in Worker, ReconcileEnds(w) \/ Gated(w) PROVE IInv'
<1>0. /\ wpc[w] = "reconcile" /\ BackToTop(w)
      /\ UNCHANGED <<shutdown, ptrs, gen, cancelled, retry, spc, gaveUp>>
      /\ leaked' = leaked \/ (leaked < N /\ leaked' = leaked + 1)
      /\ \/ UNCHANGED <<delayed, owed>>
         \/ Delay(held[w]) /\ Owe(held[w])
    BY DEF ReconcileEnds, Gated, Finish, FinishRequeue, Fail, Owe, history, contexts
<1>a. leaked' \in 0..N
    BY <1>0, PoolAssumption DEF IInv, TypeOK
<1>1. held[w] # NoItem /\ held[w] \in Item
    BY <1>0 DEF IInv, TypeOK, Reconciling
<1>2. /\ QueueSound' /\ DirtyPlaced' /\ HeldOnce'
      /\ queue' \in Seq(Item) /\ processing' \subseteq Item /\ dirty' = dirty
    BY <1>0, <1>1, DoneStep DEF BackToTop
<1>3. /\ wpc' \in [Worker -> {"none", "top", "get", "reconcile", "exited"}]
      /\ held' \in [Worker -> Item \cup {NoItem}]
      /\ \A v \in Worker : Reconciling(v)' <=> held'[v] # NoItem
      /\ \A v \in Worker : wpc'[v] = "none" <=> v[1] > gen'
    BY <1>0, WorkerMoves DEF BackToTop
<1>4. /\ delayed' \subseteq Item /\ owed' \subseteq Item
      /\ ~shutdown => owed' \subseteq delayed' \cup dirty
    BY <1>0, <1>1 DEF IInv, QInv, TypeOK, OwedPlaced, Delay, Owe
<1>5. TypeOK'
    BY <1>0, <1>a, <1>2, <1>3, <1>4 DEF IInv, TypeOK, retry
<1>6. OwedPlaced'
    BY <1>0, <1>2, <1>4 DEF OwedPlaced
<1>7. GivenUp'
    BY <1>0, WorkerGivenUp DEF BackToTop, Active, retry
<1>8. QED
    BY <1>2, <1>5, <1>6, <1>7 DEF IInv, QInv

\* The CRD disappeared.
LEMMA DeactivateStep == ASSUME IInv, Deactivate PROVE IInv'
<1>1. TypeOK'
    BY PoolAssumption
    DEF IInv, TypeOK, Deactivate, Reconciling, workqueue, pool, history
<1>2. QInv'
    BY QueueQuiet DEF Deactivate, workqueue, pool, history
<1>3. GivenUp'
    BY DEF IInv, GivenUp, Active, Deactivate, pool, history
<1>4. QED
    BY <1>1, <1>2, <1>3 DEF IInv

\* A sentinel goes into the queue.
LEMMA AddSentinelStep == ASSUME IInv, AddSentinel PROVE IInv'
<1>1. /\ QueueSound' /\ DirtyPlaced' /\ HeldOnce'
      /\ queue' \in Seq(Item) /\ dirty' \subseteq Item /\ dirty \subseteq dirty'
    BY ItemType, AddStep DEF AddSentinel, pool
<1>2. left' \in 0..N /\ kpc' \in {"on", "draining", "waiting", "off"} /\ kpc' # "off"
    BY PoolAssumption DEF IInv, TypeOK, AddSentinel
<1>3. TypeOK'
    BY <1>1, <1>2 DEF IInv, TypeOK, AddSentinel, Reconciling, pool, contexts, history
<1>4. OwedPlaced'
    BY <1>1 DEF IInv, QInv, OwedPlaced, AddSentinel, history
<1>5. GivenUp'
    BY <1>2 DEF IInv, GivenUp, Active, AddSentinel, pool, contexts, history
<1>6. QED
    BY <1>1, <1>3, <1>4, <1>5 DEF IInv, QInv

\* The drain ends with every worker of the pool gone.
LEMMA DrainedStep == ASSUME IInv, Drained PROVE IInv'
<1>1. TypeOK'
    BY DEF IInv, TypeOK, Drained, Reconciling, workqueue, pool, contexts, history
<1>2. QInv'
    BY QueueQuiet DEF Drained, workqueue, pool, history
<1>3. GivenUp'
  <2>1. ASSUME NEW w \in Worker, Active(w) PROVE w[1] < gen
    <3>1. w[1] # gen
        BY <2>1 DEF Drained, PoolOf, Active
    <3>2. ~(w[1] > gen)
        BY <2>1 DEF IInv, TypeOK, Active
    <3>3. QED
        BY <3>1, <3>2, WorkerType DEF IInv, TypeOK
  <2>2. QED
      BY <2>1 DEF IInv, GivenUp, Active, Drained, pool, contexts, history
<1>4. QED
    BY <1>1, <1>2, <1>3 DEF IInv

\* The drain ends with its timeout.
LEMMA DrainTimeoutStep == ASSUME IInv, DrainTimeout PROVE IInv'
<1>1. TypeOK'
    BY DEF IInv, TypeOK, DrainTimeout, Reconciling, workqueue, pool, contexts
<1>2. QInv'
    BY QueueQuiet DEF DrainTimeout, workqueue, pool
<1>3. GivenUp'
  <2>1. ASSUME NEW w \in Worker, Active(w) PROVE w[1] < gen \/ w[1] = gen
    <3>1. ~(w[1] > gen)
        BY <2>1 DEF IInv, TypeOK, Active
    <3>2. QED
        BY <3>1, WorkerType DEF IInv, TypeOK
  <2>2. QED
      BY <2>1 DEF IInv, GivenUp, Active, DrainTimeout, pool, contexts
<1>4. QED
    BY <1>1, <1>2, <1>3 DEF IInv

\* The CRD is back.
LEMMA ActivateStep == ASSUME IInv, Activate PROVE IInv'
<1>1. /\ gen \in 1..MaxGen /\ gen' = gen + 1 /\ gen' \in 1..MaxGen
      /\ wpc \in [Worker -> {"none", "top", "get", "reconcile", "exited"}]
      /\ wpc' = [w \in Worker |-> IF w[1] = gen + 1 THEN "top" ELSE wpc[w]]
      /\ \A w \in Worker : wpc[w] = "none" <=> w[1] > gen
      /\ \A w \in Worker : wpc[w] = "reconcile" <=> held[w] # NoItem
    BY PoolAssumption DEF IInv, TypeOK, Activate, Reconciling
<1>2. /\ wpc' \in [Worker -> {"none", "top", "get", "reconcile", "exited"}]
      /\ \A w \in Worker : wpc'[w] = IF w[1] = gen + 1 THEN "top" ELSE wpc[w]
    BY <1>1
<1>3. \A w \in Worker : wpc'[w] = "none" <=> w[1] > gen'
    BY <1>1, <1>2, WorkerType
<1>4. \A w \in Worker : Reconciling(w)' <=> held'[w] # NoItem
    BY <1>1, <1>2, WorkerType DEF Activate, Reconciling
<1>5. cancelled' \subseteq 1..gen' /\ gaveUp' \subseteq 1..gen' /\ leaked' \in 0..N
    BY <1>1, PoolAssumption DEF IInv, TypeOK, Activate, history
<1>6. TypeOK'
    BY <1>1, <1>2, <1>3, <1>4, <1>5 DEF IInv, TypeOK, Activate, workqueue, history
<1>7. QInv'
    BY QueueQuiet DEF Activate, workqueue, history
<1>8. GivenUp'
  <2>1. ASSUME NEW w \in Worker, Active(w)', w[1] < gen' PROVE w[1] \in gaveUp
    <3>1. Active(w)
        BY <1>1, <1>2, <2>1, WorkerType DEF Active
    <3>2. QED
        BY <3>1 DEF IInv, GivenUp, Activate
  <2>2. QED
      BY <2>1 DEF GivenUp, Activate, history
<1>9. QED
    BY <1>6, <1>7, <1>8 DEF IInv

\* The leadership context ends.
LEMMA LoseLeadershipStep == ASSUME IInv, LoseLeadership PROVE IInv'
<1>1. TypeOK'
    BY PoolAssumption
    DEF IInv, TypeOK, LoseLeadership, Reconciling, workqueue, pool, retry, history
<1>2. QInv'
    BY QueueQuiet DEF LoseLeadership, workqueue, pool, history
<1>3. GivenUp'
    BY PoolQuiet DEF LoseLeadership, pool, retry, history
<1>4. QED
    BY <1>1, <1>2, <1>3 DEF IInv

\* stopCRDWorkers
LEMMA StopStep == ASSUME IInv, Stop PROVE IInv'
<1>1. TypeOK'
    BY DEF IInv, TypeOK, Stop, Reconciling, pool, contexts, retry, history
<1>2. QInv'
    BY QueueQuiet DEF Stop, pool, history
<1>3. GivenUp'
    BY PoolQuiet DEF Stop, pool, contexts, retry, history
<1>4. QED
    BY <1>1, <1>2, <1>3 DEF IInv

\* Every step keeps the invariant.
LEMMA NextIInv == IInv /\ [Next]_vars => IInv'
<1> SUFFICES ASSUME IInv, [Next]_vars PROVE IInv'
    OBVIOUS
<1>1. CASE UNCHANGED vars
  <2>1. TypeOK'
      BY <1>1 DEF IInv, TypeOK, Reconciling, vars, workqueue, pool, contexts, retry, history
  <2>2. QInv'
      BY <1>1, QueueQuiet DEF vars, workqueue, pool, history
  <2>3. GivenUp'
      BY <1>1, PoolQuiet DEF vars, pool, contexts, retry, history
  <2>4. QED
      BY <2>1, <2>2, <2>3 DEF IInv
<1>2. ASSUME NEW i \in Item, FallDue(i) PROVE IInv'
    BY <1>2, FallDueStep
<1>3. ASSUME NEW k \in Key, Enqueue(k) \/ EnqueueWithSentinels(k) PROVE IInv'
    BY <1>3, EnqueueStep, EnqueueWithSentinelsStep
<1>4. ASSUME NEW w \in Worker, WorkerStep(w) \/ Gated(w) \/ ReconcileEnds(w) PROVE IInv'
    BY <1>4, WalkStep, GetStep, TakeAndDoneStep, ReconcileEndsStep
    DEF WorkerStep, GetCancelled, GetSentinel
<1>5. CASE Deactivate \/ AddSentinel \/ Drained \/ DrainTimeout \/ Activate
    BY <1>5, DeactivateStep, AddSentinelStep, DrainedStep, DrainTimeoutStep, ActivateStep
<1>6. CASE LoseLeadership \/ Stop
    BY <1>6, LoseLeadershipStep, StopStep
<1>7. QED
    BY <1>1, <1>2, <1>3, <1>4, <1>5, <1>6 DEF Next

-----------------------------------------------------------------------------
(* What follows                                                            *)

\* The inductive invariant holds in every reachable state, whatever the keys, the
\* workers of a pool, the activations and the sentinel maps.
THEOREM PoolInvariant == Spec => []IInv
    BY InitIInv, NextIInv, PTL DEF Spec

\* The variables of the queue and of runWorkerForGVK keep their types; a worker
\* holds an item exactly between Get and Done.
THEOREM PoolTypeCorrect == Spec => []TypeOK
<1>1. IInv => TypeOK
    BY DEF IInv
<1>2. QED
    BY <1>1, PoolInvariant, PTL

\* Two workers never reconcile one key with the same sentinel map, or both with
\* none, whichever pools they belong to.
THEOREM SerialPerKeyHolds == Spec => []SerialPerKey
<1>1. IInv => SerialPerKey
  <2> SUFFICES ASSUME IInv, NEW v \in Worker, NEW w \in Worker, v # w,
                      Reconciling(v), Reconciling(w), held[v][1] = held[w][1],
                      held[v][2] = held[w][2]
               PROVE  FALSE
      BY DEF SerialPerKey
  <2>1. held[v] # NoItem /\ held[w] # NoItem
      BY DEF IInv, TypeOK
  <2>2. held[v] \in KeyItem /\ held[w] \in KeyItem
      BY <2>1 DEF IInv, QInv, HeldOnce
  <2>3. held[v] = held[w]
      BY <2>2 DEF KeyItem
  <2>4. QED
      BY <2>1, <2>3 DEF IInv, QInv, HeldOnce
<1>2. QED
    BY <1>1, PoolInvariant, PTL

\* An accepted event, a failed reconcile and a requeue wait for their delay, in the
\* queue, or for the Done of the same item, until they are handed out.
THEOREM NoLostEventHolds == Spec => []NoLostEvent
<1>1. IInv => NoLostEvent
  <2> SUFFICES ASSUME IInv, ~shutdown, NEW i \in owed, i \notin delayed
               PROVE  \/ \E n \in 1..Len(queue) : queue[n] = i
                      \/ i \in dirty /\ \E w \in Worker : held[w] = i
      BY DEF NoLostEvent
  <2>1. i \in dirty
      BY DEF IInv, QInv, OwedPlaced
  <2>2. i \in processing \/ Queued(i)
      BY <2>1 DEF IInv, QInv, DirtyPlaced
  <2>3. QED
      BY <2>1, <2>2 DEF IInv, QInv, HeldOnce, Queued
<1>2. QED
    BY <1>1, PoolInvariant, PTL

\* A CRD that deactivateCRD marked as deactivated has no worker left, but those of
\* a pool whose own drain timed out.
THEOREM CleanDrainHolds == Spec => []CleanDrain
<1>1. IInv => CleanDrain
    BY DEF IInv, GivenUp, Active, CleanDrain
<1>2. QED
    BY <1>1, PoolInvariant, PTL

-----------------------------------------------------------------------------
(* The refinement of ReconcileRequests                                     *)

\* The refinement mapping of KeepsPromise, part by part.
Pending == {i \in KeyItem : i \in dirty \cup delayed}
Running == {i \in KeyItem : \E w \in Worker : held[w] = i}
Told    == {w \in Worker : w[1] \in cancelled}
Leaving == {w \in Worker : w[1] \in cancelled /\ wpc[w] = "get"}

Stutter == Pending' = Pending /\ Running' = Running /\ Told' = Told /\ Leaving' = Leaving

AStep == [Requests!ANext]_(Requests!avars)

\* What a step of the queue or of a pool may be: nothing to the promise,
LEMMA Stutters == Stutter => AStep
    BY DEF Stutter, AStep, Requests!avars, Pending, Running, Told, Leaving

\* a request that is accepted,
LEMMA Requested ==
    ASSUME NEW i \in KeyItem, Pending' = Pending \cup {i}, Running' = Running,
           Told' = Told, Leaving' = Leaving
    PROVE  AStep
<1>1. Requests!Request(i)
    BY DEF Requests!Request, Pending, Running, Told, Leaving
<1>2. QED
    BY <1>1 DEF AStep, Requests!ANext

\* a request that starts,
LEMMA Started ==
    ASSUME NEW i \in KeyItem, i \in Pending, i \notin Running, Running' = Running \cup {i},
           Pending' = Pending \/ Pending' = Pending \ {i}, Told' = Told, Leaving' = Leaving
    PROVE  AStep
<1>1. Requests!Start(i)
    BY DEF Requests!Start, Pending, Running, Told, Leaving
<1>2. QED
    BY <1>1 DEF AStep, Requests!ANext

\* a request that ends, and may be pending again,
LEMMA Finished ==
    ASSUME NEW i \in KeyItem, i \in Running, Running' = Running \ {i},
           Pending' = Pending \/ Pending' = Pending \cup {i}, Told' = Told, Leaving' = Leaving
    PROVE  AStep
<1>1. Requests!Finish(i)
    BY DEF Requests!Finish, Pending, Running, Told, Leaving
<1>2. QED
    BY <1>1 DEF AStep, Requests!ANext

\* workers that are told to stop, some of them in the queue,
LEMMA ToldToStop ==
    ASSUME Told \subseteq Told', NEW some \in SUBSET (Told' \ Told),
           Leaving' = Leaving \cup some, Pending' = Pending, Running' = Running
    PROVE  AStep
<1>1. Told' \in SUBSET Worker
    BY DEF Told
<1>2. Requests!TellToStop
    BY <1>1 DEF Requests!TellToStop, Pending, Running, Told, Leaving
<1>3. QED
    BY <1>2 DEF AStep, Requests!ANext

\* or a worker that leaves the queue with at most one request.
LEMMA Left ==
    ASSUME NEW w \in Worker, w \in Leaving, Leaving' = Leaving \ {w},
           NEW lost \in SUBSET KeyItem, \A i, j \in lost : i = j, Pending' = Pending \ lost,
           Running' = Running, Told' = Told
    PROVE  AStep
<1>1. Requests!Leave(w)
    BY DEF Requests!Leave, Pending, Running, Told, Leaving
<1>2. QED
    BY <1>1 DEF AStep, Requests!ANext

\* A request whose delay ends was pending and still is.
LEMMA FallDueAbs == ASSUME IInv, NEW i \in Item, FallDue(i) PROVE AStep
<1>1. Pending' = Pending
    BY DEF FallDue, Add, Pending
<1>2. Stutter
    BY <1>1 DEF FallDue, Stutter, Running, Told, Leaving, pool, contexts
<1>3. QED
    BY <1>2, Stutters

\* A sentinel that is added is not a request.
LEMMA AddSentinelAbs == ASSUME IInv, AddSentinel PROVE AStep
<1>1. Pending' = Pending
    BY ItemType DEF AddSentinel, Add, Pending
<1>2. Stutter
    BY <1>1 DEF AddSentinel, Stutter, Running, Told, Leaving, pool, contexts
<1>3. QED
    BY <1>2, Stutters

\* An event that is accepted is a request, and nothing once the queue is shut down.
LEMMA EventAbs ==
    ASSUME IInv, NEW i \in KeyItem, Add(i), UNCHANGED <<delayed, pool, contexts>>
    PROVE  AStep
<1>1. Pending' = Pending \/ Pending' = Pending \cup {i}
    BY DEF Add, Pending
<1>2. Running' = Running /\ Told' = Told /\ Leaving' = Leaving
    BY DEF Running, Told, Leaving, pool, contexts
<1>3. QED
    BY <1>1, <1>2, Stutters, Requested DEF Stutter

\* A worker at the top of its loop is not in the queue: it can only leave the loop,
\* or go to the queue before it is told to stop.
LEMMA LoopTopAbs == ASSUME IInv, NEW w \in Worker, LoopTop(w) PROVE AStep
<1>1. wpc \in [Worker -> {"none", "top", "get", "reconcile", "exited"}]
    BY DEF IInv, TypeOK
<1>2. Leaving' = Leaving
    BY <1>1 DEF LoopTop, Cancelled, Leaving, contexts
<1>3. Stutter
    BY <1>2 DEF LoopTop, Stutter, Pending, Running, Told, workqueue, contexts
<1>4. QED
    BY <1>3, Stutters

\* Get starts the request.
LEMMA GetAbs == ASSUME IInv, NEW w \in Worker, Get(w) PROVE AStep
<1> DEFINE h == Head(queue)
<1>0. /\ wpc[w] = "get" /\ queue # <<>> /\ h # DrainItem /\ w[1] \notin cancelled
      /\ queue' = Tail(queue) /\ dirty' = dirty \ {h}
      /\ held' = [held EXCEPT ![w] = h] /\ wpc' = [wpc EXCEPT ![w] = "reconcile"]
      /\ UNCHANGED <<delayed, contexts>>
    BY DEF Get, Cancelled
<1>1. h \in Item /\ h \in dirty /\ h \notin processing
    BY <1>0, TakeStep
<1>2. h \in KeyItem /\ h \in Pending
    BY <1>0, <1>1, ItemType DEF Pending
<1>3. h \notin Running
    BY <1>1, ItemType DEF Running, IInv, QInv, HeldOnce
<1>4. Running' = Running \cup {h}
  <2>1. held[w] = NoItem /\ held \in [Worker -> Item \cup {NoItem}]
      BY <1>0 DEF IInv, TypeOK, Reconciling
  <2>2. held'[w] = h /\ \A v \in Worker : v # w => held'[v] = held[v]
      BY <1>0, <2>1
  <2>3. \A i \in KeyItem : i # NoItem
      BY ItemType
  <2>4. ASSUME NEW i \in KeyItem
        PROVE  (\E v \in Worker : held'[v] = i) <=> (i = h \/ \E v \in Worker : held[v] = i)
      BY <2>1, <2>2, <2>3
  <2>5. QED
      BY <1>2, <2>4 DEF Running
<1>5. Pending' = Pending \/ Pending' = Pending \ {h}
    BY <1>0 DEF Pending
<1>6. Told' = Told /\ Leaving' = Leaving
    BY <1>0 DEF IInv, TypeOK, Told, Leaving, contexts
<1>7. QED
    BY <1>2, <1>3, <1>4, <1>5, <1>6, Started

\* A worker that was told to stop in the queue leaves it, with at most one request.
LEMMA GetCancelledAbs == ASSUME IInv, NEW w \in Worker, GetCancelled(w) PROVE AStep
<1>0. /\ wpc[w] = "get" /\ w[1] \in cancelled /\ dirty' = dirty \ {Head(queue)}
      /\ wpc' = [wpc EXCEPT ![w] = "top"] /\ UNCHANGED <<delayed, held, contexts>>
    BY DEF GetCancelled, TakeAndDone, Cancelled
<1>1. wpc \in [Worker -> {"none", "top", "get", "reconcile", "exited"}]
    BY DEF IInv, TypeOK
<1>2. w \in Leaving /\ Leaving' = Leaving \ {w}
    BY <1>0, <1>1 DEF Leaving, contexts
<1>3. Running' = Running /\ Told' = Told
    BY <1>0 DEF Running, Told, contexts
<1> DEFINE lost == ({Head(queue)} \cap KeyItem) \ delayed
<1>4. Pending' = Pending \ lost
    BY <1>0 DEF Pending
<1>5. lost \in SUBSET KeyItem /\ \A i, j \in lost : i = j
    OBVIOUS
<1> HIDE DEF lost
<1>6. QED
    BY <1>2, <1>3, <1>4, <1>5, Left

\* A sentinel is not a request.
LEMMA GetSentinelAbs == ASSUME IInv, NEW w \in Worker, GetSentinel(w) PROVE AStep
<1>0. /\ wpc[w] = "get" /\ w[1] \notin cancelled /\ dirty' = dirty \ {DrainItem}
      /\ wpc' = [wpc EXCEPT ![w] = "top"] /\ UNCHANGED <<delayed, held, contexts>>
    BY DEF GetSentinel, TakeAndDone, Cancelled
<1>1. wpc \in [Worker -> {"none", "top", "get", "reconcile", "exited"}]
    BY DEF IInv, TypeOK
<1>2. Leaving' = Leaving
    BY <1>0, <1>1 DEF Leaving, contexts
<1>3. Pending' = Pending
    BY <1>0, ItemType DEF Pending
<1>4. Stutter
    BY <1>0, <1>2, <1>3 DEF Stutter, Running, Told, contexts
<1>5. QED
    BY <1>4, Stutters

\* A worker that finds the queue shut down takes nothing with it.
LEMMA GetShutdownAbs == ASSUME IInv, NEW w \in Worker, GetShutdown(w) PROVE AStep
<1>0. /\ wpc[w] = "get" /\ wpc' = [wpc EXCEPT ![w] = "exited"]
      /\ UNCHANGED <<dirty, delayed, held, contexts>>
    BY DEF GetShutdown, workqueue
<1>1. wpc \in [Worker -> {"none", "top", "get", "reconcile", "exited"}]
    BY DEF IInv, TypeOK
<1>2. Pending' = Pending /\ Running' = Running /\ Told' = Told
    BY <1>0 DEF Pending, Running, Told, contexts
<1>3. CASE w[1] \in cancelled
  <2>1. w \in Leaving /\ Leaving' = Leaving \ {w}
      BY <1>0, <1>1, <1>3 DEF Leaving, contexts
  <2>2. Pending' = Pending \ {}
      BY <1>2
  <2>3. {} \in SUBSET KeyItem /\ \A i, j \in {} : i = j
      OBVIOUS
  <2>4. QED
      BY <1>2, <2>1, <2>2, <2>3, Left
<1>4. CASE w[1] \notin cancelled
  <2>1. Leaving' = Leaving
      BY <1>0, <1>1, <1>4 DEF Leaving, contexts
  <2>2. QED
      BY <1>2, <2>1, Stutters DEF Stutter
<1>5. QED
    BY <1>3, <1>4

\* The end of a reconcile finishes the request, and may leave it pending.
LEMMA ReconcileEndsAbs ==
    ASSUME IInv, NEW w \in Worker, ReconcileEnds(w) \/ Gated(w) PROVE AStep
<1> DEFINE i == held[w]
<1>0. /\ wpc[w] = "reconcile" /\ dirty' = dirty
      /\ held' = [held EXCEPT ![w] = NoItem] /\ wpc' = [wpc EXCEPT ![w] = "top"]
      /\ delayed' = delayed \/ delayed' = delayed \cup {i}
      /\ UNCHANGED cancelled
    BY DEF ReconcileEnds, Gated, Finish, FinishRequeue, Fail, BackToTop, Done, Delay, contexts
<1>1. /\ held \in [Worker -> Item \cup {NoItem}]
      /\ wpc \in [Worker -> {"none", "top", "get", "reconcile", "exited"}]
      /\ i # NoItem
    BY <1>0 DEF IInv, TypeOK, Reconciling
<1>2. /\ i \in KeyItem
      /\ \A v \in Worker : held[v] = i => v = w
    BY <1>1 DEF IInv, QInv, HeldOnce
<1> HIDE DEF i
<1>3. i \in Running /\ held[w] = i
    BY <1>2 DEF Running, i
<1>4. held'[w] = NoItem /\ \A v \in Worker : v # w => held'[v] = held[v]
    BY <1>0, <1>1
<1>5. Running' = Running \ {i}
  <2>1. \A j \in KeyItem : j # NoItem
      BY ItemType
  <2>2. ASSUME NEW j \in KeyItem
        PROVE  (\E v \in Worker : held'[v] = j) <=> (j # i /\ \E v \in Worker : held[v] = j)
      BY <1>2, <1>3, <1>4, <2>1
  <2>3. QED
      BY <2>2 DEF Running
<1>6. Pending' = Pending \/ Pending' = Pending \cup {i}
    BY <1>0, <1>2 DEF Pending
<1>7. Told' = Told /\ Leaving' = Leaving
    BY <1>0, <1>1 DEF Told, Leaving
<1>8. QED
    BY <1>2, <1>3, <1>5, <1>6, <1>7, Finished

\* Contexts are only ever cancelled; the workers in the queue then are leaving.
LEMMA CancelAbs ==
    ASSUME IInv, cancelled \subseteq cancelled', UNCHANGED <<workqueue, pool>>
    PROVE  AStep
<1>1. Pending' = Pending /\ Running' = Running /\ Told \subseteq Told'
    BY DEF Pending, Running, Told, workqueue, pool
<1> DEFINE some == {w \in Worker : w[1] \in cancelled' \ cancelled /\ wpc[w] = "get"}
<1>2. some \in SUBSET (Told' \ Told) /\ Leaving' = Leaving \cup some
    BY DEF Told, Leaving, pool
<1> HIDE DEF some
<1>3. QED
    BY <1>1, <1>2, ToldToStop

\* The workers of a new pool are at the top of their loop, cancelled or not.
LEMMA ActivateAbs == ASSUME IInv, Activate PROVE AStep
<1>1. Pending' = Pending /\ Running' = Running /\ Told \subseteq Told'
    BY DEF Activate, Pending, Running, Told, workqueue
<1>2. Leaving' = Leaving
  <2>1. \A w \in Worker : wpc'[w] = IF w[1] = gen + 1 THEN "top" ELSE wpc[w]
      BY DEF Activate
  <2>2. \A w \in Worker : w[1] = gen + 1 => wpc[w] = "none"
      BY WorkerType DEF IInv, TypeOK
  <2>3. \A w \in Worker : w[1] # gen + 1 => (w[1] \in cancelled' <=> w[1] \in cancelled)
      BY DEF Activate
  <2>4. QED
      BY <2>1, <2>2, <2>3 DEF Leaving
<1>3. {} \in SUBSET (Told' \ Told) /\ Leaving' = Leaving \cup {}
    BY <1>2
<1>4. QED
    BY <1>1, <1>3, ToldToStop

\* Every step of the queue and the pools is a step of the promise.
LEMMA NextAbs == IInv /\ [Next]_vars => AStep
<1> SUFFICES ASSUME IInv, [Next]_vars PROVE AStep
    OBVIOUS
<1>1. CASE UNCHANGED vars \/ Drained \/ DrainTimeout \/ Stop
  <2>1. UNCHANGED <<dirty, delayed, pool, contexts>>
      BY <1>1 DEF vars, workqueue, Drained, DrainTimeout, Stop
  <2>2. Stutter
      BY <2>1 DEF Stutter, Pending, Running, Told, Leaving, pool, contexts
  <2>3. QED
      BY <2>2, Stutters
<1>2. ASSUME NEW i \in Item, FallDue(i) PROVE AStep
    BY <1>2, FallDueAbs
<1>3. ASSUME NEW k \in Key, Enqueue(k) \/ EnqueueWithSentinels(k) PROVE AStep
  <2>1. CASE Enqueue(k)
    <3>1. <<k, 0>> \in KeyItem
        BY PoolAssumption DEF KeyItem
    <3>2. QED
        BY <2>1, <3>1, EventAbs DEF Enqueue
  <2>2. CASE EnqueueWithSentinels(k)
    <3>1. <<k, ptrs + 1>> \in KeyItem
        BY <2>2, PoolAssumption DEF KeyItem, EnqueueWithSentinels, IInv, TypeOK
    <3>2. QED
        BY <2>2, <3>1, EventAbs DEF EnqueueWithSentinels
  <2>3. QED
      BY <1>3, <2>1, <2>2
<1>4. ASSUME NEW w \in Worker, WorkerStep(w) \/ Gated(w) \/ ReconcileEnds(w) PROVE AStep
    BY <1>4, LoopTopAbs, GetAbs, GetCancelledAbs, GetSentinelAbs, GetShutdownAbs,
       ReconcileEndsAbs DEF WorkerStep
<1>5. CASE Deactivate \/ LoseLeadership
  <2>1. cancelled \subseteq cancelled' /\ UNCHANGED <<workqueue, pool>>
      BY <1>5 DEF Deactivate, LoseLeadership, IInv, TypeOK
  <2>2. QED
      BY <2>1, CancelAbs
<1>6. CASE AddSentinel \/ Activate
    BY <1>6, AddSentinelAbs, ActivateAbs
<1>7. QED
    BY <1>1, <1>2, <1>3, <1>4, <1>5, <1>6 DEF Next

\* A new queue promises nothing yet.
LEMMA InitAbs == Init => Requests!AInit
    BY ItemType DEF Init, Requests!AInit

\* The queue and the pools implement ReconcileRequests: runWorkerForGVK,
\* processItemForGVK and deactivateCRD reconcile an item in one worker at a time and
\* lose an accepted request only with a worker that was told to stop in the queue.
THEOREM KeepsPromiseHolds == Spec => KeepsPromise
<1>1. Init => Requests!AInit
    BY InitAbs
<1>2. IInv /\ [Next]_vars => [Requests!ANext]_(Requests!avars)
    BY NextAbs DEF AStep
<1>3. QED
    BY <1>1, <1>2, PoolInvariant, PTL DEF Spec, KeepsPromise, Requests!ASpec
=============================================================================
