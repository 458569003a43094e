--------------------------- MODULE SemaphoreProofs ---------------------------
(***************************************************************************)
(* For every set of workers and every bound: the semaphore never loses a   *)
(* wake-up and accounts for every token.  TokenAccounting is not inductive *)
(* alone: a hand-over keeps it only when the waiter had no token before,   *)
(* and a scale-up only when the notified waiters are distinct, which is    *)
(* what WaitersConsistent says.                                            *)
(***************************************************************************)
EXTENDS ResizableSemaphore, FiniteSetTheorems, SequenceTheorems, TLAPS

IInv == TypeOK /\ NoLostWakeup /\ WaitersConsistent /\ TokenAccounting

\* The elements at distinct positions of an injective stretch of a sequence
\* are as many as the positions.
LEMMA DistinctPrefix ==
    ASSUME NEW S, NEW s \in Seq(S), NEW k \in 0..Len(s), NEW T,
           \A x : x \in T <=> \E i \in 1..k : s[i] = x,
           \A i, j \in 1..Len(s) : s[i] = s[j] => i = j
    PROVE  IsFiniteSet(T) /\ Cardinality(T) = k
<1> DEFINE f == [i \in 1..k |-> s[i]]
<1>1. k \in Nat /\ Len(s) \in Nat
    BY LenProperties
<1>2. f \in Surjection(1..k, T)
    BY DEF Surjection
<1>3. f \in Injection(1..k, T)
    BY <1>1 DEF Injection, IsInjective
<1>4. IsFiniteSet(1..k) /\ Cardinality(1..k) = k
    BY <1>1, FS_Interval
<1>5. QED
    BY <1>2, <1>3, <1>4, FS_Surjection

\* Holders is a finite set of workers, so its cardinality is a number.
LEMMA HoldersFinite ==
    ASSUME TypeOK
    PROVE  /\ IsFiniteSet(Holders)
           /\ Cardinality(Holders) \in Nat
    BY SemaphoreAssumption, FS_Subset, FS_CardinalityType DEF TypeOK, Holders

\* A new semaphore satisfies the invariant.
LEMMA InitIInv == Init => IInv
<1> SUFFICES ASSUME Init PROVE IInv
    OBVIOUS
<1>1. TypeOK /\ NoLostWakeup /\ WaitersConsistent
    BY SemaphoreAssumption DEF Init, TypeOK, NoLostWakeup, WaitersConsistent, AtLeastOne
<1>2. Holders = {}
    BY DEF Init, Holders
<1>3. TokenAccounting
    BY <1>2, FS_EmptySet DEF Init, TokenAccounting
<1>4. QED
    BY <1>1, <1>3 DEF IInv

\* Acquire with a free token: one more worker holds one more token.
LEMMA AcquireNowStep ==
    ASSUME IInv, NEW w \in Worker, AcquireNow(w)
    PROVE  IInv'
<1> USE DEF IInv
<1>1. TypeOK' /\ NoLostWakeup' /\ WaitersConsistent'
    BY DEF AcquireNow, TypeOK, NoLostWakeup, WaitersConsistent
<1>2. w \notin Holders /\ Holders' = Holders \cup {w}
    BY DEF AcquireNow, TypeOK, WaitersConsistent, Holders
<1>3. Cardinality(Holders') = Cardinality(Holders) + 1
    BY <1>2, HoldersFinite, FS_AddElement
<1>4. TokenAccounting'
    BY <1>3, HoldersFinite DEF AcquireNow, TypeOK, TokenAccounting
<1>5. QED
    BY <1>1, <1>4

\* Acquire without a free token only queues the worker.
LEMMA AcquireWaitStep ==
    ASSUME IInv, NEW w \in Worker, AcquireWait(w)
    PROVE  IInv'
<1> USE DEF IInv
<1>1. TypeOK' /\ NoLostWakeup'
    BY DEF AcquireWait, TypeOK, NoLostWakeup
<1>2. /\ Len(waiters') = Len(waiters) + 1
      /\ Len(waiters) \in Nat
      /\ \A i \in 1..Len(waiters) : waiters'[i] = waiters[i] /\ waiters[i] # w
      /\ waiters'[Len(waiters) + 1] = w
    BY DEF AcquireWait, TypeOK, WaitersConsistent
<1>3. WaitersConsistent'
  <2>1. \A i, j \in 1..Len(waiters') : waiters'[i] = waiters'[j] => i = j
      BY <1>2 DEF WaitersConsistent
  <2>2. \A i \in 1..Len(waiters') :
            /\ pc'[waiters'[i]] \in {"waiting", "cancelling"}
            /\ waiters'[i] \notin granted'
      BY <1>2 DEF WaitersConsistent, AcquireWait, TypeOK
  <2>3. \A v \in granted' : pc'[v] \in {"waiting", "cancelling"}
      BY DEF WaitersConsistent, AcquireWait, TypeOK
  <2>4. QED
      BY <2>1, <2>2, <2>3 DEF WaitersConsistent
<1>4. Holders' = Holders
    BY DEF AcquireWait, TypeOK, Holders
<1>5. TokenAccounting'
    BY <1>4 DEF AcquireWait, TokenAccounting
<1>6. QED
    BY <1>1, <1>3, <1>5

\* A waiter that receives its token was a holder already.
LEMMA ReceiveStep ==
    ASSUME IInv, NEW w \in Worker, Receive(w)
    PROVE  IInv'
<1> USE DEF IInv
<1>1. TypeOK' /\ NoLostWakeup' /\ WaitersConsistent'
    BY DEF Receive, TypeOK, NoLostWakeup, WaitersConsistent
<1>2. Holders' = Holders
    BY DEF Receive, TypeOK, Holders
<1>3. TokenAccounting'
    BY <1>2 DEF Receive, TokenAccounting
<1>4. QED
    BY <1>1, <1>3

\* The steps that move no token: giving up, cancelling a context, leaving the
\* worker loop.
LEMMA QuietStep ==
    ASSUME IInv, NEW w \in Worker, GiveUp(w) \/ Cancel(w) \/ Exit(w)
    PROVE  IInv'
<1> USE DEF IInv
<1>1. TypeOK' /\ NoLostWakeup' /\ WaitersConsistent'
    BY DEF GiveUp, Cancel, Exit, TypeOK, NoLostWakeup, WaitersConsistent
<1>2. Holders' = Holders
    BY DEF GiveUp, Cancel, Exit, TypeOK, Holders
<1>3. TokenAccounting'
    BY <1>2 DEF GiveUp, Cancel, Exit, TokenAccounting
<1>4. QED
    BY <1>1, <1>3

\* A panicking reconcile turns the token it holds into a leaked one.
LEMMA PanicStep ==
    ASSUME IInv, NEW w \in Worker, Panic(w)
    PROVE  IInv'
<1> USE DEF IInv
<1>1. TypeOK' /\ NoLostWakeup' /\ WaitersConsistent'
    BY SemaphoreAssumption DEF Panic, BackToLoop, TypeOK, NoLostWakeup, WaitersConsistent
<1>2. w \in Holders /\ Holders' = Holders \ {w}
    BY DEF Panic, BackToLoop, TypeOK, WaitersConsistent, Holders
<1>3. Cardinality(Holders') = Cardinality(Holders) - 1
    BY <1>2, HoldersFinite, FS_RemoveElement
<1>4. TokenAccounting'
    BY <1>3, HoldersFinite DEF Panic, TypeOK, TokenAccounting
<1>5. QED
    BY <1>1, <1>4

\* The waiter list after its position i was cut out.
Without(s, i) == SubSeq(s, 1, i - 1) \o SubSeq(s, i + 1, Len(s))

\* Cutting out position i keeps every other waiter, at its position or the one
\* before.
LEMMA RemoveAtPosition ==
    ASSUME NEW S, NEW s \in Seq(S), NEW i \in 1..Len(s)
    PROVE  /\ Without(s, i) \in Seq(S)
           /\ Len(Without(s, i)) = Len(s) - 1
           /\ \A j \in 1..(i - 1) : Without(s, i)[j] = s[j]
           /\ \A j \in i..(Len(s) - 1) : Without(s, i)[j] = s[j + 1]
<1> DEFINE t == Without(s, i)
<1> DEFINE a == SubSeq(s, 1, i - 1)
           b == SubSeq(s, i + 1, Len(s))
<1>1. Len(s) \in Nat /\ i \in Nat /\ i \in 1..Len(s)
    BY LenProperties
<1>2. /\ a \in Seq(S)
      /\ Len(a) = i - 1
      /\ \A j \in 1..(i - 1) : a[j] = s[j]
    BY <1>1
<1>3. /\ b \in Seq(S)
      /\ Len(b) = Len(s) - i
      /\ \A j \in 1..(Len(s) - i) : b[j] = s[i + j]
    BY <1>1
<1>4. /\ t \in Seq(S)
      /\ Len(t) = Len(a) + Len(b)
      /\ \A j \in 1..(Len(a) + Len(b)) : t[j] = IF j <= Len(a) THEN a[j] ELSE b[j - Len(a)]
    BY <1>2, <1>3, ConcatProperties DEF Without
<1> HIDE DEF a, b, t
<1>5. /\ Len(t) = Len(s) - 1
      /\ Len(a) + Len(b) = Len(s) - 1
      /\ Len(a) = i - 1
    BY <1>1, <1>2, <1>3, <1>4
<1>6. ASSUME NEW j \in 1..(i - 1)
      PROVE  t[j] = s[j]
  <2>1. j \in 1..(i - 1) /\ j <= Len(a) /\ j \in 1..(Len(a) + Len(b))
      BY <1>1, <1>5, <1>6
  <2>2. QED
      BY <2>1, <1>2, <1>4
<1>7. ASSUME NEW j \in i..(Len(s) - 1)
      PROVE  t[j] = s[j + 1]
  <2>1. /\ j - Len(a) \in 1..(Len(s) - i)
        /\ i + (j - Len(a)) = j + 1
        /\ ~ (j <= Len(a))
        /\ j \in 1..(Len(a) + Len(b))
      BY <1>1, <1>5, <1>7
  <2>2. t[j] = b[j - Len(a)]
      BY <2>1, <1>4
  <2>3. b[j - Len(a)] = s[i + (j - Len(a))]
      BY <2>1, <1>3
  <2>4. QED
      BY <2>1, <2>2, <2>3
<1>8. QED
    BY <1>4, <1>5, <1>6, <1>7 DEF t

\* A cancelled waiter leaves the list; a token already sent to it is leaked.
LEMMA RemoveWaiterStep ==
    ASSUME IInv, NEW w \in Worker, RemoveWaiter(w)
    PROVE  IInv'
<1> USE DEF IInv
<1> DEFINE Shrunk ==
      /\ waiters' \in Seq(Worker)
      /\ Len(waiters') <= Len(waiters)
      /\ Len(waiters) \in Nat /\ Len(waiters') \in Nat
      /\ \A j \in 1..Len(waiters') : \E m \in 1..Len(waiters) : waiters'[j] = waiters[m]
      /\ \A j \in 1..Len(waiters') : waiters'[j] # w
      /\ \A j, l \in 1..Len(waiters') : waiters'[j] = waiters'[l] => j = l
<1>1. Shrunk
  <2>1. CASE \A i \in 1..Len(waiters) : waiters[i] # w
    <3>1. waiters' = waiters
        BY <2>1 DEF RemoveWaiter
    <3>2. QED
        BY <2>1, <3>1 DEF TypeOK, WaitersConsistent
  <2>2. ASSUME NEW i \in 1..Len(waiters), waiters[i] = w,
               waiters' = SubSeq(waiters, 1, i - 1) \o SubSeq(waiters, i + 1, Len(waiters))
        PROVE  Shrunk
    <3>1. /\ waiters' \in Seq(Worker)
          /\ Len(waiters') = Len(waiters) - 1
          /\ \A j \in 1..Len(waiters') : /\ j < i => waiters'[j] = waiters[j]
                                         /\ j >= i => waiters'[j] = waiters[j + 1]
      <4>1. waiters \in Seq(Worker) /\ i \in 1..Len(waiters)
          BY <2>2 DEF TypeOK
      <4>2. waiters' = Without(waiters, i)
          BY <2>2 DEF Without
      <4>3. /\ Without(waiters, i) \in Seq(Worker)
            /\ Len(Without(waiters, i)) = Len(waiters) - 1
          BY <4>1, RemoveAtPosition
      <4>4. \A j \in 1..(i - 1) : Without(waiters, i)[j] = waiters[j]
          BY <4>1, RemoveAtPosition, Zenon
      <4>5. \A j \in i..(Len(waiters) - 1) : Without(waiters, i)[j] = waiters[j + 1]
          BY <4>1, RemoveAtPosition, Zenon
      <4>6. Len(waiters) \in Nat /\ i \in Nat
          BY <4>1
      <4>7. QED
          BY <4>2, <4>3, <4>4, <4>5, <4>6
    <3>2. Len(waiters) \in Nat /\ i \in Nat
        BY DEF TypeOK
    <3>3. \A j \in 1..Len(waiters') :
             /\ j \in 1..Len(waiters) /\ j + 1 \in 1..Len(waiters)
             /\ j < i => waiters'[j] = waiters[j]
             /\ j >= i => waiters'[j] = waiters[j + 1]
        BY <3>1, <3>2
    <3>4. \A j, l \in 1..Len(waiters') : waiters'[j] = waiters'[l] => j = l
        BY <3>2, <3>3 DEF WaitersConsistent
    <3>5. \A j \in 1..Len(waiters') : waiters'[j] # w
      <4> SUFFICES ASSUME NEW j \in 1..Len(waiters') PROVE waiters'[j] # waiters[i]
          BY <2>2
      <4>1. CASE j < i
          BY <4>1, <3>2, <3>3 DEF WaitersConsistent
      <4>2. CASE j >= i
        <5>1. j + 1 # i /\ j + 1 \in 1..Len(waiters) /\ waiters'[j] = waiters[j + 1]
            BY <4>2, <3>2, <3>3
        <5>2. QED
            BY <5>1 DEF WaitersConsistent
      <4>3. QED
          BY <4>1, <4>2, <3>2
    <3>6. \A j \in 1..Len(waiters') : \E m \in 1..Len(waiters) : waiters'[j] = waiters[m]
        BY <3>3
    <3>7. QED
        BY <3>1, <3>2, <3>4, <3>5, <3>6
  <2>3. QED
      BY <2>1, <2>2 DEF RemoveWaiter
<1>2. TypeOK'
    BY <1>1 DEF RemoveWaiter, TypeOK
<1>3. NoLostWakeup'
    BY <1>1 DEF RemoveWaiter, TypeOK, NoLostWakeup
<1>4. WaitersConsistent'
    BY <1>1 DEF RemoveWaiter, TypeOK, WaitersConsistent
<1>5. Holders' = Holders \ {w} /\ (w \in Holders <=> w \in granted)
    BY DEF RemoveWaiter, TypeOK, WaitersConsistent, Holders
<1>6. Cardinality(Holders') = IF w \in granted THEN Cardinality(Holders) - 1
                                               ELSE Cardinality(Holders)
    BY <1>5, HoldersFinite, FS_RemoveElement
<1>7. TokenAccounting'
    BY <1>6, HoldersFinite DEF RemoveWaiter, TypeOK, TokenAccounting
<1>8. QED
    BY <1>2, <1>3, <1>4, <1>7

\* A release with waiters passes the holder's token on; one without gives it
\* back, and there was a token to give back.
LEMMA ReleaseStep ==
    ASSUME IInv, NEW w \in Worker, Release(w)
    PROVE  IInv'
<1> USE DEF IInv
<1>1. CASE waiters # <<>>
  <2> DEFINE h == Head(waiters)
  <2>1. /\ h \in Worker /\ h = waiters[1]
        /\ waiters' \in Seq(Worker)
        /\ Len(waiters) \in Nat \ {0}
        /\ Len(waiters') = Len(waiters) - 1
        /\ \A i \in 1..Len(waiters') : waiters'[i] = waiters[i + 1]
    <3>1. waiters \in Seq(Worker) /\ waiters' = Tail(waiters)
        BY <1>1 DEF Release, TypeOK
    <3>2. QED
        BY <1>1, <3>1, HeadTailProperties, LenProperties
  <2>2. h # w /\ h \notin Holders /\ w \in Holders /\ w \notin granted
      BY <2>1 DEF Release, TypeOK, WaitersConsistent, Holders
  <2>3. granted' = granted \cup {h} /\ current' = current
      BY <1>1 DEF Release
  <2> HIDE DEF h
  <2>4. TypeOK'
      BY <2>1, <2>3 DEF Release, BackToLoop, TypeOK
  <2>5. NoLostWakeup'
      BY <1>1, <2>3 DEF Release, NoLostWakeup
  <2>6. WaitersConsistent'
    <3>1. \A i, j \in 1..Len(waiters') : waiters'[i] = waiters'[j] => i = j
        BY <2>1 DEF WaitersConsistent
    <3>2. \A i \in 1..Len(waiters') : /\ waiters'[i] # h
                                      /\ waiters'[i] # w
                                      /\ pc[waiters'[i]] \in {"waiting", "cancelling"}
                                      /\ waiters'[i] \notin granted
      <4> SUFFICES ASSUME NEW i \in 1..Len(waiters')
                   PROVE  /\ waiters'[i] # h
                          /\ waiters'[i] # w
                          /\ pc[waiters'[i]] \in {"waiting", "cancelling"}
                          /\ waiters'[i] \notin granted
          OBVIOUS
      <4>1. /\ i + 1 \in 1..Len(waiters) /\ 1 \in 1..Len(waiters) /\ i + 1 # 1
            /\ waiters'[i] = waiters[i + 1]
          BY <2>1
      <4>2. /\ waiters[i + 1] # waiters[1]
            /\ pc[waiters[i + 1]] \in {"waiting", "cancelling"}
            /\ waiters[i + 1] \notin granted
          BY <4>1 DEF WaitersConsistent
      <4>3. pc[w] = "reconciling"
          BY DEF Release
      <4>4. QED
          BY <2>1, <4>1, <4>2, <4>3
    <3>3. pc[h] \in {"waiting", "cancelling"}
        BY <2>1 DEF WaitersConsistent
    <3>4. \A v \in Worker : v # w => pc'[v] = pc[v]
        BY DEF Release, BackToLoop, TypeOK
    <3>5. \A i \in 1..Len(waiters') : waiters'[i] \in Worker
        BY <2>1
    <3>6. QED
      <4>1. \A i \in 1..Len(waiters') : /\ pc'[waiters'[i]] \in {"waiting", "cancelling"}
                                        /\ waiters'[i] \notin granted'
          BY <3>2, <3>4, <3>5, <2>3
      <4>2. \A v \in granted' : pc'[v] \in {"waiting", "cancelling"}
          BY <3>3, <3>4, <2>1, <2>2, <2>3 DEF WaitersConsistent, TypeOK
      <4>3. QED
          BY <3>1, <4>1, <4>2 DEF WaitersConsistent
  <2>7. Holders' = (Holders \ {w}) \cup {h}
      BY <2>1, <2>2, <2>3 DEF Release, BackToLoop, TypeOK, Holders
  <2>8. Cardinality(Holders') = Cardinality(Holders)
    <3>1. IsFiniteSet(Holders \ {w}) /\ Cardinality(Holders \ {w}) = Cardinality(Holders) - 1
        BY <2>2, HoldersFinite, FS_RemoveElement
    <3>2. Cardinality((Holders \ {w}) \cup {h}) = Cardinality(Holders \ {w}) + 1
        BY <2>2, <3>1, FS_AddElement
    <3>3. QED
        BY <2>7, <3>1, <3>2, HoldersFinite
  <2>9. TokenAccounting'
      BY <2>3, <2>8 DEF Release, TokenAccounting
  <2>10. QED
      BY <2>4, <2>5, <2>6, <2>9
<1>2. CASE waiters = <<>>
  <2>1. w \in Holders /\ Holders' = Holders \ {w}
      BY <1>2 DEF Release, BackToLoop, TypeOK, WaitersConsistent, Holders
  <2>2. /\ Cardinality(Holders') = Cardinality(Holders) - 1
        /\ Cardinality(Holders) # 0
      BY <2>1, HoldersFinite, FS_RemoveElement, FS_EmptySet
  <2>3. /\ current \in Nat \ {0}
        /\ current' = current - 1
      BY <1>2, <2>2, HoldersFinite DEF Release, TypeOK, TokenAccounting
  <2>4. TypeOK'
      BY <1>2, <2>3 DEF Release, BackToLoop, TypeOK
  <2>5. NoLostWakeup' /\ WaitersConsistent'
      BY <1>2 DEF Release, BackToLoop, TypeOK, NoLostWakeup, WaitersConsistent
  <2>6. TokenAccounting'
      BY <1>2, <2>2, <2>3, HoldersFinite DEF Release, TypeOK, TokenAccounting
  <2>7. QED
      BY <2>4, <2>5, <2>6
<1>3. QED
    BY <1>1, <1>2
\* A scale-up counts one token for each distinct waiter it notifies, and leaves
\* somebody waiting only when the new slots are used up.
LEMMA ResizeStep ==
    ASSUME IInv, NEW n \in 0..MaxCap, Resize(n)
    PROVE  IInv'
<1> USE DEF IInv
<1> DEFINE newCap == AtLeastOne(n)
           k == Notified(newCap)
           T == {waiters[i] : i \in 1..k}
<1>1. newCap \in Nat \ {0} /\ Len(waiters) \in Nat /\ cap \in Nat /\ current \in Nat
    BY SemaphoreAssumption DEF AtLeastOne, TypeOK
<1>2. /\ cap' = newCap
      /\ current' = current + k
      /\ granted' = granted \cup T
      /\ waiters' = SubSeq(waiters, k + 1, Len(waiters))
      /\ UNCHANGED <<ctxDone, pc, panics, leaked>>
    BY DEF Resize
<1> HIDE DEF newCap
<1>3. /\ k \in 0..Len(waiters)
      /\ newCap > cap /\ k < Len(waiters) => k = newCap - cap
    BY <1>1 DEF Notified
<1> HIDE DEF k
<1>4. /\ waiters' \in Seq(Worker)
      /\ Len(waiters') = Len(waiters) - k
      /\ \A i \in 1..Len(waiters') : i + k \in 1..Len(waiters) /\ waiters'[i] = waiters[i + k]
    BY <1>1, <1>2, <1>3 DEF TypeOK
<1>5. \A i \in 1..k : i \in 1..Len(waiters)
    BY <1>1, <1>3
<1>6. /\ T \subseteq Worker
      /\ T \cap Holders = {}
      /\ \A v \in T : pc[v] \in {"waiting", "cancelling"}
    BY <1>5 DEF TypeOK, WaitersConsistent, Holders
<1>7. \A i \in 1..Len(waiters') : waiters'[i] \notin T
    BY <1>1, <1>3, <1>4, <1>5 DEF WaitersConsistent
<1>8. IsFiniteSet(T) /\ Cardinality(T) = k
  <2>1. waiters \in Seq(Worker)
      BY DEF TypeOK
  <2>2. \A i, j \in 1..Len(waiters) : waiters[i] = waiters[j] => i = j
      BY DEF WaitersConsistent
  <2>3. \A x : x \in T <=> \E i \in 1..k : waiters[i] = x
      OBVIOUS
  <2> HIDE DEF T, IInv
  <2>4. QED
      BY <1>3, <2>1, <2>2, <2>3, DistinctPrefix
<1> HIDE DEF T
<1>9. TypeOK'
  <2>1. cap' \in Nat \ {0} /\ current' \in Nat
      BY <1>1, <1>2, <1>3
  <2>2. granted' \in SUBSET Worker
      BY <1>2, <1>6 DEF TypeOK
  <2>3. QED
      BY <1>2, <1>4, <2>1, <2>2 DEF TypeOK
<1>10. NoLostWakeup'
  <2> SUFFICES ASSUME waiters' # <<>> PROVE current' >= cap'
      BY DEF NoLostWakeup
  <2>1. k < Len(waiters) /\ waiters # <<>>
      BY <1>1, <1>3, <1>4 DEF TypeOK
  <2>2. QED
      BY <2>1, <1>1, <1>2, <1>3 DEF NoLostWakeup
<1>11. WaitersConsistent'
  <2>1. \A i, j \in 1..Len(waiters') : waiters'[i] = waiters'[j] => i = j
    <3> SUFFICES ASSUME NEW i \in 1..Len(waiters'), NEW j \in 1..Len(waiters'),
                        waiters'[i] = waiters'[j]
                 PROVE  i = j
        OBVIOUS
    <3>1. waiters[i + k] = waiters[j + k]
        BY <1>4
    <3>2. i + k = j + k
        BY <3>1, <1>4 DEF WaitersConsistent
    <3>3. QED
        BY <3>2, <1>1, <1>3
  <2>2. \A i \in 1..Len(waiters') : /\ pc[waiters'[i]] \in {"waiting", "cancelling"}
                                    /\ waiters'[i] \notin granted'
      BY <1>2, <1>4, <1>7 DEF WaitersConsistent
  <2>3. \A v \in granted' : pc[v] \in {"waiting", "cancelling"}
      BY <1>2, <1>6 DEF WaitersConsistent
  <2>4. QED
      BY <1>2, <2>1, <2>2, <2>3 DEF WaitersConsistent
<1>12. Holders' = Holders \cup T
    BY <1>2 DEF Holders
<1>13. Cardinality(Holders') = Cardinality(Holders) + k
  <2>1. Cardinality(Holders \cup T) = Cardinality(Holders) + Cardinality(T) - Cardinality(Holders \cap T)
      BY <1>8, HoldersFinite, FS_Union
  <2>2. Cardinality(Holders \cap T) = 0
      BY <1>6, FS_EmptySet
  <2>3. QED
      BY <2>1, <2>2, <1>1, <1>3, <1>8, <1>12, HoldersFinite
<1>14. TokenAccounting'
    BY <1>1, <1>2, <1>3, <1>13, HoldersFinite DEF TypeOK, TokenAccounting
<1>15. QED
    BY <1>9, <1>10, <1>11, <1>14

\* Every step preserves the invariant.
LEMMA NextIInv == IInv /\ [Next]_vars => IInv'
<1> SUFFICES ASSUME IInv, [Next]_vars PROVE IInv'
    OBVIOUS
<1>1. CASE UNCHANGED vars
    BY <1>1 DEF IInv, vars, TypeOK, NoLostWakeup, WaitersConsistent, TokenAccounting, Holders
<1>2. ASSUME NEW w \in Worker,
             \/ Acquire(w) \/ Receive(w) \/ GiveUp(w) \/ RemoveWaiter(w)
             \/ Release(w) \/ Panic(w) \/ Cancel(w) \/ Exit(w)
      PROVE  IInv'
    BY <1>2, AcquireNowStep, AcquireWaitStep, ReceiveStep, QuietStep, RemoveWaiterStep,
       ReleaseStep, PanicStep DEF Acquire
<1>3. ASSUME NEW n \in 0..MaxCap, Resize(n) PROVE IInv'
    BY <1>3, ResizeStep
<1>4. QED
    BY <1>1, <1>2, <1>3 DEF Next

\* The inductive invariant holds in every reachable state of the semaphore,
\* whatever the number of workers, panics and resizes.
THEOREM SemaphoreInvariant == Spec => []IInv
    BY InitIInv, NextIInv, PTL DEF Spec

\* Acquire never parks a worker while a slot is free and no resize, hand-over,
\* cancellation or panic strands one: ResizableSemaphore loses no wake-up.
THEOREM NoLostWakeupHolds == Spec => []NoLostWakeup
<1>1. IInv => NoLostWakeup
    BY DEF IInv
<1>2. QED
    BY <1>1, SemaphoreInvariant, PTL

\* s.current counts the tokens held, the tokens in a channel and the tokens
\* leaked by panics and cancelled waiters, and nothing else.
THEOREM TokenAccountingHolds == Spec => []TokenAccounting
<1>1. IInv => TokenAccounting
    BY DEF IInv
<1>2. QED
    BY <1>1, SemaphoreInvariant, PTL

\* A worker is in s.waiters at most once, only while it waits in Acquire, and not
\* once its token was sent: Release and Resize hand no worker a second token.
THEOREM WaitersConsistentHolds == Spec => []WaitersConsistent
<1>1. IInv => WaitersConsistent
    BY DEF IInv
<1>2. QED
    BY <1>1, SemaphoreInvariant, PTL

\* The variables keep their types; in particular s.current never goes below
\* zero and s.cap never below one.
THEOREM SemaphoreTypeCorrect == Spec => []TypeOK
<1>1. IInv => TypeOK
    BY DEF IInv
<1>2. QED
    BY <1>1, SemaphoreInvariant, PTL
=============================================================================
