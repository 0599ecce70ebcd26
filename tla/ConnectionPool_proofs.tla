------------------------ MODULE ConnectionPool_proofs ------------------------
(***************************************************************************)
(* No connection is lost, none is idle while a request waits, and what is  *)
(* locked is held by an open transaction, for any number of handlers, rows *)
(* and connections.  The heart of it is release: what it takes from one    *)
(* handler it gives to as many others as wait, or leaves idle.  A pool is  *)
(* large enough, and never exhausted, when it has more connections than    *)
(* the handlers in flight can ask for beyond their first.                  *)
(***************************************************************************)
EXTENDS ConnectionPool, SequenceTheorems, FiniteSetTheorems, TLAPS

\* What InUse counts: the first, second and third connection of a handler.
Held == {u \in Handlers \X (1..3) : u[2] <= held[u[1]]}

PoolTypes ==
  /\ free \in Nat
  /\ waiting \in Seq(Handlers)
  /\ held \in [Handlers -> 0..3]
  /\ at \in [Handlers -> Places]
  /\ lockedBy \in [LockedRows -> Handlers \cup {NoHandler}]

\* A handler waits in one place of the queue, and for a connection it needs.
QueueIsOfNeedy ==
  /\ \A i, j \in 1..Len(waiting) : waiting[i] = waiting[j] => i = j
  /\ \A i \in 1..Len(waiting) : held[waiting[i]] < Needs(at[waiting[i]])

HeldIsNeeded == \A h \in Handlers : held[h] <= Needs(at[h])

Accounted == IsFiniteSet(Held) /\ free + Cardinality(Held) = Limit

PoolInv ==
  /\ PoolTypes /\ QueueIsOfNeedy /\ HeldIsNeeded
  /\ Accounted /\ WaitersMeanNoneIdle /\ LockedByATransaction

-----------------------------------------------------------------------------
\* A set that a one-to-one enumeration of 1..n exhausts has n elements.
LEMMA Enumerated ==
  ASSUME NEW S, NEW n \in Nat, NEW f \in [1..n -> S],
         \A i, j \in 1..n : f[i] = f[j] => i = j,
         \A s \in S : \E i \in 1..n : f[i] = s
  PROVE  IsFiniteSet(S) /\ Cardinality(S) = n
<1>1. f \in Bijection(1..n, S)
  BY DEF Bijection, Injection, Surjection, IsInjective
<1>2. ExistsBijection(1..n, S)
  BY <1>1 DEF ExistsBijection
<1> QED BY <1>2, FS_NatBijection, FS_CountingElements

\* The smaller of two numbers.
LEMMA MinOfTwo ==
  ASSUME NEW m \in Nat, NEW n \in Nat
  PROVE  Min({m, n}) = IF m <= n THEN m ELSE n
<1>1. \E x \in {m, n} : \A y \in {m, n} : x <= y
  BY Z3
<1>2. /\ Min({m, n}) \in {m, n}
      /\ \A y \in {m, n} : Min({m, n}) <= y
  BY <1>1, Zenon DEF Min
<1> QED BY <1>2

\* What a handler may hold where it is.
LEMMA NeedsBound ==
  ASSUME NEW p \in Places
  PROVE  Needs(p) \in 0..3
BY DEF Needs, Places

LEMMA NeedsTable ==
  /\ Places = {"idle", "begin", "locked", "asking", "written", "notifying",
               "cleaning", "queueing", "cleaned", "closing"}
  /\ Needs("idle") = 0 /\ Needs("queueing") = 3
  /\ \A p \in {"asking", "notifying", "cleaning", "cleaned"} : Needs(p) = 2
  /\ \A p \in {"begin", "locked", "written", "closing"} : Needs(p) = 1
BY DEF Needs, Places

-----------------------------------------------------------------------------
\* The pool is whole before anybody asks of it.
LEMMA InitPool == Init => PoolInv
<1> SUFFICES ASSUME Init PROVE PoolInv
  OBVIOUS
<1>1. PoolTypes
  BY PoolAssumption DEF Init, PoolTypes, Places
<1>2. Len(waiting) = 0 /\ \A h \in Handlers : held[h] = 0 /\ Needs(at[h]) = 0
  BY DEF Init, Needs
<1>3. QueueIsOfNeedy /\ HeldIsNeeded /\ WaitersMeanNoneIdle
  BY <1>2 DEF Init, QueueIsOfNeedy, HeldIsNeeded, WaitersMeanNoneIdle
<1>4. Held = {}
  BY <1>2 DEF Held
<1>5. Accounted
  BY <1>4, FS_EmptySet, PoolAssumption DEF Init, Accounted
<1>6. LockedByATransaction
  BY DEF Init, LockedByATransaction
<1> QED BY <1>1, <1>3, <1>5, <1>6 DEF PoolInv

\* A handler that gets a connection it needs, or a place in the queue.
LEMMA AskKeeps ==
  ASSUME PoolInv, NEW h \in Handlers, Ask(h)
  PROVE  PoolInv'
<1>1. PoolTypes /\ HeldIsNeeded /\ QueueIsOfNeedy /\ held[h] < Needs(at[h]) /\ UNCHANGED <<at, lockedBy>>
  BY DEF PoolInv, Ask
<1>2. Needs(at[h]) \in 0..3 /\ held[h] \in 0..3 /\ free \in Nat /\ Len(waiting) \in Nat
      /\ \A i \in 1..Len(waiting) : waiting[i] \in Handlers
      /\ DOMAIN waiting = 1..Len(waiting)
  BY <1>1, NeedsBound DEF PoolTypes
<1>3. \A i \in 1..Len(waiting) : waiting[i] # h
  BY <1>2 DEF Ask, Queued
<1>4. CASE /\ free > 0
           /\ free' = free - 1
           /\ held' = [held EXCEPT ![h] = @ + 1]
           /\ UNCHANGED waiting
  <2>1. /\ held' \in [Handlers -> 0..3] /\ held'[h] = held[h] + 1 /\ held[h] + 1 <= 3
        /\ \A g \in Handlers \ {h} : held'[g] = held[g]
    BY <1>1, <1>2, <1>4 DEF PoolTypes
  <2>2. PoolTypes' /\ HeldIsNeeded'
    BY <1>1, <1>2, <1>4, <2>1 DEF PoolTypes, HeldIsNeeded
  <2>3. QueueIsOfNeedy' /\ WaitersMeanNoneIdle'
    BY <1>1, <1>2, <1>3, <1>4, <2>1 DEF PoolInv, QueueIsOfNeedy, WaitersMeanNoneIdle
  <2>4. LockedByATransaction'
    BY <1>1, <1>2, <2>1 DEF PoolInv, PoolTypes, LockedByATransaction
  <2>5. Accounted'
    <3>1. Held' = Held \cup {<<h, held[h] + 1>>} /\ <<h, held[h] + 1>> \notin Held
      BY <1>2, <2>1 DEF Held
    <3>2. IsFiniteSet(Held') /\ Cardinality(Held') = Cardinality(Held) + 1
      BY <3>1, FS_AddElement DEF PoolInv, Accounted
    <3>3. Cardinality(Held) \in Nat /\ free + Cardinality(Held) = Limit
      BY FS_CardinalityType DEF PoolInv, Accounted
    <3> QED BY <1>2, <1>4, <3>2, <3>3 DEF Accounted
  <2> QED BY <2>2, <2>3, <2>4, <2>5 DEF PoolInv
<1>5. CASE free = 0 /\ waiting' = Append(waiting, h) /\ UNCHANGED <<free, held>>
  <2>1. /\ waiting' \in Seq(Handlers) /\ Len(waiting') = Len(waiting) + 1
        /\ \A i \in 1..Len(waiting) : waiting'[i] = waiting[i]
        /\ waiting'[Len(waiting) + 1] = h
    BY <1>1, <1>5, AppendProperties DEF PoolTypes
  <2>2. PoolTypes' /\ HeldIsNeeded' /\ WaitersMeanNoneIdle' /\ LockedByATransaction' /\ Accounted'
    BY <1>1, <1>5, <2>1
    DEF PoolInv, PoolTypes, HeldIsNeeded, WaitersMeanNoneIdle, LockedByATransaction, Accounted, Held
  <2>3. QueueIsOfNeedy'
    BY <1>1, <1>2, <1>3, <1>5, <2>1 DEF QueueIsOfNeedy
  <2> QED BY <2>2, <2>3 DEF PoolInv
<1> QED BY <1>4, <1>5 DEF Ask

-----------------------------------------------------------------------------
\* What release does with k of the connections of h: everyone else keeps what it
\* holds, or leaves the queue with one it needs; the sum stays.
LEMMA ReleaseKeeps ==
  ASSUME PoolInv, NEW h \in Handlers, NEW k \in 1..3, k <= held[h], ~Queued(h), Release(h, k),
         UNCHANGED at \/ \E p \in Places : at' = [at EXCEPT ![h] = p]
  PROVE  /\ waiting' \in Seq(Handlers) /\ free' \in Nat /\ held' \in [Handlers -> 0..3]
         /\ held'[h] = held[h] - k
         /\ \A g \in Handlers \ {h} : held[g] <= held'[g] /\ held'[g] <= Needs(at[g])
         /\ QueueIsOfNeedy' /\ WaitersMeanNoneIdle' /\ Accounted'
<1> DEFINE n == Len(waiting)
           served == Min({k, n})
           first == {waiting[i] : i \in 1..served}
<1>1. /\ PoolTypes /\ HeldIsNeeded /\ QueueIsOfNeedy /\ WaitersMeanNoneIdle
      /\ n \in Nat /\ \A i \in 1..n : waiting[i] \in Handlers
      /\ DOMAIN waiting = 1..n
  BY DEF PoolInv, PoolTypes
<1>2. \A i \in 1..n : waiting[i] # h
  BY <1>1 DEF Queued
<1>3. served = IF k <= n THEN k ELSE n
  BY <1>1, MinOfTwo
<1>4. served \in 0..3 /\ served <= n /\ served <= k /\ (served = k \/ served = n)
  BY <1>1, <1>3
<1>5. /\ waiting' = SubSeq(waiting, served + 1, n)
      /\ free' = free + k - served
      /\ held' = [g \in Handlers |-> held[g] + (IF g \in first THEN 1 ELSE 0)
                                             - (IF g = h THEN k ELSE 0)]
  BY DEF Release
<1> HIDE DEF n, served
<1>6. /\ waiting' \in Seq(Handlers) /\ Len(waiting') = n - served
      /\ \A i \in 1..(n - served) : waiting'[i] = waiting[served + i]
  <2>1. \A i \in (served + 1)..n : waiting[i] \in Handlers
    BY <1>1, <1>4
  <2>2. /\ SubSeq(waiting, served + 1, n) \in Seq(Handlers)
        /\ Len(SubSeq(waiting, served + 1, n)) = IF served + 1 <= n THEN n - (served + 1) + 1 ELSE 0
        /\ \A i \in 1..(n - (served + 1) + 1) :
             SubSeq(waiting, served + 1, n)[i] = waiting[served + 1 + i - 1]
    BY <1>1, <1>4, <2>1, SubSeqProperties
  <2> QED BY <1>1, <1>4, <1>5, <2>2
<1>7. h \notin first /\ first \subseteq Handlers
  BY <1>1, <1>2, <1>4
<1>8. \A g \in first : held[g] < Needs(at[g])
  <2> SUFFICES ASSUME NEW i \in 1..served PROVE held[waiting[i]] < Needs(at[waiting[i]])
    OBVIOUS
  <2>1. i \in 1..n
    BY <1>1, <1>4
  <2> QED BY <1>1, <2>1 DEF QueueIsOfNeedy, n
<1>9. \A g \in Handlers : held[g] \in 0..3 /\ Needs(at[g]) \in 0..3 /\ held[g] <= Needs(at[g])
  BY <1>1, NeedsBound DEF PoolTypes, HeldIsNeeded
<1>10. /\ held'[h] = held[h] - k
       /\ \A g \in first : held'[g] = held[g] + 1
       /\ \A g \in Handlers \ (first \cup {h}) : held'[g] = held[g]
  BY <1>5, <1>7, <1>9
<1>11. held' \in [Handlers -> 0..3]
  <2>1. \A g \in Handlers : held'[g] \in 0..3
    BY <1>7, <1>8, <1>9, <1>10
  <2>2. held' = [g \in Handlers |-> held'[g]]
    BY <1>5
  <2> HIDE DEF first
  <2> QED BY <2>1, <2>2
<1> HIDE DEF first
<1>12. \A g \in Handlers \ {h} : held[g] <= held'[g] /\ held'[g] <= Needs(at[g])
  BY <1>8, <1>9, <1>10
<1>13. \A g \in Handlers \ {h} : at'[g] = at[g]
  BY <1>1 DEF PoolTypes
<1>14. QueueIsOfNeedy'
  <2>1. \A i, j \in 1..n : waiting[i] = waiting[j] => i = j
    BY <1>1 DEF QueueIsOfNeedy, n
  <2>2. ASSUME NEW i \in 1..(n - served) PROVE waiting[served + i] \notin first
    BY <1>1, <1>4, <2>1 DEF first
  <2>3. ASSUME NEW i \in 1..(n - served)
        PROVE  held'[waiting'[i]] < Needs(at[waiting'[i]]) /\ at'[waiting'[i]] = at[waiting'[i]]
    <3>1. served + i \in 1..n /\ waiting'[i] = waiting[served + i]
      BY <1>1, <1>4, <1>6
    <3>2. waiting'[i] \in Handlers \ (first \cup {h})
      BY <1>1, <1>2, <2>2, <3>1
    <3>3. held[waiting[served + i]] < Needs(at[waiting[served + i]])
      BY <1>1, <3>1 DEF QueueIsOfNeedy, n
    <3> QED BY <1>10, <1>13, <3>1, <3>2, <3>3
  <2>4. ASSUME NEW i \in 1..(n - served), NEW j \in 1..(n - served), waiting'[i] = waiting'[j]
        PROVE  i = j
    <3>1. served + i \in 1..n /\ served + j \in 1..n
      BY <1>1, <1>4
    <3>2. waiting[served + i] = waiting[served + j]
      BY <1>6, <2>4
    <3>3. served + i = served + j
      BY <2>1, <3>1, <3>2
    <3> QED BY <1>4, <3>3
  <2> QED BY <1>6, <2>3, <2>4 DEF QueueIsOfNeedy, Needs
<1>15. free' \in Nat /\ WaitersMeanNoneIdle'
  <2>1. free \in Nat
    BY <1>1 DEF PoolTypes
  <2>2. ASSUME waiting' # <<>> PROVE n > 0 /\ served = k
    BY <1>1, <1>4, <1>6, <2>2, EmptySeq
  <2>3. n > 0 => waiting # <<>>
    BY DEF n
  <2> QED BY <1>1, <1>4, <1>5, <2>1, <2>2, <2>3 DEF WaitersMeanNoneIdle
<1>16. Accounted'
  <2> DEFINE Gone == {<<h, j>> : j \in (held[h] - k + 1)..held[h]}
             Come == {<<waiting[i], held[waiting[i]] + 1>> : i \in 1..served}
             f == [i \in 1..k |-> <<h, held[h] - k + i>>]
             c == [i \in 1..served |-> <<waiting[i], held[waiting[i]] + 1>>]
  <2>1. IsFiniteSet(Gone) /\ Cardinality(Gone) = k
    <3>1. f \in [1..k -> Gone]
      BY <1>9
    <3>2. \A i, j \in 1..k : f[i] = f[j] => i = j
      BY <1>9
    <3>3. \A s \in Gone : \E i \in 1..k : f[i] = s
      <4> SUFFICES ASSUME NEW j \in (held[h] - k + 1)..held[h] PROVE \E i \in 1..k : f[i] = <<h, j>>
        OBVIOUS
      <4>1. PICK i \in 1..k : held[h] - k + i = j
        <5>1. j - (held[h] - k) \in 1..k /\ held[h] - k + (j - (held[h] - k)) = j
          BY <1>9
        <5> QED BY <5>1
      <4>2. f[i] = <<h, j>>
        BY <4>1
      <4> QED BY <4>2
    <3>4. k \in Nat
      OBVIOUS
    <3> HIDE DEF f, Gone
    <3> QED BY <3>1, <3>2, <3>3, <3>4, Enumerated
  <2>2. IsFiniteSet(Come) /\ Cardinality(Come) = served
    <3>1. c \in [1..served -> Come]
      OBVIOUS
    <3>2. ASSUME NEW i \in 1..served, NEW j \in 1..served, c[i] = c[j] PROVE i = j
      <4>1. waiting[i] = waiting[j]
        BY <3>2
      <4>2. i \in 1..n /\ j \in 1..n
        BY <1>1, <1>4
      <4> QED BY <1>1, <4>1, <4>2 DEF QueueIsOfNeedy, n
    <3>3. \A s \in Come : \E i \in 1..served : c[i] = s
      OBVIOUS
    <3>4. served \in Nat
      BY <1>4
    <3> HIDE DEF c, Come
    <3> QED BY <3>4, <3>1, <3>2, <3>3, Enumerated
  <2>3. Gone \subseteq Held
    BY <1>9 DEF Held
  <2>4. Come \cap Held = {}
    <3> SUFFICES ASSUME NEW i \in 1..served PROVE <<waiting[i], held[waiting[i]] + 1>> \notin Held
      OBVIOUS
    <3>1. waiting[i] \in Handlers
      BY <1>1, <1>4
    <3> QED BY <1>9, <3>1 DEF Held
  <2>5. Held' = (Held \ Gone) \cup Come
    <3>1. ASSUME NEW g \in Handlers, NEW j \in 1..3
          PROVE  <<g, j>> \in Held' <=> <<g, j>> \in (Held \ Gone) \cup Come
      <4>1. <<g, j>> \in Held' <=> j <= held'[g]
        BY DEF Held
      <4>2. <<g, j>> \in Held <=> j <= held[g]
        BY DEF Held
      <4>3. <<g, j>> \in Gone <=> g = h /\ j > held[h] - k /\ j <= held[h]
        BY <1>9
      <4>4. <<g, j>> \in Come <=> g \in first /\ j = held[g] + 1
        BY <1>1, <1>4 DEF first
      <4> HIDE DEF Gone, Come
      <4>5. CASE g = h
        BY <1>7, <1>9, <1>10, <4>1, <4>2, <4>3, <4>4, <4>5
      <4>6. CASE g # h /\ g \in first
        BY <1>9, <1>10, <4>1, <4>2, <4>3, <4>4, <4>6
      <4>7. CASE g # h /\ g \notin first
        BY <1>9, <1>10, <4>1, <4>2, <4>3, <4>4, <4>7
      <4> QED BY <4>5, <4>6, <4>7
    <3>2. Come \subseteq Handlers \X (1..3)
      <4> SUFFICES ASSUME NEW i \in 1..served
                   PROVE  <<waiting[i], held[waiting[i]] + 1>> \in Handlers \X (1..3)
        OBVIOUS
      <4>1. waiting[i] \in first /\ waiting[i] \in Handlers
        BY <1>1, <1>4 DEF first
      <4> QED BY <1>8, <1>9, <4>1
    <3>3. Held \subseteq Handlers \X (1..3) /\ Held' \subseteq Handlers \X (1..3)
      BY DEF Held
    <3>4. ASSUME NEW u \in Handlers \X (1..3) PROVE u \in Held' <=> u \in (Held \ Gone) \cup Come
      <4>1. PICK g \in Handlers, j \in 1..3 : u = <<g, j>>
        OBVIOUS
      <4> HIDE DEF Gone, Come
      <4> QED BY <3>1, <4>1
    <3> HIDE DEF Gone, Come
    <3> QED BY <3>2, <3>3, <3>4
  <2> HIDE DEF Gone, Come
  <2>6. IsFiniteSet(Held) /\ Cardinality(Held) \in Nat /\ free + Cardinality(Held) = Limit
    BY FS_CardinalityType DEF PoolInv, Accounted
  <2>7. IsFiniteSet(Held \ Gone) /\ Cardinality(Held \ Gone) = Cardinality(Held) - k
    <3>1. Held \cap Gone = Gone
      BY <2>3
    <3>2. /\ IsFiniteSet(Held \ Gone)
          /\ Cardinality(Held \ Gone) = Cardinality(Held) - Cardinality(Held \cap Gone)
      BY <2>6, FS_Difference
    <3> QED BY <2>1, <3>1, <3>2
  <2>8. /\ IsFiniteSet(Held')
        /\ Cardinality(Held') = Cardinality(Held \ Gone) + served - Cardinality({})
    <3>1. (Held \ Gone) \cap Come = {}
      BY <2>4
    <3> QED BY <2>2, <2>5, <2>7, <3>1, FS_Union
  <2>9. Cardinality({}) = 0
    BY FS_EmptySet
  <2> QED BY <1>1, <1>4, <1>5, <2>6, <2>7, <2>8, <2>9 DEF Accounted, PoolTypes
<1> QED BY <1>6, <1>10, <1>11, <1>12, <1>14, <1>15, <1>16

\* A handler that has what it needs goes to p, which needs as much or more.
LEMMA MoveKeeps ==
  ASSUME PoolInv, NEW h \in Handlers, NEW p \in Places, Ready(h), Needs(at[h]) <= Needs(p),
         at' = [at EXCEPT ![h] = p], UNCHANGED <<free, waiting, held>>,
         lockedBy' \in [LockedRows -> Handlers \cup {NoHandler}],
         \A r \in LockedRows : lockedBy'[r] # NoHandler =>
            \/ lockedBy'[r] = h /\ p \in {"locked", "asking", "written"} /\ held[h] > 0
            \/ lockedBy'[r] = lockedBy[r] /\ lockedBy[r] # h
  PROVE  PoolInv'
<1>1. /\ at' \in [Handlers -> Places] /\ at'[h] = p
      /\ \A g \in Handlers \ {h} : at'[g] = at[g]
  BY DEF PoolInv, PoolTypes
<1>2. PoolTypes' /\ HeldIsNeeded'
  BY <1>1 DEF PoolInv, PoolTypes, HeldIsNeeded, Ready
<1>3. QueueIsOfNeedy'
  <2>1. \A i \in 1..Len(waiting) : waiting[i] \in Handlers \ {h}
    BY DEF PoolInv, PoolTypes, Ready, Queued
  <2> QED BY <1>1, <2>1 DEF PoolInv, QueueIsOfNeedy
<1>4. LockedByATransaction'
  BY <1>1 DEF PoolInv, PoolTypes, LockedByATransaction
<1>5. Accounted' /\ WaitersMeanNoneIdle'
  BY DEF PoolInv, Accounted, Held, WaitersMeanNoneIdle
<1> QED BY <1>2, <1>3, <1>4, <1>5 DEF PoolInv

\* A handler that has what it needs gives k of its connections back and goes to
\* p, which needs the rest.
LEMMA GiveBackKeeps ==
  ASSUME PoolInv, NEW h \in Handlers, NEW k \in 1..3, NEW p \in Places, Ready(h),
         k <= held[h], held[h] <= Needs(p) + k, Release(h, k), at' = [at EXCEPT ![h] = p],
         lockedBy' \in [LockedRows -> Handlers \cup {NoHandler}],
         \A r \in LockedRows : lockedBy'[r] # NoHandler =>
            /\ lockedBy'[r] = lockedBy[r]
            /\ lockedBy[r] = h => p \in {"locked", "asking", "written"} /\ held[h] > k
  PROVE  PoolInv'
<1>1. /\ at' \in [Handlers -> Places] /\ at'[h] = p
      /\ \A g \in Handlers \ {h} : at'[g] = at[g]
  BY DEF PoolInv, PoolTypes
<1>2. /\ waiting' \in Seq(Handlers) /\ free' \in Nat /\ held' \in [Handlers -> 0..3]
      /\ held'[h] = held[h] - k
      /\ \A g \in Handlers \ {h} : held[g] <= held'[g] /\ held'[g] <= Needs(at[g])
      /\ QueueIsOfNeedy' /\ WaitersMeanNoneIdle' /\ Accounted'
  BY ReleaseKeeps DEF Ready
<1>3. PoolTypes'
  BY <1>1, <1>2 DEF PoolTypes
<1>4. HeldIsNeeded'
  <2>1. Needs(p) \in 0..3 /\ held[h] \in 0..3 /\ held'[h] <= Needs(p)
    BY <1>2, NeedsBound DEF PoolInv, PoolTypes
  <2> QED BY <1>1, <1>2, <2>1 DEF HeldIsNeeded
<1>5. LockedByATransaction'
  <2> SUFFICES ASSUME NEW r \in LockedRows, lockedBy'[r] # NoHandler
               PROVE  held'[lockedBy'[r]] > 0 /\ at'[lockedBy'[r]] \in {"locked", "asking", "written"}
    BY DEF LockedByATransaction
  <2>1. /\ lockedBy'[r] = lockedBy[r] /\ lockedBy[r] \in Handlers
        /\ held[lockedBy[r]] > 0 /\ at[lockedBy[r]] \in {"locked", "asking", "written"}
    BY DEF PoolInv, PoolTypes, LockedByATransaction
  <2>2. \A g \in Handlers : held[g] \in 0..3 /\ held'[g] \in 0..3
    BY <1>2 DEF PoolInv, PoolTypes
  <2>3. CASE lockedBy[r] = h
    BY <1>1, <1>2, <2>1, <2>2, <2>3
  <2>4. CASE lockedBy[r] # h
    BY <1>1, <1>2, <2>1, <2>2, <2>4
  <2> QED BY <2>3, <2>4
<1> QED BY <1>2, <1>3, <1>4, <1>5 DEF PoolInv

\* A rollback or a commit leaves the locks of the others.
LEMMA Unlocks ==
  ASSUME PoolInv, NEW h \in Handlers, lockedBy' = Unlock(h)
  PROVE  /\ lockedBy' \in [LockedRows -> Handlers \cup {NoHandler}]
         /\ \A r \in LockedRows : lockedBy'[r] # NoHandler =>
              lockedBy'[r] = lockedBy[r] /\ lockedBy[r] # h
BY DEF PoolInv, PoolTypes, Unlock

\* The steps of a handler.
LEMMA HandlerSteps ==
  ASSUME PoolInv, NEW h \in Handlers, Arrive(h) \/ Steps(h) \/ Fail(h)
  PROVE  PoolInv'
<1>1. /\ lockedBy \in [LockedRows -> Handlers \cup {NoHandler}]
      /\ held[h] \in 0..3 /\ at[h] \in Places /\ held[h] <= Needs(at[h])
  BY DEF PoolInv, PoolTypes, HeldIsNeeded
<1>2. ASSUME NEW r \in LockedRows, lockedBy[r] = h
      PROVE  held[h] > 0 /\ at[h] \in {"locked", "asking", "written"}
  BY <1>2, PoolAssumption DEF PoolInv, LockedByATransaction
<1>3. CASE Arrive(h)
  <2>1. held[h] = 0 /\ Ready(h)
    BY <1>1, <1>3, NeedsTable DEF Arrive, Ready, Queued, PoolInv, PoolTypes, QueueIsOfNeedy
  <2>2. /\ at' = [at EXCEPT ![h] = "begin"] /\ UNCHANGED <<free, waiting, held, lockedBy>>
        /\ Needs(at[h]) <= Needs("begin") /\ "begin" \in Places
    BY <1>3, NeedsTable DEF Arrive
  <2>3. /\ lockedBy' \in [LockedRows -> Handlers \cup {NoHandler}]
        /\ \A r \in LockedRows : lockedBy'[r] = lockedBy[r] /\ lockedBy[r] # h
    BY <1>1, <1>2, <1>3, <2>2 DEF Arrive
  <2> QED BY <2>1, <2>2, <2>3, MoveKeeps
<1>4. CASE Ask(h)
  BY <1>4, AskKeeps
<1>5. CASE LockRow(h)
  <2>1. held[h] > 0 /\ Ready(h) /\ Row[h] \in LockedRows
    BY <1>5, NeedsTable, PoolAssumption DEF LockRow, Ready
  <2>2. lockedBy' \in [LockedRows -> Handlers \cup {NoHandler}]
    BY <1>1, <1>5 DEF LockRow
  <2>3. \A r \in LockedRows : lockedBy'[r] = h \/ (lockedBy'[r] = lockedBy[r] /\ lockedBy[r] # h)
    BY <1>1, <1>2, <1>5, <2>1 DEF LockRow
  <2>4. /\ at' = [at EXCEPT ![h] = "locked"] /\ UNCHANGED <<free, waiting, held>>
        /\ Needs(at[h]) <= Needs("locked") /\ "locked" \in Places
    BY <1>5, NeedsTable DEF LockRow
  <2> QED BY <2>1, <2>2, <2>3, <2>4, MoveKeeps
<1>6. CASE Write(h)
  <2>1. held[h] > 0 /\ Ready(h) /\ UNCHANGED <<free, waiting, held, lockedBy>>
    BY <1>6, NeedsTable DEF Write, Ready
  <2>2. PICK p \in {"asking", "written"} : at' = [at EXCEPT ![h] = p]
    BY <1>6 DEF Write
  <2>3. p \in Places /\ Needs(at[h]) <= Needs(p)
    BY <1>6, NeedsTable DEF Write
  <2> QED BY <1>1, <2>1, <2>2, <2>3, MoveKeeps
<1>7. CASE Asked(h)
  <2>1. /\ held[h] = 2 /\ Ready(h) /\ Release(h, 1) /\ UNCHANGED lockedBy
        /\ at' = [at EXCEPT ![h] = "written"]
        /\ held[h] <= Needs("written") + 1 /\ "written" \in Places
    BY <1>7, NeedsTable DEF Asked, Ready
  <2>2. 1 \in 1..3 /\ 1 <= held[h] /\ held[h] > 1
    BY <2>1
  <2>3. /\ lockedBy' \in [LockedRows -> Handlers \cup {NoHandler}]
        /\ \A r \in LockedRows : lockedBy'[r] = lockedBy[r]
    BY <1>1, <2>1
  <2> QED BY <2>1, <2>2, <2>3, GiveBackKeeps
<1>8. CASE Commit(h)
  <2>1. Ready(h) /\ UNCHANGED <<free, waiting, held>> /\ lockedBy' = Unlock(h)
    BY <1>8 DEF Commit
  <2>2. PICK p \in {"notifying", "cleaning", "closing"} : at' = [at EXCEPT ![h] = p]
    BY <1>8 DEF Commit
  <2>3. p \in Places /\ Needs(at[h]) <= Needs(p)
    BY <1>8, NeedsTable DEF Commit
  <2> QED BY <2>1, <2>2, <2>3, Unlocks, MoveKeeps
<1>9. ASSUME NEW p \in Places, Ready(h), Release(h, 1), at' = [at EXCEPT ![h] = p], UNCHANGED lockedBy,
             at[h] \in {"notifying", "queueing", "cleaned", "closing"},
             Needs(at[h]) <= Needs(p) + 1
      PROVE  PoolInv'
  <2>1. held[h] = Needs(at[h]) /\ 1 <= held[h]
    BY <1>9, NeedsTable DEF Ready
  <2>2. \A r \in LockedRows : lockedBy[r] # h
    BY <1>2, <1>9
  <2>3. /\ lockedBy' \in [LockedRows -> Handlers \cup {NoHandler}]
        /\ \A r \in LockedRows : lockedBy'[r] = lockedBy[r] /\ lockedBy[r] # h
    BY <1>1, <1>9, <2>2
  <2>4. 1 \in 1..3 /\ held[h] <= Needs(p) + 1
    BY <1>9, <2>1
  <2> QED BY <1>9, <2>1, <2>3, <2>4, GiveBackKeeps
<1>10. CASE Notified(h) \/ QueueAsked(h) \/ Cleaned(h) \/ Close(h)
  BY <1>9, <1>10, NeedsTable DEF Notified, QueueAsked, Cleaned, Close
<1>11. CASE Queue(h)
  <2>1. /\ Ready(h) /\ at' = [at EXCEPT ![h] = "queueing"] /\ UNCHANGED <<free, waiting, held, lockedBy>>
        /\ Needs(at[h]) <= Needs("queueing") /\ "queueing" \in Places
    BY <1>11, NeedsTable DEF Queue
  <2>2. \A r \in LockedRows : lockedBy[r] # h
    BY <1>2, <1>11 DEF Queue
  <2> QED BY <1>1, <2>1, <2>2, MoveKeeps
<1>12. ASSUME held[h] > 0, Ready(h), EndInError(h) PROVE PoolInv'
  <2>1. /\ held[h] \in 1..3 /\ held[h] <= Needs("idle") + held[h] /\ "idle" \in Places
        /\ Release(h, held[h]) /\ at' = [at EXCEPT ![h] = "idle"] /\ lockedBy' = Unlock(h)
    BY <1>1, <1>12, NeedsTable DEF EndInError
  <2>2. /\ lockedBy' \in [LockedRows -> Handlers \cup {NoHandler}]
        /\ \A r \in LockedRows : lockedBy'[r] # NoHandler =>
             lockedBy'[r] = lockedBy[r] /\ lockedBy[r] # h
    BY <2>1, Unlocks
  <2>3. held[h] <= held[h]
    BY <1>1
  <2> QED BY <1>12, <2>1, <2>2, <2>3, GiveBackKeeps
<1>13. CASE LockWaitTimesOut(h)
  <2>1. held[h] > 0
    BY <1>13, NeedsTable DEF LockWaitTimesOut, Ready
  <2> QED BY <1>12, <1>13, <2>1 DEF LockWaitTimesOut
<1>14. CASE Fail(h)
  BY <1>12, <1>14 DEF Fail
<1> QED BY <1>3, <1>4, <1>5, <1>6, <1>7, <1>8, <1>10, <1>11, <1>13, <1>14 DEF Steps

LEMMA PoolSteps ==
  ASSUME PoolInv, [Next]_vars
  PROVE  PoolInv'
<1>1. CASE Next
  BY <1>1, HandlerSteps DEF Next
<1>2. CASE UNCHANGED vars
  BY <1>2 DEF vars, PoolInv, PoolTypes, QueueIsOfNeedy, HeldIsNeeded, Accounted, Held,
              WaitersMeanNoneIdle, LockedByATransaction
<1> QED BY <1>1, <1>2

-----------------------------------------------------------------------------
\* Every connection is idle or held, once; who waits waits once and for one it
\* needs (connection.ts: waitForConnections, queueLimit 0).
THEOREM PoolSafety == Spec => []PoolInv
BY InitPool, PoolSteps, PTL DEF Spec

\* No connection is lost, none is idle while a request waits for one, and what
\* is locked is held by an open transaction.
THEOREM PoolIsAlwaysSound == Spec => []PoolIsSound
<1>1. ASSUME PoolInv PROVE PoolIsSound
  <2>1. \A h \in Handlers : at[h] = "idle" => held[h] = 0
    BY <1>1 DEF PoolInv, PoolTypes, HeldIsNeeded, Needs
  <2> QED BY <1>1, <2>1 DEF PoolInv, PoolIsSound, NoConnectionIsLost, Accounted, InUse, Held
<1> QED BY <1>1, PoolSafety, PTL

-----------------------------------------------------------------------------
(* How large a pool has to be. *)

\* The handlers that ask for a second connection, and those that ask for a third.
Asking == {h \in Handlers : Shape[h] \in {"inside", "notify"}}
Cleaning == {h \in Handlers : Shape[h] = "clean"}

\* A handler is where its shape leads.
InShape ==
  \A h \in Handlers :
    /\ at[h] = "asking" => Shape[h] = "inside"
    /\ at[h] = "notifying" => Shape[h] = "notify"
    /\ at[h] \in {"cleaning", "queueing", "cleaned"} => Shape[h] = "clean"

LEMMA ShapeSteps ==
  ASSUME PoolInv, InShape, [Next]_vars
  PROVE  InShape'
<1>1. at \in [Handlers -> Places]
  BY DEF PoolInv, PoolTypes
<1>2. ASSUME NEW h \in Handlers, Arrive(h) \/ Steps(h) \/ Fail(h) PROVE InShape'
  <2>1. CASE UNCHANGED at
    BY <2>1 DEF InShape
  <2>2. ASSUME NEW p \in {"idle", "begin", "locked", "written", "closing"}, at' = [at EXCEPT ![h] = p]
        PROVE  InShape'
    BY <1>1, <2>2 DEF InShape
  <2>3. CASE Write(h)
    BY <1>1, <2>3 DEF Write, InShape
  <2>4. CASE Commit(h)
    BY <1>1, <2>4 DEF Commit, InShape
  <2>5. CASE Queue(h) \/ QueueAsked(h)
    BY <1>1, <2>5 DEF Queue, QueueAsked, InShape
  <2> QED BY <1>2, <2>1, <2>2, <2>3, <2>4, <2>5
    DEF Steps, Arrive, Ask, LockRow, LockWaitTimesOut, Asked, Notified, Cleaned, Close, Fail, EndInError
<1>3. CASE UNCHANGED vars
  BY <1>3 DEF vars, InShape
<1> QED BY <1>2, <1>3 DEF Next

\* A pool with more connections than the handlers in flight can ask for beyond
\* their first (one for a statement of the pool, two for a cleanup that queues a
\* document) never comes to the state in which all its connections are held and
\* every holder waits for another (connectionLimit of connection.ts).
THEOREM LargePoolIsNeverExhausted ==
  ASSUME IsFiniteSet(Asking), IsFiniteSet(Cleaning),
         Cardinality(Asking) + 2 * Cardinality(Cleaning) < Limit
  PROVE  Spec => []NeverExhausted
<1>1. Init => InShape
  BY DEF Init, InShape
<1>2. ASSUME PoolInv, InShape PROVE NeverExhausted
  <2> SUFFICES ASSUME Exhausted PROVE FALSE
    BY DEF NeverExhausted
  <2> DEFINE Second == Asking \X {1}
             Third == Cleaning \X {1, 2}
  <2>1. Held \subseteq Second \cup Third
    <3> SUFFICES ASSUME NEW h \in Handlers, NEW j \in 1..3, j <= held[h]
                 PROVE  <<h, j>> \in Second \cup Third
      BY DEF Held
    <3>1. held[h] \in 0..3 /\ at[h] \in Places /\ held[h] > 0
      BY <1>2 DEF PoolInv, PoolTypes
    <3>2. held[h] < Needs(at[h])
      BY <1>2, <3>1 DEF Exhausted, Queued, PoolInv, PoolTypes, QueueIsOfNeedy
    <3>3. CASE at[h] \in {"asking", "notifying"}
      <4>1. held[h] = 1 /\ j = 1
        BY <3>1, <3>2, <3>3, NeedsTable
      <4>2. h \in Asking
        BY <1>2, <3>3 DEF InShape, Asking
      <4> QED BY <4>1, <4>2
    <3>4. CASE at[h] \in {"cleaning", "queueing", "cleaned"}
      <4>1. j \in {1, 2}
        BY <3>1, <3>2, <3>4, NeedsTable
      <4>2. h \in Cleaning
        BY <1>2, <3>4 DEF InShape, Cleaning
      <4> QED BY <4>1, <4>2
    <3>5. CASE at[h] \notin {"asking", "notifying", "cleaning", "queueing", "cleaned"}
      BY <3>1, <3>2, <3>5, NeedsTable
    <3> QED BY <3>3, <3>4, <3>5
  <2>2. IsFiniteSet({1}) /\ Cardinality({1}) = 1
    BY FS_Singleton
  <2>3. IsFiniteSet({1, 2}) /\ Cardinality({1, 2}) = 2
    <3>1. {1, 2} = {1} \cup {2} /\ 2 \notin {1}
      OBVIOUS
    <3>2. /\ IsFiniteSet({1} \cup {2})
          /\ Cardinality({1} \cup {2}) =
               IF 2 \in {1} THEN Cardinality({1}) ELSE Cardinality({1}) + 1
      BY <2>2, FS_AddElement
    <3> QED BY <2>2, <3>1, <3>2
  <2>4. Cardinality(Asking) \in Nat /\ Cardinality(Cleaning) \in Nat
    BY FS_CardinalityType
  <2>5. IsFiniteSet(Second) /\ Cardinality(Second) = Cardinality(Asking)
    <3>1. IsFiniteSet(Second) /\ Cardinality(Second) = Cardinality(Asking) * 1
      BY <2>2, FS_Product
    <3> QED BY <2>4, <3>1
  <2>6. IsFiniteSet(Third) /\ Cardinality(Third) = Cardinality(Cleaning) * 2
    BY <2>3, FS_Product
  <2> HIDE DEF Second, Third
  <2>7. /\ IsFiniteSet(Second \cup Third)
        /\ Cardinality(Second \cup Third) =
             Cardinality(Second) + Cardinality(Third) - Cardinality(Second \cap Third)
    BY <2>5, <2>6, FS_Union
  <2>8. Cardinality(Second \cap Third) \in Nat
    BY <2>5, FS_Intersection, FS_CardinalityType
  <2>9. Cardinality(Held) <= Cardinality(Second \cup Third)
    BY <2>1, <2>7, FS_Subset
  <2>10. Cardinality(Held) = Limit
    BY DEF Exhausted, InUse, Held
  <2> QED BY <2>4, <2>5, <2>6, <2>7, <2>8, <2>9, <2>10, PoolAssumption
<1>3. PoolInv /\ InShape /\ [Next]_vars => InShape'
  BY ShapeSteps
<1> QED BY <1>1, <1>2, <1>3, PoolSafety, PTL DEF Spec
=============================================================================
