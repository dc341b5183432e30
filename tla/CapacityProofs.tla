--------------------------- MODULE CapacityProofs ---------------------------
(***************************************************************************)
(* What the semaphores and the consumer pools guarantee for any number of  *)
(* groups, consumers, settings, reads and failures, checked by TLAPS.      *)
(* Every theorem rests on one inductive invariant, KInv.                   *)
(***************************************************************************)
EXTENDS Capacity, FiniteSetTheorems, SequenceTheorems, TLAPS

Distinct(s) == \A i, j \in 1..Len(s) : s[i] = s[j] => i = j
First(s, n) == {s[i] : i \in 1..n}
Front(s) == SubSeq(s, 1, Len(s) - 1)
Rest(s, n) == SubSeq(s, n + 1, Len(s))

Holding(g) == {h \in HandleIds : doing[g][h] = "holding"}

\* The count of a semaphore is the number of calls that hold a slot.
Counted ==
    \A g \in Groups : IsFiniteSet(Holding(g)) /\ active[g] = Cardinality(Holding(g))

\* Its queue holds the calls that wait, each once.
InLine ==
    \A g \in Groups :
        /\ Distinct(waiting[g])
        /\ \A h \in HandleIds :
              doing[g][h] = "waiting" <=> \E i \in 1..Len(waiting[g]) : waiting[g][i] = h

SemaphoreInv ==
    /\ active \in [Groups -> Nat]
    /\ limit \in [Groups -> Nat \ {0}]
    /\ waiting \in [Groups -> Seq(HandleIds)]
    /\ doing \in [Groups -> [HandleIds -> Doings]]
    /\ Counted
    /\ InLine
    /\ NoIdleSlot

\* The handles of a pool are those of the consumers pg-boss has, each once.
PoolInv ==
    /\ handles \in [Groups -> Seq(HandleIds)]
    /\ registered \in [Groups -> SUBSET HandleIds]
    /\ \A g \in Groups :
          /\ Distinct(handles[g])
          /\ registered[g] = {handles[g][i] : i \in 1..Len(handles[g])}

ChainType == chain \in [Groups -> Seq(Nat \ {0})]

SettingsType ==
    /\ row \in Limits
    /\ loads \in [LoadIds -> {NoLoad} \cup {Loaded(rows) : rows \in Limits}]
    /\ inFlight \in LoadIds \cup {0}
    /\ snapshot \in Limits
    /\ saves \in Nat
    /\ fails \in Nat

KInv == SemaphoreInv /\ PoolInv /\ ChainType /\ SettingsType

-----------------------------------------------------------------------------
(***************************************************************************)
(* Sequences without repetition.                                           *)
(***************************************************************************)

\* The first n elements of such a sequence are n.
LEMMA DistinctCount ==
    ASSUME NEW S, NEW s \in Seq(S), NEW n \in 0..Len(s), Distinct(s)
    PROVE  /\ IsFiniteSet({s[i] : i \in 1..n})
           /\ Cardinality({s[i] : i \in 1..n}) = n
<1> DEFINE T == {s[i] : i \in 1..n}
           f == [i \in 1..n |-> s[i]]
<1>1. n \in Nat /\ \A i \in 1..n : i \in 1..Len(s)
  BY LenProperties
<1>2. f \in [1..n -> T]
  OBVIOUS
<1>3. \A i, j \in 1..n : f[i] = f[j] => i = j
  BY <1>1 DEF Distinct
<1>4. \A t \in T : \E i \in 1..n : f[i] = t
  OBVIOUS
<1>5. f \in Bijection(1..n, T)
  BY <1>2, <1>3, <1>4 DEF Bijection, Injection, Surjection, IsInjective
<1>6. ExistsBijection(1..n, T)
  BY <1>5 DEF ExistsBijection
<1> QED
  BY <1>1, <1>6, FS_NatBijection, FS_CountingElements

\* An element that is not in it may be added.
LEMMA DistinctAppend ==
    ASSUME NEW S, NEW s \in Seq(S), NEW e \in S, Distinct(s),
           \A i \in 1..Len(s) : s[i] # e
    PROVE  /\ Append(s, e) \in Seq(S)
           /\ Distinct(Append(s, e))
           /\ {Append(s, e)[i] : i \in 1..Len(Append(s, e))} = {s[i] : i \in 1..Len(s)} \cup {e}
<1> DEFINE t == Append(s, e)
<1>1. /\ t \in Seq(S) /\ Len(s) \in Nat /\ Len(t) = Len(s) + 1
      /\ \A i \in 1..Len(s) : t[i] = s[i]
      /\ t[Len(s) + 1] = e
  BY AppendProperties, LenProperties
<1> HIDE DEF t
<1>2. \A i \in 1..Len(t) : i \in 1..Len(s) \/ i = Len(s) + 1
  BY <1>1
<1>3. Distinct(t)
  BY <1>1, <1>2 DEF Distinct
<1>4. {t[i] : i \in 1..Len(t)} = {s[i] : i \in 1..Len(s)} \cup {e}
  <2>1. \A i \in 1..Len(s) : i \in 1..Len(t)
    BY <1>1
  <2>2. Len(s) + 1 \in 1..Len(t)
    BY <1>1
  <2> QED
    BY <1>1, <1>2, <2>1, <2>2
<1> QED
  BY <1>1, <1>3, <1>4 DEF t

\* Its last element occurs nowhere else.
LEMMA DistinctFront ==
    ASSUME NEW S, NEW s \in Seq(S), Distinct(s), Len(s) > 0
    PROVE  /\ Front(s) \in Seq(S)
           /\ Distinct(Front(s))
           /\ {Front(s)[i] : i \in 1..Len(Front(s))} = {s[i] : i \in 1..Len(s)} \ {s[Len(s)]}
<1> DEFINE t == Front(s)
<1>1. Len(s) \in Nat /\ \A i \in 1..Len(s) : s[i] \in S
  BY LenProperties, ElementOfSeq
<1>2. /\ t \in Seq(S) /\ Len(t) = Len(s) - 1
      /\ \A i \in 1..(Len(s) - 1) : t[i] = s[i]
  <2>1. \A i \in 1..(Len(s) - 1) : s[i] \in S
    BY <1>1
  <2>2. /\ t \in Seq(S)
        /\ Len(t) = IF 1 <= Len(s) - 1 THEN Len(s) - 1 - 1 + 1 ELSE 0
        /\ \A i \in 1..(Len(s) - 1 - 1 + 1) : t[i] = s[1 + i - 1]
    BY <1>1, <2>1, SubSeqProperties DEF Front
  <2> HIDE DEF t
  <2>3. Len(t) = Len(s) - 1
    <3>1. \A m \in Nat : m > 0 => (IF 1 <= m - 1 THEN m - 1 - 1 + 1 ELSE 0) = m - 1
      OBVIOUS
    <3>2. (IF 1 <= Len(s) - 1 THEN Len(s) - 1 - 1 + 1 ELSE 0) = Len(s) - 1
      BY <1>1, <3>1
    <3> QED
      BY <2>2, <3>2
  <2>4. \A k \in 1..(Len(s) - 1) : k \in 1..(Len(s) - 1 - 1 + 1) /\ 1 + k - 1 = k
    BY <1>1
  <2>5. ASSUME NEW k \in 1..(Len(s) - 1)
        PROVE  t[k] = s[k]
    <3>1. t[k] = s[1 + k - 1] /\ 1 + k - 1 = k
      BY <2>2, <2>4
    <3> QED
      BY <3>1
  <2> QED
    BY <2>2, <2>3, <2>5
<1> HIDE DEF t
<1>3. Distinct(t)
  BY <1>1, <1>2 DEF Distinct
<1>4. ASSUME NEW i \in 1..Len(s)
      PROVE  i \in 1..Len(t) \/ i = Len(s)
  BY <1>1, <1>2
<1>5. \A i \in 1..Len(t) : i \in 1..Len(s) /\ i # Len(s) /\ t[i] = s[i]
  BY <1>1, <1>2
<1>6. Len(s) \in 1..Len(s)
  BY <1>1
<1>7. {t[i] : i \in 1..Len(t)} = {s[i] : i \in 1..Len(s)} \ {s[Len(s)]}
  <2>1. \A e : (\E k \in 1..Len(t) : t[k] = e)
                 <=> (\E k \in 1..Len(s) : s[k] = e) /\ e # s[Len(s)]
    BY <1>4, <1>5, <1>6 DEF Distinct
  <2> QED
    BY <2>1
<1> QED
  BY <1>2, <1>3, <1>7 DEF t

LEMMA RestOfSeq ==
    ASSUME NEW S, NEW s \in Seq(S), NEW n \in 0..Len(s)
    PROVE  /\ Rest(s, n) \in Seq(S)
           /\ Len(Rest(s, n)) = Len(s) - n
           /\ \A i \in 1..(Len(s) - n) : Rest(s, n)[i] = s[n + i]
<1> DEFINE t == Rest(s, n)
<1>1. Len(s) \in Nat /\ n \in Nat /\ \A i \in 1..Len(s) : s[i] \in S
  BY LenProperties, ElementOfSeq
<1>2. \A i \in (n + 1)..Len(s) : s[i] \in S
  BY <1>1
<1>3. /\ t \in Seq(S)
      /\ Len(t) = IF n + 1 <= Len(s) THEN Len(s) - (n + 1) + 1 ELSE 0
      /\ \A i \in 1..(Len(s) - (n + 1) + 1) : t[i] = s[n + 1 + i - 1]
  BY <1>1, <1>2, SubSeqProperties DEF Rest
<1> HIDE DEF t
<1>4. t \in Seq(S) /\ Len(t) = Len(s) - n /\ \A i \in 1..(Len(s) - n) : t[i] = s[n + i]
  BY <1>1, <1>3
<1> QED
  BY <1>4 DEF t

\* What is left when the first n are gone.
LEMMA DistinctRest ==
    ASSUME NEW S, NEW s \in Seq(S), NEW n \in 0..Len(s), Distinct(s)
    PROVE  /\ Distinct(Rest(s, n))
           /\ First(Rest(s, n), Len(Rest(s, n))) = First(s, Len(s)) \ First(s, n)
<1> DEFINE t == Rest(s, n)
<1>1. Len(s) \in Nat /\ n \in Nat /\ \A i \in 1..Len(s) : s[i] \in S
  BY LenProperties, ElementOfSeq
<1>2. /\ t \in Seq(S) /\ Len(t) = Len(s) - n
      /\ \A i \in 1..(Len(s) - n) : t[i] = s[n + i]
  BY RestOfSeq
<1> HIDE DEF t
<1>3. \A i \in 1..Len(t) : n + i \in 1..Len(s) /\ n + i \notin 1..n /\ t[i] = s[n + i]
  BY <1>1, <1>2
<1>4. \A i \in 1..Len(s) : i \in 1..n \/ (i - n \in 1..Len(t) /\ t[i - n] = s[i])
  BY <1>1, <1>2
<1>5. \A i \in 1..n : i \in 1..Len(s)
  BY <1>1
<1>6. Distinct(t)
  <2> SUFFICES ASSUME NEW i \in 1..Len(t), NEW j \in 1..Len(t), t[i] = t[j]
               PROVE  i = j
    BY DEF Distinct
  <2>1. n + i = n + j
    BY <1>3 DEF Distinct
  <2> QED
    BY <1>1, <2>1
<1>7. ASSUME NEW e \in S
      PROVE  (\E i \in 1..Len(t) : t[i] = e)
                <=> /\ \E i \in 1..Len(s) : s[i] = e
                    /\ ~ \E i \in 1..n : s[i] = e
  <2>1. ASSUME NEW i \in 1..Len(t), t[i] = e
        PROVE  /\ \E k \in 1..Len(s) : s[k] = e
               /\ ~ \E k \in 1..n : s[k] = e
    BY <1>3, <1>5, <2>1 DEF Distinct
  <2>2. ASSUME NEW i \in 1..Len(s), s[i] = e, ~ \E k \in 1..n : s[k] = e
        PROVE  \E k \in 1..Len(t) : t[k] = e
    BY <1>4, <2>2
  <2> QED
    BY <2>1, <2>2
<1>8. First(t, Len(t)) = First(s, Len(s)) \ First(s, n)
  <2>1. \A i \in 1..Len(t) : t[i] \in S
    BY <1>2, ElementOfSeq
  <2>2. First(t, Len(t)) \subseteq S /\ First(s, Len(s)) \subseteq S
    BY <1>1, <2>1 DEF First
  <2>3. /\ \A e : e \in First(t, Len(t)) <=> \E k \in 1..Len(t) : t[k] = e
        /\ \A e : e \in First(s, Len(s)) <=> \E k \in 1..Len(s) : s[k] = e
        /\ \A e : e \in First(s, n) <=> \E k \in 1..n : s[k] = e
    BY DEF First
  <2>4. ASSUME NEW e \in S
        PROVE  e \in First(t, Len(t)) <=> e \in First(s, Len(s)) /\ e \notin First(s, n)
    BY <1>7, <2>3
  <2> QED
    BY <2>2, <2>4
<1> QED
  BY <1>6, <1>8 DEF t

-----------------------------------------------------------------------------
(***************************************************************************)
(* The semaphore.                                                          *)
(***************************************************************************)

LEMMA SemaphoreStays ==
    ASSUME SemaphoreInv, UNCHANGED <<semaphore, doing>>
    PROVE  SemaphoreInv'
<1>1. active' = active /\ limit' = limit /\ waiting' = waiting /\ doing' = doing
  BY DEF semaphore
<1>2. Counted' /\ InLine' /\ NoIdleSlot'
  BY <1>1 DEF SemaphoreInv, Counted, InLine, NoIdleSlot, Holding, Distinct
<1> QED
  BY <1>1, <1>2 DEF SemaphoreInv

\* As many waiters are admitted as there are slots, or all of them.
LEMMA AdmittedFacts ==
    ASSUME NEW a \in Nat, NEW l \in Nat, NEW w \in Seq(HandleIds)
    PROVE  /\ Admitted(a, l, w) \in 0..Len(w)
           /\ Admitted(a, l, w) > 0 => a + Admitted(a, l, w) <= l
           /\ Admitted(a, l, w) = Len(w) \/ a + Admitted(a, l, w) >= l
<1>1. Len(w) \in Nat
  BY LenProperties
<1> QED
  BY <1>1 DEF Admitted

\* drain leaves a semaphore in order whose slots in use are counted by a.
LEMMA DrainKeeps ==
    ASSUME SemaphoreInv, NEW g \in Groups, NEW a \in Nat, NEW l \in Nat \ {0},
           NEW d \in [HandleIds -> Doings],
           IsFiniteSet({h \in HandleIds : d[h] = "holding"}),
           Cardinality({h \in HandleIds : d[h] = "holding"}) = a,
           \A h \in HandleIds : d[h] = "waiting" <=> doing[g][h] = "waiting",
           limit' \in [Groups -> Nat \ {0}], limit'[g] = l,
           \A k \in Groups : k # g => limit'[k] = limit[k],
           Drains(g, a, l, d)
    PROVE  /\ SemaphoreInv'
           /\ active'[g] > a => active'[g] <= l
           /\ \A k \in Groups : k # g => active'[k] = active[k]
<1> DEFINE w == waiting[g]
           n == Admitted(a, l, w)
           rest == Rest(w, n)
           In == {w[i] : i \in 1..n}
           e == [h \in HandleIds |-> IF \E i \in 1..n : w[i] = h THEN "holding" ELSE d[h]]
<1>1. /\ active' = [active EXCEPT ![g] = a + n]
      /\ waiting' = [waiting EXCEPT ![g] = rest]
      /\ doing' = [doing EXCEPT ![g] = e]
  BY DEF Drains, Rest
<1>2. w \in Seq(HandleIds) /\ Len(w) \in Nat /\ Distinct(w)
  BY LenProperties DEF SemaphoreInv, InLine
<1>3. \A h \in HandleIds : d[h] = "waiting" <=> \E i \in 1..Len(w) : w[i] = h
  BY DEF SemaphoreInv, InLine
<1>4. n \in 0..Len(w) /\ (n > 0 => a + n <= l) /\ (n = Len(w) \/ a + n >= l)
  BY <1>2, AdmittedFacts
<1> HIDE DEF n, w
<1>5. /\ rest \in Seq(HandleIds) /\ Distinct(rest) /\ Len(rest) = Len(w) - n
      /\ \A h : (\E i \in 1..Len(rest) : rest[i] = h)
                  <=> (\E i \in 1..Len(w) : w[i] = h) /\ ~ \E i \in 1..n : w[i] = h
  <2>1. w \in Seq(HandleIds) /\ n \in 0..Len(w) /\ Distinct(w)
    BY <1>2, <1>4
  <2>2. /\ rest \in Seq(HandleIds) /\ Len(rest) = Len(w) - n
        /\ \A i \in 1..(Len(w) - n) : rest[i] = w[n + i]
    BY <2>1, RestOfSeq
  <2>3. Distinct(rest)
    BY <2>1, DistinctRest
  <2>4. First(rest, Len(rest)) = First(w, Len(w)) \ First(w, n)
    BY <2>1, DistinctRest
  <2> HIDE DEF rest
  <2>5. /\ \A h : h \in First(rest, Len(rest)) <=> \E i \in 1..Len(rest) : rest[i] = h
        /\ \A h : h \in First(w, Len(w)) <=> \E i \in 1..Len(w) : w[i] = h
        /\ \A h : h \in First(w, n) <=> \E i \in 1..n : w[i] = h
    BY DEF First
  <2>6. ASSUME NEW h
        PROVE  (\E i \in 1..Len(rest) : rest[i] = h)
                  <=> (\E i \in 1..Len(w) : w[i] = h) /\ ~ \E i \in 1..n : w[i] = h
    <3>1. h \in First(rest, Len(rest)) <=> h \in First(w, Len(w)) /\ h \notin First(w, n)
      BY <2>4
    <3> QED
      BY <2>5, <3>1
  <2> QED
    BY <2>2, <2>3, <2>6
<1>6. IsFiniteSet(In) /\ Cardinality(In) = n
  BY <1>2, <1>4, DistinctCount
<1>7. \A i \in 1..n : i \in 1..Len(w) /\ w[i] \in HandleIds
  BY <1>2, <1>4, ElementOfSeq
<1> HIDE DEF rest
<1>8. /\ active' \in [Groups -> Nat] /\ active'[g] = a + n
      /\ \A k \in Groups : k # g => active'[k] = active[k]
      /\ waiting' \in [Groups -> Seq(HandleIds)] /\ waiting'[g] = rest
      /\ \A k \in Groups : k # g => waiting'[k] = waiting[k]
  BY <1>1, <1>4, <1>5 DEF SemaphoreInv
<1>9. e \in [HandleIds -> Doings]
  BY DEF Doings
<1>10. \A h \in HandleIds : /\ e[h] = "holding" <=> d[h] = "holding" \/ h \in In
                            /\ e[h] = "waiting" <=> d[h] = "waiting" /\ h \notin In
  OBVIOUS
<1> HIDE DEF e
<1>11. /\ doing' \in [Groups -> [HandleIds -> Doings]] /\ doing'[g] = e
       /\ \A k \in Groups : k # g => doing'[k] = doing[k]
  BY <1>1, <1>9 DEF SemaphoreInv
<1>12. IsFiniteSet(Holding(g)') /\ Cardinality(Holding(g)') = a + n
  <2> DEFINE H == {h \in HandleIds : d[h] = "holding"}
  <2>1. Holding(g)' = H \cup In
    BY <1>7, <1>10, <1>11 DEF Holding
  <2>2. H \cap In = {}
    <3>1. \A h \in In : h \in HandleIds /\ d[h] = "waiting"
      BY <1>3, <1>7
    <3> QED
      BY <3>1
  <2> HIDE DEF H, In
  <2>3. IsFiniteSet(H) /\ IsFiniteSet(In) /\ Cardinality(H) = a /\ Cardinality(In) = n
    BY <1>6 DEF H
  <2>4. /\ IsFiniteSet(H \cup In)
        /\ Cardinality(H \cup In) = Cardinality(H) + Cardinality(In) - Cardinality(H \cap In)
    BY <2>3, FS_Union, Zenon
  <2>5. Cardinality(H \cup In) = a + n - Cardinality({})
    BY <2>2, <2>3, <2>4
  <2> QED
    BY <1>4, <2>1, <2>4, <2>5, FS_EmptySet
<1>13. Counted'
  <2>1. \A k \in Groups : k # g => Holding(k)' = Holding(k)
    BY <1>11 DEF Holding
  <2> QED
    BY <1>8, <1>12, <2>1 DEF Counted, SemaphoreInv
<1>14. InLine'
  <2>1. ASSUME NEW h \in HandleIds
        PROVE  e[h] = "waiting" <=> \E i \in 1..Len(rest) : rest[i] = h
    <3>1. h \in In <=> \E i \in 1..n : w[i] = h
      OBVIOUS
    <3> HIDE DEF In
    <3> QED
      BY <1>3, <1>5, <1>10, <3>1
  <2>2. ASSUME NEW k \in Groups
        PROVE  /\ Distinct(waiting'[k])
               /\ \A h \in HandleIds : doing'[k][h] = "waiting"
                     <=> \E i \in 1..Len(waiting'[k]) : waiting'[k][i] = h
    <3>1. CASE k = g
      BY <1>5, <1>8, <1>11, <2>1, <3>1
    <3>2. CASE k # g
      <4>1. waiting'[k] = waiting[k] /\ doing'[k] = doing[k]
        BY <1>8, <1>11, <3>2
      <4>2. /\ Distinct(waiting[k])
            /\ \A h \in HandleIds : doing[k][h] = "waiting"
                  <=> \E i \in 1..Len(waiting[k]) : waiting[k][i] = h
        BY DEF SemaphoreInv, InLine
      <4> QED
        BY <4>1, <4>2
    <3> QED
      BY <3>1, <3>2
  <2> QED
    BY <2>2 DEF InLine, Distinct
<1>15. NoIdleSlot'
  <2>1. rest # <<>> => a + n >= l
    BY <1>2, <1>4, <1>5, EmptySeq
  <2> QED
    BY <1>8, <2>1 DEF SemaphoreInv, NoIdleSlot
<1>16. active'[g] > a => active'[g] <= l
  BY <1>4, <1>8
<1> QED
  BY <1>8, <1>11, <1>13, <1>14, <1>15, <1>16 DEF SemaphoreInv

\* Setting a limit begins calls within it and interrupts none.
LEMMA SetsLimitKeeps ==
    ASSUME SemaphoreInv, NEW g \in Groups, NEW l \in Nat \ {0}, SetsLimit(g, l)
    PROVE  /\ SemaphoreInv'
           /\ \A k \in Groups : active'[k] > active[k] => active'[k] <= limit'[k]
<1>1. /\ limit' = [limit EXCEPT ![g] = l]
      /\ Drains(g, active[g], l, doing[g])
  BY DEF SetsLimit
<1>2. /\ limit' \in [Groups -> Nat \ {0}] /\ limit'[g] = l
      /\ \A k \in Groups : k # g => limit'[k] = limit[k]
      /\ active[g] \in Nat /\ doing[g] \in [HandleIds -> Doings]
      /\ \A k \in Groups : active[k] \in Nat
  BY <1>1 DEF SemaphoreInv
<1>3. /\ IsFiniteSet({h \in HandleIds : doing[g][h] = "holding"})
      /\ Cardinality({h \in HandleIds : doing[g][h] = "holding"}) = active[g]
  BY DEF SemaphoreInv, Counted, Holding
<1>4. /\ SemaphoreInv'
      /\ active'[g] > active[g] => active'[g] <= l
      /\ \A k \in Groups : k # g => active'[k] = active[k]
  BY <1>1, <1>2, <1>3, DrainKeeps
<1> QED
  BY <1>2, <1>4

LEMMA AcquiresKeeps ==
    ASSUME SemaphoreInv, NEW g \in Groups, NEW h \in HandleIds, Acquires(g, h)
    PROVE  /\ SemaphoreInv'
           /\ \A k \in Groups : active'[k] > active[k] => active'[k] <= limit'[k]
<1>1. doing[g][h] = "nothing" /\ limit' = limit
  BY DEF Acquires
<1>2. active \in [Groups -> Nat] /\ limit \in [Groups -> Nat \ {0}]
  BY DEF SemaphoreInv
<1>3. CASE /\ active[g] < limit[g]
           /\ active' = [active EXCEPT ![g] = @ + 1]
           /\ doing' = [doing EXCEPT ![g][h] = "holding"]
           /\ UNCHANGED waiting
  <2>1. /\ active' \in [Groups -> Nat] /\ active'[g] = active[g] + 1
        /\ \A k \in Groups : k # g => active'[k] = active[k]
    BY <1>2, <1>3
  <2>2. /\ doing' \in [Groups -> [HandleIds -> Doings]]
        /\ doing'[g][h] = "holding"
        /\ \A k \in Groups, o \in HandleIds : k # g \/ o # h => doing'[k][o] = doing[k][o]
    BY <1>3 DEF SemaphoreInv, Doings
  <2>3. Counted'
    <3>1. Holding(g)' = Holding(g) \cup {h} /\ h \notin Holding(g)
      BY <1>1, <2>2 DEF Holding
    <3>2. IsFiniteSet(Holding(g)') /\ Cardinality(Holding(g)') = active[g] + 1
      BY <3>1, FS_AddElement DEF SemaphoreInv, Counted
    <3>3. \A k \in Groups : k # g => Holding(k)' = Holding(k)
      BY <2>2 DEF Holding
    <3> QED
      BY <2>1, <3>2, <3>3 DEF SemaphoreInv, Counted
  <2>4. InLine'
    <3>1. \A k \in Groups, o \in HandleIds : doing'[k][o] = "waiting" <=> doing[k][o] = "waiting"
      BY <1>1, <2>2
    <3> QED
      BY <1>3, <3>1 DEF SemaphoreInv, InLine
  <2>5. NoIdleSlot'
    BY <1>1, <1>2, <1>3, <2>1 DEF SemaphoreInv, NoIdleSlot
  <2>6. \A k \in Groups : active'[k] > active[k] => active'[k] <= limit'[k]
    BY <1>1, <1>2, <1>3, <2>1
  <2> QED
    BY <1>1, <1>3, <2>1, <2>2, <2>3, <2>4, <2>5, <2>6 DEF SemaphoreInv
<1>4. CASE /\ active[g] >= limit[g]
           /\ waiting' = [waiting EXCEPT ![g] = Append(@, h)]
           /\ doing' = [doing EXCEPT ![g][h] = "waiting"]
           /\ UNCHANGED active
  <2> DEFINE s == Append(waiting[g], h)
  <2>0. waiting[g] \in Seq(HandleIds) /\ Distinct(waiting[g])
    BY DEF SemaphoreInv, InLine
  <2>1. \A i \in 1..Len(waiting[g]) : waiting[g][i] # h
    BY <1>1 DEF SemaphoreInv, InLine
  <2>2. /\ s \in Seq(HandleIds) /\ Distinct(s)
        /\ {s[i] : i \in 1..Len(s)} = {waiting[g][i] : i \in 1..Len(waiting[g])} \cup {h}
    BY <2>0, <2>1, DistinctAppend
  <2> HIDE DEF s
  <2>3. /\ waiting' \in [Groups -> Seq(HandleIds)] /\ waiting'[g] = s
        /\ \A k \in Groups : k # g => waiting'[k] = waiting[k]
    BY <1>4, <2>2 DEF SemaphoreInv, s
  <2>4. /\ doing' \in [Groups -> [HandleIds -> Doings]]
        /\ doing'[g][h] = "waiting"
        /\ \A k \in Groups, o \in HandleIds : k # g \/ o # h => doing'[k][o] = doing[k][o]
    BY <1>4 DEF SemaphoreInv, Doings
  <2>5. Counted'
    <3>1. \A k \in Groups : Holding(k)' = Holding(k)
      BY <1>1, <2>4 DEF Holding
    <3> QED
      BY <1>4, <3>1 DEF SemaphoreInv, Counted
  <2>6. InLine'
    <3>1. ASSUME NEW o \in HandleIds
          PROVE  doing'[g][o] = "waiting" <=> \E i \in 1..Len(s) : s[i] = o
      <4>1. (\E i \in 1..Len(s) : s[i] = o)
              <=> (\E i \in 1..Len(waiting[g]) : waiting[g][i] = o) \/ o = h
        BY <2>2
      <4> QED
        BY <2>4, <4>1 DEF SemaphoreInv, InLine
    <3>2. ASSUME NEW k \in Groups
          PROVE  /\ Distinct(waiting'[k])
                 /\ \A o \in HandleIds : doing'[k][o] = "waiting"
                       <=> \E i \in 1..Len(waiting'[k]) : waiting'[k][i] = o
      <4>1. CASE k = g
        BY <2>2, <2>3, <3>1, <4>1
      <4>2. CASE k # g
        <5>1. /\ waiting'[k] = waiting[k]
              /\ \A o \in HandleIds : doing'[k][o] = doing[k][o]
          BY <2>3, <2>4, <4>2
        <5> QED
          BY <5>1 DEF SemaphoreInv, InLine
      <4> QED
        BY <4>1, <4>2
    <3> QED
      BY <3>2 DEF InLine, Distinct
  <2>7. NoIdleSlot'
    BY <1>1, <1>4, <2>3 DEF SemaphoreInv, NoIdleSlot
  <2>8. \A k \in Groups : active'[k] > active[k] => active'[k] <= limit'[k]
    BY <1>2, <1>4
  <2> QED
    BY <1>1, <1>4, <2>3, <2>4, <2>5, <2>6, <2>7, <2>8 DEF SemaphoreInv
<1> QED
  BY <1>3, <1>4 DEF Acquires

LEMMA ReleasesKeeps ==
    ASSUME SemaphoreInv, NEW g \in Groups, NEW h \in HandleIds, Releases(g, h)
    PROVE  /\ SemaphoreInv'
           /\ \A k \in Groups : active'[k] > active[k] => active'[k] <= limit'[k]
<1> DEFINE d == [doing[g] EXCEPT ![h] = "nothing"]
           a == GivenBack(active[g])
<1>1. /\ doing[g][h] = "holding"
      /\ Drains(g, a, limit[g], d)
      /\ limit' = limit
  BY DEF Releases
<1>2. /\ active[g] \in Nat /\ doing[g] \in [HandleIds -> Doings] /\ limit[g] \in Nat \ {0}
      /\ limit' \in [Groups -> Nat \ {0}] /\ \A k \in Groups : active[k] \in Nat
  BY <1>1 DEF SemaphoreInv
<1>3. /\ d \in [HandleIds -> Doings]
      /\ \A o \in HandleIds : d[o] = IF o = h THEN "nothing" ELSE doing[g][o]
  BY <1>2 DEF Doings
<1>4. /\ IsFiniteSet(Holding(g)) /\ active[g] = Cardinality(Holding(g)) /\ h \in Holding(g)
  BY <1>1 DEF SemaphoreInv, Counted, Holding
<1> HIDE DEF d
<1>5. {o \in HandleIds : d[o] = "holding"} = Holding(g) \ {h}
  BY <1>3 DEF Holding
<1>6. active[g] > 0
  BY <1>2, <1>4, FS_EmptySet
<1>7. a = active[g] - 1 /\ a \in Nat
  BY <1>2, <1>6 DEF GivenBack
<1>8. /\ IsFiniteSet({o \in HandleIds : d[o] = "holding"})
      /\ Cardinality({o \in HandleIds : d[o] = "holding"}) = a
  BY <1>4, <1>5, <1>7, FS_RemoveElement
<1>9. \A o \in HandleIds : d[o] = "waiting" <=> doing[g][o] = "waiting"
  BY <1>1, <1>3
<1> HIDE DEF a
<1>10. /\ SemaphoreInv'
       /\ active'[g] > a => active'[g] <= limit[g]
       /\ \A k \in Groups : k # g => active'[k] = active[k]
  BY <1>1, <1>2, <1>3, <1>7, <1>8, <1>9, DrainKeeps
<1>11. active'[g] \in Nat
  BY <1>10 DEF SemaphoreInv
<1>12. active'[g] > active[g] => active'[g] <= limit'[g]
  BY <1>1, <1>2, <1>7, <1>10, <1>11
<1> QED
  BY <1>2, <1>10, <1>12
-----------------------------------------------------------------------------
(***************************************************************************)
(* The pools and the settings.                                             *)
(***************************************************************************)

LEMMA PoolStays ==
    ASSUME PoolInv, handles' = handles, registered' = registered
    PROVE  PoolInv'
BY DEF PoolInv, Distinct

LEMMA GrowsKeeps ==
    ASSUME PoolInv, NEW g \in Groups, Grows(g)
    PROVE  PoolInv'
<1>1. PICK h \in HandleIds :
        /\ h \notin registered[g]
        /\ registered' = [registered EXCEPT ![g] = @ \cup {h}]
        /\ handles' = [handles EXCEPT ![g] = Append(@, h)]
  BY DEF Grows
<1> DEFINE s == handles[g]
           t == Append(s, h)
<1>2. /\ s \in Seq(HandleIds) /\ Distinct(s)
      /\ registered[g] = {s[i] : i \in 1..Len(s)}
  BY DEF PoolInv
<1>3. \A i \in 1..Len(s) : s[i] # h
  BY <1>1, <1>2
<1>4. /\ t \in Seq(HandleIds) /\ Distinct(t)
      /\ {t[i] : i \in 1..Len(t)} = {s[i] : i \in 1..Len(s)} \cup {h}
  <2> HIDE DEF s
  <2> QED
    BY <1>2, <1>3, DistinctAppend
<1> HIDE DEF t, s
<1>5. /\ handles' \in [Groups -> Seq(HandleIds)] /\ handles'[g] = t
      /\ \A k \in Groups : k # g => handles'[k] = handles[k]
  BY <1>1, <1>4 DEF PoolInv, t, s
<1>6. /\ registered' \in [Groups -> SUBSET HandleIds]
      /\ registered'[g] = registered[g] \cup {h}
      /\ \A k \in Groups : k # g => registered'[k] = registered[k]
  BY <1>1 DEF PoolInv
<1>7. ASSUME NEW k \in Groups
      PROVE  /\ Distinct(handles'[k])
             /\ registered'[k] = {handles'[k][i] : i \in 1..Len(handles'[k])}
  <2>1. CASE k = g
    <3>1. handles'[k] = t /\ registered'[k] = {t[i] : i \in 1..Len(t)}
      BY <1>2, <1>4, <1>5, <1>6, <2>1
    <3> QED
      BY <1>4, <3>1
  <2>2. CASE k # g
    <3>1. handles'[k] = handles[k] /\ registered'[k] = registered[k]
      BY <1>5, <1>6, <2>2
    <3> QED
      BY <3>1 DEF PoolInv
  <2> QED
    BY <2>1, <2>2
<1> QED
  BY <1>5, <1>6, <1>7 DEF PoolInv, Distinct

LEMMA ShrinksKeeps ==
    ASSUME PoolInv, ChainType, NEW g \in Groups, Shrinks(g)
    PROVE  PoolInv'
<1> DEFINE s == handles[g]
           t == Front(s)
<1>1. /\ chain[g] # <<>> /\ Len(s) > Head(chain[g])
      /\ registered' = [registered EXCEPT ![g] = @ \ {s[Len(s)]}]
      /\ handles' = [handles EXCEPT ![g] = SubSeq(@, 1, Len(@) - 1)]
  BY DEF Shrinks
<1>2. /\ s \in Seq(HandleIds) /\ Distinct(s)
      /\ registered[g] = {s[i] : i \in 1..Len(s)}
  BY DEF PoolInv
<1>3. Len(s) > 0
  <2>1. Head(chain[g]) \in Nat \ {0} /\ Len(s) \in Nat
    BY <1>1, <1>2, HeadTailProperties, LenProperties DEF ChainType
  <2> QED
    BY <1>1, <2>1
<1>4. /\ t \in Seq(HandleIds) /\ Distinct(t)
      /\ {t[i] : i \in 1..Len(t)} = {s[i] : i \in 1..Len(s)} \ {s[Len(s)]}
  <2> HIDE DEF s
  <2> QED
    BY <1>2, <1>3, DistinctFront
<1>5. handles' = [handles EXCEPT ![g] = t]
  BY <1>1 DEF Front
<1> HIDE DEF t, s
<1>6. /\ handles' \in [Groups -> Seq(HandleIds)] /\ handles'[g] = t
      /\ \A k \in Groups : k # g => handles'[k] = handles[k]
  BY <1>4, <1>5 DEF PoolInv
<1>7. /\ registered' \in [Groups -> SUBSET HandleIds]
      /\ registered'[g] = registered[g] \ {s[Len(s)]}
      /\ \A k \in Groups : k # g => registered'[k] = registered[k]
  BY <1>1 DEF PoolInv
<1>8. ASSUME NEW k \in Groups
      PROVE  /\ Distinct(handles'[k])
             /\ registered'[k] = {handles'[k][i] : i \in 1..Len(handles'[k])}
  <2>1. CASE k = g
    <3>1. handles'[k] = t /\ registered'[k] = {t[i] : i \in 1..Len(t)}
      BY <1>2, <1>4, <1>6, <1>7, <2>1
    <3> QED
      BY <1>4, <3>1
  <2>2. CASE k # g
    <3>1. handles'[k] = handles[k] /\ registered'[k] = registered[k]
      BY <1>6, <1>7, <2>2
    <3> QED
      BY <3>1 DEF PoolInv
  <2> QED
    BY <2>1, <2>2
<1> QED
  BY <1>6, <1>7, <1>8 DEF PoolInv, Distinct

LEMMA NormalType == \A v \in Nat : Normal(v) \in Nat \ {0}
BY DEF Normal

LEMMA ChainTail ==
    ASSUME ChainType, NEW g \in Groups, chain[g] # <<>>
    PROVE  [chain EXCEPT ![g] = Tail(@)] \in [Groups -> Seq(Nat \ {0})]
<1>1. Tail(chain[g]) \in Seq(Nat \ {0})
  BY HeadTailProperties DEF ChainType
<1> QED
  BY <1>1 DEF ChainType

\* syncLiveCapacity at a group, whatever the limit the snapshot gives it.
LEMMA AppliesKeeps ==
    ASSUME SemaphoreInv, NEW g \in Groups, NEW l \in Nat \ {0},
           NEW chains \in [Groups -> Seq(Nat \ {0})], Applies(g, l, chains)
    PROVE  /\ SemaphoreInv' /\ ChainType'
           /\ \A k \in Groups : active'[k] > active[k] => active'[k] <= limit'[k]
<1>1. SetsLimit(g, l) /\ chain' = [chains EXCEPT ![g] = Append(@, l)]
  BY DEF Applies
<1>2. Append(chains[g], l) \in Seq(Nat \ {0})
  BY AppendProperties
<1>3. ChainType'
  BY <1>1, <1>2 DEF ChainType
<1> QED
  BY <1>1, <1>3, SetsLimitKeeps

\* What a step does to the calls that hold a slot.
Within == \A k \in Groups : active'[k] > active[k] => active'[k] <= limit'[k]

LEMMA UnmovedWithin ==
    ASSUME SemaphoreInv, UNCHANGED <<semaphore, doing>>
    PROVE  SemaphoreInv' /\ Within
<1>1. active' = active /\ \A k \in Groups : active[k] \in Nat
  BY DEF semaphore, SemaphoreInv
<1> QED
  BY <1>1, SemaphoreStays DEF Within

LEMMA InitInv == Init => KInv
<1> SUFFICES ASSUME Init PROVE KInv
  OBVIOUS
<1>1. Default \in Nat /\ 1 \in Groups
  BY CapacityConstants DEF Groups
<1>2. row \in Limits /\ snapshot \in Limits /\ snapshot[1] \in Nat
  BY <1>1, CapacityConstants DEF Init, Limits
<1>3. Normal(snapshot[1]) \in Nat \ {0}
  BY <1>2, NormalType
<1>4. \A S : <<>> \in Seq(S)
  BY EmptySeq
<1>5. \A g \in Groups : /\ active[g] = 0 /\ waiting[g] = <<>> /\ handles[g] = <<>>
                        /\ registered[g] = {}
                        /\ \A h \in HandleIds : doing[g][h] = "nothing"
  BY DEF Init
<1>6. SemaphoreInv
  <2>1. \A g \in Groups : Holding(g) = {}
    BY <1>5 DEF Holding
  <2>2. Counted
    BY <1>5, <2>1, FS_EmptySet DEF Counted
  <2>3. InLine /\ NoIdleSlot
    BY <1>5 DEF InLine, NoIdleSlot, Distinct
  <2>4. /\ active \in [Groups -> Nat] /\ waiting \in [Groups -> Seq(HandleIds)]
        /\ doing \in [Groups -> [HandleIds -> Doings]]
    BY <1>4 DEF Init, Doings
  <2>5. limit \in [Groups -> Nat \ {0}]
    BY <1>3 DEF Init
  <2> QED
    BY <2>2, <2>3, <2>4, <2>5 DEF SemaphoreInv
<1>7. PoolInv
  <2>1. handles \in [Groups -> Seq(HandleIds)] /\ registered \in [Groups -> SUBSET HandleIds]
    BY <1>4 DEF Init
  <2>2. \A g \in Groups : /\ Distinct(handles[g])
                          /\ registered[g] = {handles[g][i] : i \in 1..Len(handles[g])}
    BY <1>5 DEF Distinct
  <2> QED
    BY <2>1, <2>2 DEF PoolInv
<1>8. ChainType
  <2>1. <<Normal(snapshot[1])>> \in Seq(Nat \ {0})
    BY <1>3
  <2>2. chain = [g \in Groups |-> IF g = 1 THEN <<Normal(snapshot[1])>> ELSE <<>>]
    BY DEF Init
  <2> QED
    BY <1>4, <2>1, <2>2 DEF ChainType
<1>9. SettingsType
  BY <1>2 DEF Init, SettingsType
<1> QED
  BY <1>6, <1>7, <1>8, <1>9 DEF KInv

LEMMA ReadType ==
    ASSUME SettingsType, NEW l \in LoadIds, loads[l].at = "read"
    PROVE  loads[l].rows \in Limits
<1>1. loads[l] = NoLoad \/ \E rows \in Limits : loads[l] = Loaded(rows)
  BY DEF SettingsType
<1>2. NoLoad.at # "read" /\ \A rows : Loaded(rows).rows = rows
  BY DEF NoLoad, Loaded
<1> QED
  BY <1>1, <1>2

LEMMA SnapshotType ==
    ASSUME NEW rows \in Limits, NEW g \in Groups
    PROVE  Normal(rows[g]) \in Nat \ {0}
BY CapacityConstants, NormalType DEF Limits

LEMMA NextInv == KInv /\ [Next]_vars => KInv' /\ Within
<1> SUFFICES ASSUME KInv, [Next]_vars PROVE KInv' /\ Within
  OBVIOUS
<1>0. SemaphoreInv /\ PoolInv /\ ChainType /\ SettingsType
  BY DEF KInv
<1>c. UNCHANGED chain => ChainType'
  BY <1>0 DEF ChainType
<1>s. UNCHANGED <<settings, bounds>> => SettingsType'
  BY <1>0 DEF SettingsType, settings, bounds
<1>1. ASSUME NEW g \in Groups, NEW h \in HandleIds, Consumer(g, h)
      PROVE  KInv' /\ Within
  <2>1. UNCHANGED <<settings, pool, bounds>>
    BY <1>1 DEF Consumer, Acquires, Releases
  <2>2. SemaphoreInv' /\ Within
    BY <1>0, <1>1, AcquiresKeeps, ReleasesKeeps DEF Consumer, Within
  <2> QED
    BY <1>0, <1>c, <1>s, <2>1, <2>2, PoolStays DEF KInv, pool
<1>2. ASSUME NEW g \in Groups, Grows(g) PROVE KInv' /\ Within
  <2>1. UNCHANGED <<settings, bounds>> /\ UNCHANGED <<semaphore, doing>> /\ UNCHANGED chain
    BY <1>2 DEF Grows
  <2> QED
    BY <1>0, <1>2, <1>c, <1>s, <2>1, GrowsKeeps, UnmovedWithin DEF KInv
<1>3. ASSUME NEW g \in Groups, Shrinks(g) PROVE KInv' /\ Within
  <2>1. UNCHANGED <<settings, bounds>> /\ UNCHANGED <<semaphore, doing>> /\ UNCHANGED chain
    BY <1>3 DEF Shrinks
  <2> QED
    BY <1>0, <1>3, <1>c, <1>s, <2>1, ShrinksKeeps, UnmovedWithin DEF KInv
<1>4. ASSUME NEW g \in Groups, ResizeDone(g) PROVE KInv' /\ Within
  <2> DEFINE rest == [chain EXCEPT ![g] = Tail(@)]
  <2>1. /\ chain[g] # <<>> /\ GoesOn(g) /\ UNCHANGED <<settings, bounds>>
        /\ handles' = handles /\ registered' = registered
    BY <1>4 DEF ResizeDone
  <2>2. rest \in [Groups -> Seq(Nat \ {0})]
    BY <1>0, <2>1, ChainTail
  <2>3. CASE g < LastGroup
    <3>1. Applies(g + 1, Normal(snapshot[g + 1]), rest)
      BY <2>1, <2>3 DEF GoesOn
    <3>2. g + 1 \in Groups
      BY <2>3, CapacityConstants DEF Groups
    <3>3. Normal(snapshot[g + 1]) \in Nat \ {0}
      BY <1>0, <3>2, SnapshotType DEF SettingsType
    <3> HIDE DEF rest
    <3>4. SemaphoreInv' /\ ChainType' /\ Within
      BY <1>0, <2>2, <3>1, <3>2, <3>3, AppliesKeeps DEF Within
    <3> QED
      BY <1>0, <1>s, <2>1, <3>4, PoolStays DEF KInv
  <2>4. CASE ~(g < LastGroup)
    <3>1. chain' = rest /\ UNCHANGED <<semaphore, doing>>
      BY <2>1, <2>4 DEF GoesOn
    <3>2. ChainType'
      BY <2>2, <3>1 DEF ChainType
    <3> QED
      BY <1>0, <1>s, <2>1, <3>1, <3>2, PoolStays, UnmovedWithin DEF KInv
  <2> QED
    BY <2>3, <2>4
<1>5. ASSUME NEW g \in Groups, ResizeFails(g) PROVE KInv' /\ Within
  <2>1. /\ chain[g] # <<>> /\ fails' = fails + 1
        /\ handles' = [handles EXCEPT ![g] = IF Len(@) > Head(chain[g]) THEN Kept(@) ELSE @]
        /\ chain' = [chain EXCEPT ![g] = Tail(@)]
        /\ UNCHANGED settings /\ UNCHANGED <<semaphore, doing>>
        /\ registered' = registered /\ saves' = saves
    BY <1>5 DEF ResizeFails, Fails
  <2>2. ChainType'
    BY <1>0, <2>1, ChainTail DEF ChainType
  <2>3. handles' = handles
    BY <1>0, <2>1 DEF Kept, PoolInv
  <2>4. SettingsType'
    BY <1>0, <2>1 DEF SettingsType, settings
  <2> QED
    BY <1>0, <2>1, <2>2, <2>3, <2>4, PoolStays, UnmovedWithin DEF KInv
<1>6. ASSUME NEW g \in Groups, NEW value \in Values, Saves(g, value) PROVE KInv' /\ Within
  <2>1. /\ saves' = saves + 1 /\ row' = [row EXCEPT ![g] = value]
        /\ UNCHANGED <<loads, inFlight, snapshot, fails>>
        /\ UNCHANGED <<semaphore, doing>> /\ UNCHANGED pool
    BY <1>6 DEF Saves
  <2>2. SettingsType'
    BY <1>0, <2>1 DEF SettingsType, Limits
  <2> QED
    BY <1>0, <1>c, <2>1, <2>2, PoolStays, UnmovedWithin DEF KInv, pool
<1>7. ASSUME NEW l \in LoadIds, Sends(l) PROVE KInv' /\ Within
  <2>1. /\ loads' = [loads EXCEPT ![l] = Loaded(row)] /\ inFlight' = l
        /\ UNCHANGED <<row, snapshot>> /\ UNCHANGED bounds
        /\ UNCHANGED <<semaphore, doing>> /\ UNCHANGED pool
    BY <1>7 DEF Sends
  <2>2. SettingsType'
    BY <1>0, <2>1 DEF SettingsType, bounds
  <2> QED
    BY <1>0, <1>c, <2>1, <2>2, PoolStays, UnmovedWithin DEF KInv, pool
<1>8. ASSUME NEW l \in LoadIds, Arrives(l) PROVE KInv' /\ Within
  <2>1. /\ loads[l].at = "read" /\ snapshot' = loads[l].rows
        /\ loads' = [loads EXCEPT ![l] = NoLoad] /\ inFlight' = 0
        /\ Applies(1, Normal(snapshot'[1]), chain)
        /\ row' = row /\ handles' = handles /\ registered' = registered
        /\ UNCHANGED bounds
    BY <1>8 DEF Arrives, Notified
  <2>2. snapshot' \in Limits /\ 1 \in Groups
    BY <1>0, <2>1, ReadType, CapacityConstants DEF Groups
  <2>3. SettingsType'
    BY <1>0, <2>1, <2>2 DEF SettingsType, bounds
  <2>4. Normal(snapshot'[1]) \in Nat \ {0}
    BY <2>2, SnapshotType
  <2>5. SemaphoreInv' /\ ChainType' /\ Within
    <3>1. chain \in [Groups -> Seq(Nat \ {0})]
      BY <1>0 DEF ChainType
    <3> QED
      BY <1>0, <2>1, <2>2, <2>4, <3>1, AppliesKeeps DEF Within
  <2> QED
    BY <1>0, <2>1, <2>3, <2>5, PoolStays DEF KInv
<1>9. ASSUME NEW l \in LoadIds, ReadFails(l) PROVE KInv' /\ Within
  <2>1. /\ loads' = [loads EXCEPT ![l] = NoLoad] /\ inFlight' = 0 /\ fails' = fails + 1
        /\ UNCHANGED <<row, snapshot, saves>>
        /\ UNCHANGED <<semaphore, doing>> /\ UNCHANGED pool
    BY <1>9 DEF ReadFails, Fails
  <2>2. SettingsType'
    BY <1>0, <2>1 DEF SettingsType
  <2> QED
    BY <1>0, <1>c, <2>1, <2>2, PoolStays, UnmovedWithin DEF KInv, pool
<1>10. ASSUME UNCHANGED vars PROVE KInv' /\ Within
  <2>1. /\ UNCHANGED <<settings, bounds>> /\ UNCHANGED <<semaphore, doing>> /\ UNCHANGED pool
    BY <1>10 DEF vars
  <2> QED
    BY <1>0, <1>c, <1>s, <2>1, PoolStays, UnmovedWithin DEF KInv, pool
<1> QED
  BY <1>1, <1>2, <1>3, <1>4, <1>5, <1>6, <1>7, <1>8, <1>9, <1>10
     DEF Next, Pool, Settings, Refreshes, Reloads

-----------------------------------------------------------------------------
(***************************************************************************)
(* The theorems.                                                           *)
(***************************************************************************)

LEMMA Invariance == Spec => []KInv
<1>1. KInv /\ [Next]_vars => KInv'
  BY NextInv
<1> QED
  BY InitInv, <1>1, PTL DEF Spec

\* Every variable of the settings, semaphores and pools keeps its type, for any
\* number of groups, consumers, reads and failures.
THEOREM CapacityTypeCorrect == Spec => []TypeOK
<1>1. KInv => TypeOK
  BY DEF KInv, SemaphoreInv, PoolInv, ChainType, SettingsType, TypeOK
<1> QED
  BY Invariance, <1>1, PTL

\* Semaphore: its count and its queue are exactly the calls under way and the calls
\* that wait, whatever limits change under them.
THEOREM CallsAreCounted == Spec => []CallsCounted
<1>1. KInv => CallsCounted
  <2> SUFFICES ASSUME KInv, NEW g \in Groups
               PROVE  /\ active[g] = Cardinality({h \in HandleIds : doing[g][h] = "holding"})
                      /\ Len(waiting[g]) = Cardinality({h \in HandleIds : doing[g][h] = "waiting"})
                      /\ \A h \in HandleIds :
                            doing[g][h] = "waiting" <=> \E i \in 1..Len(waiting[g]) : waiting[g][i] = h
    BY DEF CallsCounted
  <2> DEFINE w == waiting[g]
  <2>1. active[g] = Cardinality({h \in HandleIds : doing[g][h] = "holding"})
    BY DEF KInv, SemaphoreInv, Counted, Holding
  <2>2. /\ w \in Seq(HandleIds) /\ Distinct(w)
        /\ \A h \in HandleIds : doing[g][h] = "waiting" <=> \E i \in 1..Len(w) : w[i] = h
    BY DEF KInv, SemaphoreInv, InLine
  <2> HIDE DEF w
  <2>3. Len(w) \in 0..Len(w) /\ \A i \in 1..Len(w) : w[i] \in HandleIds
    BY <2>2, LenProperties, ElementOfSeq
  <2>4. {h \in HandleIds : doing[g][h] = "waiting"} = {w[i] : i \in 1..Len(w)}
    BY <2>2, <2>3
  <2>5. Cardinality({w[i] : i \in 1..Len(w)}) = Len(w)
    BY <2>2, <2>3, DistinctCount
  <2> QED
    BY <2>1, <2>2, <2>4, <2>5 DEF w
<1> QED
  BY Invariance, <1>1, PTL

\* Semaphore.drain: no call waits beside a free slot.
THEOREM NoSlotIdles == Spec => []NoIdleSlot
<1>1. KInv => NoIdleSlot
  BY DEF KInv, SemaphoreInv
<1> QED
  BY Invariance, <1>1, PTL

\* Semaphore.acquire and drain: a call begins only within the limit as it is by then,
\* also while more calls than it allows are under way.
THEOREM CallsBeginWithinLimit == Spec => BeginsWithinLimit
<1>1. KInv /\ [Next]_vars =>
        [\A g \in Groups : active'[g] > active[g] => active'[g] <= limit'[g]]_vars
  BY NextInv DEF Within
<1> QED
  BY Invariance, <1>1, PTL DEF Spec, BeginsWithinLimit

\* WorkerConsumerPool.applyResize: the handles a pool knows are those of the consumers
\* pg-boss has, however resizes fail half way and follow each other.
THEOREM PoolsKnowTheirHandles == Spec => []HandlesKnown
<1>1. KInv => HandlesKnown
  <2> SUFFICES ASSUME KInv, NEW g \in Groups
               PROVE  /\ registered[g] = {handles[g][i] : i \in 1..Len(handles[g])}
                      /\ Cardinality(registered[g]) = Len(handles[g])
    BY DEF HandlesKnown
  <2> DEFINE s == handles[g]
  <2>1. /\ s \in Seq(HandleIds) /\ Distinct(s)
        /\ registered[g] = {s[i] : i \in 1..Len(s)}
    BY DEF KInv, PoolInv
  <2> HIDE DEF s
  <2>2. Len(s) \in 0..Len(s)
    BY <2>1, LenProperties
  <2>3. Cardinality({s[i] : i \in 1..Len(s)}) = Len(s)
    BY <2>1, <2>2, DistinctCount
  <2> QED
    BY <2>1, <2>3 DEF s
<1> QED
  BY Invariance, <1>1, PTL
=============================================================================
