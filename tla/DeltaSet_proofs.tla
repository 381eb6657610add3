--------------------------- MODULE DeltaSet_proofs ---------------------------
(***************************************************************************)
(* What the change records of one type do to a consumer's list, for lists  *)
(* of any length: applied in their order, they turn the old list into the  *)
(* new one.                                                                *)
(***************************************************************************)
EXTENDS DeltaSet, FiniteSetTheorems, WellFoundedInduction, TLAPS

(***************************************************************************)
(* Extremes and orders                                                     *)
(***************************************************************************)

(* Induction over numbers is the search for an extreme counterexample. *)
LEMMA MinIs ==
  ASSUME NEW T, T \subseteq Nat, T # {}
  PROVE  Min(T) \in T /\ \A y \in T : Min(T) <= y
<1> DEFINE R == OpToRel(<, Nat)
<1>1. IsWellFoundedOn(R, Nat)
  BY NatLessThanWellFounded
<1>2. \A x, y \in Nat : y < x => <<y, x>> \in R
  BY DEF OpToRel
<1> HIDE DEF R
<1>3. PICK x \in T : \A y \in T : <<y, x>> \notin R
  BY <1>1, WFMin
<1>4. ASSUME NEW y \in T PROVE x <= y
  <2>1. x \in Nat /\ y \in Nat
    OBVIOUS
  <2>2. ~(y < x)
    BY <1>2, <1>3, <2>1
  <2> QED BY <2>1, <2>2
<1>5. \E z \in T : \A y \in T : z <= y
  BY <1>4
<1> QED BY <1>5 DEF Min

(* The positions of a list. *)
LEMMA FirstIsFinite ==
  ASSUME NEW n \in Nat
  PROVE  IsFiniteSet(1..n)
BY FS_Interval

LEMMA MaxIs ==
  ASSUME NEW N \in Nat, NEW T, T \subseteq 0..N, T # {}
  PROVE  Max(T) \in T /\ \A y \in T : y <= Max(T)
<1> DEFINE below == {N - y : y \in T}
<1>1. \A y \in T : y \in Nat /\ N - y \in Nat
  OBVIOUS
<1>2. below \subseteq Nat /\ below # {}
  BY <1>1
<1>3. Min(below) \in below /\ \A y \in below : Min(below) <= y
  <2> HIDE DEF below
  <2> QED BY <1>2, MinIs
<1>4. PICK x \in T : \A y \in T : N - x <= N - y
  BY <1>3
<1>5. ASSUME NEW y \in T PROVE x >= y
  BY <1>1, <1>4
<1>6. \E z \in T : \A y \in T : z >= y
  BY <1>5
<1>7. Max(T) \in T /\ \A y \in T : Max(T) >= y
  BY <1>6 DEF Max
<1> QED BY <1>1, <1>7

(* InOrder lists every number of the set, once, the smaller ones first. *)
LEMMA InOrderLists ==
  ASSUME NEW S, S \subseteq Nat, IsFiniteSet(S)
  PROVE  /\ Cardinality(S) \in Nat
         /\ InOrder(S) \in [1..Cardinality(S) -> S]
         /\ \A s \in S : \E k \in DOMAIN InOrder(S) : InOrder(S)[k] = s
         /\ \A j, k \in DOMAIN InOrder(S) : InOrder(S)[j] = InOrder(S)[k] => j = k
         /\ \A j, k \in DOMAIN InOrder(S) : j < k => InOrder(S)[j] < InOrder(S)[k]
<1> DEFINE below(n) == {m \in S : m < n}
           size == Cardinality(S)
           rank == [n \in S |-> Cardinality(below(n)) + 1]
           at(k) == CHOOSE n \in S : Cardinality(below(n)) = k - 1
<1>1. size \in Nat
  BY FS_CardinalityType
<1>2. ASSUME NEW n \in S
      PROVE  /\ IsFiniteSet(below(n))
             /\ Cardinality(below(n)) \in Nat
             /\ Cardinality(below(n)) + 1 \in 1..size
  <2>1. below(n) \in SUBSET S /\ below(n) # S
    <3>1. n \in Nat /\ ~(n < n)
      OBVIOUS
    <3>2. n \notin below(n)
      BY <3>1
    <3> QED BY <3>2
  <2> HIDE DEF below
  <2>2. IsFiniteSet(below(n)) /\ Cardinality(below(n)) <= size /\ Cardinality(below(n)) # size
    BY <2>1, FS_Subset
  <2>3. Cardinality(below(n)) \in Nat
    BY <2>2, FS_CardinalityType
  <2> HIDE DEF size
  <2> QED BY <1>1, <2>2, <2>3
<1>3. ASSUME NEW m \in S, NEW n \in S, m < n
      PROVE  Cardinality(below(m)) # Cardinality(below(n))
  <2>1. below(m) \in SUBSET below(n) /\ m \in below(n) /\ m \notin below(m)
    <3>1. m \in Nat /\ n \in Nat /\ S \subseteq Nat
      OBVIOUS
    <3>2. \A x \in S : x < m => x < n
      BY <1>3, <3>1
    <3>3. ~(m < m)
      BY <3>1
    <3> QED BY <1>3, <3>2, <3>3
  <2>2. below(m) # below(n)
    BY <2>1
  <2> HIDE DEF below
  <2> QED BY <1>2, <2>1, <2>2, FS_Subset
<1>4. rank \in Injection(S, 1..size)
  <2>1. rank \in [S -> 1..size]
    BY <1>2
  <2>2. ASSUME NEW m \in S, NEW n \in S, rank[m] = rank[n] PROVE m = n
    <3>1. m \in Nat /\ n \in Nat
      OBVIOUS
    <3>2. Cardinality(below(m)) + 1 = Cardinality(below(n)) + 1
      BY <2>2
    <3>3. Cardinality(below(m)) = Cardinality(below(n))
      <4> HIDE DEF below
      <4> QED BY <1>2, <3>2
    <3> HIDE DEF below
    <3> QED BY <1>3, <3>1, <3>3
  <2>3. DOMAIN rank = S
    OBVIOUS
  <2> HIDE DEF rank, size
  <2> QED BY <2>1, <2>2, <2>3 DEF Injection, IsInjective
<1>5. rank \in Surjection(S, 1..size)
  <2>1. IsFiniteSet(1..size) /\ Cardinality(1..size) = size
    BY <1>1, FS_Interval
  <2> HIDE DEF rank
  <2> QED BY <1>4, <2>1, FS_Injection
<1>6. ASSUME NEW k \in 1..size
      PROVE  at(k) \in S /\ Cardinality(below(at(k))) = k - 1
  <2>1. PICK n \in S : rank[n] = k
    <3> HIDE DEF rank, size
    <3> QED BY <1>5 DEF Surjection
  <2>2. Cardinality(below(n)) + 1 = k
    BY <2>1
  <2>3. \E x \in S : Cardinality(below(x)) = k - 1
    <3> HIDE DEF below
    <3> QED BY <1>2, <2>2
  <2> HIDE DEF below
  <2> QED BY <2>3
<1>7. InOrder(S) = [k \in 1..size |-> at(k)]
  BY DEF InOrder
<1>8. DOMAIN InOrder(S) = 1..size /\ \A k \in 1..size : InOrder(S)[k] = at(k)
  <2> HIDE DEF at, size
  <2> QED BY <1>7
<1>9. InOrder(S) \in [1..size -> S]
  <2> HIDE DEF at, size
  <2> QED BY <1>6, <1>7
<1>10. ASSUME NEW s \in S PROVE \E k \in 1..size : at(k) = s
  <2>1. PICK k \in 1..size : k = Cardinality(below(s)) + 1
    BY <1>2
  <2>2. at(k) \in S /\ Cardinality(below(at(k))) = k - 1
    BY <1>6
  <2>3. rank[at(k)] = rank[s]
    <3>1. rank[at(k)] = Cardinality(below(at(k))) + 1 /\ rank[s] = Cardinality(below(s)) + 1
      BY <2>2
    <3> HIDE DEF at, below, rank
    <3> QED BY <1>2, <2>1, <2>2, <3>1
  <2>4. DOMAIN rank = S
    OBVIOUS
  <2> HIDE DEF rank, at
  <2> QED BY <1>4, <2>2, <2>3, <2>4 DEF Injection, IsInjective
<1>11. ASSUME NEW j \in 1..size, NEW k \in 1..size, at(j) = at(k) PROVE j = k
  <2>1. j - 1 = k - 1
    <3> HIDE DEF at, below
    <3> QED BY <1>6, <1>11
  <2>2. j \in Int /\ k \in Int
    BY <1>1
  <2> QED BY <2>1, <2>2
<1>14. ASSUME NEW j \in 1..size, NEW k \in 1..size, j < k PROVE at(j) < at(k)
  <2>1. /\ at(j) \in S /\ Cardinality(below(at(j))) = j - 1
        /\ at(k) \in S /\ Cardinality(below(at(k))) = k - 1
    BY <1>6
  <2> HIDE DEF at
  <2>2. at(j) \in Nat /\ at(k) \in Nat
    BY <2>1
  <2>3. ASSUME at(k) <= at(j) PROVE FALSE
    <3>1. \A x \in S : x \in Nat /\ (x < at(k) => x < at(j))
      BY <2>2, <2>3
    <3>2. below(at(k)) \in SUBSET below(at(j))
      BY <3>1
    <3> HIDE DEF below
    <3>3. Cardinality(below(at(k))) <= Cardinality(below(at(j)))
      BY <1>2, <2>1, <3>2, FS_Subset
    <3>4. j \in Int /\ k \in Int
      BY <1>1
    <3> QED BY <1>14, <2>1, <3>3, <3>4
  <2> QED BY <2>2, <2>3
<1> HIDE DEF size, at
<1>15. \A j, k \in DOMAIN InOrder(S) : j < k => InOrder(S)[j] < InOrder(S)[k]
  BY <1>8, <1>14
<1>12. \A s \in S : \E k \in DOMAIN InOrder(S) : InOrder(S)[k] = s
  BY <1>8, <1>10
<1>13. \A j, k \in DOMAIN InOrder(S) : InOrder(S)[j] = InOrder(S)[k] => j = k
  BY <1>8, <1>11
<1> QED BY <1>1, <1>9, <1>12, <1>13, <1>15 DEF size

(***************************************************************************)
(* Change records                                                          *)
(***************************************************************************)
LEMMA FinalIsOne ==
  ASSUME NEW records, DOMAIN records = 1..Len(records), Len(records) \in Nat,
         NEW ordinal, WithOrdinal(records, ordinal) # {}
  PROVE  \E i \in DOMAIN records :
           records[i].ordinal = ordinal /\ FinalRecord(records, ordinal) = records[i]
<1> DEFINE same == WithOrdinal(records, ordinal)
           deletes == {i \in same : records[i].op = "delete"}
           at == IF deletes = {} THEN Max(same) ELSE Min(deletes)
<1>1. same \subseteq DOMAIN records /\ \A i \in same : records[i].ordinal = ordinal
  BY DEF WithOrdinal
<1>2. same \subseteq 0..Len(records) /\ same \subseteq Nat /\ same # {}
  BY <1>1
<1>3. CASE deletes = {}
  <2>1. Max(same) \in same
    <3> HIDE DEF same
    <3> QED BY <1>2, MaxIs
  <2>2. at = Max(same)
    BY <1>3
  <2> HIDE DEF same, at
  <2> QED BY <1>1, <2>1, <2>2 DEF FinalRecord, at, same
<1>4. CASE deletes # {}
  <2>1. deletes \subseteq Nat /\ deletes \subseteq same
    BY <1>2
  <2>2. Min(deletes) \in deletes
    <3> HIDE DEF deletes
    <3> QED BY <1>4, <2>1, MinIs
  <2>3. at = Min(deletes) /\ at \in same
    BY <1>4, <2>1, <2>2
  <2>4. FinalRecord(records, ordinal) = records[at]
    BY DEF FinalRecord
  <2> HIDE DEF same, at
  <2> QED BY <1>1, <2>3, <2>4
<1> QED BY <1>3, <1>4

(* The optimiser keeps one record of every ordinal. *)
LEMMA OptimizeKeeps ==
  ASSUME NEW S, NEW records \in Seq(S), \A s \in S : s.ordinal \in Nat
  PROVE  LET out == OptimizeTypeDelta(records)
         IN  /\ out \in Seq(S)
             /\ \A k \in DOMAIN out : \E i \in DOMAIN records : out[k] = records[i]
             /\ \A i \in DOMAIN records : \E k \in DOMAIN out :
                  out[k].ordinal = records[i].ordinal
             /\ \A j, k \in DOMAIN out : out[j].ordinal = out[k].ordinal => j = k
             /\ \A j, k \in DOMAIN out : j < k => out[j].ordinal < out[k].ordinal
<1> DEFINE numbers == {r.ordinal : r \in ToSet(records)}
           order == InOrder(numbers)
           out == OptimizeTypeDelta(records)
           ordinalAt == [i \in DOMAIN records |-> records[i].ordinal]
<1>1. /\ Len(records) \in Nat /\ DOMAIN records = 1..Len(records)
      /\ \A i \in DOMAIN records : records[i] \in S /\ records[i].ordinal \in Nat
  OBVIOUS
<1>2. /\ \A n \in numbers : \E i \in DOMAIN records : records[i].ordinal = n
      /\ \A i \in DOMAIN records : records[i].ordinal \in numbers
  BY DEF ToSet
<1>3. numbers \subseteq Nat
  <2> HIDE DEF numbers
  <2> QED BY <1>1, <1>2
<1>4. IsFiniteSet(numbers)
  <2>1. ordinalAt \in Surjection(DOMAIN records, numbers)
    <3> HIDE DEF numbers
    <3> QED BY <1>2 DEF Surjection
  <2>2. IsFiniteSet(DOMAIN records)
    BY <1>1, FS_Interval
  <2> HIDE DEF ordinalAt, numbers
  <2> QED BY <2>1, <2>2, FS_Surjection
<1>5. /\ Cardinality(numbers) \in Nat
      /\ order \in [1..Cardinality(numbers) -> numbers]
      /\ \A s \in numbers : \E k \in DOMAIN order : order[k] = s
      /\ \A j, k \in DOMAIN order : order[j] = order[k] => j = k
      /\ \A j, k \in DOMAIN order : j < k => order[j] < order[k]
  <2> HIDE DEF numbers
  <2> QED BY <1>3, <1>4, InOrderLists
<1>6. out = [k \in DOMAIN order |-> FinalRecord(records, order[k])]
  BY DEF OptimizeTypeDelta
<1> HIDE DEF order, out, ordinalAt
<1>7. DOMAIN out = DOMAIN order /\ DOMAIN order = 1..Cardinality(numbers)
  <2> HIDE DEF numbers
  <2> QED BY <1>5, <1>6
<1>8. ASSUME NEW k \in DOMAIN out
      PROVE  \E i \in DOMAIN records : out[k] = records[i] /\ records[i].ordinal = order[k]
  <2>1. order[k] \in numbers /\ out[k] = FinalRecord(records, order[k])
    <3> HIDE DEF numbers
    <3> QED BY <1>5, <1>6, <1>7
  <2>2. WithOrdinal(records, order[k]) # {}
    <3> HIDE DEF numbers
    <3> QED BY <1>2, <2>1 DEF WithOrdinal
  <2>3. PICK i \in DOMAIN records :
          records[i].ordinal = order[k] /\ FinalRecord(records, order[k]) = records[i]
    <3> HIDE DEF numbers
    <3> QED BY <1>1, <2>2, FinalIsOne
  <2> QED BY <2>1, <2>3
<1>9. out \in Seq(S)
  <2>1. \A k \in 1..Cardinality(numbers) : out[k] \in S
    <3> HIDE DEF numbers
    <3> QED BY <1>1, <1>7, <1>8
  <2>2. out = [k \in 1..Cardinality(numbers) |-> out[k]]
    <3> HIDE DEF numbers
    <3> QED BY <1>6, <1>7
  <2> HIDE DEF numbers
  <2> QED BY <1>5, <2>1, <2>2
<1>10. \A k \in DOMAIN out : out[k].ordinal = order[k]
  BY <1>8
<1>11. ASSUME NEW i \in DOMAIN records
       PROVE  \E k \in DOMAIN out : out[k].ordinal = records[i].ordinal
  <2>1. records[i].ordinal \in numbers
    BY <1>2
  <2>2. PICK k \in DOMAIN order : order[k] = records[i].ordinal
    <3> HIDE DEF numbers
    <3> QED BY <1>5, <2>1
  <2> QED BY <1>7, <1>10, <2>2
<1>12. \A j, k \in DOMAIN out : out[j].ordinal = out[k].ordinal => j = k
  <2> HIDE DEF numbers
  <2> QED BY <1>5, <1>7, <1>10
<1>13. \A k \in DOMAIN out : \E i \in DOMAIN records : out[k] = records[i]
  BY <1>8
<1>14. \A j, k \in DOMAIN out : j < k => out[j].ordinal < out[k].ordinal
  <2> HIDE DEF numbers
  <2> QED BY <1>5, <1>7, <1>10
<1> HIDE DEF numbers
<1> QED BY <1>9, <1>11, <1>12, <1>13, <1>14 DEF out

Updates(V) == [op : {"add", "update"}, ordinal : Nat, value : V]
Deletes == [op : {"delete"}, ordinal : Nat]
ChangesOf(V) == Updates(V) \cup Deletes

(***************************************************************************)
(* The consumer's loop over the change records                             *)
(***************************************************************************)

(* The lists after every change record exist: the loop of applyDelta is    *)
(* what its recursive definition says.                                     *)
LEMMA DeltaIsApplied ==
  ASSUME NEW list, NEW delta, Len(delta) \in Nat
  PROVE  \E after :
           /\ ApplyDelta(list, delta) = after[Len(delta)]
           /\ after[0] = list
           /\ \A n \in 1..Len(delta) : after[n] = ApplyRecord(after[n - 1], delta[n])
<1> DEFINE N == Len(delta)
           Step(f, n) == IF n = 0 THEN list ELSE ApplyRecord(f[n - 1], delta[n])
           Lists(f, m) == f = [n \in 0..m |-> Step(f, n)]
           bad == {m \in Nat : m <= N /\ ~\E f : Lists(f, m)}
<1>1. bad = {}
  <2> SUFFICES ASSUME bad # {} PROVE FALSE
    OBVIOUS
  <2>1. PICK m : m \in bad /\ \A y \in bad : m <= y
    <3>1. bad \subseteq Nat
      OBVIOUS
    <3> HIDE DEF bad
    <3> QED BY <3>1, MinIs
  <2>2. m \in Nat /\ m <= N /\ ~\E f : Lists(f, m)
    BY <2>1
  <2>3. CASE m = 0
    <3> DEFINE f == [n \in 0..0 |-> list]
    <3>1. Lists(f, 0)
      <4>1. 0..0 = {0} /\ \A n \in 0..0 : Step(f, n) = list
        OBVIOUS
      <4> HIDE DEF Step
      <4> QED BY <4>1
    <3> HIDE DEF Lists, f
    <3> QED BY <2>2, <2>3, <3>1
  <2>4. CASE m # 0
    <3>1. m - 1 \in Nat /\ m - 1 <= N /\ ~(m <= m - 1)
      BY <2>2, <2>4
    <3>7. m - 1 \notin bad
      <4> HIDE DEF bad
      <4> QED BY <2>1, <3>1
    <3>2. PICK f : Lists(f, m - 1)
      <4> HIDE DEF Lists
      <4> QED BY <3>1, <3>7
    <3>3. /\ DOMAIN f = 0..(m - 1)
          /\ \A n \in 0..(m - 1) : f[n] = Step(f, n)
      <4> HIDE DEF Step
      <4> QED BY <3>2
    <3> DEFINE g == [n \in 0..m |-> IF n = m THEN ApplyRecord(f[m - 1], delta[m]) ELSE f[n]]
    <3>4. ASSUME NEW n \in 0..m
          PROVE  (IF n = m THEN ApplyRecord(f[m - 1], delta[m]) ELSE f[n]) = Step(g, n)
      <4>1. CASE n = m
        <5>1. m - 1 \in 0..m /\ m - 1 # m
          BY <2>2, <2>4
        <5>2. g[m - 1] = f[m - 1]
          BY <5>1
        <5> HIDE DEF g
        <5> QED BY <2>4, <4>1, <5>2
      <4>2. CASE n # m
        <5>1. n \in 0..(m - 1) /\ (n # 0 => n - 1 \in 0..m /\ n - 1 # m)
          BY <2>2, <4>2
        <5>2. n # 0 => g[n - 1] = f[n - 1]
          BY <5>1
        <5> HIDE DEF g
        <5> QED BY <3>3, <4>2, <5>1, <5>2
      <4> QED BY <4>1, <4>2
    <3>5. Lists(g, m)
      <4>1. g = [n \in 0..m |-> IF n = m THEN ApplyRecord(f[m - 1], delta[m]) ELSE f[n]]
        OBVIOUS
      <4> HIDE DEF g, Step
      <4> QED BY <3>4, <4>1
    <3> HIDE DEF Lists, g
    <3> QED BY <2>2, <3>5
  <2> QED BY <2>3, <2>4
<1>2. \E f : Lists(f, N)
  <2> HIDE DEF Lists
  <2> QED BY <1>1
<1> DEFINE after == CHOOSE f : Lists(f, N)
<1>3. after = [n \in 0..N |-> Step(after, n)]
  <2>1. Lists(after, N)
    <3> HIDE DEF Lists
    <3> QED BY <1>2
  <2> HIDE DEF after, Step
  <2> QED BY <2>1
<1>4. ApplyDelta(list, delta) = after[N]
  BY DEF ApplyDelta
<1> HIDE DEF after
<1>5. 0 \in 0..N /\ \A n \in 1..N : n \in 0..N /\ n # 0
  OBVIOUS
<1>6. after[0] = list /\ \A n \in 1..N : after[n] = ApplyRecord(after[n - 1], delta[n])
  BY <1>3, <1>5
<1> QED BY <1>4, <1>6

(* No change leaves a list as it is.                                       *)
LEMMA NothingApplies ==
  ASSUME NEW list
  PROVE  ApplyDelta(list, <<>>) = list
<1>1. Len(<<>>) = 0
  OBVIOUS
<1>2. \E after : ApplyDelta(list, <<>>) = after[0] /\ after[0] = list
  <2>1. PICK after : ApplyDelta(list, <<>>) = after[Len(<<>>)] /\ after[0] = list
    BY <1>1, DeltaIsApplied
  <2> QED BY <1>1, <2>1
<1> QED BY <1>2

(***************************************************************************)
(* Change records, in the order of their ordinals, that say how old        *)
(* becomes new where both have a place, what is new behind it, and that    *)
(* the last record goes.  More than one cannot go: after the first is gone *)
(* an ordinal is no position any more.                                     *)
(***************************************************************************)
Changed(d, old, new) ==
  LET i == d.ordinal + 1 IN
  \/ d.op = "update" /\ i <= Len(old) /\ i <= Len(new) /\ d.value = new[i]
  \/ d.op = "add" /\ i > Len(old) /\ i <= Len(new) /\ d.value = new[i]
  \/ d.op = "delete" /\ i = Len(old) /\ i > Len(new)

Edits(old, new, changes) ==
  /\ Len(old) <= Len(new) + 1
  /\ \A k \in DOMAIN changes : changes[k].ordinal \in Nat /\ Changed(changes[k], old, new)
  /\ \A j, k \in DOMAIN changes : j < k => changes[j].ordinal < changes[k].ordinal
  /\ \A i \in 1..(Len(old) + Len(new)) :
       \/ \E k \in DOMAIN changes : changes[k].ordinal = i - 1
       \/ i <= Len(old) /\ i <= Len(new) /\ old[i] = new[i]
       \/ i > Len(old) /\ i > Len(new)

(* The list when all change records up to a position are applied: new up   *)
(* to there, and old behind it.                                            *)
EditedTo(m, old, new) ==
  [i \in 1..(IF m < Len(old) THEN Len(old) ELSE IF Len(new) < Len(old) THEN Len(new) ELSE m) |->
     IF i <= m THEN new[i] ELSE old[i]]

(* One change record more. *)
LEMMA EditGoesOn ==
  ASSUME NEW V, NEW old \in Seq(V), NEW new \in Seq(V), NEW d,
         Len(old) <= Len(new) + 1, d.ordinal \in Nat, Changed(d, old, new),
         NEW m \in 0..d.ordinal,
         \A i \in (m + 1)..d.ordinal : i <= Len(old) /\ i <= Len(new) /\ old[i] = new[i]
  PROVE  ApplyRecord(EditedTo(m, old, new), d) = EditedTo(d.ordinal + 1, old, new)
<1>1. PICK o, n, p : o = Len(old) /\ n = Len(new) /\ p = d.ordinal + 1
  OBVIOUS
<1>2. o \in Nat /\ n \in Nat /\ p \in Nat /\ p >= 1 /\ d.ordinal = p - 1 /\ o <= n + 1
  BY <1>1
<1>3. m \in Nat /\ m < p
  BY <1>1, <1>2
<1>4. PICK list : list = EditedTo(m, old, new)
  OBVIOUS
<1>5. PICK size : size = IF m < o THEN o ELSE IF n < o THEN n ELSE m
  OBVIOUS
<1>6. list = [i \in 1..size |-> IF i <= m THEN new[i] ELSE old[i]] /\ size \in Nat
  BY <1>1, <1>2, <1>3, <1>4, <1>5 DEF EditedTo
<1>7. \A i \in (m + 1)..(p - 1) : i <= o /\ i <= n /\ old[i] = new[i]
  BY <1>1, <1>2
<1>8. /\ DOMAIN old = 1..o /\ DOMAIN new = 1..n
      /\ \A i \in 1..o : old[i] \in V
      /\ \A i \in 1..n : new[i] \in V
  BY <1>1
<1>9. \A i \in 1..size : (i <= m => i <= n) /\ (i > m => i <= o)
  <2>1. m <= p - 1 /\ p - 1 <= n
    BY <1>1, <1>2, <1>3 DEF Changed
  <2> QED BY <1>2, <1>3, <1>5, <2>1
<1>10. list \in Seq(V) /\ Len(list) = size /\ DOMAIN list = 1..size
  <2>1. \A i \in 1..size : (IF i <= m THEN new[i] ELSE old[i]) \in V
    <3> TAKE i \in 1..size
    <3>1. i \in Nat /\ i >= 1
      BY <1>6
    <3>2. CASE i <= m
      <4>1. i \in 1..n
        BY <1>2, <1>9, <3>1, <3>2
      <4> QED BY <1>8, <3>2, <4>1
    <3>3. CASE ~(i <= m)
      <4>1. i \in 1..o
        BY <1>2, <1>3, <1>9, <3>1, <3>3
      <4> QED BY <1>8, <3>3, <4>1
    <3> QED BY <3>2, <3>3
  <2> QED BY <1>6, <2>1
<1>11. CASE d.op = "update"
  <2>1. p <= o /\ p <= n /\ d.value = new[p]
    BY <1>1, <1>11 DEF Changed
  <2>2. m < o /\ size = o
    BY <1>2, <1>3, <1>5, <2>1
  <2>3. ApplyRecord(list, d) = [list EXCEPT ![p] = new[p]]
    BY <1>2, <1>10, <1>11, <2>1, <2>2 DEF ApplyRecord, ReplaceAt
  <2>4. EditedTo(p, old, new) = [i \in 1..o |-> IF i <= p THEN new[i] ELSE old[i]]
    <3>1. (IF p < o THEN o ELSE IF n < o THEN n ELSE p) = o
      BY <1>2, <2>1
    <3> QED BY <1>1, <3>1 DEF EditedTo
  <2>5. ASSUME NEW i \in 1..o
        PROVE  (IF i = p THEN new[p] ELSE IF i <= m THEN new[i] ELSE old[i])
                 = IF i <= p THEN new[i] ELSE old[i]
    <3>1. i < p /\ i > m => old[i] = new[i]
      BY <1>2, <1>3, <1>7
    <3> QED BY <1>2, <1>3, <3>1
  <2>6. [list EXCEPT ![p] = new[p]] =
          [i \in 1..o |-> IF i = p THEN new[p] ELSE IF i <= m THEN new[i] ELSE old[i]]
    BY <1>6, <2>2
  <2> QED BY <1>1, <1>4, <2>3, <2>4, <2>5, <2>6
<1>12. CASE d.op = "add"
  <2>1. p > o /\ p <= n /\ d.value = new[p]
    BY <1>1, <1>12 DEF Changed
  <2>2. size = p - 1
    <3>1. m = p - 1 \/ (m < p - 1 /\ p - 1 <= o)
      BY <1>2, <1>3, <1>7
    <3> QED BY <1>2, <1>3, <1>5, <2>1, <3>1
  <2>3. ApplyRecord(list, d) = Append(list, new[p])
    BY <1>12, <2>1 DEF ApplyRecord
  <2>4. EditedTo(p, old, new) = [i \in 1..p |-> IF i <= p THEN new[i] ELSE old[i]]
    <3>1. (IF p < o THEN o ELSE IF n < o THEN n ELSE p) = p
      BY <1>2, <2>1
    <3> QED BY <1>1, <3>1 DEF EditedTo
  <2>5. Append(list, new[p]) =
          [i \in 1..p |-> IF i = p THEN new[p] ELSE IF i <= m THEN new[i] ELSE old[i]]
    <3>1. Append(list, new[p]) = [i \in 1..(size + 1) |-> IF i = size + 1 THEN new[p] ELSE list[i]]
      BY <1>10
    <3>2. size + 1 = p /\ \A i \in 1..p : i # p => i \in 1..size
      BY <1>2, <2>2
    <3>3. \A i \in 1..p : (IF i = p THEN new[p] ELSE list[i])
                            = IF i = p THEN new[p] ELSE IF i <= m THEN new[i] ELSE old[i]
      BY <1>6, <3>2
    <3> QED BY <3>1, <3>2, <3>3
  <2>6. ASSUME NEW i \in 1..p
        PROVE  (IF i = p THEN new[p] ELSE IF i <= m THEN new[i] ELSE old[i])
                 = IF i <= p THEN new[i] ELSE old[i]
    <3>1. i < p /\ i > m => old[i] = new[i]
      BY <1>2, <1>3, <1>7
    <3> QED BY <1>2, <1>3, <3>1
  <2> QED BY <1>1, <1>4, <2>3, <2>4, <2>5, <2>6
<1>13. CASE d.op = "delete"
  <2>1. p = o /\ p > n
    BY <1>1, <1>13 DEF Changed
  <2>2. size = o /\ n = o - 1 /\ n = p - 1
    BY <1>2, <1>3, <1>5, <2>1
  <2>3. ApplyRecord(list, d) = SubSeq(list, 1, p - 1) \o SubSeq(list, p + 1, o)
    <3>1. ApplyRecord(list, d) = RemoveAt(list, p)
      BY <1>1, <1>2, <1>10, <1>13, <2>1, <2>2 DEF ApplyRecord
    <3> QED BY <1>10, <2>2, <3>1 DEF RemoveAt
  <2>4. SubSeq(list, p + 1, o) = <<>>
    BY <1>2, <1>10, <2>1, <2>2
  <2>5. SubSeq(list, 1, p - 1) = [i \in 1..n |-> IF i <= m THEN new[i] ELSE old[i]]
    <3>1. SubSeq(list, 1, p - 1) = [i \in 1..(p - 1) |-> list[i]]
      BY <1>2, <1>10, <2>1, <2>2
    <3>2. \A i \in 1..n : i \in 1..size
      BY <1>2, <2>2
    <3> QED BY <1>6, <2>2, <3>1, <3>2
  <2>6. ApplyRecord(list, d) = SubSeq(list, 1, p - 1)
    <3>1. PICK s : s = SubSeq(list, 1, p - 1)
      OBVIOUS
    <3>2. s \in Seq(V)
      BY <1>2, <1>10, <2>1, <2>2, <3>1
    <3>3. s \o <<>> = s
      BY <3>2
    <3> QED BY <2>3, <2>4, <3>1, <3>3
  <2>7. EditedTo(p, old, new) = [i \in 1..n |-> IF i <= p THEN new[i] ELSE old[i]]
    <3>1. (IF p < o THEN o ELSE IF n < o THEN n ELSE p) = n
      BY <1>2, <2>1
    <3> QED BY <1>1, <3>1 DEF EditedTo
  <2>8. ASSUME NEW i \in 1..n
        PROVE  (IF i <= m THEN new[i] ELSE old[i]) = IF i <= p THEN new[i] ELSE old[i]
    <3>1. i < p /\ i > m => old[i] = new[i]
      BY <1>2, <1>3, <1>7
    <3> QED BY <1>2, <1>3, <2>2, <3>1
  <2> QED BY <1>1, <1>4, <2>5, <2>6, <2>7, <2>8
<1> QED BY <1>11, <1>12, <1>13 DEF Changed

(* All of them. *)
LEMMA EditsApply ==
  ASSUME NEW V, NEW old \in Seq(V), NEW new \in Seq(V), NEW W, NEW changes \in Seq(W),
         Edits(old, new, changes)
  PROVE  ApplyDelta(old, changes) = new
<1> DEFINE N == Len(changes)
           m(k) == IF k = 0 THEN 0 ELSE changes[k].ordinal + 1
<1>1. /\ N \in Nat /\ DOMAIN changes = 1..N
      /\ Len(old) \in Nat /\ DOMAIN old = 1..Len(old)
      /\ Len(new) \in Nat /\ DOMAIN new = 1..Len(new)
  OBVIOUS
<1>2. /\ Len(old) <= Len(new) + 1
      /\ \A k \in 1..N : changes[k].ordinal \in Nat /\ Changed(changes[k], old, new)
      /\ \A j, k \in 1..N : j < k => changes[j].ordinal < changes[k].ordinal
      /\ \A i \in 1..(Len(old) + Len(new)) :
           \/ \E k \in 1..N : changes[k].ordinal = i - 1
           \/ i <= Len(old) /\ i <= Len(new) /\ old[i] = new[i]
           \/ i > Len(old) /\ i > Len(new)
  BY <1>1 DEF Edits
<1>3. PICK after : /\ ApplyDelta(old, changes) = after[N]
                   /\ after[0] = old
                   /\ \A n \in 1..N : after[n] = ApplyRecord(after[n - 1], changes[n])
  BY <1>1, DeltaIsApplied
<1>4. \A k \in 0..N : m(k) \in Nat
  BY <1>1, <1>2
(* What is between two change records, or after the last one, is the same. *)
<1>5. ASSUME NEW k \in 0..N, NEW i \in Nat, i > m(k), i <= Len(old) \/ i <= Len(new),
             k < N => i <= changes[k + 1].ordinal
      PROVE  i <= Len(old) /\ i <= Len(new) /\ old[i] = new[i]
  <2>1. i \in 1..(Len(old) + Len(new))
    BY <1>1, <1>4, <1>5
  <2>2. ASSUME NEW j \in 1..N PROVE changes[j].ordinal # i - 1
    <3>1. CASE j <= k
      <4>1. k # 0 /\ k \in 1..N /\ (j = k \/ j < k)
        BY <1>1, <3>1
      <4>2. changes[j].ordinal <= changes[k].ordinal /\ m(k) = changes[k].ordinal + 1
        BY <1>2, <4>1
      <4> HIDE DEF m
      <4> QED BY <1>2, <1>5, <4>1, <4>2
    <3>2. CASE ~(j <= k)
      <4>1. k + 1 \in 1..N /\ k < N /\ (j = k + 1 \/ k + 1 < j)
        BY <1>1, <3>2
      <4>2. changes[k + 1].ordinal <= changes[j].ordinal
        BY <1>2, <4>1
      <4> QED BY <1>2, <1>5, <4>1, <4>2
    <3> QED BY <3>1, <3>2
  <2>3. \/ \E j \in 1..N : changes[j].ordinal = i - 1
        \/ i <= Len(old) /\ i <= Len(new) /\ old[i] = new[i]
        \/ i > Len(old) /\ i > Len(new)
    BY <1>2, <2>1
  <2>4. ~(i > Len(old) /\ i > Len(new))
    <3>1. PICK o, n : o = Len(old) /\ n = Len(new) /\ o \in Nat /\ n \in Nat
      BY <1>1
    <3> QED BY <1>5, <3>1
  <2> HIDE DEF N
  <2> QED BY <2>2, <2>3, <2>4
<1> DEFINE bad == {k \in 0..N : after[k] # EditedTo(m(k), old, new)}
<1>6. bad = {}
  <2> SUFFICES ASSUME bad # {} PROVE FALSE
    OBVIOUS
  <2>1. bad \subseteq Nat
    BY <1>1
  <2>2. PICK k : k \in bad /\ \A y \in bad : k <= y
    <3> HIDE DEF bad
    <3> QED BY <2>1, MinIs
  <2>3. k \in 0..N /\ after[k] # EditedTo(m(k), old, new)
    BY <2>2
  <2>4. CASE k = 0
    <3>1. EditedTo(0, old, new) = [i \in 1..Len(old) |-> old[i]]
      <4>1. (IF 0 < Len(old) THEN Len(old) ELSE IF Len(new) < Len(old) THEN Len(new) ELSE 0) = Len(old)
        <5>1. \A o, n \in Nat : (IF 0 < o THEN o ELSE IF n < o THEN n ELSE 0) = o
          OBVIOUS
        <5> QED BY <1>1, <5>1
      <4>2. \A i \in 1..Len(old) : (IF i <= 0 THEN new[i] ELSE old[i]) = old[i]
        BY <1>1
      <4> QED BY <4>1, <4>2 DEF EditedTo
    <3>2. old = [i \in 1..Len(old) |-> old[i]]
      BY <1>1
    <3> QED BY <1>3, <2>3, <2>4, <3>1, <3>2
  <2>5. CASE k # 0
    <3>1. k \in 1..N /\ k - 1 \in 0..N /\ ~(k <= k - 1) /\ (k - 1) + 1 = k /\ k - 1 < N
      BY <1>1, <2>3, <2>5
    <3>2. k - 1 \notin bad
      <4> HIDE DEF bad
      <4> QED BY <2>2, <3>1
    <3>3. after[k - 1] = EditedTo(m(k - 1), old, new)
      BY <3>1, <3>2
    <3>4. PICK d, p : d = changes[k] /\ p = m(k - 1)
      OBVIOUS
    <3>5. d.ordinal \in Nat /\ Changed(d, old, new)
      BY <1>2, <3>1, <3>4
    <3>6. p \in 0..d.ordinal
      <4>1. CASE k = 1
        BY <3>4, <3>5, <4>1
      <4>2. CASE k # 1
        <5>1. k - 1 \in 1..N /\ k - 1 < k /\ k - 1 # 0
          BY <1>1, <3>1, <4>2
        <5>2. changes[k - 1].ordinal < d.ordinal /\ changes[k - 1].ordinal \in Nat
          BY <1>2, <3>1, <3>4, <5>1
        <5>3. p = changes[k - 1].ordinal + 1
          BY <3>4, <5>1
        <5> QED BY <3>5, <5>2, <5>3
      <4> QED BY <4>1, <4>2
    <3>7. ASSUME NEW i \in (p + 1)..d.ordinal
          PROVE  i <= Len(old) /\ i <= Len(new) /\ old[i] = new[i]
      <4>1. i \in Nat /\ i > p /\ i <= d.ordinal
        BY <3>5, <3>6
      <4>2. i <= Len(old) \/ i <= Len(new)
        BY <1>1, <3>5, <4>1 DEF Changed
      <4>3. i > m(k - 1) /\ i <= changes[(k - 1) + 1].ordinal
        BY <3>1, <3>4, <4>1
      <4> HIDE DEF m
      <4> QED BY <1>5, <3>1, <4>1, <4>2, <4>3
    <3>8. ApplyRecord(EditedTo(p, old, new), d) = EditedTo(d.ordinal + 1, old, new)
      BY <1>2, <3>5, <3>6, <3>7, EditGoesOn
    <3>9. m(k) = d.ordinal + 1
      BY <2>5, <3>4
    <3> HIDE DEF m
    <3> QED BY <1>3, <2>3, <3>1, <3>3, <3>4, <3>8, <3>9
  <2> QED BY <2>4, <2>5
<1>7. N \in 0..N /\ after[N] = EditedTo(m(N), old, new)
  <2>1. N \in 0..N /\ N \notin bad
    BY <1>1, <1>6
  <2> QED BY <2>1
<1>8. PICK last : last = m(N) /\ last \in Nat
  BY <1>4, <1>7
<1>9. \A i \in Nat : i > last /\ (i <= Len(old) \/ i <= Len(new)) =>
        i <= Len(old) /\ i <= Len(new) /\ old[i] = new[i]
  <2>1. ~(N < N)
    BY <1>1
  <2> HIDE DEF m
  <2> QED BY <1>5, <1>7, <1>8, <2>1
<1>10. last <= Len(old) \/ last <= Len(new)
  <2>1. CASE N = 0
    BY <1>1, <1>8, <2>1
  <2>2. CASE N # 0
    <3>1. N \in 1..N
      BY <1>1, <2>2
    <3>2. changes[N].ordinal \in Nat /\ Changed(changes[N], old, new)
      BY <1>2, <3>1
    <3> QED BY <1>1, <1>8, <2>2, <3>2 DEF Changed
  <2> QED BY <2>1, <2>2
<1>11. (IF last < Len(old) THEN Len(old) ELSE IF Len(new) < Len(old) THEN Len(new) ELSE last)
          = Len(new)
  <2>1. CASE Len(new) > last
    <3>1. Len(new) <= Len(old)
      BY <1>1, <1>9, <2>1
    <3>2. Len(old) > last
      BY <1>1, <1>8, <2>1, <3>1
    <3>3. Len(old) <= Len(new)
      BY <1>1, <1>9, <3>2
    <3>4. last < Len(old) /\ Len(old) = Len(new)
      <4>1. PICK o, n : o = Len(old) /\ n = Len(new) /\ o \in Nat /\ n \in Nat
        BY <1>1
      <4>2. n <= o /\ o > last /\ o <= n
        BY <3>1, <3>2, <3>3, <4>1
      <4>3. last < o /\ o = n
        BY <1>8, <4>1, <4>2
      <4> QED BY <4>1, <4>3
    <3> QED BY <3>4
  <2>2. CASE ~(Len(new) > last)
    <3>1. Len(old) > last => Len(old) <= Len(new)
      BY <1>1, <1>9
    <3>2. PICK o, n : o = Len(old) /\ n = Len(new) /\ o \in Nat /\ n \in Nat
      BY <1>1
    <3>3. n <= last /\ (o > last => o <= n) /\ (last <= o \/ last <= n) /\ o <= n + 1
      BY <1>1, <1>2, <1>8, <1>10, <2>2, <3>1, <3>2
    <3>4. (IF last < o THEN o ELSE IF n < o THEN n ELSE last) = n
      BY <1>8, <3>2, <3>3
    <3> QED BY <3>2, <3>4
  <2> QED BY <2>1, <2>2
<1>12. EditedTo(last, old, new) = [i \in 1..Len(new) |-> new[i]]
  <2>1. ASSUME NEW i \in 1..Len(new) PROVE (IF i <= last THEN new[i] ELSE old[i]) = new[i]
    <3>1. i \in Nat /\ i <= Len(new)
      BY <1>1
    <3> QED BY <1>8, <1>9, <3>1
  <2> QED BY <1>11, <2>1 DEF EditedTo
<1>13. new = [i \in 1..Len(new) |-> new[i]]
  BY <1>1
<1> QED BY <1>3, <1>7, <1>8, <1>12, <1>13

(* Every change record of a plain type is one. *)
LEMMA PlainIsTyped ==
  ASSUME NEW V, NEW old \in Seq(V), NEW new \in Seq(V)
  PROVE  DeltaOfPlain(old, new) \in Seq(ChangesOf(V))
<1> DEFINE changed == {i \in 1..(Len(old) + Len(new)) :
                         \/ i <= Len(new) /\ i > Len(old)
                         \/ i <= Len(old) /\ i > Len(new)
                         \/ i <= Len(old) /\ i <= Len(new) /\ old[i] # new[i]}
           at == InOrder(changed)
           change(i) == IF i > Len(old) THEN DeltaAdd(i - 1, new[i])
                        ELSE IF i > Len(new) THEN DeltaDelete(i - 1)
                        ELSE DeltaUpdate(i - 1, new[i])
<1>1. /\ Len(old) \in Nat /\ DOMAIN old = 1..Len(old)
      /\ Len(new) \in Nat /\ DOMAIN new = 1..Len(new)
  OBVIOUS
<1>2. changed \subseteq 1..(Len(old) + Len(new)) /\ changed \subseteq Nat
  BY <1>1
<1>3. IsFiniteSet(changed)
  <2>1. IsFiniteSet(1..(Len(old) + Len(new)))
    BY <1>1, FS_Interval
  <2> HIDE DEF changed
  <2> QED BY <1>2, <2>1, FS_Subset
<1>4. Cardinality(changed) \in Nat /\ at \in [1..Cardinality(changed) -> changed]
  <2> HIDE DEF changed
  <2> QED BY <1>2, <1>3, InOrderLists
<1>5. ASSUME NEW i \in changed PROVE change(i) \in ChangesOf(V)
  <2>1. i \in Nat /\ i - 1 \in Nat /\ (i > Len(old) \/ i <= Len(new) \/ i > Len(new))
    BY <1>1
  <2>2. CASE i > Len(old)
    <3>1. i \in DOMAIN new
      BY <1>1, <2>1, <2>2
    <3> QED BY <2>1, <2>2, <3>1 DEF DeltaAdd, ChangesOf, Updates
  <2>3. CASE ~(i > Len(old)) /\ i > Len(new)
    BY <2>1, <2>3 DEF DeltaDelete, ChangesOf, Deletes
  <2>4. CASE ~(i > Len(old)) /\ ~(i > Len(new))
    <3>1. i \in DOMAIN new
      BY <1>1, <2>1, <2>4
    <3> QED BY <2>1, <2>4, <3>1 DEF DeltaUpdate, ChangesOf, Updates
  <2> QED BY <2>2, <2>3, <2>4
<1>6. [k \in DOMAIN at |-> change(at[k])] \in Seq(ChangesOf(V))
  <2> HIDE DEF changed, at, change
  <2>1. DOMAIN at = 1..Cardinality(changed)
    BY <1>4
  <2>2. \A k \in 1..Cardinality(changed) : change(at[k]) \in ChangesOf(V)
    BY <1>4, <1>5
  <2> QED BY <1>4, <2>1, <2>2
<1>7. DeltaOfPlain(old, new) = IF new = <<>> THEN <<>> ELSE [k \in DOMAIN at |-> change(at[k])]
  BY DEF DeltaOfPlain
<1> HIDE DEF at, change
<1>8. CASE new = <<>>
  BY <1>7, <1>8
<1>9. CASE new # <<>>
  BY <1>6, <1>7, <1>9
<1> QED BY <1>8, <1>9

(* The change records of a plain type edit, as long as at most one record  *)
(* goes and a list that had records does not lose all.                     *)
LEMMA PlainEdits ==
  ASSUME NEW V, NEW old \in Seq(V), NEW new \in Seq(V),
         Len(old) <= Len(new) + 1, new # <<>> \/ old = <<>>
  PROVE  Edits(old, new, DeltaOfPlain(old, new))
<1> DEFINE changed == {i \in 1..(Len(old) + Len(new)) :
                         \/ i <= Len(new) /\ i > Len(old)
                         \/ i <= Len(old) /\ i > Len(new)
                         \/ i <= Len(old) /\ i <= Len(new) /\ old[i] # new[i]}
           at == InOrder(changed)
           change(i) == IF i > Len(old) THEN DeltaAdd(i - 1, new[i])
                        ELSE IF i > Len(new) THEN DeltaDelete(i - 1)
                        ELSE DeltaUpdate(i - 1, new[i])
           out == [k \in DOMAIN at |-> change(at[k])]
<1>1. PICK o, n : o = Len(old) /\ n = Len(new) /\ o \in Nat /\ n \in Nat
  OBVIOUS
<1>2. changed \subseteq 1..(o + n) /\ changed \subseteq Nat
  BY <1>1
<1>3. IsFiniteSet(changed)
  <2>1. IsFiniteSet(1..(o + n))
    BY <1>1, FS_Interval
  <2> HIDE DEF changed
  <2> QED BY <1>2, <2>1, FS_Subset
<1>4. /\ Cardinality(changed) \in Nat /\ at \in [1..Cardinality(changed) -> changed]
      /\ \A i \in changed : \E k \in DOMAIN at : at[k] = i
      /\ \A j, k \in DOMAIN at : j < k => at[j] < at[k]
  <2> HIDE DEF changed
  <2> QED BY <1>2, <1>3, InOrderLists
<1>5. ASSUME NEW i \in changed
      PROVE  change(i).ordinal = i - 1 /\ i - 1 \in Nat /\ Changed(change(i), old, new)
  <2>1. /\ i \in Nat /\ i - 1 \in Nat /\ (i - 1) + 1 = i
        /\ i > o \/ i <= o
        /\ i > n \/ i <= n
        /\ i > o => i <= n
    BY <1>1, <1>2
  <2>2. CASE i > o
    <3>1. change(i) = DeltaAdd(i - 1, new[i]) /\ i <= n
      BY <1>1, <2>1, <2>2
    <3> HIDE DEF change, changed
    <3> QED BY <1>1, <2>1, <2>2, <3>1 DEF DeltaAdd, Changed
  <2>3. CASE ~(i > o) /\ i > n
    <3>1. change(i) = DeltaDelete(i - 1) /\ i = o
      BY <1>1, <2>1, <2>3
    <3> HIDE DEF change, changed
    <3> QED BY <1>1, <2>1, <2>3, <3>1 DEF DeltaDelete, Changed
  <2>4. CASE ~(i > o) /\ ~(i > n)
    <3>1. change(i) = DeltaUpdate(i - 1, new[i]) /\ i <= o /\ i <= n
      BY <1>1, <2>1, <2>4
    <3> HIDE DEF change, changed
    <3> QED BY <1>1, <2>1, <3>1 DEF DeltaUpdate, Changed
  <2> HIDE DEF change, changed
  <2> QED BY <2>2, <2>3, <2>4
<1>6. ASSUME NEW i \in 1..(o + n)
      PROVE  \/ i \in changed
             \/ i <= o /\ i <= n /\ old[i] = new[i]
             \/ i > o /\ i > n
  BY <1>1
<1>7. DeltaOfPlain(old, new) = IF new = <<>> THEN <<>> ELSE out
  BY DEF DeltaOfPlain
<1> HIDE DEF changed, at, change
<1>8. CASE new = <<>>
  <2>1. old = <<>> /\ DeltaOfPlain(old, new) = <<>> /\ o = 0 /\ n = 0
    BY <1>1, <1>7, <1>8
  <2> QED BY <1>1, <1>8, <2>1 DEF Edits
<1>9. CASE new # <<>>
  <2>1. DeltaOfPlain(old, new) = out /\ DOMAIN out = DOMAIN at
    BY <1>7, <1>9
  <2>2. \A k \in DOMAIN out : at[k] \in changed /\ at[k] \in Nat /\ out[k] = change(at[k])
    BY <1>2, <1>4
  <2> HIDE DEF out
  <2>3. \A k \in DOMAIN out : out[k].ordinal = at[k] - 1 /\ out[k].ordinal \in Nat
                              /\ Changed(out[k], old, new)
    BY <1>5, <2>2
  <2>4. \A j, k \in DOMAIN out : j < k => out[j].ordinal < out[k].ordinal
    <3> TAKE j, k \in DOMAIN out
    <3> HAVE j < k
    <3>1. at[j] < at[k] /\ at[j] \in Nat /\ at[k] \in Nat
      BY <1>4, <2>1, <2>2
    <3> QED BY <2>3, <3>1
  <2>5. ASSUME NEW i \in 1..(o + n)
        PROVE  \/ \E k \in DOMAIN out : out[k].ordinal = i - 1
               \/ i <= o /\ i <= n /\ old[i] = new[i]
               \/ i > o /\ i > n
    <3>1. CASE i \in changed
      BY <1>4, <2>1, <2>3, <3>1
    <3> QED BY <1>6, <3>1
  <2> QED BY <1>1, <2>1, <2>3, <2>4, <2>5 DEF Edits
<1> QED BY <1>8, <1>9

(* Every change of a plain type reaches the consumer: the records that     *)
(* generateDeltasForNonPKTypes compares position by position, applied by   *)
(* applyDelta to the list of the version before, give the list of the next *)
(* one.  It needs what the known divergences are about: that the list      *)
(* loses at most one record and not all of several.                        *)
THEOREM ListsApply ==
  ASSUME NEW V, NEW old \in Seq(V), NEW new \in Seq(V),
         Len(old) <= Len(new) + 1, new # <<>> \/ old = <<>>
  PROVE  ApplyDelta(old, DeltaOfPlain(old, new)) = new
<1>1. DeltaOfPlain(old, new) \in Seq(ChangesOf(V))
  BY PlainIsTyped
<1>2. Edits(old, new, DeltaOfPlain(old, new))
  BY PlainEdits
<1> QED BY <1>1, <1>2, EditsApply
=============================================================================
