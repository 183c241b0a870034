------------------------ MODULE SessionManagerProofs ------------------------
(***************************************************************************)
(* Proofs about SessionManager, for any nodes, any classes of actions and  *)
(* any length of the vectors of actions.  The loops of add() and process() *)
(* are recursive functions of their counter: the first part proves an      *)
(* induction over 0..n, and each loop has an invariant that one turn of it *)
(* keeps.                                                                  *)
(***************************************************************************)
EXTENDS SessionManager, Integers, WellFoundedInduction, FiniteSetTheorems,
        SequenceTheorems, TLAPS

-----------------------------------------------------------------------------
(* Induction over the turns of a loop.                                     *)

(* < on Nat has no infinite descent.                                       *)
LEMMA NatWF == IsWellFoundedOn({p \in Nat \X Nat : p[1] < p[2]}, Nat)
BY NatLessThanWellFounded DEF OpToRel

(* Induction over the values of a loop's counter.                          *)
LEMMA Induction ==
    ASSUME NEW n \in Nat, NEW T, 0 \in T,
           \A i \in 0..n : i \in T /\ i < n => i + 1 \in T
    PROVE  \A i \in 0..n : i \in T
<1> DEFINE R == {p \in Nat \X Nat : p[1] < p[2]}
           U == {i \in 0..n : i \notin T}
<1>1. IsWellFoundedOn(R, Nat)
  BY NatWF
<1>2. SUFFICES ASSUME U # {} PROVE FALSE
  OBVIOUS
<1>3. U \subseteq Nat
  OBVIOUS
<1> HIDE DEF R
<1>4. PICK x \in U : \A y \in U : ~ (<<y, x>> \in R)
  <2> HIDE DEF U
  <2> QED BY <1>1, <1>2, <1>3, WFMin
<1>5. x \in 0..n /\ x \notin T /\ x # 0
  OBVIOUS
<1>6. x - 1 \in 0..n /\ x - 1 < n /\ (x - 1) + 1 = x /\ x - 1 < x
  BY <1>5
<1>7. x - 1 \notin U
  BY <1>3, <1>4, <1>5, <1>6 DEF R
<1> QED BY <1>5, <1>6, <1>7

-----------------------------------------------------------------------------
(* Selected: the elements at some places of a sequence, in their order.    *)

LEMMA RankFacts ==
    ASSUME NEW n \in Nat, NEW places \in SUBSET (1..n), NEW i \in places
    PROVE  /\ Rank(places, i) \in 1..Cardinality(places)
           /\ \A k \in places : i < k => Rank(places, i) < Rank(places, k)
           /\ IsFiniteSet(places) /\ Cardinality(places) \in 0..n
<1> DEFINE upTo(k) == {j \in places : j <= k}
<1>0. \A k \in places : k \in Nat
  OBVIOUS
<1>1. IsFiniteSet(places) /\ Cardinality(places) \in 0..n
  <2>1. IsFiniteSet(1..n) /\ Cardinality(1..n) = n
    BY FS_Interval
  <2>2. /\ IsFiniteSet(places) /\ Cardinality(places) <= Cardinality(1..n)
    BY <2>1, FS_Subset
  <2>3. Cardinality(places) \in Nat
    BY <2>2, FS_CardinalityType
  <2> QED BY <2>1, <2>2, <2>3
<1>2. ASSUME NEW k \in places
      PROVE  /\ IsFiniteSet(upTo(k)) /\ Rank(places, k) = Cardinality(upTo(k))
             /\ Rank(places, k) \in Nat
             /\ Rank(places, k) <= Cardinality(places)
             /\ Rank(places, k) # 0
  <2>1. upTo(k) \in SUBSET places
    OBVIOUS
  <2>2. IsFiniteSet(upTo(k)) /\ Cardinality(upTo(k)) <= Cardinality(places)
    BY <1>1, <2>1, FS_Subset
  <2>3. Cardinality(upTo(k)) \in Nat
    BY <2>2, FS_CardinalityType
  <2>4. k \in upTo(k)
    BY <1>0
  <2>5. Cardinality(upTo(k)) # 0
    BY <2>2, <2>4, FS_EmptySet
  <2>6. Rank(places, k) = Cardinality(upTo(k))
    BY DEF Rank
  <2> QED BY <2>2, <2>3, <2>5, <2>6
<1>3. ASSUME NEW k \in places, i < k
      PROVE  Rank(places, i) < Rank(places, k)
  <2>1. upTo(i) \cup {k} \in SUBSET upTo(k) /\ k \notin upTo(i)
    <3>1. i \in Nat /\ k \in Nat
      BY <1>0
    <3>2. ASSUME NEW j \in upTo(i)
          PROVE  j \in upTo(k) /\ j # k
      BY <1>0, <1>3, <3>1
    <3>3. k \in upTo(k)
      BY <3>1
    <3> HIDE DEF upTo
    <3> QED BY <3>2, <3>3
  <2>2. IsFiniteSet(upTo(i)) /\ IsFiniteSet(upTo(k))
    BY <1>2
  <2> HIDE DEF upTo
  <2>3. Cardinality(upTo(i) \cup {k}) = Cardinality(upTo(i)) + 1
    BY <2>1, <2>2, FS_AddElement
  <2>4. Cardinality(upTo(i) \cup {k}) <= Cardinality(upTo(k))
    BY <2>1, <2>2, FS_Subset
  <2> QED BY <1>2, <2>3, <2>4
<1>4. Rank(places, i) \in 1..Cardinality(places)
  <2>1. /\ Rank(places, i) \in Nat /\ Rank(places, i) # 0
        /\ Rank(places, i) <= Cardinality(places)
    BY <1>2
  <2>2. Cardinality(places) \in Nat
    BY <1>1
  <2> QED BY <2>1, <2>2
<1> HIDE DEF upTo
<1> QED BY <1>1, <1>3, <1>4

LEMMA RankIsBijection ==
    ASSUME NEW n \in Nat, NEW places \in SUBSET (1..n)
    PROVE  /\ Cardinality(places) \in 0..n
           /\ \A i \in places : Rank(places, i) \in 1..Cardinality(places)
           /\ \A i, k \in places : i < k => Rank(places, i) < Rank(places, k)
           /\ \A i, k \in places :
                  Rank(places, i) = Rank(places, k) => i = k
           /\ \A j \in 1..Cardinality(places) :
                  \E i \in places : Rank(places, i) = j
<1> DEFINE c == Cardinality(places)
           f == [i \in places |-> Rank(places, i)]
<1>1. IsFiniteSet(places) /\ c \in 0..n
  <2>1. IsFiniteSet(1..n) /\ Cardinality(1..n) = n
    BY FS_Interval
  <2>2. IsFiniteSet(places) /\ Cardinality(places) <= Cardinality(1..n)
    BY <2>1, FS_Subset
  <2>3. Cardinality(places) \in Nat
    BY <2>2, FS_CardinalityType
  <2> QED BY <2>1, <2>2, <2>3
<1>2. \A i \in places : Rank(places, i) \in 1..c
  BY RankFacts
<1>3. ASSUME NEW i \in places, NEW k \in places, i < k
      PROVE  Rank(places, i) < Rank(places, k)
  BY <1>3, RankFacts
<1> HIDE DEF c
<1>4. ASSUME NEW i \in places, NEW k \in places,
             Rank(places, i) = Rank(places, k)
      PROVE  i = k
  <2>1. /\ i \in Nat /\ k \in Nat /\ Rank(places, i) \in Nat
        /\ Rank(places, k) \in Nat
    BY <1>1, <1>2
  <2>2. ~(i < k) /\ ~(k < i)
    BY <1>3, <1>4, <2>1
  <2> QED BY <2>1, <2>2
<1>5. f \in [places -> 1..c]
  BY <1>2
<1>6. f \in Injection(places, 1..c)
  BY <1>4, <1>5 DEF Injection, IsInjective
<1>7. IsFiniteSet(1..c) /\ Cardinality(1..c) = c
  BY <1>1, FS_Interval
<1>8. f \in Surjection(places, 1..c)
  BY <1>1, <1>6, <1>7, FS_Injection DEF c
<1>9. \A j \in 1..c : \E i \in places : Rank(places, i) = j
  BY <1>8 DEF Surjection
<1> QED BY <1>1, <1>2, <1>3, <1>4, <1>9 DEF c

(* Where the elements of the result come from.                             *)
Origin(places, j) == CHOOSE i \in places : Rank(places, i) = j

LEMMA SelectedFacts ==
    ASSUME NEW S, NEW seq \in Seq(S), NEW places \in SUBSET DOMAIN seq
    PROVE  LET new == Selected(seq, places) IN
           /\ new \in Seq(S) /\ Len(new) = Cardinality(places)
           /\ Len(new) \in 0..Len(seq)
           /\ \A j \in 1..Len(new) : /\ Origin(places, j) \in places
                                     /\ new[j] = seq[Origin(places, j)]
           /\ \A j, k \in 1..Len(new) :
                  j < k => Origin(places, j) < Origin(places, k)
           /\ \A i \in places : \E j \in 1..Len(new) : Origin(places, j) = i
<1> DEFINE n == Len(seq)
           c == Cardinality(places)
           new == Selected(seq, places)
<1>1. n \in Nat /\ DOMAIN seq = 1..n /\ \A i \in 1..n : seq[i] \in S
  BY LenProperties, ElementOfSeq
<1>2. /\ c \in 0..n
      /\ \A i \in places : Rank(places, i) \in 1..c
      /\ \A i, k \in places : i < k => Rank(places, i) < Rank(places, k)
      /\ \A i, k \in places : Rank(places, i) = Rank(places, k) => i = k
      /\ \A j \in 1..c : \E i \in places : Rank(places, i) = j
  BY <1>1, RankIsBijection
<1> HIDE DEF n, c
<1>3. \A j \in 1..c : /\ Origin(places, j) \in places
                      /\ Rank(places, Origin(places, j)) = j
  BY <1>2 DEF Origin
<1>4. new = [j \in 1..c |-> seq[Origin(places, j)]]
  BY DEF Selected, Origin, c
<1>5. new \in Seq(S) /\ Len(new) = c
  <2>1. \A j \in 1..c : seq[Origin(places, j)] \in S
    BY <1>1, <1>3
  <2>2. new \in [1..c -> S]
    BY <1>4, <2>1
  <2> HIDE DEF new
  <2>3. new \in Seq(S)
    BY <1>2, <2>2, SeqDef
  <2>4. DOMAIN new = 1..c /\ DOMAIN new = 1..Len(new) /\ Len(new) \in Nat
    BY <2>2, <2>3, LenProperties
  <2> QED BY <1>2, <2>3, <2>4
<1>6. ASSUME NEW j \in 1..c, NEW k \in 1..c, j < k
      PROVE  Origin(places, j) < Origin(places, k)
  <2>1. Origin(places, j) \in Nat /\ Origin(places, k) \in Nat
    BY <1>1, <1>3
  <2>2. ~(Origin(places, k) < Origin(places, j))
    BY <1>2, <1>3, <1>6
  <2>3. Origin(places, k) # Origin(places, j)
    BY <1>3, <1>6
  <2> QED BY <2>1, <2>2, <2>3
<1>7. \A i \in places : \E j \in 1..c : Origin(places, j) = i
  BY <1>2, <1>3
<1> QED BY <1>2, <1>3, <1>4, <1>5, <1>6, <1>7 DEF c, n

LEMMA SelectedAt ==
    ASSUME NEW S, NEW seq \in Seq(S), NEW places \in SUBSET DOMAIN seq,
           NEW i \in places
    PROVE  /\ Rank(places, i) \in 1..Cardinality(places)
           /\ Selected(seq, places)[Rank(places, i)] = seq[i]
<1> DEFINE n == Len(seq)
           c == Cardinality(places)
           r == Rank(places, i)
<1>1. n \in Nat /\ DOMAIN seq = 1..n
  BY LenProperties
<1>2. /\ \A k \in places : Rank(places, k) \in 1..c
      /\ \A k, l \in places : Rank(places, k) = Rank(places, l) => k = l
  BY <1>1, RankIsBijection
<1> HIDE DEF n, c
<1>3. r \in 1..c
  BY <1>2
<1>4. (CHOOSE k \in places : Rank(places, k) = r) = i
  BY <1>2
<1> HIDE DEF r
<1>5. Selected(seq, places)[r] = seq[CHOOSE k \in places :
                                        Rank(places, k) = r]
  BY <1>3 DEF Selected, c
<1> QED BY <1>3, <1>4, <1>5 DEF r, c

(* Ranks count the places up to m and those behind.                        *)
LEMMA RankSplits ==
    ASSUME NEW n \in Nat, NEW places \in SUBSET (1..n), NEW m \in 0..n,
           NEW k \in m..n
    PROVE  /\ Rank(places, k) = Cardinality(places \cap (1..m))
                                    + Cardinality(places \cap ((m + 1)..k))
           /\ Cardinality(places \cap (1..m)) \in Nat
           /\ Cardinality(places \cap ((m + 1)..k)) \in Nat
<1> DEFINE front == places \cap (1..m)
           back == places \cap ((m + 1)..k)
<1>1. IsFiniteSet(1..n)
  BY FS_Interval
<1>2. front \in SUBSET (1..n) /\ back \in SUBSET (1..n)
  OBVIOUS
<1>3. {i \in places : i <= k} = front \cup back
  <2>1. \A i \in 1..n : i <= k <=> i \in 1..m \/ i \in (m + 1)..k
    OBVIOUS
  <2> QED BY <2>1
<1>4. front \cap back = {}
  OBVIOUS
<1> HIDE DEF front, back
<1>5. IsFiniteSet(front) /\ IsFiniteSet(back)
  BY <1>1, <1>2, FS_Subset
<1>6. Cardinality(front \cup back)
          = Cardinality(front) + Cardinality(back) - Cardinality({})
  BY <1>4, <1>5, FS_Union
<1>7. /\ Cardinality(front) \in Nat /\ Cardinality(back) \in Nat
      /\ Cardinality({}) = 0
  BY <1>5, FS_CardinalityType, FS_EmptySet
<1>8. Rank(places, k) = Cardinality(front \cup back)
  BY <1>3 DEF Rank
<1> QED BY <1>6, <1>7, <1>8 DEF front, back

LEMMA IntervalSize ==
    ASSUME NEW a \in Nat, NEW b \in Nat, a <= b
    PROVE  Cardinality((a + 1)..b) = b - a /\ Cardinality(1..b) = b
<1>1. /\ Cardinality((a + 1)..b) = IF a + 1 > b THEN 0 ELSE b - (a + 1) + 1
      /\ Cardinality(1..b) = IF 1 > b THEN 0 ELSE b - 1 + 1
  BY FS_Interval
<1> QED BY <1>1

(* As many places behind the m-th as places counted from there.            *)
-----------------------------------------------------------------------------
(* What the invariants say of one session's actions.                       *)

Ordered(actions) ==
    \A i \in DOMAIN actions :
        actions[i].starts > 0 <=> \A j \in 1..(i - 1) : actions[j].completed

(* Only what was started is completed.                                     *)
CompletedStarted(actions) ==
    \A i \in DOMAIN actions :
        actions[i].completed => actions[i].starts > 0

Single(actions) ==
    \A i, j \in DOMAIN actions :
        actions[i].type = actions[j].type /\ IsPermanent(actions[i]) => i = j

BehindPermanent(actions, i) ==
    \E j \in 1..(i - 1) : IsPermanent(actions[j]) /\ actions[j].completed

OnceEach(actions) ==
    \A i \in DOMAIN actions :
        actions[i].starts > 1 => BehindPermanent(actions, i)

Orderly(actions) ==
    /\ actions \in Seq(Actions)
    /\ Ordered(actions) /\ CompletedStarted(actions)
    /\ Single(actions) /\ OnceEach(actions)

(* Between two calls only permanent actions are completed, none is failed. *)
Settled(actions) ==
    \A i \in DOMAIN actions :
        /\ actions[i].completed => IsPermanent(actions[i])
        /\ ~actions[i].errored

Errored(actions) == \E i \in DOMAIN actions : actions[i].errored

LEMMA ActionFacts ==
    ASSUME NEW actions \in Seq(Actions)
    PROVE  /\ Len(actions) \in Nat /\ DOMAIN actions = 1..Len(actions)
           /\ \A i \in 1..Len(actions) : /\ actions[i] \in Actions
                                         /\ actions[i].type \in Types
                                         /\ actions[i].starts \in 0..2
                                         /\ actions[i].completed \in BOOLEAN
                                         /\ actions[i].errored \in BOOLEAN
<1>1. Len(actions) \in Nat /\ DOMAIN actions = 1..Len(actions)
  BY LenProperties
<1>2. \A i \in 1..Len(actions) : actions[i] \in Actions
  BY ElementOfSeq
<1> QED BY <1>1, <1>2 DEF Actions

(* Taking completed actions that are not permanent out of a session leaves *)
(* the others in order.  `from' says where the j-th of them was.           *)
LEMMA Thinned ==
    ASSUME NEW actions, Orderly(actions), NEW thin \in Seq(Actions),
           NEW from \in [1..Len(thin) -> 1..Len(actions)],
           \A j \in 1..Len(thin) : thin[j] = actions[from[j]],
           \A j, k \in 1..Len(thin) : j < k => from[j] < from[k],
           \A i \in 1..Len(actions) :
               \/ \E j \in 1..Len(thin) : from[j] = i
               \/ actions[i].completed /\ ~IsPermanent(actions[i])
    PROVE  Orderly(thin)
<1>1. /\ Len(actions) \in Nat /\ DOMAIN actions = 1..Len(actions)
      /\ Len(thin) \in Nat /\ DOMAIN thin = 1..Len(thin)
  BY ActionFacts DEF Orderly
<1>2. \A j \in 1..Len(thin) :
          from[j] \in 1..Len(actions) /\ from[j] \in Nat /\ j \in Nat
  BY <1>1
<1>3. \A j, k \in 1..Len(thin) : from[j] < from[k] => j < k
  BY <1>1, <1>2
<1>4. Ordered(thin)
  <2>1. ASSUME NEW j \in 1..Len(thin)
        PROVE  (\A i \in 1..(from[j] - 1) : actions[i].completed)
                   <=> (\A k \in 1..(j - 1) : thin[k].completed)
    <3>1. ASSUME \A i \in 1..(from[j] - 1) : actions[i].completed,
                 NEW k \in 1..(j - 1)
          PROVE  thin[k].completed
      <4>1. k \in 1..Len(thin) /\ k < j
        BY <1>1
      <4>2. from[k] \in 1..(from[j] - 1)
        BY <1>2, <4>1
      <4> QED BY <3>1, <4>1, <4>2
    <3>2. ASSUME \A k \in 1..(j - 1) : thin[k].completed,
                 NEW i \in 1..(from[j] - 1)
          PROVE  actions[i].completed
      <4>1. i \in 1..Len(actions) /\ i < from[j]
        BY <1>1, <1>2
      <4>2. CASE \E k \in 1..Len(thin) : from[k] = i
        <5>1. PICK k \in 1..Len(thin) : from[k] = i
          BY <4>2
        <5>2. k \in 1..(j - 1)
          BY <1>1, <1>3, <4>1, <5>1
        <5> QED BY <3>2, <5>1, <5>2
      <4> QED BY <4>1, <4>2
    <3> QED BY <3>1, <3>2
  <2> QED BY <1>1, <1>2, <2>1 DEF Ordered, Orderly
<1>5. CompletedStarted(thin)
  BY <1>1, <1>2 DEF CompletedStarted, Orderly
<1>6. Single(thin)
  <2>1. ASSUME NEW j \in 1..Len(thin), NEW k \in 1..Len(thin),
               thin[j].type = thin[k].type, IsPermanent(thin[j])
        PROVE  j = k
    <3>1. from[j] = from[k]
      BY <1>1, <1>2, <2>1 DEF Orderly, Single
    <3>2. ~(j < k) /\ ~(k < j)
      BY <1>2, <3>1
    <3> QED BY <1>2, <3>2
  <2> QED BY <1>1, <2>1 DEF Single
<1>7. OnceEach(thin)
  <2>1. ASSUME NEW j \in 1..Len(thin), thin[j].starts > 1
        PROVE  BehindPermanent(thin, j)
    <3>1. BehindPermanent(actions, from[j])
      BY <1>1, <1>2, <2>1 DEF Orderly, OnceEach
    <3>2. PICK i \in 1..(from[j] - 1) :
              IsPermanent(actions[i]) /\ actions[i].completed
      BY <3>1 DEF BehindPermanent
    <3>3. i \in 1..Len(actions) /\ i < from[j]
      BY <1>1, <1>2
    <3>4. PICK k \in 1..Len(thin) : from[k] = i
      BY <3>2, <3>3
    <3>5. k \in 1..(j - 1)
      BY <1>1, <1>3, <3>3, <3>4
    <3>6. thin[k] = actions[i]
      BY <3>4
    <3> QED BY <3>2, <3>5, <3>6 DEF BehindPermanent
  <2> QED BY <1>1, <2>1 DEF OnceEach
<1> QED BY <1>4, <1>5, <1>6, <1>7 DEF Orderly

(* The actions that are kept.                                              *)
LEMMA KeptFacts ==
    ASSUME NEW actions \in Seq(Actions)
    PROVE  LET kept == Kept(actions)
               places == {i \in DOMAIN actions : Stays(actions[i])}
           IN  /\ kept \in Seq(Actions) /\ Len(kept) \in 0..Len(actions)
               /\ \A j \in 1..Len(kept) :
                      /\ Origin(places, j) \in 1..Len(actions)
                      /\ kept[j] = actions[Origin(places, j)]
                      /\ Stays(kept[j])
               /\ \A j, k \in 1..Len(kept) :
                      j < k => Origin(places, j) < Origin(places, k)
               /\ \A i \in 1..Len(actions) :
                      \/ \E j \in 1..Len(kept) : Origin(places, j) = i
                      \/ actions[i].completed /\ ~IsPermanent(actions[i])
<1> DEFINE places == {i \in DOMAIN actions : Stays(actions[i])}
           kept == Kept(actions)
<1>1. kept = Selected(actions, places) /\ places \in SUBSET DOMAIN actions
  BY DEF Kept
<1>2. /\ kept \in Seq(Actions) /\ Len(kept) \in 0..Len(actions)
      /\ \A j \in 1..Len(kept) : /\ Origin(places, j) \in places
                                 /\ kept[j] = actions[Origin(places, j)]
      /\ \A j, k \in 1..Len(kept) :
             j < k => Origin(places, j) < Origin(places, k)
      /\ \A i \in places : \E j \in 1..Len(kept) : Origin(places, j) = i
  <2> HIDE DEF places, kept
  <2> QED BY <1>1, SelectedFacts
<1>3. /\ \A i \in places : i \in 1..Len(actions) /\ Stays(actions[i])
      /\ \A i \in 1..Len(actions) :
             \/ i \in places
             \/ actions[i].completed /\ ~IsPermanent(actions[i])
  BY ActionFacts DEF Stays
<1> HIDE DEF places, kept
<1> QED BY <1>2, <1>3 DEF places, kept

LEMMA KeptIsOrderly ==
    ASSUME NEW actions, Orderly(actions), ~Errored(actions)
    PROVE  Orderly(Kept(actions)) /\ Settled(Kept(actions))
<1> DEFINE places == {i \in DOMAIN actions : Stays(actions[i])}
           kept == Kept(actions)
           from == [j \in 1..Len(kept) |-> Origin(places, j)]
<1>1. actions \in Seq(Actions)
  BY DEF Orderly
<1>2. /\ kept \in Seq(Actions)
      /\ \A j \in 1..Len(kept) : /\ Origin(places, j) \in 1..Len(actions)
                                 /\ kept[j] = actions[Origin(places, j)]
                                 /\ Stays(kept[j])
      /\ \A j, k \in 1..Len(kept) :
             j < k => Origin(places, j) < Origin(places, k)
      /\ \A i \in 1..Len(actions) :
             \/ \E j \in 1..Len(kept) : Origin(places, j) = i
             \/ actions[i].completed /\ ~IsPermanent(actions[i])
  BY <1>1, KeptFacts
<1> HIDE DEF places, kept
<1>3. Orderly(kept)
  <2>1. /\ from \in [1..Len(kept) -> 1..Len(actions)]
        /\ \A j \in 1..Len(kept) : from[j] = Origin(places, j)
    BY <1>2
  <2> HIDE DEF from
  <2> QED BY <1>2, <2>1, Thinned
<1>4. Settled(kept)
  <2>1. DOMAIN kept = 1..Len(kept) /\ DOMAIN actions = 1..Len(actions)
    BY <1>1, <1>2, ActionFacts
  <2>2. \A i \in 1..Len(actions) : ~actions[i].errored
    BY <2>1 DEF Errored
  <2> QED BY <1>2, <2>1, <2>2 DEF Settled, Stays
<1> QED BY <1>3, <1>4 DEF kept

-----------------------------------------------------------------------------
(* What is still to be done of a session's actions.                        *)

(* The first d actions are completed, the others are not.                  *)
DoneUpTo(actions, d) ==
    /\ d \in 0..Len(actions)
    /\ \A i \in 1..Len(actions) : actions[i].completed <=> i <= d

TypesFrom(actions, d) ==
    [j \in 1..(Len(actions) - d) |-> actions[d + j].type]

DoneTypes(actions, d) == {actions[i].type : i \in 1..d}

LEMMA DoneExists ==
    ASSUME NEW actions, Orderly(actions)
    PROVE  \E d \in 0..Len(actions) : DoneUpTo(actions, d)
<1> DEFINE n == Len(actions)
           done == {i \in 1..n : actions[i].completed}
           d == Cardinality(done)
<1>1. n \in Nat /\ DOMAIN actions = 1..n
  BY ActionFacts DEF Orderly
<1> HIDE DEF n
<1>2. ASSUME NEW i \in done, NEW j \in 1..(i - 1)
      PROVE  j \in done
  <2>1. i \in 1..n /\ actions[i].completed /\ j \in 1..n
    BY <1>1
  <2>2. actions[i].starts > 0
    BY <1>1, <2>1 DEF Orderly, CompletedStarted
  <2>3. actions[j].completed
    BY <1>1, <2>1, <2>2 DEF Orderly, Ordered
  <2> QED BY <2>1, <2>3
<1>3. done \in SUBSET (1..n)
  OBVIOUS
<1>4. /\ d \in 0..n
      /\ \A i \in done : Rank(done, i) \in 1..d
      /\ \A j \in 1..d : \E i \in done : Rank(done, i) = j
  <2> HIDE DEF done
  <2> QED BY <1>1, <1>3, RankIsBijection
<1>5. ASSUME NEW i \in done
      PROVE  Rank(done, i) = i
  <2>1. i \in 1..n /\ i \in Nat /\ i <= i
    BY <1>3
  <2>2. \A k \in 1..i : k = i \/ k \in 1..(i - 1)
    BY <2>1
  <2>3. \A k \in 1..i : k \in done /\ k <= i
    BY <1>2, <2>1, <2>2
  <2>4. \A k \in 1..n : k <= i => k \in 1..i
    BY <2>1
  <2> HIDE DEF done
  <2>5. {k \in done : k <= i} = 1..i
    BY <1>3, <2>3, <2>4
  <2>6. Cardinality(1..i) = i
    BY <2>1, IntervalSize
  <2> QED BY <2>5, <2>6 DEF Rank
<1>6. \A i \in 1..n : i \in done <=> i \in 1..d
  <2> HIDE DEF done, d
  <2> QED BY <1>3, <1>4, <1>5
<1>7. \A i \in 1..n : i \in 1..d <=> i <= d
  <2> HIDE DEF d
  <2> QED BY <1>4
<1>8. \A i \in 1..n : i \in done <=> actions[i].completed
  OBVIOUS
<1> HIDE DEF done, d
<1>9. DoneUpTo(actions, d)
  BY <1>4, <1>6, <1>7, <1>8 DEF DoneUpTo, n
<1> QED BY <1>4, <1>9 DEF n

LEMMA TypesFromFacts ==
    ASSUME NEW actions \in Seq(Actions), NEW d \in 0..Len(actions)
    PROVE  LET ts == TypesFrom(actions, d) IN
           /\ ts \in Seq(Types) /\ Len(ts) = Len(actions) - d
           /\ Len(ts) \in Nat /\ DOMAIN ts = 1..Len(ts)
           /\ \A j \in 1..Len(ts) :
                  d + j \in 1..Len(actions) /\ ts[j] = actions[d + j].type
<1> DEFINE n == Len(actions)
           ts == TypesFrom(actions, d)
<1>1. n \in Nat /\ n - d \in Nat /\ d \in Nat
  BY ActionFacts
<1>2. \A i \in 1..n : actions[i].type \in Types
  BY ActionFacts
<1> HIDE DEF n
<1>3. \A j \in 1..(n - d) : d + j \in 1..n
  BY <1>1
<1>4. ts = [j \in 1..(n - d) |-> actions[d + j].type]
  BY DEF TypesFrom, n
<1>5. ts \in [1..(n - d) -> Types]
  BY <1>2, <1>3, <1>4
<1>6. \A j \in 1..(n - d) : ts[j] = actions[d + j].type
  BY <1>4
<1> HIDE DEF ts
<1>7. ts \in Seq(Types)
  BY <1>1, <1>5, SeqDef
<1>8. DOMAIN ts = 1..(n - d) /\ DOMAIN ts = 1..Len(ts) /\ Len(ts) \in Nat
  BY <1>5, <1>7, LenProperties
<1>9. Len(ts) = n - d
  BY <1>1, <1>8
<1> QED BY <1>1, <1>3, <1>6, <1>7, <1>8, <1>9 DEF n, ts

LEMMA PlanFacts ==
    ASSUME NEW actions \in Seq(Actions), NEW d, DoneUpTo(actions, d)
    PROVE  /\ PlanOf(actions) = TypesFrom(actions, d)
           /\ StandingOf(actions) = DoneTypes(actions, d)
<1> DEFINE n == Len(actions)
           places == {i \in DOMAIN actions : ~actions[i].completed}
           types == TypesOf(actions)
           sel == Selected(types, places)
<1>1. /\ n \in Nat /\ DOMAIN actions = 1..n /\ d \in 0..n /\ d \in Nat
      /\ \A i \in 1..n : actions[i].completed <=> i <= d
  BY ActionFacts DEF DoneUpTo
<1>0. /\ types \in Seq(Types) /\ DOMAIN types = 1..n
      /\ \A i \in 1..n : types[i] = actions[i].type
  <2>1. /\ DOMAIN types = 1..n /\ types \in [1..n -> Types]
        /\ \A i \in 1..n : types[i] = actions[i].type
    BY <1>1, ActionFacts DEF TypesOf
  <2> HIDE DEF types
  <2> QED BY <1>1, <2>1, SeqDef
<1> HIDE DEF n
<1>2. /\ places = (d + 1)..n /\ places \in SUBSET (1..n)
  BY <1>1
<1> HIDE DEF places, types
<1>3. places \cap (1..d) = {} /\ Cardinality(places \cap (1..d)) = 0
  <2>1. places \cap (1..d) = {}
    BY <1>1, <1>2
  <2> QED BY <2>1, FS_EmptySet
<1>4. ASSUME NEW k \in d..n
      PROVE  Rank(places, k) = k - d
  <2>1. Rank(places, k) = Cardinality(places \cap (1..d))
                              + Cardinality(places \cap ((d + 1)..k))
    <3>1. /\ n \in Nat /\ places \in SUBSET (1..n)
          /\ d \in 0..n /\ k \in d..n
      BY <1>1, <1>2
    <3> QED BY <3>1, RankSplits
  <2>2. k \in Nat /\ d <= k
    BY <1>1
  <2>3. places \cap ((d + 1)..k) = (d + 1)..k
    <3>1. \A i \in (d + 1)..k : i \in (d + 1)..n
      BY <1>1
    <3> QED BY <1>2, <3>1
  <2>4. Cardinality((d + 1)..k) = k - d
    BY <1>1, <2>2, IntervalSize
  <2>5. k - d \in Nat /\ 0 + (k - d) = k - d
    BY <1>1, <2>2
  <2>6. Cardinality(places \cap (1..d)) = 0
    BY <1>3
  <2>7. Cardinality(places \cap ((d + 1)..k)) = k - d
    BY <2>3, <2>4
  <2> QED BY <2>1, <2>5, <2>6, <2>7
<1>5. sel \in Seq(Types) /\ Len(sel) = n - d
  <2>1. sel \in Seq(Types) /\ Len(sel) = Cardinality(places)
    BY <1>0, <1>2, SelectedFacts
  <2>2. n \in d..n
    BY <1>1
  <2>3. Rank(places, n) = n - d
    BY <1>4, <2>2
  <2>4. {k \in places : k <= n} = places
    <3>1. \A k \in 1..n : k <= n
      BY <1>1
    <3> QED BY <1>2, <3>1
  <2> QED BY <2>1, <2>3, <2>4 DEF Rank
<1>6. ASSUME NEW j \in 1..(n - d)
      PROVE  sel[j] = actions[d + j].type
  <2>1. d + j \in d..n /\ d + j \in (d + 1)..n /\ (d + j) - d = j
    BY <1>1
  <2>2. Rank(places, d + j) = j
    BY <1>4, <2>1
  <2>3. sel[Rank(places, d + j)] = types[d + j]
    <3>1. /\ types \in Seq(Types) /\ places \in SUBSET DOMAIN types
          /\ d + j \in places
      BY <1>0, <1>2, <2>1
    <3> QED BY <3>1, SelectedAt
  <2>4. d + j \in 1..n
    BY <1>1, <2>1
  <2> QED BY <1>0, <2>2, <2>3, <2>4
<1>7. PlanOf(actions) = sel
  BY DEF PlanOf, places, types
<1>8. sel = [j \in 1..(n - d) |-> actions[d + j].type]
  <2> HIDE DEF sel
  <2>1. sel \in [1..Len(sel) -> Types]
    BY <1>5, LenProperties
  <2> QED BY <1>5, <1>6, <2>1
<1> HIDE DEF sel
<1>9. PlanOf(actions) = TypesFrom(actions, d)
  BY <1>7, <1>8 DEF TypesFrom, n
<1>10. StandingOf(actions) = DoneTypes(actions, d)
  <2>1. \A i \in 1..d : i \in 1..n /\ i <= d
    BY <1>1
  <2>2. \A i \in 1..n : i <= d => i \in 1..d
    BY <1>1
  <2>3. ASSUME NEW t \in StandingOf(actions)
        PROVE  t \in DoneTypes(actions, d)
    <3>1. PICK i \in 1..n : actions[i].completed /\ t = actions[i].type
      BY <1>1 DEF StandingOf, ToSet
    <3> QED BY <1>1, <2>2, <3>1 DEF DoneTypes
  <2>4. ASSUME NEW t \in DoneTypes(actions, d)
        PROVE  t \in StandingOf(actions)
    <3>1. PICK i \in 1..d : t = actions[i].type
      BY DEF DoneTypes
    <3>2. actions[i] \in {b \in ToSet(actions) : b.completed}
      BY <1>1, <2>1, <3>1 DEF ToSet
    <3> QED BY <3>1, <3>2 DEF StandingOf
  <2> QED BY <2>3, <2>4
<1> QED BY <1>9, <1>10

(* Removing what is completed and not permanent leaves what is to be done. *)
LEMMA KeptPlan ==
    ASSUME NEW actions \in Seq(Actions), NEW d, DoneUpTo(actions, d)
    PROVE  /\ PlanOf(Kept(actions)) = TypesFrom(actions, d)
           /\ StandingOf(Kept(actions)) = DoneTypes(actions, d) \cap Permanent
<1> DEFINE n == Len(actions)
           places == {i \in DOMAIN actions : Stays(actions[i])}
           c == Cardinality(places \cap (1..d))
           kept == Kept(actions)
<1>1. /\ n \in Nat /\ DOMAIN actions = 1..n /\ d \in 0..n /\ d \in Nat
      /\ \A i \in 1..n : actions[i].completed <=> i <= d
  BY ActionFacts DEF DoneUpTo
<1> HIDE DEF n
<1>2. \A i \in (d + 1)..n : i \in 1..n /\ ~(i <= d)
  BY <1>1
<1>3. /\ places \in SUBSET (1..n) /\ places \in SUBSET DOMAIN actions
      /\ \A i \in 1..n : i \in places <=> Stays(actions[i])
  BY <1>1
<1>4. \A i \in (d + 1)..n : i \in places
  BY <1>1, <1>2, <1>3 DEF Stays
<1>5. kept = Selected(actions, places)
  BY DEF Kept
<1> HIDE DEF places, kept
<1>6. ASSUME NEW k \in d..n
      PROVE  Rank(places, k) = c + (k - d) /\ c \in Nat
  <2>1. /\ Rank(places, k) = Cardinality(places \cap (1..d))
                                 + Cardinality(places \cap ((d + 1)..k))
        /\ c \in Nat
    <3>1. /\ n \in Nat /\ places \in SUBSET (1..n)
          /\ d \in 0..n /\ k \in d..n
      BY <1>1, <1>3
    <3> QED BY <3>1, RankSplits DEF c
  <2>2. k \in Nat /\ d <= k
    BY <1>1
  <2>3. places \cap ((d + 1)..k) = (d + 1)..k
    <3>1. \A i \in (d + 1)..k : i \in (d + 1)..n
      BY <1>1
    <3> QED BY <1>4, <3>1
  <2>4. Cardinality((d + 1)..k) = k - d
    BY <1>1, <2>2, IntervalSize
  <2> QED BY <2>1, <2>3, <2>4
<1>7. c \in Nat
  <2>1. d \in d..n
    BY <1>1
  <2> QED BY <1>6, <2>1
<1> HIDE DEF c
<1>8. kept \in Seq(Actions) /\ Len(kept) = c + (n - d)
  <2>1. kept \in Seq(Actions) /\ Len(kept) = Cardinality(places)
    BY <1>3, <1>5, SelectedFacts
  <2>2. n \in d..n
    BY <1>1
  <2>3. Rank(places, n) = c + (n - d)
    BY <1>6, <2>2
  <2>4. {k \in places : k <= n} = places
    <3>1. \A k \in 1..n : k <= n
      BY <1>1
    <3> QED BY <1>3, <3>1
  <2> QED BY <2>1, <2>3, <2>4 DEF Rank
<1>9. \A i \in places : /\ Rank(places, i) \in 1..Len(kept)
                        /\ kept[Rank(places, i)] = actions[i]
  <2>1. Len(kept) = Cardinality(places)
    BY <1>3, <1>5, SelectedFacts
  <2> QED BY <1>3, <1>5, <2>1, SelectedAt
<1>10. ASSUME NEW j \in 1..(n - d)
       PROVE  /\ c + j \in 1..Len(kept) /\ kept[c + j] = actions[d + j]
              /\ ~kept[c + j].completed
              /\ Rank(places, d + j) = c + j
              /\ d + j \in (d + 1)..n
  <2>1. /\ d + j \in d..n /\ d + j \in (d + 1)..n /\ (d + j) - d = j
        /\ ~(d + j <= d)
    BY <1>1
  <2>2. Rank(places, d + j) = c + j
    BY <1>6, <2>1
  <2>3. d + j \in places
    BY <1>4, <2>1
  <2> QED BY <1>1, <1>2, <1>9, <2>1, <2>2, <2>3
<1>11. \A i, k \in places : Rank(places, i) = Rank(places, k) => i = k
  BY <1>1, <1>3, RankIsBijection
<1>12. ASSUME NEW i \in places, i <= d
       PROVE  Rank(places, i) \in 1..c
  <2> DEFINE r == Rank(places, i)
  <2>1. r \in 1..Len(kept)
    BY <1>9
  <2>2. ASSUME r > c
        PROVE  FALSE
    <3>1. r - c \in 1..(n - d) /\ c + (r - c) = r
      BY <1>1, <1>7, <1>8, <2>1, <2>2
    <3>2. /\ Rank(places, d + (r - c)) = r /\ d + (r - c) \in (d + 1)..n
      BY <1>10, <3>1
    <3>3. d + (r - c) \in places
      BY <1>4, <3>2
    <3>4. i = d + (r - c)
      BY <1>11, <3>2, <3>3
    <3> QED BY <1>2, <1>12, <3>2, <3>4
  <2> HIDE DEF r
  <2>3. r \in 1..c
    BY <1>7, <1>8, <2>1, <2>2
  <2> QED BY <2>3 DEF r
<1>13. ASSUME NEW j \in 1..c
       PROVE  \E i \in places : /\ i \in 1..d /\ kept[j] = actions[i]
                                /\ actions[i].completed
  <2>1. j \in 1..Cardinality(places)
    <3>1. Len(kept) = Cardinality(places)
      BY <1>3, <1>5, SelectedFacts
    <3> QED BY <1>1, <1>7, <1>8, <3>1
  <2>2. PICK i \in places : Rank(places, i) = j
    BY <1>1, <1>3, <2>1, RankIsBijection
  <2>3. i \in 1..n
    BY <1>3
  <2>4. ASSUME ~(i <= d)
        PROVE  FALSE
    <3>1. i \in d..n /\ i - d \in Nat /\ i - d # 0
      BY <1>1, <2>3, <2>4
    <3>2. j = c + (i - d)
      BY <1>6, <2>2, <3>1
    <3> QED BY <1>7, <3>1, <3>2
  <2>5. i \in 1..d
    BY <1>1, <2>3, <2>4
  <2> QED BY <1>1, <1>9, <2>2, <2>3, <2>4, <2>5
<1>14. DoneUpTo(kept, c)
  <2>1. n - d \in Nat /\ Len(kept) = c + (n - d)
    BY <1>1, <1>8
  <2>2. \A j \in 1..Len(kept) : j <= c => j \in 1..c
    BY <1>7, <2>1
  <2>3. \A j \in 1..c : kept[j].completed
    BY <1>13
  <2>4. c \in 0..Len(kept)
    BY <1>1, <1>7, <1>8
  <2>5. ASSUME NEW j \in 1..Len(kept), ~(j <= c)
        PROVE  ~kept[j].completed
    <3>1. j - c \in 1..(n - d) /\ c + (j - c) = j
      BY <1>7, <2>1, <2>5
    <3> QED BY <1>10, <3>1
  <2>6. \A j \in 1..Len(kept) : kept[j].completed <=> j <= c
    BY <2>2, <2>3, <2>5
  <2> QED BY <2>4, <2>6 DEF DoneUpTo
<1>15. /\ PlanOf(kept) = TypesFrom(kept, c)
       /\ StandingOf(kept) = DoneTypes(kept, c)
  BY <1>8, <1>14, PlanFacts
<1>16. TypesFrom(kept, c) = TypesFrom(actions, d)
  <2>1. Len(kept) - c = n - d
    BY <1>1, <1>7, <1>8
  <2> QED BY <1>10, <2>1 DEF TypesFrom, n
<1>17. DoneTypes(kept, c) = DoneTypes(actions, d) \cap Permanent
  <2>1. ASSUME NEW j \in 1..c
        PROVE  kept[j].type \in DoneTypes(actions, d) \cap Permanent
    <3>1. PICK i \in places : /\ i \in 1..d /\ kept[j] = actions[i]
                              /\ actions[i].completed
      BY <1>13
    <3>2. IsPermanent(actions[i])
      BY <1>3, <3>1 DEF Stays
    <3> QED BY <3>1, <3>2 DEF DoneTypes, IsPermanent
  <2>2. ASSUME NEW i \in 1..d, actions[i].type \in Permanent
        PROVE  actions[i].type \in DoneTypes(kept, c)
    <3>1. i \in 1..n /\ i <= d
      BY <1>1
    <3>2. i \in places
      BY <1>3, <2>2, <3>1 DEF Stays, IsPermanent
    <3>3. Rank(places, i) \in 1..c /\ kept[Rank(places, i)] = actions[i]
      BY <1>9, <1>12, <3>1, <3>2
    <3> QED BY <3>3 DEF DoneTypes
  <2> QED BY <2>1, <2>2 DEF DoneTypes
<1> QED BY <1>15, <1>16, <1>17 DEF kept

(* What one call does to a plan: `before' are the actions when it starts   *)
(* any, `after' when it has, and those from the d-th to the e-th are done. *)
MoreDone(before, d, after, e) ==
    /\ before \in Seq(Actions) /\ DoneUpTo(before, d)
    /\ DoneTypes(before, d) \subseteq Permanent
    /\ after \in Seq(Actions) /\ Len(after) = Len(before)
    /\ \A i \in 1..Len(before) :
           /\ after[i].type = before[i].type
           /\ before[i].completed => after[i].completed
    /\ DoneUpTo(after, e)

(* The first k of the actions ts are done, the others are left.            *)
Leaves(kept, ts, standing, k) ==
    /\ PlanOf(kept) = SubSeq(ts, k + 1, Len(ts))
    /\ StandingOf(kept) =
           standing \cup (ToSet(SubSeq(ts, 1, k)) \cap Permanent)

LEMMA Progress ==
    ASSUME NEW before, NEW d, NEW after, NEW e,
           MoreDone(before, d, after, e)
    PROVE  /\ e - d \in 0..Len(TypesFrom(before, d))
           /\ Leaves(Kept(after), TypesFrom(before, d),
                     DoneTypes(before, d), e - d)
<1> DEFINE n == Len(before)
           ts == TypesFrom(before, d)
           k == e - d
           rest == SubSeq(ts, k + 1, Len(ts))
           first == SubSeq(ts, 1, k)
<1>0. /\ before \in Seq(Actions) /\ DoneUpTo(before, d)
      /\ after \in Seq(Actions) /\ Len(after) = Len(before)
      /\ DoneUpTo(after, e)
  BY DEF MoreDone
<1>1. /\ n \in Nat /\ d \in 0..n /\ e \in 0..n /\ d \in Nat /\ e \in Nat
      /\ \A i \in 1..n : /\ before[i].completed <=> i <= d
                         /\ after[i].completed <=> i <= e
  BY <1>0, ActionFacts DEF DoneUpTo
<1>2. /\ ts \in Seq(Types) /\ Len(ts) = n - d /\ Len(ts) \in Nat
      /\ DOMAIN ts = 1..Len(ts)
      /\ \A j \in 1..Len(ts) :
             d + j \in 1..n /\ ts[j] = before[d + j].type
  BY <1>0, <1>1, TypesFromFacts
<1>3. PlanOf(Kept(after)) = TypesFrom(after, e)
      /\ StandingOf(Kept(after)) = DoneTypes(after, e) \cap Permanent
  BY <1>0, KeptPlan
<1>4. /\ TypesFrom(after, e) \in Seq(Types)
      /\ Len(TypesFrom(after, e)) = n - e
      /\ \A j \in 1..(n - e) : /\ e + j \in 1..n
                               /\ TypesFrom(after, e)[j] = after[e + j].type
  BY <1>0, <1>1, TypesFromFacts
<1>5. /\ \A i \in 1..n : after[i].type = before[i].type
      /\ \A i \in 1..n : before[i].completed => after[i].completed
      /\ DoneTypes(before, d) \subseteq Permanent
  BY DEF MoreDone
<1> HIDE DEF n, ts
<1>6. d <= e
  <2>1. CASE d = 0
    BY <1>1, <2>1
  <2>2. CASE d # 0
    <3>1. d \in 1..n /\ d <= d
      BY <1>1, <2>2
    <3> QED BY <1>1, <1>5, <3>1
  <2> QED BY <2>1, <2>2
<1>7. /\ k \in 0..Len(ts) /\ k \in Nat /\ d + k = e
      /\ Len(ts) - k = n - e
  BY <1>1, <1>2, <1>6
<1>8. \A i \in 1..Len(ts) : ts[i] \in Types
  BY <1>2, ElementOfSeq
<1>9. /\ rest \in Seq(Types) /\ Len(rest) = Len(ts) - k
      /\ \A j \in 1..(Len(ts) - k) : rest[j] = ts[k + j]
  <2> DEFINE l == Len(ts)
  <2>1. /\ l \in Nat /\ k \in Nat /\ k <= l
        /\ \A i \in (k + 1)..l : ts[i] \in Types
    BY <1>2, <1>7, <1>8
  <2> HIDE DEF k, l
  <2>2. /\ SubSeq(ts, k + 1, l) \in Seq(Types)
        /\ Len(SubSeq(ts, k + 1, l)) =
               IF k + 1 <= l THEN l - (k + 1) + 1 ELSE 0
        /\ \A i \in 1..l - (k + 1) + 1 :
               SubSeq(ts, k + 1, l)[i] = ts[(k + 1) + i - 1]
    BY <2>1, SubSeqProperties
  <2>3. /\ (IF k + 1 <= l THEN l - (k + 1) + 1 ELSE 0) = l - k
        /\ l - (k + 1) + 1 = l - k
        /\ \A i \in 1..(l - k) : (k + 1) + i - 1 = k + i
    BY <2>1
  <2> QED BY <2>2, <2>3 DEF l
<1>10. /\ first \in Seq(Types) /\ DOMAIN first = 1..k
       /\ \A j \in 1..k : first[j] = ts[j]
  <2>1. k \in Nat /\ \A i \in 1..k : ts[i] \in Types
    BY <1>2, <1>7, <1>8
  <2> HIDE DEF k
  <2>2. /\ SubSeq(ts, 1, k) \in Seq(Types)
        /\ Len(SubSeq(ts, 1, k)) = IF 1 <= k THEN k - 1 + 1 ELSE 0
        /\ \A i \in 1..k - 1 + 1 : SubSeq(ts, 1, k)[i] = ts[1 + i - 1]
    BY <2>1, SubSeqProperties
  <2>3. /\ (IF 1 <= k THEN k - 1 + 1 ELSE 0) = k /\ k - 1 + 1 = k
        /\ \A i \in 1..k : 1 + i - 1 = i
    BY <2>1
  <2>4. Len(SubSeq(ts, 1, k)) = k
    BY <2>2, <2>3
  <2> QED BY <2>2, <2>3, <2>4, LenProperties
<1> HIDE DEF rest, first
<1>11. TypesFrom(after, e) = rest
  <2>1. ASSUME NEW j \in 1..(n - e)
        PROVE  TypesFrom(after, e)[j] = rest[j]
    <3>1. /\ k + j \in 1..Len(ts) /\ d + (k + j) = e + j
          /\ j \in 1..(Len(ts) - k)
      BY <1>1, <1>2, <1>7
    <3>2. ts[k + j] = before[e + j].type
      BY <1>2, <3>1
    <3> QED BY <1>4, <1>5, <1>9, <3>1, <3>2
  <2> DEFINE t == TypesFrom(after, e)
  <2>2. /\ t \in Seq(Types) /\ rest \in Seq(Types)
        /\ Len(t) = n - e /\ Len(rest) = n - e
    BY <1>4, <1>7, <1>9
  <2>3. \A j \in 1..Len(t) : t[j] = rest[j]
    BY <2>1, <2>2
  <2> HIDE DEF t
  <2>4. t = rest
    BY <2>2, <2>3, SeqEqual
  <2> QED BY <2>4 DEF t
<1>12. ToSet(first) = {before[i].type : i \in (d + 1)..e}
  <2>1. \A j \in 1..k : /\ d + j \in (d + 1)..e
                        /\ first[j] = before[d + j].type
    BY <1>1, <1>2, <1>7, <1>10
  <2>2. \A i \in (d + 1)..e : i - d \in 1..k /\ d + (i - d) = i
    BY <1>1, <1>7
  <2>3. \A i \in (d + 1)..e : first[i - d] = before[i].type
    BY <2>1, <2>2
  <2>4. ToSet(first) = {first[j] : j \in 1..k}
    BY <1>10 DEF ToSet
  <2> HIDE DEF k
  <2> QED BY <2>1, <2>2, <2>3, <2>4
<1>13. DoneTypes(after, e) = DoneTypes(before, d)
                                 \cup {before[i].type : i \in (d + 1)..e}
  <2>1. \A i \in 1..e : i \in 1..n /\ (i \in 1..d \/ i \in (d + 1)..e)
    BY <1>1
  <2>2. \A i \in 1..d : i \in 1..e
    BY <1>1, <1>6
  <2>3. \A i \in (d + 1)..e : i \in 1..e
    BY <1>1
  <2> QED BY <1>5, <2>1, <2>2, <2>3 DEF DoneTypes
<1> QED BY <1>3, <1>5, <1>7, <1>11, <1>12, <1>13 DEF Leaves, ts, rest, first

(* A session has one action of each permanent class, done or to be done.   *)
LEMMA NoneIsTwice ==
    ASSUME NEW actions \in Seq(Actions), Single(actions),
           NEW d \in 0..Len(actions)
    PROVE  Plan!NoneTwice(TypesFrom(actions, d), DoneTypes(actions, d))
<1> DEFINE ts == TypesFrom(actions, d)
<1>1. /\ Len(actions) \in Nat /\ DOMAIN actions = 1..Len(actions)
      /\ d \in Nat /\ d <= Len(actions)
  BY ActionFacts
<1>2. /\ DOMAIN ts = 1..Len(ts) /\ Len(ts) \in Nat
      /\ \A j \in 1..Len(ts) :
             d + j \in 1..Len(actions) /\ ts[j] = actions[d + j].type
  BY TypesFromFacts
<1>3. \A i, j \in 1..Len(actions) :
          actions[i].type = actions[j].type /\ actions[i].type \in Permanent
              => i = j
  BY <1>1 DEF Single, IsPermanent
<1> HIDE DEF ts
<1>4. ASSUME NEW i \in 1..Len(ts), ts[i] \in Permanent
      PROVE  /\ ts[i] \notin DoneTypes(actions, d)
             /\ \A j \in 1..Len(ts) : ts[j] = ts[i] => j = i
  <2>1. \A j \in 1..d : j \in 1..Len(actions) /\ j # d + i
    BY <1>1
  <2>2. \A j \in 1..Len(ts) : d + j = d + i => j = i
    BY <1>1
  <2> QED BY <1>2, <1>3, <1>4, <2>1, <2>2 DEF DoneTypes
<1> QED BY <1>2, <1>4 DEF Plan!NoneTwice, ts

LEMMA SettledPlan ==
    ASSUME NEW actions, Orderly(actions), Settled(actions),
           NEW d, DoneUpTo(actions, d)
    PROVE  /\ PlanOf(actions) = TypesFrom(actions, d)
           /\ StandingOf(actions) = DoneTypes(actions, d)
           /\ DoneTypes(actions, d) \subseteq Permanent
<1>1. actions \in Seq(Actions)
  BY DEF Orderly
<1>2. Len(actions) \in Nat /\ DOMAIN actions = 1..Len(actions)
  BY <1>1, ActionFacts
<1>3. \A i \in 1..d : i \in 1..Len(actions) /\ i <= d
  BY <1>2 DEF DoneUpTo
<1>4. \A i \in 1..d : actions[i].type \in Permanent
  BY <1>2, <1>3 DEF DoneUpTo, Settled, IsPermanent
<1> QED BY <1>1, <1>4, PlanFacts DEF DoneTypes

-----------------------------------------------------------------------------
(* The loops are what their turns make of what they start from.            *)

AddRuns(run, actions, request, outcomes) ==
    /\ run[0] = Adding(actions)
    /\ \A k \in 1..Len(request) :
           run[k] = AddTurn(run[k - 1], request[k], outcomes[k])
    /\ AddLoop(actions, request, outcomes) = run[Len(request)]

LEMMA AddLoopRuns ==
    ASSUME NEW actions, NEW request, Len(request) \in Nat, NEW outcomes
    PROVE  \E run : AddRuns(run, actions, request, outcomes)
<1> DEFINE n == Len(request)
           F(f, m) == [k \in 0..m |->
                          IF k = 0 THEN Adding(actions)
                          ELSE AddTurn(f[k - 1], request[k], outcomes[k])]
           T == {m \in 0..n : \E f : f = F(f, m)}
           run == CHOOSE f : f = F(f, n)
<1>1. 0 \in T
  <2> DEFINE z == [k \in 0..0 |-> Adding(actions)]
  <2>1. \A k \in 0..0 : k = 0
    OBVIOUS
  <2>2. \A k \in 0..0 : z[k] = F(z, 0)[k]
    BY <2>1
  <2>3. z = [k \in 0..0 |-> z[k]]
    OBVIOUS
  <2> HIDE DEF z
  <2>4. z = F(z, 0)
    BY <2>2, <2>3
  <2> QED BY <2>4
<1>2. ASSUME NEW m \in 0..n, m \in T, m < n
      PROVE  m + 1 \in T
  <2>1. PICK f : f = F(f, m)
    BY <1>2
  <2> DEFINE e == AddTurn(f[m], request[m + 1], outcomes[m + 1])
             g == [k \in 0..(m + 1) |-> IF k = m + 1 THEN e ELSE f[k]]
  <2>2. m \in Nat /\ m + 1 \in 0..n
    BY <1>2
  <2>3. \A k \in 0..m : f[k] = F(f, m)[k] /\ g[k] = f[k]
    BY <2>1, <2>2
  <2>4. ASSUME NEW k \in 0..(m + 1)
        PROVE  g[k] = F(g, m + 1)[k]
    <3>1. CASE k = m + 1
      <4>1. g[k - 1] = f[m] /\ k # 0
        BY <2>2, <2>3, <3>1
      <4> QED BY <2>2, <3>1, <4>1
    <3>2. CASE k # m + 1 /\ k # 0
      <4>1. k \in 0..m /\ k - 1 \in 0..m
        BY <2>2, <3>2
      <4> QED BY <2>3, <3>2, <4>1
    <3>3. CASE k = 0
      <4>1. k \in 0..m
        BY <2>2, <3>3
      <4> QED BY <2>3, <3>3, <4>1
    <3> QED BY <3>1, <3>2, <3>3
  <2>5. g = F(g, m + 1)
    <3>1. g = [k \in 0..(m + 1) |-> g[k]]
      OBVIOUS
    <3> QED BY <2>4, <3>1
  <2> QED BY <2>2, <2>5
<1>3. \A m \in 0..n : m \in T
  <2> HIDE DEF T, n
  <2> QED BY <1>1, <1>2, Induction DEF n
<1>4. run = F(run, n)
  <2>1. n \in T
    BY <1>3
  <2> QED BY <2>1
<1>5. AddLoop(actions, request, outcomes) = run[n]
  BY DEF AddLoop
<1> HIDE DEF run
<1>6. run[0] = Adding(actions)
  <2>1. 0 \in 0..n
    OBVIOUS
  <2> QED BY <1>4, <2>1
<1>7. ASSUME NEW k \in 1..n
      PROVE  run[k] = AddTurn(run[k - 1], request[k], outcomes[k])
  <2>1. k \in 0..n /\ k # 0
    OBVIOUS
  <2> QED BY <1>4, <2>1
<1> QED BY <1>5, <1>6, <1>7 DEF AddRuns

ProcessRuns(run, actions, i, outcomes) ==
    /\ run[0] = Offering(actions)
    /\ \A k \in 1..Len(actions) :
           run[k] = ProcessTurn(run[k - 1], k, i, outcomes[k])
    /\ ProcessLoop(actions, i, outcomes) = run[Len(actions)]

LEMMA ProcessLoopRuns ==
    ASSUME NEW actions, Len(actions) \in Nat, NEW i, NEW outcomes
    PROVE  \E run : ProcessRuns(run, actions, i, outcomes)
<1> DEFINE n == Len(actions)
           F(f, m) == [k \in 0..m |->
                          IF k = 0 THEN Offering(actions)
                          ELSE ProcessTurn(f[k - 1], k, i, outcomes[k])]
           T == {m \in 0..n : \E f : f = F(f, m)}
           run == CHOOSE f : f = F(f, n)
<1>1. 0 \in T
  <2> DEFINE z == [k \in 0..0 |-> Offering(actions)]
  <2>1. \A k \in 0..0 : k = 0
    OBVIOUS
  <2>2. \A k \in 0..0 : z[k] = F(z, 0)[k]
    BY <2>1
  <2>3. z = [k \in 0..0 |-> z[k]]
    OBVIOUS
  <2> HIDE DEF z
  <2>4. z = F(z, 0)
    BY <2>2, <2>3
  <2> QED BY <2>4
<1>2. ASSUME NEW m \in 0..n, m \in T, m < n
      PROVE  m + 1 \in T
  <2>1. PICK f : f = F(f, m)
    BY <1>2
  <2> DEFINE e == ProcessTurn(f[m], m + 1, i, outcomes[m + 1])
             g == [k \in 0..(m + 1) |-> IF k = m + 1 THEN e ELSE f[k]]
  <2>2. m \in Nat /\ m + 1 \in 0..n
    BY <1>2
  <2>3. \A k \in 0..m : f[k] = F(f, m)[k] /\ g[k] = f[k]
    BY <2>1, <2>2
  <2>4. ASSUME NEW k \in 0..(m + 1)
        PROVE  g[k] = F(g, m + 1)[k]
    <3>1. CASE k = m + 1
      <4>1. g[k - 1] = f[m] /\ k # 0
        BY <2>2, <2>3, <3>1
      <4> QED BY <2>2, <3>1, <4>1
    <3>2. CASE k # m + 1 /\ k # 0
      <4>1. k \in 0..m /\ k - 1 \in 0..m
        BY <2>2, <3>2
      <4> QED BY <2>3, <3>2, <4>1
    <3>3. CASE k = 0
      <4>1. k \in 0..m
        BY <2>2, <3>3
      <4> QED BY <2>3, <3>3, <4>1
    <3> QED BY <3>1, <3>2, <3>3
  <2>5. g = F(g, m + 1)
    <3>1. g = [k \in 0..(m + 1) |-> g[k]]
      OBVIOUS
    <3> QED BY <2>4, <3>1
  <2> QED BY <2>2, <2>5
<1>3. \A m \in 0..n : m \in T
  <2> HIDE DEF T, n
  <2> QED BY <1>1, <1>2, Induction DEF n
<1>4. run = F(run, n)
  <2>1. n \in T
    BY <1>3
  <2> QED BY <2>1
<1>5. ProcessLoop(actions, i, outcomes) = run[n]
  BY DEF ProcessLoop
<1> HIDE DEF run
<1>6. run[0] = Offering(actions)
  <2>1. 0 \in 0..n
    OBVIOUS
  <2> QED BY <1>4, <2>1
<1>7. ASSUME NEW k \in 1..n
      PROVE  run[k] = ProcessTurn(run[k - 1], k, i, outcomes[k])
  <2>1. k \in 0..n /\ k # 0
    OBVIOUS
  <2> QED BY <1>4, <2>1
<1> QED BY <1>5, <1>6, <1>7 DEF ProcessRuns

-----------------------------------------------------------------------------
(* Calls of initiate() and process() of an action.                         *)

LEMMA CalledFacts ==
    ASSUME NEW s \in 0..2
    PROVE  Called(s) \in 0..2 /\ Called(s) > 0 /\ (Called(s) > 1 => s > 0)
BY DEF Called

LEMMA InitiateFacts ==
    ASSUME NEW a \in Actions, NEW outcome \in Outcomes
    PROVE  LET b == Initiate(a, outcome) IN
           /\ b \in Actions /\ b.type = a.type
           /\ b.starts = Called(a.starts)
           /\ b.completed <=> a.completed \/ outcome.completed
           /\ b.errored <=> outcome.errored
<1>1. a.starts \in 0..2 /\ Called(a.starts) \in 0..2
  BY CalledFacts DEF Actions
<1> QED BY <1>1 DEF Initiate, Actions, Outcomes

LEMMA AnswerFacts ==
    ASSUME NEW a \in Actions, NEW outcome \in Outcomes
    PROVE  LET b == Answer(a, outcome) IN
           /\ b \in Actions /\ b.type = a.type
           /\ b.starts = a.starts
           /\ b.completed <=> a.completed \/ outcome.completed
           /\ b.errored <=> outcome.errored
BY DEF Answer, Actions, Outcomes

(* What a loop finds: all before its first action is completed, and what   *)
(* behind it is started already was started behind a permanent action.     *)
Ready(actions, first) ==
    /\ actions \in Seq(Actions) /\ first \in 1..(Len(actions) + 1)
    /\ \A i \in 1..(first - 1) : actions[i].completed
    /\ \A i \in first..Len(actions) : actions[i].starts > 0 =>
           /\ \A j \in 1..(i - 1) : actions[j].completed
           /\ BehindPermanent(actions, i)
    /\ CompletedStarted(actions) /\ Single(actions) /\ OnceEach(actions)

LEMMA ReadyAll ==
    ASSUME NEW actions, Ready(actions, Len(actions) + 1)
    PROVE  Orderly(actions)
<1>1. /\ actions \in Seq(Actions) /\ Len(actions) \in Nat
      /\ DOMAIN actions = 1..Len(actions)
  BY ActionFacts DEF Ready
<1>2. \A i \in 1..Len(actions) : actions[i].completed
  <2>1. (Len(actions) + 1) - 1 = Len(actions)
    BY <1>1
  <2> QED BY <2>1 DEF Ready
<1>3. Ordered(actions)
  <2>1. \A i \in 1..Len(actions) : actions[i].starts > 0
    BY <1>1, <1>2 DEF Ready, CompletedStarted
  <2>2. \A i \in 1..Len(actions) : \A j \in 1..(i - 1) :
            j \in 1..Len(actions)
    BY <1>1
  <2> QED BY <1>1, <1>2, <2>1, <2>2 DEF Ordered
<1> QED BY <1>1, <1>3 DEF Ready, Orderly

(* One turn of a loop that starts actions: the loop is ready for the next  *)
(* one, or the action waits.                                               *)
LEMMA ReadyStep ==
    ASSUME NEW actions, NEW m, Ready(actions, m), m <= Len(actions),
           NEW outcome \in Outcomes
    PROVE  LET b == Initiate(actions[m], outcome)
               new == [actions EXCEPT ![m] = b]
           IN  IF b.completed THEN Ready(new, m + 1) ELSE Orderly(new)
<1> DEFINE n == Len(actions)
           b == Initiate(actions[m], outcome)
           new == [actions EXCEPT ![m] = b]
<1>1. /\ actions \in Seq(Actions) /\ n \in Nat /\ m \in 1..n /\ m \in Nat
      /\ DOMAIN actions = 1..n
      /\ \A j \in 1..n : /\ actions[j] \in Actions
                         /\ actions[j].starts \in 0..2
  BY ActionFacts DEF Ready
<1>2. /\ \A i \in 1..(m - 1) : actions[i].completed
      /\ \A i \in m..n : actions[i].starts > 0 =>
             /\ \A j \in 1..(i - 1) : actions[j].completed
             /\ BehindPermanent(actions, i)
      /\ \A i \in 1..n : actions[i].completed => actions[i].starts > 0
      /\ \A i, j \in 1..n :
             actions[i].type = actions[j].type /\ IsPermanent(actions[i])
                 => i = j
      /\ \A i \in 1..n : actions[i].starts > 1 => BehindPermanent(actions, i)
  BY <1>1 DEF Ready, CompletedStarted, Single, OnceEach
<1>3. /\ b \in Actions /\ b.type = actions[m].type
      /\ b.starts = Called(actions[m].starts)
      /\ b.completed <=> actions[m].completed \/ outcome.completed
  BY <1>1, InitiateFacts
<1> HIDE DEF b
<1>4. /\ new \in Seq(Actions) /\ Len(new) = n
      /\ \A j \in 1..n : new[j] = IF j = m THEN b ELSE actions[j]
  BY <1>1, <1>3, ExceptSeq
<1> HIDE DEF new, n
<1>5. DOMAIN new = 1..n
  BY <1>4, LenProperties
<1>6. ASSUME NEW j \in 1..n
      PROVE  /\ new[j].type = actions[j].type
             /\ actions[j].completed => new[j].completed
             /\ j # m => new[j] = actions[j]
             /\ j = m => new[j] = b /\ new[j].starts > 0
             /\ IsPermanent(new[j]) <=> IsPermanent(actions[j])
  BY <1>1, <1>3, <1>4, CalledFacts DEF IsPermanent
<1>7. ASSUME NEW i \in 1..n, BehindPermanent(actions, i)
      PROVE  BehindPermanent(new, i)
  <2>1. PICK j \in 1..(i - 1) :
            IsPermanent(actions[j]) /\ actions[j].completed
    BY <1>7 DEF BehindPermanent
  <2>2. j \in 1..n
    BY <1>1
  <2> QED BY <1>6, <2>1, <2>2 DEF BehindPermanent
<1>8. CompletedStarted(new)
  BY <1>2, <1>5, <1>6 DEF CompletedStarted
<1>9. Single(new)
  BY <1>2, <1>5, <1>6 DEF Single
<1>10. OnceEach(new)
  <2>1. ASSUME NEW i \in 1..n, new[i].starts > 1
        PROVE  BehindPermanent(actions, i)
    <3>1. CASE i = m
      <4>1. actions[m].starts > 0
        BY <1>1, <1>3, <1>6, <2>1, <3>1, CalledFacts
      <4>2. m \in m..n
        BY <1>1
      <4> QED BY <1>2, <3>1, <4>1, <4>2
    <3>2. CASE i # m
      BY <1>2, <1>6, <2>1, <3>2
    <3> QED BY <3>1, <3>2
  <2> QED BY <1>5, <1>7, <2>1 DEF OnceEach
<1>11. \A i \in 1..n : \A j \in 1..(i - 1) : j \in 1..n
  BY <1>1
<1>12. CASE b.completed
  <2>1. m + 1 \in 1..(n + 1) /\ (m + 1) - 1 = m
    BY <1>1
  <2>2. \A i \in 1..m : new[i].completed
    <3>1. \A i \in 1..m : i \in 1..n /\ (i = m \/ i \in 1..(m - 1))
      BY <1>1
    <3> QED BY <1>2, <1>6, <1>12, <3>1
  <2>3. ASSUME NEW i \in (m + 1)..n, new[i].starts > 0
        PROVE  /\ \A j \in 1..(i - 1) : new[j].completed
               /\ BehindPermanent(new, i)
    <3>1. i \in 1..n /\ i # m /\ i \in m..n
      BY <1>1
    <3>2. actions[i].starts > 0
      BY <1>6, <2>3, <3>1
    <3> QED BY <1>2, <1>6, <1>7, <1>11, <3>1, <3>2
  <2>4. Ready(new, m + 1)
    BY <1>4, <1>8, <1>9, <1>10, <2>1, <2>2, <2>3 DEF Ready
  <2> QED BY <1>12, <2>4 DEF b, new
<1>13. CASE ~b.completed
  <2>1. ASSUME NEW i \in 1..n
        PROVE  new[i].starts > 0 <=> \A j \in 1..(i - 1) : new[j].completed
    <3>1. CASE i < m
      <4>1. i \in 1..(m - 1) /\ \A j \in 1..(i - 1) : j \in 1..(m - 1)
        BY <1>1, <3>1
      <4>2. actions[i].starts > 0 /\ i # m
        BY <1>1, <1>2, <4>1
      <4> QED BY <1>2, <1>6, <1>11, <4>1, <4>2
    <3>2. CASE i = m
      <4>1. \A j \in 1..(i - 1) : j \in 1..(m - 1)
        BY <3>2
      <4> QED BY <1>2, <1>6, <1>11, <3>2, <4>1
    <3>3. CASE m < i
      <4>1. m \in 1..(i - 1) /\ i # m /\ i \in m..n
        BY <1>1, <3>3
      <4>2. ~new[m].completed /\ ~actions[m].completed
        BY <1>1, <1>3, <1>6, <1>13
      <4>3. ~(actions[i].starts > 0)
        BY <1>2, <4>1, <4>2
      <4> QED BY <1>6, <4>1, <4>2, <4>3
    <3> QED BY <1>1, <3>1, <3>2, <3>3
  <2>2. Ordered(new)
    BY <1>5, <2>1 DEF Ordered
  <2>3. Orderly(new)
    BY <1>4, <1>8, <1>9, <1>10, <2>2 DEF Orderly
  <2> QED BY <1>13, <2>3 DEF b, new
<1> QED BY <1>12, <1>13 DEF b, new

-----------------------------------------------------------------------------
(* process(): an action is offered a packet, and the next ones start.      *)

LEMMA AnsweredCases ==
    ASSUME NEW actions, Orderly(actions), Settled(actions),
           NEW i \in 1..Len(actions), NEW outcome \in Outcomes,
           actions[i].starts > 0
    PROVE  LET b == Answer(actions[i], outcome)
               new == [actions EXCEPT ![i] = b]
           IN  IF b.completed THEN Ready(new, i + 1) ELSE Orderly(new)
<1> DEFINE b == Answer(actions[i], outcome)
           new == [actions EXCEPT ![i] = b]
<1>1. /\ actions \in Seq(Actions) /\ Len(actions) \in Nat /\ i \in Nat
      /\ DOMAIN actions = 1..Len(actions) /\ actions[i] \in Actions
  BY ActionFacts DEF Orderly
<1>2. /\ b \in Actions /\ b.type = actions[i].type
      /\ b.starts = actions[i].starts
      /\ b.completed <=> actions[i].completed \/ outcome.completed
  BY <1>1, AnswerFacts
<1> HIDE DEF b
<1>3. /\ new \in Seq(Actions) /\ Len(new) = Len(actions)
      /\ \A j \in 1..Len(actions) :
             new[j] = IF j = i THEN b ELSE actions[j]
  BY <1>1, <1>2, ExceptSeq
<1> HIDE DEF new
<1>0. DOMAIN new = 1..Len(actions)
  BY <1>3, LenProperties
<1>4. ASSUME NEW j \in 1..Len(actions)
      PROVE  /\ new[j].type = actions[j].type
             /\ new[j].starts = actions[j].starts
             /\ actions[j].completed => new[j].completed
             /\ new[j].completed => actions[j].completed \/ j = i
             /\ IsPermanent(new[j]) <=> IsPermanent(actions[j])
  BY <1>2, <1>3 DEF IsPermanent
<1>5. \A j \in 1..(i - 1) : j \in 1..Len(actions) /\ actions[j].completed
  BY <1>1 DEF Orderly, Ordered
<1>6. CompletedStarted(new)
  BY <1>0, <1>1, <1>4 DEF CompletedStarted, Orderly
<1>7. Single(new)
  BY <1>0, <1>1, <1>4 DEF Single, Orderly
<1>8. ASSUME NEW j \in 1..Len(actions), BehindPermanent(actions, j)
      PROVE  BehindPermanent(new, j)
  <2>1. PICK k \in 1..(j - 1) :
            IsPermanent(actions[k]) /\ actions[k].completed
    BY <1>8 DEF BehindPermanent
  <2>2. k \in 1..Len(actions)
    BY <1>1
  <2> QED BY <1>4, <2>1, <2>2 DEF BehindPermanent
<1>9. OnceEach(new)
  BY <1>0, <1>1, <1>4, <1>8 DEF OnceEach, Orderly
<1>10. CASE b.completed
  <2>1. \A j \in 1..i : new[j].completed
    BY <1>1, <1>3, <1>4, <1>5, <1>10
  <2>2. ASSUME NEW j \in (i + 1)..Len(actions), new[j].starts > 0
        PROVE  /\ \A k \in 1..(j - 1) : new[k].completed
               /\ BehindPermanent(new, j)
    <3>1. /\ j \in 1..Len(actions) /\ i \in 1..(j - 1)
          /\ \A k \in 1..(j - 1) : k \in 1..Len(actions)
      BY <1>1
    <3>2. \A k \in 1..(j - 1) : actions[k].completed
      BY <1>1, <1>4, <2>2, <3>1 DEF Orderly, Ordered
    <3>3. IsPermanent(actions[i]) /\ actions[i].completed
      BY <1>1, <3>1, <3>2 DEF Settled
    <3>4. BehindPermanent(actions, j)
      BY <3>1, <3>3 DEF BehindPermanent
    <3> QED BY <1>4, <1>8, <3>1, <3>2, <3>4
  <2>3. /\ i + 1 \in 1..(Len(new) + 1) /\ (i + 1) - 1 = i
    BY <1>1, <1>3
  <2>4. Ready(new, i + 1)
    BY <1>3, <1>6, <1>7, <1>9, <2>1, <2>2, <2>3 DEF Ready
  <2> QED BY <1>10, <2>4 DEF new, b
<1>11. CASE ~b.completed
  <2>1. \A j \in 1..Len(actions) :
            new[j].completed <=> actions[j].completed
    BY <1>3, <1>4, <1>11
  <2>2. Ordered(new)
    <3>1. \A j \in 1..Len(actions) : \A k \in 1..(j - 1) :
              k \in 1..Len(actions)
      BY <1>1
    <3>2. \A j \in 1..Len(actions) :
              new[j].starts > 0
                  <=> \A k \in 1..(j - 1) : actions[k].completed
      BY <1>1, <1>4 DEF Orderly, Ordered
    <3> QED BY <1>0, <2>1, <3>1, <3>2 DEF Ordered
  <2> QED BY <1>3, <1>6, <1>7, <1>9, <1>11, <2>2 DEF Orderly, new, b
<1> QED BY <1>10, <1>11 DEF new, b

(* What the loop of process() has made of the actions after k turns, if no *)
(* action has failed.  It counts right as long as none stays.              *)
SameActions(actions, k, new) ==
    /\ new \in Seq(Actions) /\ Len(new) = Len(actions)
    /\ \A j \in 1..Len(actions) : /\ new[j].type = actions[j].type
                                  /\ actions[j].completed => new[j].completed
                                  /\ ~new[j].errored
                                  /\ k < j => new[j] = actions[j]

Stage(actions, i, k, loop) ==
    /\ loop.stopped => /\ loop.initiate /\ Orderly(loop.actions)
                       /\ \E j \in 1..k : ~loop.actions[j].completed
    /\ loop.initiate => i <= k
    /\ loop.initiate /\ ~loop.stopped => Ready(loop.actions, k + 1)
    /\ ~loop.initiate /\ k < i => loop.actions = actions
    /\ ~loop.initiate /\ i <= k => /\ Orderly(loop.actions)
                                   /\ ~loop.actions[i].completed

Counted(k, loop) ==
    (\A j \in 1..k : /\ loop.actions[j].completed
                     /\ ~IsPermanent(loop.actions[j]))
        => loop.disposed = k

Offered(actions, i, k, loop) ==
    /\ ~loop.errored /\ SameActions(actions, k, loop.actions)
    /\ Stage(actions, i, k, loop) /\ Counted(k, loop)

LEMMA OfferedTurn ==
    ASSUME NEW actions, Orderly(actions), Settled(actions),
           NEW i \in 1..Len(actions), actions[i].starts > 0,
           NEW k \in 1..Len(actions), NEW loop,
           Offered(actions, i, k - 1, loop), NEW outcome \in Outcomes,
           ~ProcessTurn(loop, k, i, outcome).errored
    PROVE  Offered(actions, i, k, ProcessTurn(loop, k, i, outcome))
<1> DEFINE n == Len(actions)
           old == loop.actions
           b == IF loop.initiate THEN Initiate(old[k], outcome)
                ELSE IF k = i THEN Answer(old[k], outcome) ELSE old[k]
           new == [old EXCEPT ![k] = b]
           turn == ProcessTurn(loop, k, i, outcome)
<1>1. /\ actions \in Seq(Actions) /\ n \in Nat /\ DOMAIN actions = 1..n
      /\ k \in 1..n /\ k \in Nat /\ i \in 1..n /\ i \in Nat
      /\ \A j \in 1..n : actions[j].completed => IsPermanent(actions[j])
  BY ActionFacts DEF Orderly, Settled
<1>2. /\ old \in Seq(Actions) /\ Len(old) = n
      /\ \A j \in 1..n : /\ old[j].type = actions[j].type
                         /\ actions[j].completed => old[j].completed
                         /\ ~old[j].errored
                         /\ k - 1 < j => old[j] = actions[j]
  BY DEF Offered, SameActions
<1>3. /\ ~loop.errored
      /\ loop.stopped => /\ loop.initiate /\ Orderly(old)
                         /\ \E j \in 1..(k - 1) : ~old[j].completed
      /\ loop.initiate => i <= k - 1
      /\ loop.initiate /\ ~loop.stopped => Ready(old, (k - 1) + 1)
      /\ ~loop.initiate /\ k - 1 < i => old = actions
      /\ ~loop.initiate /\ i <= k - 1 => Orderly(old) /\ ~old[i].completed
  BY DEF Offered, Stage
<1>4. (\A j \in 1..(k - 1) : old[j].completed /\ ~IsPermanent(old[j]))
          => loop.disposed = k - 1
  BY DEF Offered, Counted
<1>5. CASE loop.stopped
  <2>1. turn = loop
    BY <1>5 DEF ProcessTurn, Halted
  <2>2. PICK j \in 1..(k - 1) : ~old[j].completed
    BY <1>3, <1>5
  <2>3. j \in 1..k /\ i <= k /\ \A m \in 1..n : k < m => k - 1 < m
    BY <1>1, <1>3, <1>5
  <2>4. \E m \in 1..k : ~old[m].completed
    BY <2>2, <2>3
  <2> HIDE DEF turn
  <2>5. SameActions(actions, k, old)
    BY <1>2, <2>3 DEF SameActions
  <2>6. Stage(actions, i, k, loop)
    BY <1>3, <1>5, <2>3, <2>4 DEF Stage
  <2>7. Counted(k, loop)
    BY <2>4 DEF Counted
  <2>8. Offered(actions, i, k, loop)
    BY <1>3, <2>5, <2>6, <2>7 DEF Offered
  <2> QED BY <2>1, <2>8 DEF turn
<1>6. CASE ~loop.stopped
  <2>1. turn = [actions |-> new,
                initiate |-> loop.initiate \/ (k = i /\ b.completed),
                errored |-> b.errored,
                stopped |-> loop.initiate /\ ~b.completed,
                disposed |-> IF loop.initiate \/ k = i
                             THEN Disposed(loop, b) ELSE loop.disposed]
    BY <1>3, <1>6 DEF ProcessTurn, Halted
  <2>2. /\ b \in Actions /\ b.type = old[k].type
        /\ old[k].completed => b.completed
    <3>1. old[k] \in Actions
      BY <1>1, <1>2, ElementOfSeq
    <3> QED BY <3>1, InitiateFacts, AnswerFacts
  <2>3. /\ loop.initiate => b = Initiate(old[k], outcome)
        /\ ~loop.initiate /\ k = i => b = Answer(old[k], outcome)
        /\ ~loop.initiate /\ k # i => b = old[k]
    OBVIOUS
  <2> HIDE DEF b
  <2>4. /\ new \in Seq(Actions) /\ Len(new) = n
        /\ \A j \in 1..n : new[j] = IF j = k THEN b ELSE old[j]
    BY <1>1, <1>2, <2>2, ExceptSeq
  <2>5. /\ turn.actions = new /\ turn.errored = b.errored
        /\ turn.initiate <=> loop.initiate \/ (k = i /\ b.completed)
        /\ turn.stopped <=> loop.initiate /\ ~b.completed
        /\ turn.disposed = IF loop.initiate \/ k = i
                           THEN Disposed(loop, b) ELSE loop.disposed
    <3> HIDE DEF new, turn
    <3> QED BY <2>1
  <2>6. ~b.errored
    BY <2>5
  <2>7. SameActions(actions, k, new)
    <3>1. ASSUME NEW j \in 1..n
          PROVE  /\ new[j].type = actions[j].type
                 /\ actions[j].completed => new[j].completed
                 /\ ~new[j].errored
                 /\ k < j => new[j] = actions[j]
      <4> HIDE DEF new
      <4>1. k < j => j # k /\ k - 1 < j
        BY <1>1
      <4> QED BY <1>2, <2>2, <2>4, <2>6, <4>1
    <3> HIDE DEF new
    <3> QED BY <2>4, <3>1 DEF SameActions
  <2>8. ASSUME \A j \in 1..k : new[j].completed /\ ~IsPermanent(new[j])
        PROVE  turn.disposed = k
    <3> HIDE DEF new, turn
    <3>1. \A j \in 1..(k - 1) : j \in 1..k /\ j \in 1..n /\ j # k
      BY <1>1
    <3>2. loop.disposed = k - 1
      BY <1>4, <2>4, <2>8, <3>1
    <3>3. b.completed /\ ~IsPermanent(b)
      BY <1>1, <2>4, <2>8
    <3>4. Disposed(loop, b) = k
      BY <1>1, <3>2, <3>3 DEF Disposed
    <3>5. loop.initiate \/ k = i
      <4>1. SUFFICES ASSUME ~loop.initiate, k # i PROVE FALSE
        OBVIOUS
      <4>2. CASE k < i
        <5>1. k - 1 < i
          BY <1>1, <4>2
        <5>2. b = actions[k]
          BY <1>3, <2>3, <4>1, <5>1
        <5> QED BY <1>1, <3>3, <5>2
      <4>3. CASE i < k
        <5>1. i <= k - 1 /\ i \in 1..(k - 1)
          BY <1>1, <4>3
        <5>2. ~old[i].completed /\ old[i] = new[i] /\ i \in 1..k
          BY <1>1, <1>3, <2>4, <3>1, <4>1, <5>1
        <5> QED BY <2>8, <5>2
      <4> QED BY <1>1, <4>1, <4>2, <4>3
    <3> QED BY <2>5, <3>4, <3>5
  <2> HIDE DEF turn
  <2>9. /\ ~turn.errored /\ SameActions(actions, k, turn.actions)
        /\ Counted(k, turn)
    <3> HIDE DEF new
    <3> QED BY <2>5, <2>6, <2>7, <2>8 DEF Counted
  <2>10. ASSUME loop.initiate
        PROVE  Stage(actions, i, k, turn)
    <3>1. Ready(old, k) /\ i <= k
      <4>1. (k - 1) + 1 = k
        BY <1>1
      <4> QED BY <1>1, <1>3, <1>6, <2>10, <4>1
    <3>2. IF b.completed THEN Ready(new, k + 1) ELSE Orderly(new)
      <4>1. k <= Len(old)
        BY <1>1, <1>2
      <4> QED BY <2>3, <2>10, <3>1, <4>1, ReadyStep
    <3>3. k \in 1..k /\ new[k] = b
      BY <1>1, <2>4
    <3> HIDE DEF new
    <3>4. ~b.completed => \E j \in 1..k : ~new[j].completed
      BY <3>3
    <3>5. /\ turn.initiate
          /\ turn.stopped <=> ~b.completed
      BY <2>5, <2>10
    <3> QED BY <2>5, <3>1, <3>2, <3>4, <3>5 DEF Stage
  <2>11. ASSUME ~loop.initiate /\ k = i
         PROVE  Stage(actions, i, k, turn)
    <3>1. old = actions
      <4>1. k - 1 < i
        BY <1>1, <2>11
      <4> QED BY <1>3, <2>11, <4>1
    <3>2. IF b.completed THEN Ready(new, k + 1) ELSE Orderly(new)
      BY <2>3, <2>11, <3>1, AnsweredCases
    <3>3. new[i] = b /\ ~(k < i) /\ i <= k
      BY <1>1, <2>4, <2>11
    <3> HIDE DEF new
    <3>4. /\ ~turn.stopped
          /\ turn.initiate <=> b.completed
      BY <2>5, <2>11
    <3> QED BY <2>5, <3>2, <3>3, <3>4 DEF Stage
  <2>12. ASSUME ~loop.initiate /\ k # i
         PROVE  Stage(actions, i, k, turn)
    <3>1. new = old
      <4>1. \A j \in 1..n : new[j] = old[j]
        BY <2>3, <2>4, <2>12
      <4> HIDE DEF new
      <4> QED BY <1>2, <2>4, <4>1, SeqEqual
    <3>2. /\ k < i => k - 1 < i
          /\ i <= k => i <= k - 1
      BY <1>1, <2>12
    <3> HIDE DEF new
    <3>3. ~turn.stopped /\ ~turn.initiate
      BY <2>5, <2>12
    <3>4. /\ k < i => new = actions
          /\ i <= k => Orderly(new) /\ ~new[i].completed
      BY <1>3, <2>12, <3>1, <3>2
    <3> QED BY <2>5, <3>3, <3>4 DEF Stage
  <2>13. Stage(actions, i, k, turn)
    BY <2>10, <2>11, <2>12
  <2>14. Offered(actions, i, k, turn)
    BY <2>9, <2>13 DEF Offered
  <2> QED BY <2>14 DEF turn
<1> QED BY <1>5, <1>6

LEMMA ProcessKeeps ==
    ASSUME NEW actions, Orderly(actions), Settled(actions),
           NEW i \in 1..Len(actions), actions[i].starts > 0,
           NEW outcomes \in [DOMAIN actions -> Outcomes],
           ~ProcessLoop(actions, i, outcomes).errored
    PROVE  Offered(actions, i, Len(actions),
                   ProcessLoop(actions, i, outcomes))
<1> DEFINE n == Len(actions)
<1>1. /\ actions \in Seq(Actions) /\ n \in Nat /\ DOMAIN actions = 1..n
      /\ i \in Nat /\ 0 < i
  BY ActionFacts DEF Orderly
<1>2. PICK run : ProcessRuns(run, actions, i, outcomes)
  BY <1>1, ProcessLoopRuns
<1>3. /\ run[0] = Offering(actions)
      /\ \A k \in 1..n : run[k] = ProcessTurn(run[k - 1], k, i, outcomes[k])
      /\ ProcessLoop(actions, i, outcomes) = run[n]
  BY <1>2 DEF ProcessRuns
<1> DEFINE T == {k \in 0..n : ~run[k].errored
                                  => Offered(actions, i, k, run[k])}
<1> HIDE DEF n
<1>4. 0 \in T
  <2>1. \A j \in 1..n : ~actions[j].errored
    BY <1>1 DEF Settled
  <2>2. 1..0 = {} /\ ~(i <= 0) /\ 0 \in 0..n
    BY <1>1
  <2>3. Offered(actions, i, 0, run[0])
    <3> DEFINE z == Offering(actions)
    <3>1. /\ z.actions = actions /\ ~z.initiate /\ ~z.errored
          /\ ~z.stopped /\ z.disposed = 0
      BY DEF Offering
    <3> HIDE DEF z
    <3>2. Offered(actions, i, 0, z)
      BY <1>1, <2>1, <2>2, <3>1
         DEF Offered, SameActions, Stage, Counted, n
    <3> QED BY <1>3, <3>2 DEF z
  <2> QED BY <2>2, <2>3
<1>5. ASSUME NEW m \in 0..n, m \in T, m < n
      PROVE  m + 1 \in T
  <2> DEFINE k == m + 1
  <2>1. k \in 1..n /\ k \in 0..n /\ k - 1 = m
    BY <1>1, <1>5
  <2> HIDE DEF k
  <2>2. run[k] = ProcessTurn(run[m], k, i, outcomes[k])
    BY <1>3, <2>1
  <2>3. outcomes[k] \in Outcomes
    BY <1>1, <2>1
  <2>4. ASSUME ~run[k].errored
        PROVE  Offered(actions, i, k, run[k])
    <3>1. ~run[m].errored
      BY <2>2, <2>4 DEF ProcessTurn, Halted
    <3>2. Offered(actions, i, m, run[m])
      BY <1>5, <3>1
    <3> QED BY <2>1, <2>2, <2>3, <2>4, <3>2, OfferedTurn DEF n
  <2> QED BY <2>1, <2>4 DEF k
<1>6. n \in T
  <2> HIDE DEF T
  <2>1. \A k \in 0..n : k \in T
    BY <1>1, <1>4, <1>5, Induction
  <2> QED BY <1>1, <2>1
<1> QED BY <1>3, <1>6 DEF n

(* process() leaves the actions of a session in order, and ends it by what *)
(* it has counted just when no action stays.                               *)
LEMMA ProcessOrderly ==
    ASSUME NEW actions, Orderly(actions), Settled(actions),
           NEW i \in 1..Len(actions), actions[i].starts > 0,
           NEW outcomes \in [DOMAIN actions -> Outcomes],
           NEW loop, loop = ProcessLoop(actions, i, outcomes),
           ~loop.errored, loop.disposed # Len(actions)
    PROVE  LET after == loop.actions IN
           /\ Orderly(after) /\ Len(after) = Len(actions)
           /\ \A j \in 1..Len(actions) :
                  /\ after[j].type = actions[j].type
                  /\ actions[j].completed => after[j].completed
           /\ Orderly(Kept(after)) /\ Settled(Kept(after))
           /\ Kept(after) # <<>> /\ Len(Kept(after)) <= Len(actions)
<1> DEFINE after == loop.actions
           n == Len(actions)
<1>1. Offered(actions, i, n, loop)
  BY ProcessKeeps
<1>2. /\ n \in Nat /\ i <= n
      /\ after \in Seq(Actions) /\ Len(after) = n /\ DOMAIN after = 1..n
      /\ \A j \in 1..n : /\ after[j].type = actions[j].type
                         /\ actions[j].completed => after[j].completed
                         /\ ~after[j].errored
  BY <1>1, ActionFacts DEF Offered, SameActions, Orderly
<1>3. Orderly(after)
  <2>1. CASE loop.initiate /\ ~loop.stopped
    <3>1. Ready(after, Len(after) + 1)
      BY <1>1, <1>2, <2>1 DEF Offered, Stage
    <3> QED BY <3>1, ReadyAll
  <2>2. CASE ~(loop.initiate /\ ~loop.stopped)
    BY <1>1, <1>2, <2>2 DEF Offered, Stage
  <2> QED BY <2>1, <2>2
<1>4. ~Errored(after)
  BY <1>2 DEF Errored
<1>5. Orderly(Kept(after)) /\ Settled(Kept(after))
  BY <1>3, <1>4, KeptIsOrderly
<1>6. Len(Kept(after)) <= n
  BY <1>2, KeptFacts
<1>7. Kept(after) # <<>>
  <2>1. SUFFICES ASSUME Kept(after) = <<>> PROVE FALSE
    OBVIOUS
  <2>2. Len(Kept(after)) = 0
    BY <2>1, EmptySeq
  <2>3. \A j \in 1..n : after[j].completed /\ ~IsPermanent(after[j])
    <3>1. \A j \in 1..n :
              \/ \E k \in 1..Len(Kept(after)) : TRUE
              \/ after[j].completed /\ ~IsPermanent(after[j])
      BY <1>2, KeptFacts
    <3>2. ~ \E k \in 1..Len(Kept(after)) : TRUE
      BY <2>2
    <3> QED BY <3>1, <3>2
  <2> QED BY <1>1, <2>3 DEF Offered, Counted
<1> QED BY <1>2, <1>3, <1>5, <1>6, <1>7

-----------------------------------------------------------------------------
(* add(): new actions behind those a session has.                          *)

(* Nothing is removed where every action stays.                            *)
LEMMA KeptAll ==
    ASSUME NEW actions \in Seq(Actions),
           \A i \in 1..Len(actions) : Stays(actions[i])
    PROVE  Kept(actions) = actions
<1> DEFINE n == Len(actions)
           places == {i \in DOMAIN actions : Stays(actions[i])}
           kept == Kept(actions)
<1>1. n \in Nat /\ DOMAIN actions = 1..n
  BY ActionFacts
<1>2. places = 1..n
  BY <1>1
<1>3. kept = Selected(actions, 1..n) /\ Cardinality(1..n) = n
  <2>1. kept = Selected(actions, places)
    BY DEF Kept
  <2>2. 0 \in Nat /\ 0 <= n
    BY <1>1
  <2> HIDE DEF kept, places, n
  <2> QED BY <1>1, <1>2, <2>1, <2>2, IntervalSize
<1> HIDE DEF kept, places
<1>4. kept \in Seq(Actions) /\ Len(kept) = n
  <2>1. 1..n \in SUBSET DOMAIN actions
    BY <1>1
  <2> HIDE DEF n
  <2> QED BY <1>3, <2>1, SelectedFacts
<1>5. ASSUME NEW i \in 1..n PROVE kept[i] = actions[i]
  <2>1. Rank(1..n, i) = i
    <3>1. {k \in 1..n : k <= i} = 1..i
      BY <1>1
    <3>2. i \in Nat /\ 0 \in Nat /\ 0 <= i
      OBVIOUS
    <3> QED BY <3>1, <3>2, IntervalSize DEF Rank
  <2>2. 1..n \in SUBSET DOMAIN actions
    BY <1>1
  <2>3. Selected(actions, 1..n)[Rank(1..n, i)] = actions[i]
    BY <2>2, SelectedAt
  <2> QED BY <1>3, <2>1, <2>3
<1> QED BY <1>4, <1>5, SeqEqual DEF kept

(* An action that is put behind the others is kept behind those kept.      *)
LEMMA KeptAppend ==
    ASSUME NEW actions \in Seq(Actions), NEW a \in Actions
    PROVE  Kept(Append(actions, a)) =
               IF Stays(a) THEN Append(Kept(actions), a) ELSE Kept(actions)
<1> DEFINE n == Len(actions)
           new == Append(actions, a)
           old == {i \in DOMAIN actions : Stays(actions[i])}
           places == {i \in DOMAIN new : Stays(new[i])}
           c == Cardinality(old)
<1>1. n \in Nat /\ DOMAIN actions = 1..n
  BY ActionFacts
<1>2. /\ new \in Seq(Actions) /\ Len(new) = n + 1
      /\ \A i \in 1..n : new[i] = actions[i]
      /\ new[n + 1] = a
  BY AppendProperties
<1>3. DOMAIN new = 1..(n + 1)
  <2> HIDE DEF new
  <2> QED BY <1>1, <1>2, LenProperties
<1>4. /\ Kept(actions) = Selected(actions, old)
      /\ Kept(new) = Selected(new, places)
  BY DEF Kept
<1>5. places = IF Stays(a) THEN old \cup {n + 1} ELSE old
  <2>1. \A i \in 1..(n + 1) : i \in 1..n \/ i = n + 1
    BY <1>1
  <2>2. 1..n \subseteq 1..(n + 1) /\ n + 1 \in 1..(n + 1)
    BY <1>1
  <2> HIDE DEF new
  <2>3. \A i : i \in places
                   <=> i \in old \/ (Stays(a) /\ i = n + 1)
    BY <1>1, <1>2, <1>3, <2>1, <2>2
  <2> HIDE DEF places, old
  <2> QED BY <2>3
<1>6. /\ old \in SUBSET (1..n) /\ places \in SUBSET (1..(n + 1))
      /\ old \in SUBSET DOMAIN actions /\ places \in SUBSET DOMAIN new
  BY <1>1, <1>3
<1> HIDE DEF new, old, places, n
<1>7. /\ c \in 0..n /\ c \in Nat
      /\ \A j \in 1..c : \E i \in old : Rank(old, i) = j
  BY <1>1, <1>6, RankIsBijection
<1>8. ASSUME NEW i \in old
      PROVE  /\ i \in 1..n /\ i \in places
             /\ Rank(places, i) = Rank(old, i)
  <2>1. i \in 1..n /\ i \in places
    BY <1>5, <1>6
  <2>2. ~(n + 1 <= i)
    BY <1>1, <2>1
  <2>3. {k \in places : k <= i} = {k \in old : k <= i}
    BY <1>5, <2>2
  <2> QED BY <2>1, <2>3 DEF Rank
<1>9. ASSUME NEW j \in 1..c
      PROVE  Selected(new, places)[j] = Selected(actions, old)[j]
  <2>1. PICK i \in old : Rank(old, i) = j
    BY <1>7
  <2>2. Selected(actions, old)[j] = actions[i]
    BY <1>6, <2>1, SelectedAt
  <2>3. Selected(new, places)[j] = new[i]
    BY <1>2, <1>6, <1>8, <2>1, SelectedAt
  <2> QED BY <1>2, <1>8, <2>2, <2>3
<1>10. /\ Kept(actions) \in Seq(Actions) /\ Len(Kept(actions)) = c
       /\ Kept(new) \in Seq(Actions)
       /\ Len(Kept(new)) = Cardinality(places)
  <2>1. /\ Kept(actions) \in Seq(Actions)
        /\ Len(Kept(actions)) = Cardinality(old)
    <3>1. /\ Selected(actions, old) \in Seq(Actions)
          /\ Len(Selected(actions, old)) = Cardinality(old)
      BY <1>6, SelectedFacts
    <3> QED BY <1>4, <3>1
  <2>2. /\ Kept(new) \in Seq(Actions)
        /\ Len(Kept(new)) = Cardinality(places)
    <3>1. /\ Selected(new, places) \in Seq(Actions)
          /\ Len(Selected(new, places)) = Cardinality(places)
      BY <1>2, <1>6, SelectedFacts
    <3> QED BY <1>4, <3>1
  <2> QED BY <2>1, <2>2
<1>11. IsFiniteSet(old)
  <2>1. IsFiniteSet(1..n)
    BY <1>1, FS_Interval
  <2> QED BY <1>6, <2>1, FS_Subset
<1>12. CASE Stays(a)
  <2>1. n + 1 \notin old
    <3>1. n + 1 \notin 1..n
      BY <1>1
    <3> QED BY <1>6, <3>1
  <2>2. Cardinality(places) = c + 1
    BY <1>5, <1>11, <1>12, <2>1, FS_AddElement
  <2>3. Selected(new, places)[c + 1] = a
    <3>1. n + 1 \in places
      BY <1>5, <1>12
    <3>2. {k \in places : k <= n + 1} = places
      <4>1. \A k \in 1..(n + 1) : k <= n + 1
        BY <1>1
      <4> QED BY <1>6, <4>1
    <3>3. Rank(places, n + 1) = c + 1
      BY <2>2, <3>2 DEF Rank
    <3> QED BY <1>2, <1>6, <3>1, <3>3, SelectedAt
  <2> DEFINE kept == Append(Kept(actions), a)
  <2>4. /\ kept \in Seq(Actions) /\ Len(kept) = c + 1
        /\ \A j \in 1..c : kept[j] = Kept(actions)[j]
        /\ kept[c + 1] = a
    BY <1>10, AppendProperties
  <2> HIDE DEF kept
  <2>5. \A j \in 1..(c + 1) : j \in 1..c \/ j = c + 1
    BY <1>7
  <2>6. \A j \in 1..(c + 1) : Kept(new)[j] = kept[j]
    BY <1>4, <1>9, <2>3, <2>4, <2>5
  <2>7. Kept(new) = kept
    BY <1>10, <2>2, <2>4, <2>6, SeqEqual
  <2> QED BY <1>12, <2>7 DEF kept, new
<1>13. CASE ~Stays(a)
  <2>1. Len(Kept(new)) = c
    BY <1>5, <1>10, <1>13
  <2>2. \A j \in 1..c : Kept(new)[j] = Kept(actions)[j]
    BY <1>4, <1>9
  <2>3. Kept(new) = Kept(actions)
    BY <1>10, <2>1, <2>2, SeqEqual
  <2> QED BY <1>13, <2>3 DEF new
<1> QED BY <1>12, <1>13

LEMMA PreviousIsAll ==
    ASSUME NEW actions, Orderly(actions)
    PROVE  PreviousCompleted(actions)
               <=> \A i \in 1..Len(actions) : actions[i].completed
<1> DEFINE n == Len(actions)
<1>1. /\ actions \in Seq(Actions) /\ n \in Nat /\ DOMAIN actions = 1..n
  BY ActionFacts DEF Orderly
<1>2. CASE n = 0
  BY <1>1, <1>2, EmptySeq DEF PreviousCompleted
<1>3. CASE n # 0
  <2>1. actions # <<>> /\ n \in 1..n
    BY <1>1, <1>3, EmptySeq
  <2>2. PreviousCompleted(actions) <=> actions[n].completed
    BY <2>1 DEF PreviousCompleted, Last
  <2>3. ASSUME actions[n].completed, NEW i \in 1..n
        PROVE  actions[i].completed
    <3>1. actions[n].starts > 0
      BY <1>1, <2>1, <2>3 DEF Orderly, CompletedStarted
    <3>2. \A j \in 1..(n - 1) : actions[j].completed
      BY <1>1, <2>1, <3>1 DEF Orderly, Ordered
    <3>3. i = n \/ i \in 1..(n - 1)
      <4>1. i \in 1..n /\ n \in Nat
        BY <1>1
      <4> HIDE DEF n
      <4> QED BY <4>1
    <3> QED BY <2>3, <3>2, <3>3
  <2> QED BY <2>1, <2>2, <2>3
<1> QED BY <1>2, <1>3

(* A new action behind the others, started if they all are completed.      *)
LEMMA AppendIsOrderly ==
    ASSUME NEW actions, Orderly(actions), NEW a \in Actions,
           \A i \in 1..Len(actions) :
               actions[i].type = a.type => ~IsPermanent(a),
           a.starts <= 1, a.completed => a.starts > 0,
           a.starts > 0 <=> PreviousCompleted(actions)
    PROVE  /\ Orderly(Append(actions, a))
           /\ PreviousCompleted(Append(actions, a)) <=> a.completed
<1> DEFINE n == Len(actions)
           new == Append(actions, a)
<1>1. /\ actions \in Seq(Actions) /\ n \in Nat /\ DOMAIN actions = 1..n
      /\ a.starts \in 0..2
  BY ActionFacts DEF Orderly, Actions
<1>2. /\ new \in Seq(Actions) /\ Len(new) = n + 1 /\ new # <<>>
      /\ \A i \in 1..n : new[i] = actions[i]
      /\ new[n + 1] = a
  BY <1>1, AppendProperties
<1>3. a.starts > 0 <=> \A i \in 1..n : actions[i].completed
  BY PreviousIsAll
<1> HIDE DEF new, n
<1>4. DOMAIN new = 1..(n + 1)
  BY <1>1, <1>2, LenProperties
<1>5. \A i \in 1..(n + 1) : i \in 1..n \/ i = n + 1
  BY <1>1
<1>6. \A i \in 1..n : \A j \in 1..(i - 1) : j \in 1..n
  BY <1>1
<1>7. Ordered(new)
  <2>1. ASSUME NEW i \in 1..n
        PROVE  new[i].starts > 0
                   <=> \A j \in 1..(i - 1) : new[j].completed
    BY <1>1, <1>2, <1>6 DEF Orderly, Ordered
  <2>2. (n + 1) - 1 = n
    BY <1>1
  <2>3. new[n + 1].starts > 0
            <=> \A j \in 1..((n + 1) - 1) : new[j].completed
    BY <1>2, <1>3, <2>2
  <2> QED BY <1>4, <1>5, <2>1, <2>3 DEF Ordered
<1>8. CompletedStarted(new)
  BY <1>1, <1>2, <1>4, <1>5 DEF Orderly, CompletedStarted
<1>9. Single(new)
  <2>1. ASSUME NEW i \in 1..(n + 1), NEW j \in 1..(n + 1),
               new[i].type = new[j].type, IsPermanent(new[i])
        PROVE  i = j
    <3>1. CASE i \in 1..n /\ j \in 1..n
      BY <1>1, <1>2, <2>1, <3>1 DEF Orderly, Single
    <3>2. CASE i = n + 1 \/ j = n + 1
      BY <1>2, <1>5, <2>1, <3>2 DEF n, IsPermanent
    <3> QED BY <1>5, <3>1, <3>2
  <2> QED BY <1>4, <2>1 DEF Single
<1>10. OnceEach(new)
  <2>1. ASSUME NEW i \in 1..n, new[i].starts > 1
        PROVE  BehindPermanent(new, i)
    <3>1. BehindPermanent(actions, i)
      BY <1>1, <1>2, <2>1 DEF Orderly, OnceEach
    <3> QED BY <1>2, <1>6, <3>1 DEF BehindPermanent
  <2>2. ~(new[n + 1].starts > 1)
    BY <1>1, <1>2
  <2> QED BY <1>4, <1>5, <2>1, <2>2 DEF OnceEach
<1>11. PreviousCompleted(new) <=> a.completed
  BY <1>2 DEF PreviousCompleted, Last
<1>12. Orderly(new)
  BY <1>2, <1>7, <1>8, <1>9, <1>10 DEF Orderly
<1> QED BY <1>11, <1>12 DEF new

(* All the actions add() has seen after some turns: those a session has,   *)
(* and the ones of the classes q put behind them.                          *)
Grown(old, q, all) ==
    /\ q \in Seq(Types) /\ Orderly(all) /\ ~Errored(all)
    /\ Len(all) = Len(old) + Len(q)
    /\ \A i \in 1..Len(old) : all[i] = old[i]
    /\ \A i \in 1..Len(q) : all[Len(old) + i].type = q[i]

(* The loop has kept what stays of them, and knows the permanent ones.     *)
Held(all, loop) ==
    /\ loop.actions = Kept(all)
    /\ loop.previous <=> PreviousCompleted(all)
    /\ \A i \in 1..Len(all) :
           IsPermanent(all[i]) => all[i].type \in loop.existing

AddedTo(old, k, loop) ==
    /\ ~loop.errored
    /\ \E q, all : Grown(old, q, all) /\ Len(q) <= k /\ Held(all, loop)

LEMMA AddTurnKeeps ==
    ASSUME NEW old \in Seq(Actions), NEW k \in Nat, NEW loop,
           AddedTo(old, k, loop), NEW type \in Types,
           NEW outcome \in Outcomes, ~AddTurn(loop, type, outcome).errored
    PROVE  AddedTo(old, k + 1, AddTurn(loop, type, outcome))
<1> DEFINE turn == AddTurn(loop, type, outcome)
           a == IF loop.previous THEN Initiate(New(type), outcome)
                ELSE New(type)
<1>1. PICK q, all : Grown(old, q, all) /\ Len(q) <= k /\ Held(all, loop)
  BY DEF AddedTo
<1>2. ~loop.errored
  BY DEF AddedTo
<1>3. /\ q \in Seq(Types) /\ Len(q) \in Nat /\ Len(old) \in Nat
      /\ all \in Seq(Actions) /\ Len(all) = Len(old) + Len(q)
      /\ Orderly(all) /\ DOMAIN all = 1..Len(all)
      /\ \A i \in 1..Len(all) : ~all[i].errored
  <2>1. q \in Seq(Types) /\ all \in Seq(Actions)
    BY <1>1 DEF Grown, Orderly
  <2>2. DOMAIN all = 1..Len(all)
    BY <2>1, ActionFacts
  <2> QED BY <1>1, <2>1, <2>2, LenProperties DEF Grown, Errored
<1>4. CASE type \in loop.existing
  <2>1. turn = loop
    BY <1>4 DEF AddTurn
  <2>2. Len(q) <= k + 1
    BY <1>1, <1>3
  <2> HIDE DEF turn
  <2>3. AddedTo(old, k + 1, loop)
    BY <1>1, <1>2, <2>2 DEF AddedTo
  <2> QED BY <2>1, <2>3 DEF turn
<1>5. CASE type \notin loop.existing
  <2>1. turn = [actions |-> IF a.errored \/ ~Stays(a)
                            THEN loop.actions ELSE Append(loop.actions, a),
                existing |-> Existing(loop, type),
                previous |-> a.completed,
                contacted |-> loop.contacted \/ loop.previous,
                errored |-> a.errored]
    BY <1>2, <1>5 DEF AddTurn
  <2>2. /\ a \in Actions /\ a.type = type /\ a.starts <= 1
        /\ a.completed => a.starts > 0
        /\ a.starts > 0 <=> loop.previous
    <3>1. /\ New(type) \in Actions /\ New(type).type = type
          /\ New(type).starts = 0 /\ ~New(type).completed
      BY DEF New, Actions
    <3>2. CASE loop.previous
      <4>1. a = Initiate(New(type), outcome) /\ Called(0) = 1
        BY <3>2 DEF Called
      <4> HIDE DEF a
      <4>2. a \in Actions /\ a.type = type /\ a.starts = 1
        BY <3>1, <4>1, InitiateFacts
      <4> QED BY <3>2, <4>2
    <3>3. CASE ~loop.previous
      <4>1. a = New(type)
        BY <3>3
      <4> HIDE DEF a
      <4> QED BY <3>1, <3>3, <4>1
    <3> QED BY <3>2, <3>3
  <2> HIDE DEF a
  <2>3. /\ turn.actions = IF a.errored \/ ~Stays(a)
                          THEN loop.actions ELSE Append(loop.actions, a)
        /\ turn.existing = Existing(loop, type)
        /\ turn.previous = a.completed
        /\ turn.errored = a.errored
    <3> HIDE DEF turn
    <3> QED BY <2>1
  <2>4. ~a.errored /\ ~turn.errored
    BY <2>3
  <2> HIDE DEF turn
  <2> DEFINE new == Append(all, a)
             r == Append(q, type)
  <2>5. /\ new \in Seq(Actions) /\ Len(new) = Len(all) + 1
        /\ \A i \in 1..Len(all) : new[i] = all[i]
        /\ new[Len(all) + 1] = a
    <3>1. all \in Seq(Actions) /\ a \in Actions
      BY <1>3, <2>2
    <3> QED BY ONLY <3>1, AppendProperties
  <2>6. /\ r \in Seq(Types) /\ Len(r) = Len(q) + 1
        /\ \A i \in 1..Len(q) : r[i] = q[i]
        /\ r[Len(q) + 1] = type
    BY <1>3, AppendProperties
  <2>7. Orderly(new) /\ (PreviousCompleted(new) <=> a.completed)
    <3>1. \A i \in 1..Len(all) : all[i].type = a.type => ~IsPermanent(a)
      BY <1>1, <1>5, <2>2 DEF Held, IsPermanent
    <3>2. a.starts > 0 <=> PreviousCompleted(all)
      BY <1>1, <2>2 DEF Held
    <3> QED BY <1>3, <2>2, <3>1, <3>2, AppendIsOrderly
  <2>8. Kept(new) = turn.actions
    <3>1. Kept(new) = IF Stays(a) THEN Append(Kept(all), a) ELSE Kept(all)
      BY <1>3, <2>2, KeptAppend
    <3> HIDE DEF new
    <3> QED BY <1>1, <2>3, <2>4, <3>1 DEF Held
  <2> HIDE DEF new, r
  <2>9. \A i \in 1..Len(new) : i \in 1..Len(all) \/ i = Len(all) + 1
    BY <1>3, <2>5
  <2>10. \A i \in 1..Len(r) : i \in 1..Len(q) \/ i = Len(q) + 1
    BY <1>3, <2>6
  <2>11. Grown(old, r, new)
    <3>1. Len(new) = Len(old) + Len(r)
      BY <1>3, <2>5, <2>6
    <3>2. \A i \in 1..Len(old) : i \in 1..Len(all) /\ new[i] = old[i]
      BY <1>1, <1>3, <2>5 DEF Grown
    <3>3. \A i \in 1..Len(r) : new[Len(old) + i].type = r[i]
      <4>1. \A i \in 1..Len(q) : Len(old) + i \in 1..Len(all)
        BY <1>3
      <4>2. Len(old) + (Len(q) + 1) = Len(all) + 1
        BY <1>3
      <4> QED BY <1>1, <2>2, <2>5, <2>6, <2>10, <4>1, <4>2 DEF Grown
    <3>4. ~Errored(new)
      <4>1. DOMAIN new = 1..Len(new)
        BY <2>5, ActionFacts
      <4> QED BY <1>3, <2>4, <2>5, <2>9, <4>1 DEF Errored
    <3> QED BY <2>6, <2>7, <3>1, <3>2, <3>3, <3>4 DEF Grown
  <2>12. Held(new, turn)
    <3>1. \A i \in 1..Len(new) :
              IsPermanent(new[i]) => new[i].type \in turn.existing
      BY <1>1, <2>2, <2>3, <2>5, <2>9 DEF Held, IsPermanent, Existing
    <3> QED BY <2>3, <2>7, <2>8, <3>1 DEF Held
  <2>13. Len(r) <= k + 1
    BY <1>1, <1>3, <2>6
  <2>14. AddedTo(old, k + 1, turn)
    BY <2>4, <2>11, <2>12, <2>13 DEF AddedTo
  <2> QED BY <2>14 DEF turn
<1> QED BY <1>4, <1>5

LEMMA AddKeeps ==
    ASSUME NEW old, Orderly(old), Settled(old), NEW request \in Seq(Types),
           NEW outcomes \in [DOMAIN request -> Outcomes],
           ~AddLoop(old, request, outcomes).errored
    PROVE  AddedTo(old, Len(request), AddLoop(old, request, outcomes))
<1> DEFINE n == Len(request)
<1>1. /\ old \in Seq(Actions) /\ Len(old) \in Nat
      /\ DOMAIN old = 1..Len(old)
      /\ n \in Nat /\ DOMAIN request = 1..n
      /\ \A k \in 1..n : request[k] \in Types
  BY ActionFacts, LenProperties, ElementOfSeq DEF Orderly
<1>2. PICK run : AddRuns(run, old, request, outcomes)
  BY <1>1, AddLoopRuns
<1>3. /\ run[0] = Adding(old)
      /\ \A k \in 1..n : run[k] = AddTurn(run[k - 1], request[k], outcomes[k])
      /\ AddLoop(old, request, outcomes) = run[n]
  BY <1>2 DEF AddRuns
<1> DEFINE T == {k \in 0..n : ~run[k].errored => AddedTo(old, k, run[k])}
<1> HIDE DEF n
<1>4. 0 \in T
  <2> DEFINE z == Adding(old)
  <2>1. /\ z.actions = old /\ ~z.errored
        /\ z.existing = Standing(old)
        /\ z.previous = PreviousCompleted(old)
    BY DEF Adding
  <2> HIDE DEF z
  <2>2. <<>> \in Seq(Types) /\ Len(<<>>) = 0 /\ 1..0 = {}
    BY EmptySeq
  <2>3. ~Errored(old)
    BY DEF Settled, Errored
  <2>4. Grown(old, <<>>, old)
    BY <1>1, <2>2, <2>3 DEF Grown
  <2>5. Kept(old) = old
    <3>1. \A i \in 1..Len(old) : Stays(old[i])
      BY <1>1 DEF Settled, Stays
    <3> QED BY <1>1, <3>1, KeptAll
  <2>6. \A i \in 1..Len(old) :
            IsPermanent(old[i]) => old[i].type \in z.existing
    BY <1>1, <2>1 DEF Standing, ToSet
  <2>7. Held(old, z)
    BY <2>1, <2>5, <2>6 DEF Held
  <2>8. AddedTo(old, 0, z)
    BY <2>1, <2>2, <2>4, <2>7 DEF AddedTo
  <2>9. 0 \in 0..n
    BY <1>1
  <2> QED BY <1>3, <2>8, <2>9 DEF z
<1>5. ASSUME NEW m \in 0..n, m \in T, m < n
      PROVE  m + 1 \in T
  <2> DEFINE k == m + 1
  <2>1. k \in 1..n /\ k \in 0..n /\ k - 1 = m /\ m \in Nat
    BY <1>1, <1>5
  <2> HIDE DEF k
  <2>2. run[k] = AddTurn(run[m], request[k], outcomes[k])
    BY <1>3, <2>1
  <2>3. outcomes[k] \in Outcomes /\ request[k] \in Types
    BY <1>1, <2>1
  <2>4. ASSUME ~run[k].errored
        PROVE  AddedTo(old, k, run[k])
    <3>1. ~run[m].errored
      BY <2>2, <2>4 DEF AddTurn
    <3>2. AddedTo(old, m, run[m])
      BY <1>5, <3>1
    <3> QED BY <1>1, <2>1, <2>2, <2>3, <2>4, <3>2, AddTurnKeeps DEF k
  <2> QED BY <2>1, <2>4 DEF k
<1>6. n \in T
  <2> HIDE DEF T
  <2>1. \A k \in 0..n : k \in T
    BY <1>1, <1>4, <1>5, Induction
  <2> QED BY <1>1, <2>1
<1> QED BY <1>3, <1>6 DEF n

-----------------------------------------------------------------------------
(* What add() and process() do to what is still to be done.                *)

Extends(old, kept) ==
    \E request \in AbsRequests :
        LET ts == PlanOf(old) \o request IN
        /\ Plan!NoneTwice(ts, StandingOf(old))
        /\ \E k \in 0..(IF PlanOf(old) = <<>> THEN Len(request) ELSE 0) :
               Leaves(kept, ts, StandingOf(old), k)

Advances(old, kept) ==
    \E k \in 1..Len(PlanOf(old)) :
        Leaves(kept, PlanOf(old), StandingOf(old), k)

SamePlan(old, kept) ==
    PlanOf(kept) = PlanOf(old) /\ StandingOf(kept) = StandingOf(old)

LEMMA DoneOnce ==
    ASSUME NEW actions \in Seq(Actions), NEW d, DoneUpTo(actions, d),
           NEW e, DoneUpTo(actions, e)
    PROVE  d = e
<1>1. Len(actions) \in Nat /\ d \in 0..Len(actions) /\ e \in 0..Len(actions)
  BY LenProperties DEF DoneUpTo
<1>2. \A i \in 1..Len(actions) : i <= d <=> i <= e
  BY DEF DoneUpTo
<1>3. ~(d < e)
  BY <1>1, <1>2
<1>4. ~(e < d)
  BY <1>1, <1>2
<1> QED BY <1>1, <1>3, <1>4

LEMMA ProcessAdvances ==
    ASSUME NEW actions, Orderly(actions), Settled(actions),
           NEW after, Orderly(after), Len(after) = Len(actions),
           \A j \in 1..Len(actions) :
               /\ after[j].type = actions[j].type
               /\ actions[j].completed => after[j].completed
    PROVE  \/ SamePlan(actions, Kept(after))
           \/ Advances(actions, Kept(after))
<1>1. actions \in Seq(Actions) /\ after \in Seq(Actions)
  BY DEF Orderly
<1>2. PICK d \in 0..Len(actions) : DoneUpTo(actions, d)
  BY DoneExists
<1>3. PICK e \in 0..Len(after) : DoneUpTo(after, e)
  BY DoneExists
<1> DEFINE ts == TypesFrom(actions, d)
           k == e - d
<1>4. /\ PlanOf(actions) = ts /\ StandingOf(actions) = DoneTypes(actions, d)
      /\ DoneTypes(actions, d) \subseteq Permanent
  BY <1>2, SettledPlan
<1>5. /\ k \in 0..Len(ts)
      /\ Leaves(Kept(after), ts, DoneTypes(actions, d), k)
  <2>1. MoreDone(actions, d, after, e)
    BY <1>1, <1>2, <1>3, <1>4 DEF MoreDone
  <2> QED BY <2>1, Progress
<1>6. /\ d \in Nat /\ e \in Nat /\ Len(actions) \in Nat
      /\ Len(ts) \in Nat
  BY <1>1, LenProperties, TypesFromFacts
<1>7. CASE k = 0
  <2>1. d = e
    BY <1>6, <1>7
  <2>2. /\ PlanOf(Kept(after)) = TypesFrom(after, d)
        /\ StandingOf(Kept(after)) = DoneTypes(after, d) \cap Permanent
    BY <1>1, <1>3, <2>1, KeptPlan
  <2>3. \A j \in 1..(Len(actions) - d) : d + j \in 1..Len(actions)
    BY <1>6
  <2>4. TypesFrom(after, d) = ts
    BY <2>3 DEF TypesFrom
  <2>5. \A j \in 1..d : j \in 1..Len(actions)
    BY <1>6
  <2>6. DoneTypes(after, d) = DoneTypes(actions, d)
    BY <2>5 DEF DoneTypes
  <2> QED BY <1>4, <2>2, <2>4, <2>6 DEF SamePlan
<1>8. CASE k # 0
  <2>1. k \in 1..Len(ts)
    BY <1>5, <1>6, <1>8
  <2> HIDE DEF k, ts
  <2> QED BY <1>4, <1>5, <2>1 DEF Advances
<1> QED BY <1>7, <1>8

(* Appending q is one step of the plan, whatever of it is completed.       *)
LEMMA AddExtends ==
    ASSUME NEW old, Orderly(old), Settled(old), NEW q, NEW all,
           Grown(old, q, all), q \in AbsRequests, Len(q) # 0
    PROVE  Extends(old, Kept(all))
<1> DEFINE n == Len(old)
           more == [i \in DOMAIN q |-> New(q[i])]
           blank == old \o more
<1>1. old \in Seq(Actions) /\ n \in Nat /\ DOMAIN old = 1..n
  BY ActionFacts DEF Orderly
<1>2. /\ q \in Seq(Types) /\ Len(q) \in Nat /\ DOMAIN q = 1..Len(q)
      /\ all \in Seq(Actions) /\ DOMAIN all = 1..Len(all) /\ Orderly(all)
      /\ Len(all) = n + Len(q)
      /\ \A i \in 1..n : all[i] = old[i]
      /\ \A i \in 1..Len(q) : q[i] \in Types /\ all[n + i].type = q[i]
  <2>1. q \in Seq(Types) /\ all \in Seq(Actions)
    BY DEF Grown, Orderly
  <2>2. /\ Len(q) \in Nat /\ DOMAIN q = 1..Len(q)
        /\ DOMAIN all = 1..Len(all)
        /\ \A i \in 1..Len(q) : q[i] \in Types
    BY <2>1, LenProperties, ElementOfSeq
  <2> QED BY <2>1, <2>2 DEF Grown
<1>3. more \in Seq(Actions) /\ Len(more) = Len(q)
  <2>1. /\ more \in [1..Len(q) -> Actions] /\ DOMAIN more = 1..Len(q)
    <3>1. \A t \in Types : New(t) \in Actions
      BY DEF New, Actions
    <3> QED BY <1>2, <3>1
  <2> HIDE DEF more
  <2>2. more \in Seq(Actions)
    BY <1>2, <2>1, SeqDef
  <2>3. DOMAIN more = 1..Len(more) /\ Len(more) \in Nat
    BY <2>2, LenProperties
  <2> QED BY <1>2, <2>1, <2>2, <2>3
<1>4. \A i \in 1..Len(q) : more[i].type = q[i] /\ ~more[i].completed
  BY <1>2 DEF New
<1> HIDE DEF more
<1>5. /\ blank \in Seq(Actions)
      /\ Len(blank) = n + Len(q) /\ Len(blank) \in Nat
      /\ \A i \in 1..Len(blank) :
             blank[i] = IF i <= n THEN old[i] ELSE more[i - n]
  <2>1. /\ blank \in Seq(Actions) /\ Len(blank) = n + Len(more)
        /\ \A i \in 1..n + Len(more) :
               blank[i] = IF i <= n THEN old[i] ELSE more[i - n]
    BY <1>1, <1>3, ConcatProperties
  <2> HIDE DEF blank, n
  <2> QED BY <1>1, <1>2, <1>3, <2>1
<1> HIDE DEF blank, n
<1>6. /\ \A i \in 1..n : i \in 1..Len(blank) /\ blank[i] = old[i]
      /\ \A i \in (n + 1)..Len(blank) :
             /\ i \in 1..Len(blank) /\ ~(i <= n)
             /\ i - n \in 1..Len(q) /\ i = n + (i - n)
      /\ \A i \in 1..Len(blank) : i \in 1..n \/ i \in (n + 1)..Len(blank)
  BY <1>1, <1>2, <1>5
<1>7. \A i \in (n + 1)..Len(blank) : /\ blank[i].type = q[i - n]
                                     /\ ~blank[i].completed
                                     /\ all[i].type = q[i - n]
  BY <1>2, <1>4, <1>5, <1>6
<1>8. \A i \in 1..Len(blank) : all[i].type = blank[i].type
  BY <1>2, <1>6, <1>7
<1>9. Single(blank)
  <2>1. DOMAIN blank = 1..Len(blank)
    BY <1>5, ActionFacts
  <2>2. \A i, j \in 1..Len(blank) :
            all[i].type = all[j].type /\ IsPermanent(all[i]) => i = j
    BY <1>2, <1>5 DEF Orderly, Single
  <2> QED BY <1>8, <2>1, <2>2 DEF Single, IsPermanent
<1>10. PICK d \in 0..n : DoneUpTo(old, d)
  BY DoneExists DEF n
<1>11. PICK e \in 0..Len(all) : DoneUpTo(all, e)
  BY <1>2, DoneExists
<1> DEFINE ts == TypesFrom(old, d)
           k == e - d
<1>12. /\ PlanOf(old) = ts /\ StandingOf(old) = DoneTypes(old, d)
       /\ DoneTypes(old, d) \subseteq Permanent
  BY <1>10, SettledPlan
<1>13. d \in Nat /\ d <= n /\ d \in 0..Len(blank)
  BY <1>1, <1>2, <1>5, <1>10
<1>14. DoneUpTo(blank, d)
  <2>1. ASSUME NEW i \in 1..Len(blank)
        PROVE  blank[i].completed <=> i <= d
    <3>1. CASE i \in 1..n
      BY <1>6, <1>10, <3>1 DEF DoneUpTo, n
    <3>2. CASE i \in (n + 1)..Len(blank)
      <4>1. ~(i <= d)
        BY <1>1, <1>13, <3>2
      <4> QED BY <1>7, <3>2, <4>1
    <3> QED BY <1>6, <3>1, <3>2
  <2> QED BY <1>13, <2>1 DEF DoneUpTo
<1>15. DoneTypes(blank, d) = DoneTypes(old, d)
  <2>1. \A i \in 1..d : i \in 1..n
    BY <1>1, <1>13
  <2> QED BY <1>6, <2>1 DEF DoneTypes
<1>16. /\ ts \in Seq(Types) /\ Len(ts) = n - d /\ Len(ts) \in Nat
       /\ \A j \in 1..(n - d) : ts[j] = old[d + j].type
  BY <1>1, <1>10, TypesFromFacts DEF n
<1>17. TypesFrom(blank, d) = ts \o q /\ Len(ts \o q) = Len(blank) - d
  <2> DEFINE t == TypesFrom(blank, d)
             u == ts \o q
  <2>1. /\ t \in Seq(Types) /\ Len(t) = Len(blank) - d
        /\ \A j \in 1..(Len(blank) - d) : t[j] = blank[d + j].type
    BY <1>5, <1>13, TypesFromFacts
  <2> HIDE DEF ts, t
  <2>2. /\ u \in Seq(Types) /\ Len(u) = Len(ts) + Len(q)
        /\ \A j \in 1..Len(ts) + Len(q) :
               u[j] = IF j <= Len(ts) THEN ts[j] ELSE q[j - Len(ts)]
    BY <1>2, <1>16, ConcatProperties
  <2> HIDE DEF u
  <2>3. Len(u) = Len(blank) - d
    BY <1>1, <1>2, <1>5, <1>13, <1>16, <2>2
  <2>4. ASSUME NEW j \in 1..(Len(blank) - d)
        PROVE  t[j] = u[j]
    <3>1. j \in 1..Len(ts) + Len(q)
      BY <1>16, <2>2, <2>3
    <3>2. CASE j <= Len(ts)
      <4>1. j \in 1..(n - d) /\ d + j \in 1..n
        BY <1>1, <1>13, <1>16, <3>2
      <4> QED BY <1>6, <1>16, <2>1, <2>2, <3>1, <3>2, <4>1
    <3>3. CASE ~(j <= Len(ts))
      <4>1. d + j \in (n + 1)..Len(blank) /\ (d + j) - n = j - Len(ts)
        BY <1>1, <1>2, <1>5, <1>13, <1>16, <3>3
      <4>2. blank[d + j].type = q[j - Len(ts)]
        BY <1>7, <4>1
      <4> QED BY <2>1, <2>2, <3>1, <3>3, <4>2
    <3> QED BY <3>2, <3>3
  <2>5. Len(t) = Len(u) /\ \A j \in 1..Len(t) : t[j] = u[j]
    BY <2>1, <2>3, <2>4
  <2>6. t = u
    BY <2>1, <2>2, <2>5, SeqEqual
  <2> QED BY <2>3, <2>6 DEF t, u
<1>18. Plan!NoneTwice(ts \o q, StandingOf(old))
  BY <1>5, <1>9, <1>12, <1>13, <1>15, <1>17, NoneIsTwice
<1>19. /\ k \in 0..Len(ts \o q)
       /\ Leaves(Kept(all), ts \o q, StandingOf(old), k)
  <2>1. /\ all \in Seq(Actions) /\ Len(all) = Len(blank)
        /\ blank \in Seq(Actions)
    BY <1>2, <1>5
  <2>2. \A i \in 1..Len(blank) : blank[i].completed => all[i].completed
    <3>1. \A i \in 1..Len(blank) : i <= d => i \in 1..n
      BY <1>1, <1>6, <1>13
    <3> QED BY <1>2, <1>6, <1>14, <3>1 DEF DoneUpTo
  <2>3. DoneTypes(blank, d) \subseteq Permanent
    BY <1>12, <1>15
  <2>4. \A i \in 1..Len(blank) :
            /\ all[i].type = blank[i].type
            /\ blank[i].completed => all[i].completed
    BY <1>8, <2>2
  <2>5. MoreDone(blank, d, all, e)
    BY <1>11, <1>14, <2>1, <2>3, <2>4 DEF MoreDone
  <2>6. /\ k \in 0..Len(TypesFrom(blank, d))
        /\ Leaves(Kept(all), TypesFrom(blank, d), DoneTypes(blank, d), k)
    BY <2>5, Progress
  <2> HIDE DEF ts, k
  <2> QED BY <1>12, <1>15, <1>17, <2>6
<1>20. k \in 0..(IF ts = <<>> THEN Len(q) ELSE 0)
  <2>1. CASE ts = <<>>
    <3>1. Len(ts) = 0
      BY <2>1, EmptySeq
    <3>2. Len(ts \o q) = Len(q)
      BY <1>1, <1>2, <1>5, <1>13, <1>16, <1>17, <3>1
    <3> QED BY <1>19, <2>1, <3>2
  <2>2. CASE ts # <<>>
    <3>1. d < n
      <4>1. Len(ts) # 0
        BY <1>16, <2>2, EmptySeq
      <4> QED BY <1>1, <1>13, <1>16, <4>1
    <3>2. old # <<>> /\ n \in 1..n /\ ~(n <= d)
      <4>1. n # 0
        BY <1>1, <1>13, <3>1
      <4> QED BY <1>1, <1>13, <3>1, <4>1, EmptySeq DEF n
    <3>3. ~old[n].completed
      BY <1>10, <3>2 DEF DoneUpTo, n
    <3>4. n \in 1..Len(all) /\ ~all[n].completed
      BY <1>1, <1>2, <3>2, <3>3
    <3>5. ASSUME NEW i \in 1..Len(blank)
          PROVE  all[i].completed <=> blank[i].completed
      <4>1. CASE i \in 1..n
        BY <1>2, <1>6, <4>1
      <4>2. CASE i \in (n + 1)..Len(blank)
        <5>1. n \in 1..(i - 1) /\ i \in 1..Len(all)
          BY <1>1, <1>2, <1>5, <3>2, <4>2
        <5>2. ~(all[i].starts > 0)
          BY <1>2, <3>4, <5>1 DEF Orderly, Ordered
        <5>3. ~all[i].completed
          BY <1>2, <5>1, <5>2 DEF Orderly, CompletedStarted
        <5> QED BY <1>7, <4>2, <5>3
      <4> QED BY <1>6, <4>1, <4>2
    <3>6. DoneUpTo(all, d)
      BY <1>2, <1>5, <1>14, <3>5 DEF DoneUpTo
    <3>7. e = d
      BY <1>2, <1>11, <3>6, DoneOnce
    <3> QED BY <1>13, <2>2, <3>7
  <2> QED BY <2>1, <2>2
<1> HIDE DEF ts, k
<1> QED BY <1>12, <1>18, <1>19, <1>20 DEF Extends

(* What one call may do to the plan of a session it does not end.          *)
Changes(old, kept) ==
    SamePlan(old, kept) \/ Extends(old, kept) \/ Advances(old, kept)

LEMMA RequestFacts ==
    ASSUME NEW request \in Requests, NEW q \in Seq(Types),
           Len(q) # 0, Len(q) <= Len(request)
    PROVE  q \in AbsRequests
<1>1. /\ Len(q) \in Nat /\ Len(request) \in Nat
      /\ q \in [1..Len(q) -> Types]
  <2>1. request \in Seq(Types)
    BY RequestsAssumption
  <2>2. \A i \in 1..Len(q) : q[i] \in Types
    BY ElementOfSeq
  <2> QED BY <2>1, <2>2, LenProperties
<1>2. Len(q) \in 1..Len(request)
  BY <1>1
<1>3. Len(q) \in UNION {1..Len(r) : r \in Requests}
  BY <1>2
<1> QED BY <1>1, <1>3 DEF AbsRequests

LEMMA AddChanges ==
    ASSUME NEW old, Orderly(old), Settled(old), NEW request \in Requests,
           NEW loop, AddedTo(old, Len(request), loop)
    PROVE  /\ Orderly(loop.actions) /\ Settled(loop.actions)
           /\ Changes(old, loop.actions)
<1>1. PICK q, all : /\ Grown(old, q, all) /\ Len(q) <= Len(request)
                    /\ Held(all, loop)
  BY DEF AddedTo
<1>2. /\ q \in Seq(Types) /\ Orderly(all) /\ ~Errored(all)
      /\ Len(all) = Len(old) + Len(q)
      /\ \A i \in 1..Len(old) : all[i] = old[i]
  BY <1>1 DEF Grown
<1>3. loop.actions = Kept(all)
  BY <1>1 DEF Held
<1>4. Orderly(Kept(all)) /\ Settled(Kept(all))
  BY <1>2, KeptIsOrderly
<1>5. CASE Len(q) = 0
  <2>1. old \in Seq(Actions) /\ Len(old) \in Nat
    BY LenProperties DEF Orderly
  <2>2. /\ Len(all) = Len(old)
        /\ \A j \in 1..Len(old) :
               /\ all[j].type = old[j].type
               /\ old[j].completed => all[j].completed
    BY <1>2, <1>5, <2>1
  <2>3. SamePlan(old, Kept(all)) \/ Advances(old, Kept(all))
    BY <1>2, <2>2, ProcessAdvances
  <2> QED BY <1>3, <1>4, <2>3 DEF Changes
<1>6. CASE Len(q) # 0
  <2>1. q \in AbsRequests
    BY <1>1, <1>2, <1>6, RequestFacts
  <2>2. Extends(old, Kept(all))
    BY <1>1, <1>6, <2>1, AddExtends
  <2> QED BY <1>3, <1>4, <2>2 DEF Changes
<1> QED BY <1>5, <1>6

-----------------------------------------------------------------------------
(* The invariant.                                                          *)

Sound(s) ==
    /\ s \in Sessions /\ s.left <= s.wait
    /\ s.actions # <<>> /\ Len(s.actions) <= MaxActions
    /\ Orderly(s.actions) /\ Settled(s.actions)

(* No other session has this peerid.                                       *)
Alone(n, peerid) == \A m \in Present \ {n} : session[m].peerid # peerid

(* Peerids are unique among the sessions, so that a call that leaves the   *)
(* one of its session can put it back.                                     *)
IInv ==
    /\ session \in [Nodes -> Sessions \cup Losses \cup {None}]
    /\ \A n \in Present : Sound(session[n]) /\ Alone(n, session[n].peerid)
    /\ \A n \in Nodes : session[n] \in Losses =>
                            session[n].to # session[n].from

LEMMA SessionFacts ==
    ASSUME NEW s \in Sessions
    PROVE  /\ s.peerid \in PeerIds \cup {NoPeer} /\ s.address \in Addresses
           /\ s.wait \in Waits /\ s.wait \in Nat /\ s.left \in Nat
           /\ s.actions \in Seq(Actions)
BY WaitsAssumption DEF Sessions

(* A session is no loss: it has other fields.                              *)
LEMMA SessionsAreKept ==
    ASSUME NEW s \in Sessions
    PROVE  s \notin Losses \cup {None}
<1>1. s # None
  BY SessionsAssumption
<1>2. "wait" \in DOMAIN s
  BY DEF Sessions
<1>3. \A l \in Losses : DOMAIN l = {"from", "to"}
  BY DEF Losses
<1> QED BY <1>1, <1>2, <1>3

LEMMA PresentFacts ==
    ASSUME IInv
    PROVE  /\ Present \in SUBSET Nodes
           /\ \A n \in Present : session[n] \in Sessions
           /\ \A n \in Nodes : n \in Present <=> session[n] \in Sessions
<1>1. Present \in SUBSET Nodes
  BY DEF Present
<1>2. \A n \in Present : session[n] \in Sessions
  BY DEF IInv, Sound
<1>3. \A n \in Nodes : session[n] \in Sessions => n \in Present
  BY SessionsAreKept DEF Present
<1> QED BY <1>1, <1>2, <1>3

LEMMA ContactedFacts ==
    ASSUME NEW s \in Sessions, NEW w \in Waits, NEW kept \in Seq(Actions),
           NEW peerid \in PeerIds \cup {NoPeer}
    PROVE  LET new == Contacted([s EXCEPT !.actions = kept], w, peerid) IN
           /\ new \in Sessions /\ new.left <= new.wait /\ new.actions = kept
           /\ new.peerid = peerid
<1>1. /\ s.wait \in Waits /\ s.wait \in Nat /\ w \in Nat
  BY SessionFacts, WaitsAssumption
<1>2. [s EXCEPT !.actions = kept] \in Sessions
  BY DEF Sessions
<1>3. /\ [s EXCEPT !.actions = kept].actions = kept
      /\ [s EXCEPT !.actions = kept].wait = s.wait
  BY DEF Sessions
<1> DEFINE t == [s EXCEPT !.actions = kept]
           wait == IF t.wait > w THEN w ELSE t.wait
           new == Contacted(t, w, peerid)
<1>4. new = [t EXCEPT !.peerid = peerid, !.wait = wait, !.left = wait]
  BY DEF Contacted
<1>5. wait \in Waits /\ wait \in Nat
  BY <1>1, <1>3
<1> HIDE DEF wait
<1>6. t \in Sessions /\ t.actions = kept
  BY <1>2, <1>3
<1> HIDE DEF t
<1>7. /\ new \in Sessions /\ new.left = wait /\ new.wait = wait
      /\ new.actions = kept /\ new.peerid = peerid
  BY <1>4, <1>5, <1>6 DEF Sessions
<1> QED BY <1>5, <1>7 DEF t

(* The session of one node is replaced, or ends.                           *)
Puts(n, v) ==
    /\ session' = [session EXCEPT ![n] = v]
    /\ \/ v = None
       \/ v \in Losses /\ v.to # v.from
       \/ Sound(v) /\ Alone(n, v.peerid) /\ Changes(ActionsOf(n), v.actions)

(* modify() loses a session only if its peerid has become another's.       *)
LEMMA ModifiedPuts ==
    ASSUME IInv, NEW n \in Nodes, NEW from \in PeerIds \cup {NoPeer},
           Alone(n, from), NEW s, Sound(s),
           Changes(ActionsOf(n), s.actions),
           session' = [session EXCEPT ![n] = Modified(n, from, s)]
    PROVE  Puts(n, Modified(n, from, s))
<1>1. CASE \E m \in Present \ {n} : session[m].peerid = s.peerid
  <2>1. Modified(n, from, s) = [from |-> from, to |-> s.peerid]
    BY <1>1 DEF Modified
  <2>2. s.peerid # from /\ s.peerid \in PeerIds \cup {NoPeer}
    BY <1>1, SessionFacts DEF Alone, Sound
  <2> DEFINE l == [from |-> from, to |-> s.peerid]
  <2>3. l \in Losses /\ l.to # l.from
    BY <2>2 DEF Losses
  <2> HIDE DEF l
  <2> QED BY <2>1, <2>3 DEF Puts, l
<1>2. CASE ~ \E m \in Present \ {n} : session[m].peerid = s.peerid
  <2>1. Modified(n, from, s) = s /\ Alone(n, s.peerid)
    BY <1>2 DEF Modified, Alone
  <2> QED BY <2>1 DEF Puts
<1> QED BY <1>1, <1>2

LEMMA PutKeeps ==
    ASSUME IInv, NEW n \in Nodes, NEW v, Puts(n, v)
    PROVE  IInv'
<1>1. v \in Sessions \cup Losses \cup {None}
  BY DEF Puts, Sound
<1>2. /\ session' \in [Nodes -> Sessions \cup Losses \cup {None}]
      /\ session'[n] = v
      /\ \A m \in Nodes : m # n => session'[m] = session[m]
  BY <1>1 DEF IInv, Puts
<1>3. /\ Present' \in SUBSET Nodes
      /\ \A m \in Nodes : m # n => (m \in Present' <=> m \in Present)
      /\ n \in Present' <=> v \in Sessions
  <2>1. n \in Present' <=> v \notin Losses \cup {None}
    BY <1>2 DEF Present
  <2>2. v \in Sessions => v \notin Losses \cup {None}
    BY SessionsAreKept
  <2>3. /\ Present' \in SUBSET Nodes
        /\ \A m \in Nodes : m # n => (m \in Present' <=> m \in Present)
    BY <1>2 DEF Present
  <2> QED BY <1>1, <2>1, <2>2, <2>3
<1>4. v \in Sessions => Sound(v) /\ Alone(n, v.peerid)
  BY SessionsAreKept DEF Puts
<1>5. ASSUME NEW m \in Present'
      PROVE  Sound(session'[m])
  <2>1. CASE m = n
    BY <1>2, <1>3, <1>4, <1>5, <2>1
  <2>2. CASE m # n
    BY <1>2, <1>3, <1>5, <2>2 DEF IInv
  <2> QED BY <2>1, <2>2
<1>6. ASSUME NEW m \in Present', NEW l \in Present', m # l
      PROVE  session'[l].peerid # session'[m].peerid
  <2>1. CASE m = n
    BY <1>2, <1>3, <1>4, <1>6, <2>1 DEF Alone
  <2>2. CASE l = n
    BY <1>2, <1>3, <1>4, <1>6, <2>2 DEF Alone
  <2>3. CASE m # n /\ l # n
    BY <1>2, <1>3, <1>6, <2>3 DEF IInv, Alone
  <2> QED BY <2>1, <2>2, <2>3
<1>7. \A m \in Nodes : session'[m] \in Losses =>
                           session'[m].to # session'[m].from
  <2>1. v \in Losses => v.to # v.from
    BY SessionsAreKept, SessionsAssumption DEF Puts, Sound
  <2> QED BY <1>2, <2>1 DEF IInv
<1> QED BY <1>2, <1>5, <1>6, <1>7 DEF IInv, Alone

LEMMA NoneIsOrderly == Orderly(<<>>) /\ Settled(<<>>) /\ Len(<<>>) = 0
<1>1. <<>> \in Seq(Actions) /\ Len(<<>>) = 0 /\ DOMAIN <<>> = {}
  BY EmptySeq
<1> QED BY <1>1 DEF Orderly, Ordered, CompletedStarted, Single, OnceEach,
                    Settled

LEMMA AddStep ==
    ASSUME IInv, NEW h \in Headers, NEW request \in Requests,
           NEW w \in Waits, Add(h, request, w)
    PROVE  \E n \in Nodes : \E v : Puts(n, v)
<1> DEFINE n == Found(h)
           s == IF n \in Present THEN session[n] ELSE NewSession(h, w)
           old == s.actions
<1>1. /\ h \in [nodeid : Nodes, address : Addresses,
                peerid : PeerIds \cup {NoPeer}]
      /\ request \in Seq(Types) /\ w \in Nat
  BY HeadersAssumption, RequestsAssumption, WaitsAssumption
<1>2. n \in Nodes
  <2>1. Present \in SUBSET Nodes
    BY PresentFacts
  <2> QED BY <1>1, <2>1 DEF Found
<1>3. /\ s \in Sessions /\ s.left <= s.wait /\ Orderly(old) /\ Settled(old)
      /\ old = ActionsOf(n) /\ Alone(n, s.peerid)
  <2>1. CASE n \in Present
    BY <2>1 DEF IInv, Sound, ActionsOf
  <2>2. CASE n \notin Present
    <3>1. s = NewSession(h, w)
      BY <2>2
    <3>2. <<>> \in Seq(Actions)
      BY EmptySeq
    <3>3. NewSession(h, w) \in Sessions
      BY <1>1, <3>2 DEF NewSession, Sessions
    <3>4. /\ NewSession(h, w).actions = <<>> /\ NewSession(h, w).left = 0
          /\ NewSession(h, w).wait = w
          /\ NewSession(h, w).peerid = h.peerid
      BY DEF NewSession
    <3>5. 0 <= w
      BY <1>1
    <3>6. ActionsOf(n) = <<>>
      BY <2>2 DEF ActionsOf
    <3>7. Alone(n, h.peerid)
      BY <2>2 DEF Found, Alone
    <3> HIDE DEF s, n
    <3> QED BY <3>1, <3>3, <3>4, <3>5, <3>6, <3>7, NoneIsOrderly
  <2> QED BY <2>1, <2>2
<1>4. PICK outcomes \in [DOMAIN request -> Outcomes] :
          \E v \in AddLeaves(n, s, w, AddLoop(old, request, outcomes)) :
              session' = [session EXCEPT ![n] = v]
  BY DEF Add
<1>5. PICK v \in AddLeaves(n, s, w, AddLoop(old, request, outcomes)) :
          session' = [session EXCEPT ![n] = v]
  BY <1>4
<1> DEFINE loop == AddLoop(old, request, outcomes)
           t == [s EXCEPT !.actions = loop.actions]
<1> HIDE DEF n, s
<1>6. ASSUME ~loop.errored
      PROVE  /\ Orderly(loop.actions) /\ Settled(loop.actions)
             /\ loop.actions \in Seq(Actions)
             /\ Changes(ActionsOf(n), loop.actions)
  <2>1. AddedTo(old, Len(request), loop)
    BY <1>1, <1>3, <1>6, AddKeeps
  <2> HIDE DEF loop
  <2> QED BY <1>3, <2>1, AddChanges DEF Orderly
<1> HIDE DEF loop
<1>7. v \in AddLeaves(n, s, w, loop)
  BY <1>5 DEF loop
<1>8. \/ v = None
      \/ /\ ~loop.errored /\ loop.actions # <<>>
         /\ Len(loop.actions) <= MaxActions
         /\ \/ v = t
            \/ \E peerid \in PeerIds \cup {s.peerid} :
                   v = Modified(n, s.peerid, Contacted(t, w, peerid))
  <2>1. ~(Len(loop.actions) > MaxActions)
    BY <1>7 DEF AddLeaves
  <2>2. CASE loop.errored \/ loop.actions = <<>>
    BY <1>7, <2>1, <2>2 DEF AddLeaves
  <2>3. CASE ~(loop.errored \/ loop.actions = <<>>)
    <3>1. Len(loop.actions) <= MaxActions
      <4>1. Len(loop.actions) \in Nat
        BY <1>6, <2>3, LenProperties
      <4> QED BY <2>1, <4>1, MaxActionsAssumption
    <3>2. CASE ~loop.contacted
      BY <1>7, <2>1, <2>3, <3>1, <3>2 DEF AddLeaves
    <3>3. CASE loop.contacted
      BY <1>7, <2>1, <2>3, <3>1, <3>3 DEF AddLeaves
    <3> QED BY <3>2, <3>3
  <2> QED BY <2>2, <2>3
<1>9. CASE v = None
  BY <1>2, <1>5, <1>9 DEF Puts
<1>10. CASE v # None
  <2>1. /\ Orderly(loop.actions) /\ Settled(loop.actions)
        /\ loop.actions \in Seq(Actions) /\ loop.actions # <<>>
        /\ Len(loop.actions) <= MaxActions
        /\ Changes(ActionsOf(n), loop.actions)
    BY <1>6, <1>8, <1>10
  <2>2. CASE v = t
    <3>1. /\ t \in Sessions /\ t.left = s.left /\ t.wait = s.wait
          /\ t.actions = loop.actions /\ t.peerid = s.peerid
      BY <1>3, <2>1 DEF Sessions
    <3> HIDE DEF t
    <3>2. Sound(t)
      BY <1>3, <2>1, <3>1 DEF Sound
    <3>3. Puts(n, t)
      BY <1>3, <1>5, <2>1, <2>2, <3>1, <3>2 DEF Puts
    <3> QED BY <1>2, <3>3
  <2>3. ASSUME NEW peerid \in PeerIds \cup {s.peerid},
               v = Modified(n, s.peerid, Contacted(t, w, peerid))
        PROVE  Puts(n, v)
    <3> DEFINE c == Contacted(t, w, peerid)
    <3>1. s.peerid \in PeerIds \cup {NoPeer}
      BY <1>3, SessionFacts
    <3>2. c \in Sessions /\ c.left <= c.wait /\ c.actions = loop.actions
      BY <1>3, <2>1, <3>1, ContactedFacts
    <3>3. v = Modified(n, s.peerid, c)
      BY <2>3
    <3> HIDE DEF c
    <3>4. Sound(c)
      BY <2>1, <3>2 DEF Sound
    <3> QED BY <1>2, <1>3, <1>5, <2>1, <3>1, <3>2, <3>3, <3>4, ModifiedPuts
  <2> QED BY <1>2, <1>8, <1>10, <2>2, <2>3
<1> QED BY <1>9, <1>10

LEMMA ProcessStep ==
    ASSUME IInv, NEW n \in Present, NEW i \in DOMAIN session[n].actions,
           Process(n, i)
    PROVE  \E v : Puts(n, v)
<1> DEFINE s == session[n]
<1>1. /\ n \in Nodes /\ Sound(s) /\ s.actions = ActionsOf(n)
      /\ Alone(n, s.peerid)
  BY PresentFacts DEF IInv, ActionsOf
<1>2. /\ s \in Sessions /\ Orderly(s.actions) /\ Settled(s.actions)
      /\ Len(s.actions) <= MaxActions /\ Len(s.actions) \in Nat
      /\ i \in 1..Len(s.actions)
      /\ s.actions[i].starts > 0
      /\ s.peerid \in PeerIds \cup {NoPeer}
      /\ s.wait \in Nat /\ s.wait <= s.wait
  <2>1. s.actions[i].starts > 0
    BY DEF Process
  <2>2. /\ s \in Sessions /\ s.actions \in Seq(Actions)
        /\ s.peerid \in PeerIds \cup {NoPeer} /\ s.wait \in Nat
    BY <1>1, SessionFacts DEF Sound
  <2> QED BY <1>1, <2>1, <2>2, ActionFacts DEF Sound
<1>3. PICK outcomes \in [DOMAIN s.actions -> Outcomes] :
          \E v \in ProcessLeaves(n, s,
                                 ProcessLoop(s.actions, i, outcomes)) :
              session' = [session EXCEPT ![n] = v]
  BY DEF Process
<1>4. PICK v \in ProcessLeaves(n, s, ProcessLoop(s.actions, i, outcomes)) :
          session' = [session EXCEPT ![n] = v]
  BY <1>3
<1> DEFINE loop == ProcessLoop(s.actions, i, outcomes)
           t(peerid) == [[s EXCEPT !.left = s.wait,
                                   !.actions = Kept(loop.actions)]
                            EXCEPT !.peerid = peerid]
<1> HIDE DEF s, loop
<1>5. CASE loop.errored \/ loop.disposed = Len(s.actions)
  <2>1. v = None
    BY <1>4, <1>5 DEF ProcessLeaves, loop
  <2> QED BY <1>4, <2>1 DEF Puts
<1>6. CASE ~(loop.errored \/ loop.disposed = Len(s.actions))
  <2>1. PICK peerid \in {s.peerid} \cup PeerIds :
            v = Modified(n, s.peerid, t(peerid))
    BY <1>4, <1>6 DEF ProcessLeaves, loop
  <2>2. peerid \in PeerIds \cup {NoPeer}
    BY <1>2
  <2>3. /\ Orderly(Kept(loop.actions)) /\ Settled(Kept(loop.actions))
        /\ Kept(loop.actions) # <<>>
        /\ Len(Kept(loop.actions)) <= Len(s.actions)
        /\ Orderly(loop.actions) /\ Len(loop.actions) = Len(s.actions)
        /\ \A j \in 1..Len(s.actions) :
               /\ loop.actions[j].type = s.actions[j].type
               /\ s.actions[j].completed => loop.actions[j].completed
    BY <1>2, <1>6, ProcessOrderly DEF loop
  <2>4. /\ Kept(loop.actions) \in Seq(Actions)
        /\ Len(Kept(loop.actions)) \in Nat
    BY <2>3, ActionFacts DEF Orderly
  <2>5. /\ t(peerid) \in Sessions /\ t(peerid).left = s.wait
        /\ t(peerid).wait = s.wait
        /\ t(peerid).actions = Kept(loop.actions)
    BY <1>2, <2>2, <2>4 DEF Sessions
  <2> HIDE DEF t
  <2>6. Len(Kept(loop.actions)) <= MaxActions
    BY <1>2, <2>3, <2>4, MaxActionsAssumption
  <2>7. Sound(t(peerid))
    BY <1>2, <2>3, <2>5, <2>6 DEF Sound
  <2>8. Changes(s.actions, Kept(loop.actions))
    BY <1>2, <2>3, ProcessAdvances DEF Changes
  <2> QED BY <1>1, <1>2, <1>4, <2>1, <2>5, <2>7, <2>8, ModifiedPuts
<1> QED BY <1>5, <1>6

(* Sessions that stay or end keep peerids unique.                          *)
LEMMA RestKeeps ==
    ASSUME IInv, session' = [m \in Nodes |-> session'[m]],
           \A m \in Nodes :
               \/ session'[m] = None \/ session'[m] = session[m]
               \/ /\ m \in Present /\ Sound(session'[m])
                  /\ session'[m].peerid = session[m].peerid
    PROVE  IInv'
<1>1. Present' \in SUBSET Nodes
  BY DEF Present
<1>2. ASSUME NEW m \in Present'
      PROVE  /\ m \in Present /\ Sound(session'[m])
             /\ session'[m].peerid = session[m].peerid
  <2>1. m \in Nodes /\ session'[m] \notin Losses \cup {None}
    BY <1>2 DEF Present
  <2>2. session'[m] = session[m] => m \in Present
    BY <2>1 DEF Present
  <2> QED BY <2>1, <2>2 DEF IInv
<1>3. session' \in [Nodes -> Sessions \cup Losses \cup {None}]
  <2>1. \A m \in Nodes : session'[m] \in Sessions \cup Losses \cup {None}
    BY DEF IInv, Sound
  <2> QED BY <2>1
<1>4. \A m, l \in Present' :
          m # l => session'[l].peerid # session'[m].peerid
  BY <1>2 DEF IInv, Alone
<1>5. ASSUME NEW m \in Nodes, session'[m] \in Losses
      PROVE  session'[m].to # session'[m].from
  <2>1. session'[m] # None
    BY <1>5, SessionsAssumption
  <2>2. ~Sound(session'[m])
    BY <1>5, SessionsAreKept DEF Sound
  <2> QED BY <1>5, <2>1, <2>2 DEF IInv
<1> QED BY <1>2, <1>3, <1>4, <1>5 DEF IInv, Alone

(* Each session stays, ends or comes closer to its deadline.               *)
LEMMA RestStep ==
    ASSUME IInv,
           \/ \E n \in Present : RemovePeer(n)
           \/ EraseAllPending
           \/ Tick
    PROVE  IInv'
<1> DEFINE Nearer(m) == [session[m] EXCEPT !.left = @ - 1]
<1>1. ASSUME NEW n \in Present, RemovePeer(n)
      PROVE  IInv'
  <2>1. n \in Nodes
    BY PresentFacts
  <2>2. Puts(n, None)
    BY <1>1 DEF RemovePeer, Puts
  <2> QED BY <2>1, <2>2, PutKeeps
<1>2. ASSUME EraseAllPending
      PROVE  IInv'
  <2> DEFINE due == {m \in Present : session[m].left = 0}
  <2>1. session' = [m \in Nodes |-> IF m \in due THEN None ELSE session[m]]
    BY <1>2 DEF EraseAllPending
  <2> HIDE DEF due
  <2>2. \A m \in Nodes : session'[m] = None \/ session'[m] = session[m]
    BY <2>1
  <2>3. session' = [m \in Nodes |-> session'[m]]
    BY <2>1
  <2> QED BY <2>2, <2>3, RestKeeps
<1>3. ASSUME Tick
      PROVE  IInv'
  <2>1. session' = [n \in Nodes |->
            IF n \in Present /\ session[n].left > 0
            THEN [session[n] EXCEPT !.left = @ - 1] ELSE session[n]]
    BY <1>3 DEF Tick
  <2>2. ASSUME NEW n \in Present, session[n].left > 0
        PROVE  Sound(Nearer(n)) /\ Nearer(n).peerid = session[n].peerid
    <3>1. Sound(session[n])
      BY DEF IInv
    <3>2. /\ session[n] \in Sessions /\ session[n].left <= session[n].wait
          /\ session[n].left \in Nat /\ session[n].wait \in Nat
      BY <3>1, SessionFacts DEF Sound
    <3>3. session[n].left - 1 \in Nat
      BY <2>2, <3>2
    <3>4. /\ Nearer(n) \in Sessions
          /\ Nearer(n).left = session[n].left - 1
          /\ Nearer(n).wait = session[n].wait
          /\ Nearer(n).actions = session[n].actions
          /\ Nearer(n).peerid = session[n].peerid
      BY <3>2, <3>3 DEF Sessions
    <3> HIDE DEF Nearer
    <3>5. Nearer(n).left <= Nearer(n).wait
      BY <3>2, <3>3, <3>4
    <3> QED BY <3>1, <3>4, <3>5 DEF Sound
  <2>3. \A n \in Nodes : n \in Present /\ session[n].left > 0
            => session'[n] = Nearer(n)
    BY <2>1
  <2>4. \A n \in Nodes : ~(n \in Present /\ session[n].left > 0)
            => session'[n] = session[n]
    BY <2>1
  <2> HIDE DEF Nearer
  <2>5. ASSUME NEW n \in Nodes
        PROVE  \/ session'[n] = session[n]
               \/ /\ n \in Present /\ Sound(session'[n])
                  /\ session'[n].peerid = session[n].peerid
    BY <2>2, <2>3, <2>4
  <2>6. session' = [n \in Nodes |-> session'[n]]
    BY <2>1
  <2> QED BY <2>5, <2>6, RestKeeps
<1> QED BY <1>1, <1>2, <1>3

(* The invariant is inductive.                                             *)
LEMMA Invariance == Spec => []IInv
<1>1. Init => IInv
  BY SessionsAssumption DEF Init, IInv, Present
<1>2. IInv /\ [Next]_vars => IInv'
  <2> SUFFICES ASSUME IInv, [Next]_vars
               PROVE  IInv'
    OBVIOUS
  <2>1. CASE \E h \in Headers, request \in Requests, w \in Waits :
                 Add(h, request, w)
    BY <2>1, AddStep, PutKeeps
  <2>2. CASE \E n \in Present : \E i \in DOMAIN session[n].actions :
                 Process(n, i)
    BY <2>2, ProcessStep, PutKeeps, PresentFacts
  <2>3. CASE \/ \E n \in Present : RemovePeer(n)
             \/ EraseAllPending
             \/ Tick
    BY <2>3, RestStep
  <2>4. CASE UNCHANGED vars
    BY <2>4 DEF vars, IInv, Alone, Present
  <2> QED BY <2>1, <2>2, <2>3, <2>4 DEF Next
<1> QED BY <1>1, <1>2, PTL DEF Spec

-----------------------------------------------------------------------------
(* The properties.                                                         *)

(* Type correctness: add() never gives a session more actions than its     *)
(* bound, and no deadline is further away than wait_duration.              *)
THEOREM TypeCorrect == Spec => []TypeOK
<1>1. IInv => TypeOK
  BY DEF IInv, Sound, TypeOK
<1> QED BY <1>1, Invariance, PTL

(* The loops of add() and process() start each action when those before it *)
(* are completed, neither earlier nor later, and call initiate() on it     *)
(* again only behind a permanent action that goes on accepting packets.    *)
THEOREM OrderSafety == Spec => [](ActionsInOrder /\ StartedOnce)
<1>1. IInv => ActionsInOrder /\ StartedOnce
  BY DEF IInv, Sound, Orderly, Ordered, OnceEach, BehindPermanent,
         ActionsInOrder, StartedOnce
<1> QED BY <1>1, Invariance, PTL

(* process() ends a session just when none of its actions stays, by the    *)
(* number of them it counts, and no failed action is left in one.          *)
THEOREM EndSafety == Spec => [](SessionsHaveActions /\ ErrorsEndSessions)
<1>1. IInv => SessionsHaveActions
  BY DEF IInv, Sound, Settled, SessionsHaveActions
<1>2. IInv => ErrorsEndSessions
  BY DEF IInv, Sound, Settled, ErrorsEndSessions, ToSet
<1> QED BY <1>1, <1>2, Invariance, PTL

(* However many vectors of actions the owner adds, a session has one       *)
(* action of each permanent class.                                         *)
THEOREM PermanentSafety == Spec => []PermanentOnce
<1>1. IInv => PermanentOnce
  BY DEF IInv, Sound, Orderly, Single, PermanentOnce
<1> QED BY <1>1, Invariance, PTL

(* modify() finds the peerid of a session taken only if an action of it    *)
(* has set the one in its header: otherwise the assertions of add() and    *)
(* process() that it puts the session back hold.                           *)
THEOREM PutBackSafety == Spec => []ModifyPutsBack
<1>1. IInv => ModifyPutsBack
  BY DEF IInv, ModifyPutsBack
<1> QED BY <1>1, Invariance, PTL

-----------------------------------------------------------------------------
(* The refinement of SessionPlan.                                          *)

LEMMA EmptyPlan == PlanOf(<<>>) = <<>> /\ StandingOf(<<>>) = {}
<1>1. <<>> \in Seq(Actions) /\ Len(<<>>) = 0
  BY EmptySeq
<1>2. DoneUpTo(<<>>, 0)
  BY <1>1 DEF DoneUpTo
<1>3. /\ PlanOf(<<>>) = TypesFrom(<<>>, 0)
      /\ StandingOf(<<>>) = DoneTypes(<<>>, 0)
  BY <1>1, <1>2, PlanFacts
<1>4. /\ TypesFrom(<<>>, 0) \in Seq(Types)
      /\ Len(TypesFrom(<<>>, 0)) = 0
  <2>1. 0 \in 0..Len(<<>>) /\ Len(<<>>) - 0 = 0
    BY <1>1
  <2> QED BY <1>1, <2>1, TypesFromFacts
<1>5. TypesFrom(<<>>, 0) = <<>>
  BY <1>4, EmptySeq
<1> QED BY <1>3, <1>5 DEF DoneTypes

(* The mapping at one node, before and after a step.                       *)
LEMMA AbsFacts ==
    /\ AbsPlan = [m \in Nodes |-> PlanOf(ActionsOf(m))]
    /\ AbsStanding = [m \in Nodes |-> StandingOf(ActionsOf(m))]
    /\ AbsPlan' = [m \in Nodes |-> PlanOf(ActionsOf(m)')]
    /\ AbsStanding' = [m \in Nodes |-> StandingOf(ActionsOf(m)')]
    /\ \A m \in Nodes :
           /\ ActionsOf(m) =
                  IF session[m] \notin Losses \cup {None}
                  THEN session[m].actions ELSE <<>>
           /\ ActionsOf(m)' =
                  IF session'[m] \notin Losses \cup {None}
                  THEN session'[m].actions ELSE <<>>
BY DEF AbsPlan, AbsStanding, ActionsOf, Present, PlanOf, StandingOf

(* Sessions end, the others keep what they have.                           *)
LEMMA EndsPlan ==
    ASSUME NEW ended \in SUBSET Nodes,
           \A m \in ended : ActionsOf(m)' = <<>>,
           \A m \in Nodes \ ended :
               /\ PlanOf(ActionsOf(m)') = PlanOf(ActionsOf(m))
               /\ StandingOf(ActionsOf(m)') = StandingOf(ActionsOf(m))
    PROVE  Plan!Next
<1>1. AbsPlan' = [m \in Nodes |-> IF m \in ended THEN <<>> ELSE AbsPlan[m]]
  BY AbsFacts, EmptyPlan
<1>2. AbsStanding' =
          [m \in Nodes |-> IF m \in ended THEN {} ELSE AbsStanding[m]]
  BY AbsFacts, EmptyPlan
<1>3. Plan!End(ended)
  BY <1>1, <1>2 DEF Plan!End
<1> QED BY <1>3 DEF Plan!Next

LEMMA PutImplements ==
    ASSUME IInv, NEW n \in Nodes, NEW v, Puts(n, v)
    PROVE  Plan!Next
<1> DEFINE old == ActionsOf(n)
<1>1. session \in [Nodes -> Sessions \cup Losses \cup {None}]
  BY DEF IInv
<1>2. /\ session'[n] = v
      /\ \A m \in Nodes : m # n => session'[m] = session[m]
  BY <1>1 DEF Puts
<1>3. \A m \in Nodes : m # n => ActionsOf(m)' = ActionsOf(m)
  BY <1>2, AbsFacts
<1>4. CASE v \in Losses \cup {None}
  <2>1. ActionsOf(n)' = <<>>
    BY <1>2, <1>4, AbsFacts
  <2>2. {n} \in SUBSET Nodes
    OBVIOUS
  <2>3. /\ \A m \in {n} : ActionsOf(m)' = <<>>
        /\ \A m \in Nodes \ {n} :
               /\ PlanOf(ActionsOf(m)') = PlanOf(ActionsOf(m))
               /\ StandingOf(ActionsOf(m)') = StandingOf(ActionsOf(m))
    BY <1>3, <2>1
  <2> QED BY <2>2, <2>3, EndsPlan
<1>5. CASE v \notin Losses \cup {None}
  <2>1. Sound(v) /\ Changes(old, v.actions)
    BY <1>5 DEF Puts
  <2>2. ActionsOf(n)' = v.actions
    BY <1>2, <1>5, AbsFacts
  <2>3. CASE SamePlan(old, v.actions)
    <3>1. /\ PlanOf(ActionsOf(n)') = PlanOf(ActionsOf(n))
          /\ StandingOf(ActionsOf(n)') = StandingOf(ActionsOf(n))
      BY <2>2, <2>3 DEF SamePlan
    <3>2. /\ \A m \in {} : ActionsOf(m)' = <<>>
          /\ \A m \in Nodes \ {} :
                 /\ PlanOf(ActionsOf(m)') = PlanOf(ActionsOf(m))
                 /\ StandingOf(ActionsOf(m)') = StandingOf(ActionsOf(m))
      BY <1>3, <3>1
    <3>3. {} \in SUBSET Nodes
      OBVIOUS
    <3> QED BY <3>2, <3>3, EndsPlan
  <2>4. AbsPlan[n] = PlanOf(old) /\ AbsStanding[n] = StandingOf(old)
    BY AbsFacts
  <2>5. ASSUME NEW ts, NEW k, Leaves(v.actions, ts, StandingOf(old), k)
        PROVE  Plan!Done(n, ts, k)
    <3>1. AbsPlan' = [AbsPlan EXCEPT ![n] = SubSeq(ts, k + 1, Len(ts))]
      BY <1>3, <2>2, <2>5, AbsFacts DEF Leaves
    <3>2. AbsStanding' =
              [AbsStanding EXCEPT
                  ![n] = StandingOf(old)
                             \cup (ToSet(SubSeq(ts, 1, k)) \cap Permanent)]
      BY <1>3, <2>2, <2>5, AbsFacts DEF Leaves
    <3> QED BY <2>4, <3>1, <3>2 DEF Plan!Done, Plan!ToSet, ToSet
  <2>6. CASE Extends(old, v.actions)
    <3>1. PICK request \in AbsRequests :
              /\ Plan!NoneTwice(PlanOf(old) \o request, StandingOf(old))
              /\ \E k \in 0..(IF PlanOf(old) = <<>>
                              THEN Len(request) ELSE 0) :
                     Leaves(v.actions, PlanOf(old) \o request,
                            StandingOf(old), k)
      BY <2>6 DEF Extends
    <3>2. Plan!Extend(n)
      BY <2>4, <2>5, <3>1 DEF Plan!Extend
    <3> QED BY <3>2 DEF Plan!Next
  <2>7. CASE Advances(old, v.actions)
    <3>1. Plan!Advance(n)
      BY <2>4, <2>5, <2>7 DEF Plan!Advance, Advances
    <3> QED BY <3>1 DEF Plan!Next
  <2> QED BY <2>1, <2>3, <2>6, <2>7 DEF Changes
<1> QED BY <1>4, <1>5

(* What ends sessions or leaves their actions alone.                       *)
LEMMA RestImplements ==
    ASSUME IInv,
           \/ \E n \in Present : RemovePeer(n)
           \/ EraseAllPending
           \/ Tick
    PROVE  Plan!Next
<1>1. ASSUME NEW n \in Present, RemovePeer(n)
      PROVE  Plan!Next
  <2>1. n \in Nodes
    BY PresentFacts
  <2>2. Puts(n, None)
    BY <1>1 DEF RemovePeer, Puts
  <2> QED BY <2>1, <2>2, PutImplements
<1>2. CASE EraseAllPending
  <2> DEFINE due == {m \in Present : session[m].left = 0}
  <2>1. session' = [m \in Nodes |-> IF m \in due THEN None ELSE session[m]]
    BY <1>2 DEF EraseAllPending
  <2>2. due \in SUBSET Nodes
    BY PresentFacts
  <2> HIDE DEF due
  <2>3. /\ \A m \in due : ActionsOf(m)' = <<>>
        /\ \A m \in Nodes \ due : ActionsOf(m)' = ActionsOf(m)
    BY <2>1, <2>2, AbsFacts
  <2>4. \A m \in Nodes \ due :
            /\ PlanOf(ActionsOf(m)') = PlanOf(ActionsOf(m))
            /\ StandingOf(ActionsOf(m)') = StandingOf(ActionsOf(m))
    BY <2>3
  <2> QED BY <2>2, <2>3, <2>4, EndsPlan
<1>3. CASE Tick
  <2> DEFINE Nearer(m) == [session[m] EXCEPT !.left = @ - 1]
  <2>1. \A m \in Nodes :
            session'[m] = IF m \in Present /\ session[m].left > 0
                          THEN Nearer(m) ELSE session[m]
    BY <1>3 DEF Tick
  <2>2. ASSUME NEW m \in Present, session[m].left > 0
        PROVE  /\ Nearer(m) \notin Losses \cup {None}
               /\ Nearer(m).actions = session[m].actions
    <3>1. session[m] \in Sessions
      BY PresentFacts
    <3>2. session[m].left - 1 \in Nat
      BY <2>2, <3>1, SessionFacts
    <3>3. /\ Nearer(m) \in Sessions
          /\ Nearer(m).actions = session[m].actions
      BY <3>1, <3>2 DEF Sessions
    <3> HIDE DEF Nearer
    <3> QED BY <3>3, SessionsAreKept
  <2> HIDE DEF Nearer
  <2>3. \A m \in Nodes : ActionsOf(m)' = ActionsOf(m)
    BY <2>1, <2>2, AbsFacts DEF Present
  <2>4. /\ \A m \in {} : ActionsOf(m)' = <<>>
        /\ \A m \in Nodes \ {} :
               /\ PlanOf(ActionsOf(m)') = PlanOf(ActionsOf(m))
               /\ StandingOf(ActionsOf(m)') = StandingOf(ActionsOf(m))
    BY <2>3
  <2>5. {} \in SUBSET Nodes
    OBVIOUS
  <2> QED BY <2>4, <2>5, EndsPlan
<1> QED BY <1>1, <1>2, <1>3

(* Whatever add() appends, completes at once and removes, and whatever     *)
(* number of actions a packet completes, the actions of a session are done *)
(* in the order they were added, and only a permanent one stays; a session *)
(* gets no second one of its class.                                        *)
THEOREM Implementation == Spec => ImplementsSessionPlan
<1>1. Init => Plan!Init
  <2> SUFFICES ASSUME Init
               PROVE  Plan!Init
    OBVIOUS
  <2>1. \A m \in Nodes : ActionsOf(m) = <<>>
    BY AbsFacts DEF Init
  <2>2. /\ AbsPlan = [m \in Nodes |-> <<>>]
        /\ AbsStanding = [m \in Nodes |-> {}]
    BY <2>1, AbsFacts, EmptyPlan
  <2> QED BY <2>2 DEF Plan!Init
<1>2. IInv /\ [Next]_vars => [Plan!Next]_Plan!vars
  <2> SUFFICES ASSUME IInv, [Next]_vars
               PROVE  [Plan!Next]_Plan!vars
    OBVIOUS
  <2>1. CASE \E h \in Headers, request \in Requests, w \in Waits :
                 Add(h, request, w)
    BY <2>1, AddStep, PutImplements
  <2>2. CASE \E n \in Present : \E i \in DOMAIN session[n].actions :
                 Process(n, i)
    BY <2>2, ProcessStep, PutImplements, PresentFacts
  <2>3. CASE \/ \E n \in Present : RemovePeer(n)
             \/ EraseAllPending
             \/ Tick
    BY <2>3, RestImplements
  <2>4. CASE UNCHANGED vars
    BY <2>4 DEF vars, Plan!vars, AbsPlan, AbsStanding, ActionsOf, Present
  <2> QED BY <2>1, <2>2, <2>3, <2>4 DEF Next
<1> QED BY <1>1, <1>2, Invariance, PTL
        DEF Spec, ImplementsSessionPlan, Plan!Spec
=============================================================================
