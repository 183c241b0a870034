-------------------------- MODULE BlockFileProofs --------------------------
(***************************************************************************)
(* Theorems about BlockFile.  What its operators compute, they compute in  *)
(* loops over the markers, so that the first part proves an induction over *)
(* 0..n from the well-foundedness of < on Nat: the set of the counter      *)
(* values at which a statement fails has no smallest element.  The second  *)
(* part says what the loops return, the third what save(), erase() and     *)
(* compact() make of a sound pair of files, and the last that every        *)
(* reachable pair is sound and that BlockFile implements TxFile.           *)
(***************************************************************************)
EXTENDS BlockFile, Integers, WellFoundedInduction, FiniteSetTheorems,
        SequenceTheorems, TLAPS

-----------------------------------------------------------------------------
(* Induction and recursive functions.                                      *)

(* < on Nat has no infinite descent.                                       *)
LEMMA NatWF == IsWellFoundedOn({p \in Nat \X Nat : p[1] < p[2]}, Nat)
BY NatLessThanWellFounded DEF OpToRel

(* Induction over the values of a loop's counter.                          *)
LEMMA Induction ==
    ASSUME NEW n \in Nat, NEW T, 0 \in T,
           \A i \in 0..n : i \in T /\ i < n => i + 1 \in T
    PROVE  \A i \in 0..n : i \in T
<1> DEFINE R == {p \in Nat \X Nat : p[1] < p[2]}
           U == {i \in 0..n : i \notin T}
<1>1. IsWellFoundedOn(R, Nat)
  BY NatWF
<1>2. SUFFICES ASSUME U # {} PROVE FALSE
  OBVIOUS
<1>3. U \subseteq Nat
  OBVIOUS
<1> HIDE DEF R
<1>4. PICK x \in U : \A y \in U : ~ (<<y, x>> \in R)
  <2> HIDE DEF U
  <2> QED BY <1>1, <1>2, <1>3, WFMin
<1>5. x \in 0..n /\ x \notin T /\ x # 0
  OBVIOUS
<1>6. x - 1 \in 0..n /\ x - 1 < n /\ (x - 1) + 1 = x /\ x - 1 < x
  BY <1>5
<1>7. x - 1 \notin U
  BY <1>3, <1>4, <1>5, <1>6 DEF R
<1> QED BY <1>5, <1>6, <1>7

Runs(f, n, S, base, step) ==
    /\ f \in [0..n -> S]
    /\ f[0] = base
    /\ \A i \in 1..n : f[i] = step[<<i, f[i - 1]>>]

(* A function defined by recursion over 0..n exists.                       *)
LEMMA Iterate ==
    ASSUME NEW n \in Nat, NEW S, NEW base \in S,
           NEW step \in [(1..n) \X S -> S]
    PROVE  \E f : Runs(f, n, S, base, step)
<1> DEFINE Upto(f, m) == /\ f[0] = base
                         /\ \A i \in 1..m : f[i] = step[<<i, f[i - 1]>>]
           T == {m \in 0..n : \E f \in [0..m -> S] : Upto(f, m)}
<1>1. 0 \in T
  <2> DEFINE z == [i \in 0..0 |-> base]
  <2>1. z \in [0..0 -> S] /\ z[0] = base
    OBVIOUS
  <2>2. 0 \in 0..n /\ 1..0 = {}
    OBVIOUS
  <2>3. Upto(z, 0)
    <3> HIDE DEF z
    <3> QED BY <2>1, <2>2
  <2> HIDE DEF z, Upto
  <2> QED BY <2>1, <2>2, <2>3
<1>2. ASSUME NEW m \in 0..n, m \in T, m < n PROVE m + 1 \in T
  <2>1. PICK f \in [0..m -> S] : Upto(f, m)
    BY <1>2
  <2> DEFINE g == [i \in 0..(m + 1) |->
                      IF i = m + 1 THEN step[<<m + 1, f[m]>>] ELSE f[i]]
  <2>2. m \in Nat /\ m + 1 \in 1..n /\ m + 1 \in 0..n /\ f[m] \in S
    BY <1>2
  <2>3. step[<<m + 1, f[m]>>] \in S
    BY <2>2
  <2>4. g \in [0..(m + 1) -> S]
    <3>1. ASSUME NEW i \in 0..(m + 1) PROVE g[i] \in S
      BY <2>2, <2>3
    <3> QED BY <3>1
  <2>5. g[m + 1] = step[<<m + 1, f[m]>>] /\ \A i \in 0..m : g[i] = f[i]
    BY <2>2
  <2>6. ASSUME NEW i \in 1..(m + 1) PROVE g[i] = step[<<i, g[i - 1]>>]
    <3> HIDE DEF g
    <3>1. CASE i = m + 1
      BY <3>1, <2>2, <2>5
    <3>2. CASE i # m + 1
      <4>1. i \in 1..m /\ i \in 0..m /\ i - 1 \in 0..m
        BY <3>2, <2>2
      <4> QED BY <4>1, <2>1, <2>5
    <3> QED BY <3>1, <3>2
  <2>7. g[0] = base
    <3> HIDE DEF g
    <3>1. 0 \in 0..m
      BY <2>2
    <3> QED BY <3>1, <2>1, <2>5
  <2>8. Upto(g, m + 1)
    <3> HIDE DEF g
    <3> QED BY <2>6, <2>7
  <2> HIDE DEF g, Upto
  <2> QED BY <2>2, <2>4, <2>8
<1>3. \A m \in 0..n : m \in T
  <2> HIDE DEF T
  <2> QED BY <1>1, <1>2, Induction
<1>4. n \in T
  <2> HIDE DEF T
  <2> QED BY <1>3
<1> QED BY <1>4 DEF Runs

-----------------------------------------------------------------------------
(* What the loops return.                                                  *)

Adds(sum, lengths) ==
    /\ sum \in [0..Len(lengths) -> Nat]
    /\ sum[0] = 0
    /\ \A i \in 1..Len(lengths) : sum[i] = sum[i - 1] + lengths[i]

(* Sums adds up.                                                           *)
LEMMA SumsAdd ==
    ASSUME NEW lengths \in Seq(Nat)
    PROVE  Adds(Sums(lengths), lengths)
<1> DEFINE n == Len(lengths)
           F(f) == [i \in 0..n |-> IF i = 0 THEN 0
                                   ELSE f[i - 1] + lengths[i]]
           step == [p \in (1..n) \X Nat |-> p[2] + lengths[p[1]]]
<1>1. n \in Nat /\ \A i \in 1..n : lengths[i] \in Nat
  BY LenProperties, ElementOfSeq
<1>2. /\ step \in [(1..n) \X Nat -> Nat]
      /\ \A i \in 1..n, s \in Nat : step[<<i, s>>] = s + lengths[i]
  <2> HIDE DEF n
  <2> QED BY <1>1
<1>3. PICK f \in [0..n -> Nat] :
          f[0] = 0 /\ \A i \in 1..n : f[i] = step[<<i, f[i - 1]>>]
  <2>1. 0 \in Nat /\ n \in Nat /\ step \in [(1..n) \X Nat -> Nat]
    BY <1>1, <1>2
  <2>2. \E f : Runs(f, n, Nat, 0, step)
    <3> HIDE DEF n, step
    <3> QED BY <2>1, Iterate
  <2> QED BY <2>2 DEF Runs
<1>4. \A i \in 1..n : f[i] = f[i - 1] + lengths[i]
  <2> HIDE DEF step
  <2>1. ASSUME NEW i \in 1..n PROVE f[i - 1] \in Nat
    <3>1. i - 1 \in 0..n
      BY <1>1
    <3> QED BY <3>1
  <2> QED BY <1>2, <1>3, <2>1
<1>5. f = F(f)
  <2> HIDE DEF n
  <2>1. ASSUME NEW i \in 0..n PROVE f[i] = F(f)[i]
    BY <1>1, <1>3, <1>4
  <2> QED BY <2>1
<1>6. Sums(lengths) = F(Sums(lengths))
  BY <1>5 DEF Sums
<1>7. DOMAIN Sums(lengths) = 0..n
  BY <1>6
<1>8. Sums(lengths)[0] = 0
  <2>1. 0 \in 0..n
    BY <1>1
  <2> QED BY <1>6, <2>1
<1>9. ASSUME NEW i \in 1..n
      PROVE  Sums(lengths)[i] = Sums(lengths)[i - 1] + lengths[i]
  <2>1. i \in 0..n /\ i # 0
    BY <1>1
  <2> QED BY <1>6, <2>1
<1>10. \A i \in 0..n : Sums(lengths)[i] \in Nat
  <2> DEFINE T == {i \in 0..n : Sums(lengths)[i] \in Nat}
  <2>1. 0 \in T
    BY <1>1, <1>8
  <2>2. ASSUME NEW i \in 0..n, i \in T, i < n PROVE i + 1 \in T
    <3>1. i + 1 \in 1..n /\ i + 1 \in 0..n /\ (i + 1) - 1 = i
      BY <1>1, <2>2
    <3> QED BY <1>1, <1>9, <2>2, <3>1
  <2>3. \A i \in 0..n : i \in T
    <3> HIDE DEF T, n
    <3> QED BY <1>1, <2>1, <2>2, Induction
  <2> QED BY <2>3
<1>11. Sums(lengths) \in [0..n -> Nat]
  BY <1>6, <1>10
<1> QED BY <1>8, <1>9, <1>11 DEF Adds

(* A longer sum is no smaller.                                             *)
LEMMA SumsGrow ==
    ASSUME NEW lengths \in Seq(Nat),
           NEW i \in 0..Len(lengths), NEW j \in 0..Len(lengths), i <= j
    PROVE  Sums(lengths)[i] <= Sums(lengths)[j]
<1> DEFINE n == Len(lengths)
           sum == Sums(lengths)
           T == {l \in 0..n : i <= l => sum[i] <= sum[l]}
<1>1. n \in Nat /\ \A l \in 1..n : lengths[l] \in Nat
  BY LenProperties, ElementOfSeq
<1>2. Adds(sum, lengths)
  BY SumsAdd
<1> HIDE DEF sum
<1>3. \A l \in 0..n : sum[l] \in Nat
  BY <1>2 DEF Adds
<1>4. 0 \in T
  <2>1. i <= 0 => i = 0
    BY <1>1
  <2> QED BY <1>1, <1>3, <2>1
<1>5. ASSUME NEW l \in 0..n, l \in T, l < n PROVE l + 1 \in T
  <2>1. l + 1 \in 1..n /\ l + 1 \in 0..n /\ (l + 1) - 1 = l
    BY <1>1, <1>5
  <2>2. sum[l + 1] = sum[l] + lengths[l + 1]
    BY <1>2, <2>1 DEF Adds
  <2>3. /\ lengths[l + 1] \in Nat /\ sum[l] \in Nat /\ sum[i] \in Nat
        /\ sum[l + 1] \in Nat
    BY <1>1, <1>3, <2>1
  <2>4. CASE i <= l
    <3>1. sum[i] <= sum[l]
      BY <1>5, <2>4
    <3> QED BY <2>1, <2>2, <2>3, <3>1
  <2>5. CASE ~ i <= l
    <3>1. i <= l + 1 => i = l + 1
      BY <2>5, <1>1
    <3> QED BY <2>1, <2>3, <3>1
  <2> QED BY <2>4, <2>5
<1>6. \A l \in 0..n : l \in T
  <2> HIDE DEF T, n
  <2> QED BY <1>1, <1>4, <1>5, Induction
<1> QED BY <1>6 DEF sum

(* Where the elements of a concatenation are.                              *)
LEMMA ConcatPlaces ==
    ASSUME NEW S, NEW s \in Seq(S), NEW t \in Seq(S)
    PROVE  /\ s \o t \in Seq(S)
           /\ Len(s \o t) = Len(s) + Len(t)
           /\ \A i \in 1..Len(s) : (s \o t)[i] = s[i]
           /\ \A i \in 1..Len(t) : (s \o t)[Len(s) + i] = t[i]
<1> DEFINE u == s \o t
<1>1. /\ u \in Seq(S)
      /\ Len(u) = Len(s) + Len(t)
      /\ \A i \in 1..(Len(s) + Len(t)) :
             u[i] = IF i <= Len(s) THEN s[i] ELSE t[i - Len(s)]
  BY ConcatProperties
<1>2. Len(s) \in Nat /\ Len(t) \in Nat
  BY LenProperties
<1> HIDE DEF u
<1>3. ASSUME NEW i \in 1..Len(s) PROVE u[i] = s[i]
  <2>1. i \in 1..(Len(s) + Len(t)) /\ i <= Len(s)
    BY <1>2
  <2> QED BY <1>1, <2>1
<1>4. ASSUME NEW i \in 1..Len(t) PROVE u[Len(s) + i] = t[i]
  <2>1. /\ Len(s) + i \in 1..(Len(s) + Len(t)) /\ ~ Len(s) + i <= Len(s)
        /\ (Len(s) + i) - Len(s) = i
    BY <1>2
  <2> QED BY <1>1, <2>1
<1> QED BY <1>1, <1>3, <1>4 DEF u

(* Flat holds the sequences one after the other, the i-th one behind the   *)
(* sum of the lengths of those before it.                                  *)
Laid(flat, m, seqs, lengths) ==
    /\ Len(flat) = Sums(lengths)[m]
    /\ \A i \in 1..m : \A x \in 1..lengths[i] :
           flat[Sums(lengths)[i - 1] + x] = seqs[i][x]

LengthsAre(lengths, seqs) ==
    /\ Len(lengths) = Len(seqs)
    /\ \A i \in 1..Len(seqs) : lengths[i] = Len(seqs[i])

(* One more sequence is laid behind the ones there are.                    *)
LEMMA LaidOneMore ==
    ASSUME NEW T, NEW seqs \in Seq(Seq(T)), NEW lengths \in Seq(Nat),
           LengthsAre(lengths, seqs),
           NEW m \in 0..Len(seqs), m < Len(seqs),
           NEW flat \in Seq(T), Laid(flat, m, seqs, lengths)
    PROVE  Laid(flat \o seqs[m + 1], m + 1, seqs, lengths)
<1> DEFINE n == Len(seqs)
           sum == Sums(lengths)
           more == flat \o seqs[m + 1]
<1>1. n \in Nat /\ n = Len(lengths) /\ m + 1 \in 1..n /\ (m + 1) - 1 = m
  BY LenProperties DEF LengthsAre
<1>2. seqs[m + 1] \in Seq(T) /\ Len(seqs[m + 1]) = lengths[m + 1]
  BY <1>1, ElementOfSeq DEF LengthsAre
<1>3. sum \in [0..n -> Nat] /\ sum[m + 1] = sum[m] + lengths[m + 1]
  BY <1>1, SumsAdd DEF Adds
<1>4. \A i \in 1..n : lengths[i] \in Nat
  BY <1>1, ElementOfSeq
<1>5. /\ Len(more) = Len(flat) + lengths[m + 1]
      /\ \A i \in 1..Len(flat) : more[i] = flat[i]
      /\ \A i \in 1..lengths[m + 1] : more[Len(flat) + i] = seqs[m + 1][i]
  BY <1>2, ConcatPlaces
<1>6. Len(flat) = sum[m]
  BY DEF Laid
<1>7. ASSUME NEW i \in 1..m, NEW x \in 1..lengths[i]
      PROVE  more[sum[i - 1] + x] = seqs[i][x]
  <2>1. i \in 1..n /\ i - 1 \in 0..n /\ i \in 0..n /\ m \in 0..n /\ i <= m
    BY <1>1
  <2>2. sum[i] = sum[i - 1] + lengths[i]
    BY <1>1, <2>1, SumsAdd DEF Adds
  <2>3. sum[i] <= sum[m]
    BY <1>1, <2>1, SumsGrow
  <2>4. sum[i - 1] \in Nat /\ sum[i] \in Nat /\ sum[m] \in Nat
    BY <1>3, <2>1
  <2>5. lengths[i] \in Nat
    BY <1>4, <2>1
  <2> HIDE DEF sum, more
  <2>6. sum[i - 1] + x \in 1..sum[m]
    <3>1. x \in Nat /\ 1 <= x /\ x <= lengths[i]
      BY <2>5
    <3>2. \A a, b, c, d \in Nat : c = a + b /\ c <= d /\ 1 <= x /\ x <= b
                                  => a + x \in 1..d
      BY <3>1
    <3> QED BY <2>2, <2>3, <2>4, <2>5, <3>1, <3>2
  <2>7. flat[sum[i - 1] + x] = seqs[i][x]
    BY DEF Laid, sum
  <2> QED BY <1>5, <1>6, <2>6, <2>7
<1>8. ASSUME NEW i \in 1..(m + 1), NEW x \in 1..lengths[i]
      PROVE  more[sum[i - 1] + x] = seqs[i][x]
  <2> HIDE DEF sum, more
  <2>1. CASE i = m + 1
    BY <2>1, <1>1, <1>5, <1>6
  <2>2. CASE i # m + 1
    <3>1. i \in 1..m
      BY <2>2, <1>1
    <3> QED BY <3>1, <1>7
  <2> QED BY <2>1, <2>2
<1>9. Len(more) = sum[m + 1]
  <2> HIDE DEF sum, more
  <2> QED BY <1>3, <1>5, <1>6
<1> QED BY <1>8, <1>9 DEF Laid

(* FlattenSeq lays all of them.                                            *)
LEMMA FlattenSeqLays ==
    ASSUME NEW T, NEW seqs \in Seq(Seq(T)), NEW lengths \in Seq(Nat),
           LengthsAre(lengths, seqs)
    PROVE  /\ FlattenSeq(seqs) \in Seq(T)
           /\ Laid(FlattenSeq(seqs), Len(seqs), seqs, lengths)
<1> DEFINE n == Len(seqs)
           F(f) == [i \in 1..n |-> IF i = 1 THEN seqs[i]
                                   ELSE f[i - 1] \o seqs[i]]
           step == [p \in (1..n) \X Seq(T) |-> p[2] \o seqs[p[1]]]
<1>1. n \in Nat /\ \A i \in 1..n : seqs[i] \in Seq(T)
  BY LenProperties, ElementOfSeq
<1>2. \A i \in 1..n, s \in Seq(T) : s \o seqs[i] \in Seq(T)
  BY <1>1, ConcatProperties
<1>3. /\ step \in [(1..n) \X Seq(T) -> Seq(T)]
      /\ \A i \in 1..n, s \in Seq(T) : step[<<i, s>>] = s \o seqs[i]
  <2> HIDE DEF n
  <2> QED BY <1>2
<1>4. <<>> \in Seq(T) /\ Len(<<>>) = 0
  BY EmptySeq
<1>5. PICK f : Runs(f, n, Seq(T), <<>>, step)
  <2> HIDE DEF n, step
  <2> QED BY <1>1, <1>3, <1>4, Iterate
<1>6. f \in [0..n -> Seq(T)] /\ f[0] = <<>>
  BY <1>5 DEF Runs
<1>7. ASSUME NEW i \in 1..n
      PROVE  f[i - 1] \in Seq(T) /\ f[i] = f[i - 1] \o seqs[i]
  <2>1. i - 1 \in 0..n
    BY <1>1
  <2>2. f[i] = step[<<i, f[i - 1]>>]
    BY <1>5 DEF Runs
  <2> HIDE DEF step
  <2> QED BY <1>3, <1>6, <2>1, <2>2
<1>8. \A m \in 0..n : Laid(f[m], m, seqs, lengths)
  <2> DEFINE U == {m \in 0..n : Laid(f[m], m, seqs, lengths)}
  <2>1. 0 \in U
    <3>1. Sums(lengths)[0] = 0 /\ 0 \in 0..n /\ 1..0 = {}
      BY <1>1, SumsAdd DEF Adds
    <3> QED BY <1>4, <1>6, <3>1 DEF Laid
  <2>2. ASSUME NEW m \in 0..n, m \in U, m < n PROVE m + 1 \in U
    <3>1. m + 1 \in 1..n /\ m + 1 \in 0..n /\ (m + 1) - 1 = m
      BY <1>1, <2>2
    <3>2. f[m] \in Seq(T) /\ f[m + 1] = f[m] \o seqs[m + 1]
      BY <1>7, <3>1
    <3>3. Laid(f[m], m, seqs, lengths)
      BY <2>2
    <3>4. Laid(f[m] \o seqs[m + 1], m + 1, seqs, lengths)
      BY <2>2, <3>2, <3>3, LaidOneMore
    <3> QED BY <3>1, <3>2, <3>4
  <2>3. \A m \in 0..n : m \in U
    <3> HIDE DEF U, n
    <3> QED BY <1>1, <2>1, <2>2, Induction
  <2> QED BY <2>3
<1>9. CASE n = 0
  <2>1. FlattenSeq(seqs) = seqs /\ seqs = <<>>
    BY <1>9, EmptySeq DEF FlattenSeq
  <2>2. Laid(f[0], 0, seqs, lengths)
    BY <1>1, <1>8
  <2> QED BY <1>4, <1>6, <1>9, <2>1, <2>2
<1>10. CASE n # 0
  <2>1. \A i \in 1..n : i # 1 => f[i] = f[i - 1] \o seqs[i]
    BY <1>7
  <2>2. f[1] = seqs[1]
    <3>1. 1 \in 1..n /\ 1 - 1 = 0
      BY <1>1, <1>10
    <3>2. f[1] = <<>> \o seqs[1]
      BY <1>6, <1>7, <3>1
    <3> QED BY <1>1, <3>1, <3>2, ConcatEmptySeq
  <2> DEFINE g == [i \in 1..n |-> f[i]]
  <2>3. ASSUME NEW i \in 1..n PROVE g[i] = F(g)[i]
    <3>1. CASE i = 1
      BY <2>2, <3>1
    <3>2. CASE i # 1
      <4>1. i - 1 \in 1..n
        BY <1>1, <3>2
      <4> QED BY <2>1, <3>2, <4>1
    <3> QED BY <3>1, <3>2
  <2>4. g = F(g)
    <3>1. DOMAIN g = 1..n /\ g = [i \in 1..n |-> g[i]]
      OBVIOUS
    <3>2. F(g) = [i \in 1..n |-> F(g)[i]]
      OBVIOUS
    <3> HIDE DEF g, F
    <3> QED BY <2>3, <3>1, <3>2
  <2> DEFINE h == CHOOSE h : h = F(h)
  <2>5. h = F(h)
    BY <2>4
  <2>6. FlattenSeq(seqs) = h[n]
    BY <1>10 DEF FlattenSeq
  <2>7. \A i \in 1..n : h[i] = f[i]
    <3> DEFINE U == {i \in 0..n : i # 0 => h[i] = f[i]}
    <3>1. 0 \in U
      BY <1>1
    <3>2. ASSUME NEW i \in 0..n, i \in U, i < n PROVE i + 1 \in U
      <4>1. i + 1 \in 1..n /\ i + 1 \in 0..n /\ (i + 1) - 1 = i
        BY <1>1, <3>2
      <4>2. h[i + 1] = IF i + 1 = 1 THEN seqs[i + 1]
                       ELSE h[(i + 1) - 1] \o seqs[i + 1]
        <5> HIDE DEF h
        <5> QED BY <2>5, <4>1
      <4>3. CASE i = 0
        BY <2>2, <4>1, <4>2, <4>3
      <4>4. CASE i # 0
        <5>1. h[i] = f[i] /\ i + 1 # 1
          BY <3>2, <4>4
        <5> HIDE DEF h
        <5> QED BY <2>1, <4>1, <4>2, <5>1
      <4> QED BY <4>3, <4>4
    <3>3. \A i \in 0..n : i \in U
      <4> HIDE DEF U, n
      <4> QED BY <1>1, <3>1, <3>2, Induction
    <3> HIDE DEF h
    <3> QED BY <1>1, <3>3
  <2>8. FlattenSeq(seqs) = f[n]
    <3> HIDE DEF h
    <3>1. n \in 1..n
      BY <1>1, <1>10
    <3> QED BY <2>6, <2>7, <3>1
  <2>9. n \in 0..n
    BY <1>1
  <2> QED BY <1>6, <1>8, <2>8, <2>9
<1> QED BY <1>9, <1>10

(* Ks holds the markers of ms with the given indices, in their order.      *)
Remain(ks, ms, indices) ==
    /\ ks \in Seq(Marker)
    /\ \A j \in 1..Len(ks) : \E a \in indices : ks[j] = ms[a]
    /\ \A a \in indices : \E j \in 1..Len(ks) : ks[j] = ms[a]
    /\ \A j, l \in 1..Len(ks) :
           j < l => \E a, b \in indices : /\ a < b
                                          /\ ks[j] = ms[a] /\ ks[l] = ms[b]

(* A marker behind those that remain may be appended.                      *)
LEMMA RemainOneMore ==
    ASSUME NEW ms \in Seq(Marker), NEW I \in SUBSET Nat, NEW ks,
           Remain(ks, ms, I),
           NEW a \in 1..Len(ms), \A b \in I : b < a
    PROVE  Remain(Append(ks, ms[a]), ms, I \cup {a})
<1> DEFINE more == Append(ks, ms[a])
           n == Len(ks)
<1>1. ks \in Seq(Marker) /\ ms[a] \in Marker /\ n \in Nat
  BY ElementOfSeq, LenProperties DEF Remain
<1>2. /\ more \in Seq(Marker) /\ Len(more) = n + 1
      /\ \A i \in 1..n : more[i] = ks[i]
      /\ more[n + 1] = ms[a]
  BY <1>1, AppendProperties
<1> HIDE DEF more
<1>3. ASSUME NEW j \in 1..Len(more)
      PROVE  \E b \in I \cup {a} : more[j] = ms[b]
  <2>1. CASE j = n + 1
    BY <1>2, <2>1
  <2>2. CASE j # n + 1
    <3>1. j \in 1..n
      BY <1>1, <1>2, <2>2
    <3>2. PICK b \in I : ks[j] = ms[b]
      BY <3>1 DEF Remain
    <3> QED BY <1>2, <3>1, <3>2
  <2> QED BY <2>1, <2>2
<1>4. ASSUME NEW b \in I \cup {a}
      PROVE  \E j \in 1..Len(more) : more[j] = ms[b]
  <2>1. CASE b = a
    <3>1. n + 1 \in 1..Len(more)
      BY <1>1, <1>2
    <3> QED BY <1>2, <2>1, <3>1
  <2>2. CASE b # a
    <3>1. PICK j \in 1..n : ks[j] = ms[b]
      BY <2>2 DEF Remain
    <3>2. j \in 1..Len(more)
      BY <1>1, <1>2
    <3> QED BY <1>2, <3>1, <3>2
  <2> QED BY <2>1, <2>2
<1>5. ASSUME NEW j \in 1..Len(more), NEW l \in 1..Len(more), j < l
      PROVE  \E b, d \in I \cup {a} : /\ b < d
                                      /\ more[j] = ms[b] /\ more[l] = ms[d]
  <2>1. j \in 1..n
    BY <1>1, <1>2, <1>5
  <2>2. CASE l = n + 1
    <3>1. PICK b \in I : ks[j] = ms[b]
      BY <2>1 DEF Remain
    <3>2. b < a /\ more[j] = ms[b] /\ more[l] = ms[a]
      BY <1>2, <2>1, <2>2, <3>1
    <3> QED BY <3>2
  <2>3. CASE l # n + 1
    <3>1. l \in 1..n
      BY <1>1, <1>2, <2>3
    <3>2. PICK b \in I, d \in I : b < d /\ ks[j] = ms[b] /\ ks[l] = ms[d]
      BY <1>5, <2>1, <3>1 DEF Remain
    <3>3. more[j] = ms[b] /\ more[l] = ms[d]
      BY <1>2, <2>1, <3>1, <3>2
    <3> QED BY <3>2, <3>3
  <2> QED BY <2>2, <2>3
<1>6. Remain(more, ms, I \cup {a})
  BY <1>2, <1>3, <1>4, <1>5 DEF Remain
<1> QED BY <1>6 DEF more

Dropped(contents, ms, keys) ==
    UNION {MarkersOf(contents, ms, k) : k \in keys}

(* Without keeps the markers that it does not drop.                        *)
LEMMA WithoutRemains ==
    ASSUME NEW contents, NEW ms \in Seq(Marker), NEW keys
    PROVE  Remain(Without(contents, ms, keys), ms,
                  (1..Len(ms)) \ Dropped(contents, ms, keys))
<1> DEFINE n == Len(ms)
           D == Dropped(contents, ms, keys)
           F(f) == [i \in 0..n |-> IF i = 0 THEN <<>>
                                   ELSE IF i \in D THEN f[i - 1]
                                   ELSE Append(f[i - 1], ms[i])]
           step == [p \in (1..n) \X Seq(Marker) |->
                       IF p[1] \in D THEN p[2] ELSE Append(p[2], ms[p[1]])]
<1>1. n \in Nat /\ \A i \in 1..n : ms[i] \in Marker
  BY LenProperties, ElementOfSeq
<1>2. \A i \in 1..n, s \in Seq(Marker) : Append(s, ms[i]) \in Seq(Marker)
  BY <1>1, AppendProperties
<1>3. /\ step \in [(1..n) \X Seq(Marker) -> Seq(Marker)]
      /\ \A i \in 1..n, s \in Seq(Marker) :
             step[<<i, s>>] = IF i \in D THEN s ELSE Append(s, ms[i])
  <2> HIDE DEF n, D
  <2> QED BY <1>2
<1>4. <<>> \in Seq(Marker) /\ Len(<<>>) = 0
  BY EmptySeq
<1>5. PICK f : Runs(f, n, Seq(Marker), <<>>, step)
  <2> HIDE DEF n, step
  <2> QED BY <1>1, <1>3, <1>4, Iterate
<1>6. f \in [0..n -> Seq(Marker)] /\ f[0] = <<>>
  BY <1>5 DEF Runs
<1>7. ASSUME NEW i \in 1..n
      PROVE  f[i] = IF i \in D THEN f[i - 1] ELSE Append(f[i - 1], ms[i])
  <2>1. i - 1 \in 0..n
    BY <1>1
  <2>2. f[i] = step[<<i, f[i - 1]>>]
    BY <1>5 DEF Runs
  <2>3. f[i - 1] \in Seq(Marker)
    BY <1>6, <2>1
  <2> HIDE DEF step, D
  <2> QED BY <1>3, <2>2, <2>3
<1>8. f = F(f)
  <2> HIDE DEF n, D
  <2>1. ASSUME NEW i \in 0..n PROVE f[i] = F(f)[i]
    <3>1. CASE i = 0
      BY <1>6, <3>1
    <3>2. CASE i # 0
      <4>1. i \in 1..n
        BY <1>1, <3>2
      <4>2. f[i] = IF i \in D THEN f[i - 1] ELSE Append(f[i - 1], ms[i])
        BY <1>7, <4>1
      <4> QED BY <3>2, <4>2
    <3> QED BY <3>1, <3>2
  <2> QED BY <1>6, <2>1
<1> DEFINE h == CHOOSE h : h = F(h)
<1>9. h = F(h)
  BY <1>8
<1>10. Without(contents, ms, keys) = h[n]
  BY DEF Without, Dropped
<1> DEFINE U == {m \in 0..n : Remain(h[m], ms, (1..m) \ D)}
<1>11. 0 \in U
  <2>1. h[0] = <<>> /\ 0 \in 0..n /\ (1..0) \ D = {}
    <3> HIDE DEF h, D
    <3> QED BY <1>1, <1>9
  <2>2. Remain(<<>>, ms, {})
    BY <1>4 DEF Remain
  <2> HIDE DEF h, D
  <2> QED BY <2>1, <2>2
<1>12. ASSUME NEW m \in 0..n, m \in U, m < n PROVE m + 1 \in U
  <2>1. m + 1 \in 1..n /\ m + 1 \in 0..n /\ (m + 1) - 1 = m /\ m + 1 # 0
    BY <1>1, <1>12
  <2>2. h[m + 1] = IF m + 1 \in D THEN h[m] ELSE Append(h[m], ms[m + 1])
    <3> HIDE DEF h, D
    <3> QED BY <1>9, <2>1
  <2>3. Remain(h[m], ms, (1..m) \ D)
    BY <1>12
  <2> HIDE DEF h, D
  <2>4. CASE m + 1 \in D
    <3>1. (1..(m + 1)) \ D = (1..m) \ D
      BY <2>1, <2>4
    <3> QED BY <2>1, <2>2, <2>3, <2>4, <3>1
  <2>5. CASE m + 1 \notin D
    <3>1. (1..(m + 1)) \ D = ((1..m) \ D) \cup {m + 1}
      BY <2>1, <2>5
    <3>2. /\ (1..m) \ D \in SUBSET Nat
          /\ m + 1 \in 1..Len(ms)
          /\ \A b \in (1..m) \ D : b < m + 1
      BY <2>1
    <3>3. Remain(Append(h[m], ms[m + 1]), ms, ((1..m) \ D) \cup {m + 1})
      BY <2>3, <3>2, RemainOneMore
    <3> QED BY <2>1, <2>2, <2>5, <3>1, <3>3
  <2> QED BY <2>4, <2>5
<1>13. \A m \in 0..n : m \in U
  <2> HIDE DEF U, n
  <2> QED BY <1>1, <1>11, <1>12, Induction
<1>14. n \in 0..n
  BY <1>1
<1>15. Remain(h[n], ms, (1..n) \ D)
  <2> HIDE DEF h, D
  <2> QED BY <1>13, <1>14
<1> QED BY <1>10, <1>15

-----------------------------------------------------------------------------
(* Sound files: what a marker file says about a contents file.             *)

(* The marker delimits the serialisation of item v of key k.               *)
Item(contents, m, k, v) ==
    /\ m.key = Hash[k]
    /\ m.end - m.start = Size[v]
    /\ \A x \in 1..Size[v] : contents[m.start + x] = <<k, v>>

Delimits(contents, m) ==
    /\ m.start < m.end /\ m.end <= Len(contents)
    /\ \E k \in Keys, v \in Values : Item(contents, m, k, v)

Ordered(ms) ==
    \A i, j \in 1..Len(ms) : i < j => ms[i].end <= ms[j].start

OneEach(contents, ms) ==
    \A i, j \in 1..Len(ms) : \A k \in Keys, v, w \in Values :
        Item(contents, ms[i], k, v) /\ Item(contents, ms[j], k, w) => i = j

Sound(contents, ms) ==
    /\ contents \in Seq(Cells)
    /\ ms \in Seq(Marker)
    /\ \A i \in 1..Len(ms) : Delimits(contents, ms[i])
    /\ Ordered(ms)
    /\ OneEach(contents, ms)

(* The files hold item v under key k.                                      *)
Has(contents, ms, k, v) == \E i \in 1..Len(ms) : Item(contents, ms[i], k, v)

(* A row that can be compared is an item that the marker delimits.         *)
LEMMA RowItem ==
    ASSUME NEW contents, NEW m \in Marker, m.start < m.end,
           NEW k \in Keys, NEW v \in Values, m.key = Hash[k]
    PROVE  Row(contents, m) = Serialised(k, v) <=> Item(contents, m, k, v)
<1> DEFINE r == Row(contents, m)
           s == Serialised(k, v)
           n == m.end - m.start
<1>1. m.start \in Nat /\ m.end \in Nat /\ n \in Nat /\ n > 0
  BY DEF Marker
<1>2. Size[v] \in Nat /\ Size[v] > 0
  BY SizeAssumption
<1>3. r = [x \in 1..n |-> contents[m.start + x]]
  <2>1. 1 + m.end - (m.start + 1) = n
    BY <1>1
  <2>2. \A x \in 1..n : x + (m.start + 1) - 1 = m.start + x
    BY <1>1
  <2>3. r = [x \in 1..(1 + m.end - (m.start + 1)) |->
                contents[x + (m.start + 1) - 1]]
    BY <1>1 DEF Row
  <2> QED BY <2>1, <2>2, <2>3
<1>4. s = [x \in 1..Size[v] |-> <<k, v>>]
  BY DEF Serialised
<1> HIDE DEF r, s, n
<1>5. ASSUME r = s PROVE Item(contents, m, k, v)
  <2>1. 1..n = 1..Size[v]
    BY <1>3, <1>4, <1>5
  <2>2. n = Size[v]
    <3>1. n \in 1..Size[v] /\ Size[v] \in 1..n
      BY <1>1, <1>2, <2>1
    <3> QED BY <1>1, <1>2, <3>1
  <2>3. ASSUME NEW x \in 1..Size[v] PROVE contents[m.start + x] = <<k, v>>
    BY <1>3, <1>4, <1>5, <2>1
  <2> QED BY <2>2, <2>3 DEF Item, n
<1>6. ASSUME Item(contents, m, k, v) PROVE r = s
  <2>1. n = Size[v]
    BY <1>6 DEF Item, n
  <2>2. \A x \in 1..Size[v] : contents[m.start + x] = <<k, v>>
    BY <1>6 DEF Item
  <2> QED BY <1>3, <1>4, <2>1, <2>2
<1> QED BY <1>5, <1>6 DEF r, s

(* A marker delimits one item only.                                        *)
LEMMA ItemUnique ==
    ASSUME NEW contents, NEW m, NEW k, NEW j,
           NEW v \in Values, NEW w \in Values,
           Item(contents, m, k, v), Item(contents, m, j, w)
    PROVE  k = j /\ v = w
<1>1. 1 \in 1..Size[v] /\ 1 \in 1..Size[w]
  BY SizeAssumption
<1>2. contents[m.start + 1] = <<k, v>> /\ contents[m.start + 1] = <<j, w>>
  BY <1>1 DEF Item
<1> QED BY <1>2

(* The markers of a key are those that delimit its item.                   *)
LEMMA MarkersOfSound ==
    ASSUME NEW contents, NEW ms, Sound(contents, ms), NEW k \in Keys
    PROVE  MarkersOf(contents, ms, k) =
               {i \in 1..Len(ms) :
                   \E v \in Values : Item(contents, ms[i], k, v)}
<1>1. DOMAIN ms = 1..Len(ms) /\ \A i \in 1..Len(ms) : ms[i] \in Marker
  BY LenProperties, ElementOfSeq DEF Sound
<1>2. CASE contents = <<>>
  <2>1. ASSUME NEW i \in 1..Len(ms) PROVE FALSE
    <3>1. /\ ms[i].start < ms[i].end /\ ms[i].end <= Len(contents)
          /\ ms[i].start \in Nat /\ ms[i].end \in Nat
      BY <1>1 DEF Sound, Delimits, Marker
    <3>2. Len(contents) = 0
      BY <1>2
    <3> QED BY <3>1, <3>2
  <2> QED BY <1>2, <2>1 DEF MarkersOf
<1>3. CASE contents # <<>>
  <2>1. ASSUME NEW i \in 1..Len(ms), ms[i].key = Hash[k], NEW v \in Values
        PROVE  Row(contents, ms[i]) = Serialised(k, v)
                   <=> Item(contents, ms[i], k, v)
    <3>1. ms[i].start < ms[i].end
      BY DEF Sound, Delimits
    <3> QED BY <1>1, <2>1, <3>1, RowItem
  <2>2. ASSUME NEW i \in 1..Len(ms), NEW v \in Values,
               Item(contents, ms[i], k, v)
        PROVE  ms[i].key = Hash[k]
    BY <2>2 DEF Item
  <2> QED BY <1>1, <1>3, <2>1, <2>2 DEF MarkersOf
<1> QED BY <1>2, <1>3

(* A sound pair of files reads back the item it has, if it has one.        *)
LEMMA ReadSound ==
    ASSUME NEW contents, NEW ms, Sound(contents, ms), NEW k \in Keys
    PROVE  /\ \A v \in Values : Has(contents, ms, k, v)
                                    => Read(contents, ms, k) = v
           /\ (\A v \in Values : ~ Has(contents, ms, k, v))
                                    => Read(contents, ms, k) = NoValue
<1> DEFINE found == MarkersOf(contents, ms, k)
<1>1. found = {i \in 1..Len(ms) :
                  \E v \in Values : Item(contents, ms[i], k, v)}
  BY MarkersOfSound
<1>2. ASSUME NEW v \in Values, Has(contents, ms, k, v)
      PROVE  Read(contents, ms, k) = v
  <2>1. PICK i \in 1..Len(ms) : Item(contents, ms[i], k, v)
    BY <1>2 DEF Has
  <2>2. found = {i}
    <3>1. \A j \in 1..Len(ms) : \A w \in Values :
              Item(contents, ms[j], k, w) => j = i
      BY <2>1 DEF Sound, OneEach
    <3> HIDE DEF found
    <3> QED BY <1>1, <2>1, <3>1
  <2>3. i \in Nat
    OBVIOUS
  <2>4. Max(found) = i
    <3> HIDE DEF found
    <3> QED BY <2>2, <2>3 DEF Max
  <2>5. ms[i] \in Marker /\ ms[i].start < ms[i].end /\ ms[i].key = Hash[k]
    BY <2>1, ElementOfSeq DEF Sound, Delimits, Item
  <2>6. Row(contents, ms[i]) = Serialised(k, v)
    BY <2>1, <2>5, RowItem
  <2>7. Serialised(k, v)[1][2] = v
    <3>1. 1 \in 1..Size[v]
      BY SizeAssumption
    <3> QED BY <3>1 DEF Serialised
  <2>8. Read(contents, ms, k) = Row(contents, ms[i])[1][2]
    BY <2>2, <2>4 DEF Read
  <2> QED BY <2>6, <2>7, <2>8
<1>3. ASSUME \A v \in Values : ~ Has(contents, ms, k, v)
      PROVE  Read(contents, ms, k) = NoValue
  <2>1. found = {}
    BY <1>1, <1>3 DEF Has
  <2> QED BY <2>1 DEF Read
<1> QED BY <1>2, <1>3

(* Sound files that have the same items read back the same.                *)
LEMMA ReadSame ==
    ASSUME NEW contents, NEW ms, Sound(contents, ms),
           NEW others, NEW ns, Sound(others, ns), NEW k \in Keys,
           \A v \in Values : Has(contents, ms, k, v) <=> Has(others, ns, k, v)
    PROVE  Read(contents, ms, k) = Read(others, ns, k)
<1>1. CASE \E v \in Values : Has(contents, ms, k, v)
  <2>1. PICK v \in Values : Has(contents, ms, k, v)
    BY <1>1
  <2>2. Read(contents, ms, k) = v
    BY <2>1, ReadSound
  <2>3. Read(others, ns, k) = v
    BY <2>1, ReadSound
  <2> QED BY <2>2, <2>3
<1>2. CASE \A v \in Values : ~ Has(contents, ms, k, v)
  <2>1. Read(contents, ms, k) = NoValue
    BY <1>2, ReadSound
  <2>2. Read(others, ns, k) = NoValue
    BY <1>2, ReadSound
  <2> QED BY <2>1, <2>2
<1> QED BY <1>1, <1>2

(* The last marker of sound files ends last, within the contents.          *)
LEMMA EndOfSound ==
    ASSUME NEW contents, NEW ms, Sound(contents, ms)
    PROVE  /\ EndOf(ms) \in Nat /\ EndOf(ms) <= Len(contents)
           /\ \A i \in 1..Len(ms) : ms[i].end <= EndOf(ms)
           /\ EndOf(ms) = 0 => ms = <<>>
<1>1. /\ Len(ms) \in Nat /\ Len(contents) \in Nat
      /\ ms # <<>> => Len(ms) \in 1..Len(ms)
      /\ ms = <<>> => Len(ms) = 0
  <2>1. ms \in Seq(Marker) /\ contents \in Seq(Cells)
    BY DEF Sound
  <2> QED BY <2>1, LenProperties, EmptySeq
<1>2. \A i \in 1..Len(ms) : /\ ms[i].start \in Nat /\ ms[i].end \in Nat
                            /\ ms[i].start < ms[i].end
                            /\ ms[i].end <= Len(contents)
  <2>1. \A i \in 1..Len(ms) : ms[i] \in Marker
    BY ElementOfSeq DEF Sound
  <2> QED BY <2>1 DEF Sound, Delimits, Marker
<1>3. CASE ms = <<>>
  <2>1. EndOf(ms) = 0 /\ 1..Len(ms) = {}
    BY <1>1, <1>3 DEF EndOf
  <2> QED BY <1>1, <1>3, <2>1
<1>4. CASE ms # <<>>
  <2> DEFINE n == Len(ms)
  <2>1. EndOf(ms) = ms[n].end /\ n \in 1..n
    BY <1>1, <1>4 DEF EndOf, Last
  <2>2. ASSUME NEW i \in 1..n PROVE ms[i].end <= ms[n].end
    <3>1. CASE i = n
      BY <1>2, <3>1
    <3>2. CASE i # n
      <4>1. i < n
        BY <1>1, <3>2
      <4>2. ms[i].end <= ms[n].start
        BY <2>1, <4>1 DEF Sound, Ordered
      <4>3. /\ ms[i].end \in Nat /\ ms[n].start \in Nat /\ ms[n].end \in Nat
            /\ ms[n].start < ms[n].end
        BY <1>2, <2>1
      <4> QED BY <4>2, <4>3
    <3> QED BY <3>1, <3>2
  <2>3. /\ ms[n].end \in Nat /\ ms[n].end <= Len(contents)
        /\ ms[n].start \in Nat /\ ms[n].start < ms[n].end
    BY <1>2, <2>1
  <2>4. ms[n].end # 0
    BY <2>3
  <2> QED BY <2>1, <2>2, <2>3, <2>4
<1> QED BY <1>3, <1>4

(* Dropping the markers of some keys leaves the items of the others.       *)
LEMMA WithoutSound ==
    ASSUME NEW contents, NEW ms, Sound(contents, ms),
           NEW keys \in SUBSET Keys,
           NEW ks, ks = Without(contents, ms, keys)
    PROVE  /\ Sound(contents, ks)
           /\ \A k \in Keys, v \in Values :
                  Has(contents, ks, k, v)
                      <=> Has(contents, ms, k, v) /\ k \notin keys
           /\ \A i \in 1..Len(ks) : ks[i].end <= EndOf(ms)
           /\ ms = <<>> => ks = <<>>
           /\ (\A k \in Keys, v \in Values :
                   Has(contents, ms, k, v) => k \in keys) => ks = <<>>
<1> DEFINE I == (1..Len(ms)) \ Dropped(contents, ms, keys)
<1>1. ms \in Seq(Marker) /\ contents \in Seq(Cells) /\ I \subseteq 1..Len(ms)
  BY DEF Sound
<1>2. Remain(ks, ms, I)
  BY <1>1, WithoutRemains
<1>3. ASSUME NEW a \in 1..Len(ms), NEW k \in Keys, NEW v \in Values,
             Item(contents, ms[a], k, v)
      PROVE  a \in I <=> k \notin keys
  <2>1. \A j \in keys : MarkersOf(contents, ms, j) =
            {i \in 1..Len(ms) :
                \E w \in Values : Item(contents, ms[i], j, w)}
    BY MarkersOfSound
  <2>2. ASSUME k \in keys PROVE a \notin I
    <3>1. a \in MarkersOf(contents, ms, k)
      BY <1>3, <2>1, <2>2
    <3> QED BY <2>2, <3>1 DEF Dropped
  <2>3. ASSUME a \notin I PROVE k \in keys
    <3>1. PICK j \in keys : a \in MarkersOf(contents, ms, j)
      BY <2>3 DEF Dropped
    <3>2. PICK w \in Values : Item(contents, ms[a], j, w)
      BY <2>1, <3>1
    <3>3. k = j
      BY <1>3, <3>2, ItemUnique
    <3> QED BY <3>3
  <2> QED BY <2>2, <2>3
<1> HIDE DEF I
<1>4. ks \in Seq(Marker) /\ Len(ks) \in Nat
  BY <1>2, LenProperties DEF Remain
<1>5. ASSUME NEW j \in 1..Len(ks) PROVE \E a \in I : ks[j] = ms[a]
  BY <1>2 DEF Remain
<1>6. ASSUME NEW j \in 1..Len(ks) PROVE Delimits(contents, ks[j])
  <2>1. PICK a \in I : ks[j] = ms[a]
    BY <1>5
  <2>2. Delimits(contents, ms[a])
    BY <1>1 DEF Sound
  <2> QED BY <2>1, <2>2
<1>7. ASSUME NEW j \in 1..Len(ks), NEW l \in 1..Len(ks), j < l
      PROVE  \E a, b \in 1..Len(ms) :
                 a < b /\ ks[j] = ms[a] /\ ks[l] = ms[b]
  <2>1. PICK a \in I, b \in I : a < b /\ ks[j] = ms[a] /\ ks[l] = ms[b]
    BY <1>2, <1>7 DEF Remain
  <2> QED BY <1>1, <2>1
<1>8. Ordered(ks)
  <2> SUFFICES ASSUME NEW j \in 1..Len(ks), NEW l \in 1..Len(ks), j < l
               PROVE  ks[j].end <= ks[l].start
    BY DEF Ordered
  <2>1. PICK a \in 1..Len(ms), b \in 1..Len(ms) :
            a < b /\ ks[j] = ms[a] /\ ks[l] = ms[b]
    BY <1>7
  <2>2. ms[a].end <= ms[b].start
    BY <2>1 DEF Sound, Ordered
  <2> QED BY <2>1, <2>2
<1>9. ASSUME NEW j \in 1..Len(ks), NEW l \in 1..Len(ks), j < l,
             NEW k \in Keys, NEW v \in Values, NEW w \in Values,
             Item(contents, ks[j], k, v), Item(contents, ks[l], k, w)
      PROVE  FALSE
  <2>1. PICK a \in 1..Len(ms), b \in 1..Len(ms) :
            a < b /\ ks[j] = ms[a] /\ ks[l] = ms[b]
    BY <1>7, <1>9
  <2>2. Item(contents, ms[a], k, v) /\ Item(contents, ms[b], k, w)
    BY <1>9, <2>1
  <2>3. a = b
    BY <2>2 DEF Sound, OneEach
  <2> QED BY <2>1, <2>3
<1>10. OneEach(contents, ks)
  <2> SUFFICES ASSUME NEW j \in 1..Len(ks), NEW l \in 1..Len(ks),
                      NEW k \in Keys, NEW v \in Values, NEW w \in Values,
                      Item(contents, ks[j], k, v),
                      Item(contents, ks[l], k, w), j # l
               PROVE  FALSE
    BY DEF OneEach
  <2>1. j < l \/ l < j
    BY <1>4
  <2> QED BY <1>9, <2>1
<1>11. Sound(contents, ks)
  BY <1>1, <1>4, <1>6, <1>8, <1>10 DEF Sound
<1>12. ASSUME NEW k \in Keys, NEW v \in Values
       PROVE  Has(contents, ks, k, v)
                  <=> Has(contents, ms, k, v) /\ k \notin keys
  <2>1. ASSUME Has(contents, ks, k, v)
        PROVE  Has(contents, ms, k, v) /\ k \notin keys
    <3>1. PICK j \in 1..Len(ks) : Item(contents, ks[j], k, v)
      BY <2>1 DEF Has
    <3>2. PICK a \in I : ks[j] = ms[a]
      BY <1>5
    <3>3. a \in 1..Len(ms) /\ Item(contents, ms[a], k, v)
      BY <1>1, <3>1, <3>2
    <3> QED BY <1>3, <3>2, <3>3 DEF Has
  <2>2. ASSUME Has(contents, ms, k, v), k \notin keys
        PROVE  Has(contents, ks, k, v)
    <3>1. PICK a \in 1..Len(ms) : Item(contents, ms[a], k, v)
      BY <2>2 DEF Has
    <3>2. a \in I
      BY <1>3, <2>2, <3>1
    <3>3. PICK j \in 1..Len(ks) : ks[j] = ms[a]
      BY <1>2, <3>2 DEF Remain
    <3> QED BY <3>1, <3>3 DEF Has
  <2> QED BY <2>1, <2>2
<1>13. ASSUME NEW j \in 1..Len(ks) PROVE ks[j].end <= EndOf(ms)
  <2>1. PICK a \in I : ks[j] = ms[a]
    BY <1>5
  <2>2. \A i \in 1..Len(ms) : ms[i].end <= EndOf(ms)
    BY EndOfSound
  <2> QED BY <1>1, <2>1, <2>2
<1>14. ASSUME ks # <<>> PROVE ms # <<>>
  <2>1. 1 \in 1..Len(ks)
    BY <1>4, <1>14, EmptySeq
  <2>2. PICK a \in I : ks[1] = ms[a]
    BY <1>5, <2>1
  <2>3. a \in 1..Len(ms)
    BY <1>1, <2>2
  <2> QED BY <2>3
<1>15. ASSUME ks # <<>>
       PROVE  \E k \in Keys, v \in Values :
                  Has(contents, ms, k, v) /\ k \notin keys
  <2>1. 1 \in 1..Len(ks)
    BY <1>4, <1>15, EmptySeq
  <2>2. PICK k \in Keys, v \in Values : Item(contents, ks[1], k, v)
    BY <1>6, <2>1 DEF Delimits
  <2>3. Has(contents, ks, k, v)
    BY <2>1, <2>2 DEF Has
  <2> QED BY <1>12, <2>3
<1> QED BY <1>11, <1>12, <1>13, <1>14, <1>15

(* The same cells up to the end of a marker make the same item.            *)
LEMMA ItemAgree ==
    ASSUME NEW contents, NEW others, NEW m \in Marker, NEW e \in Nat,
           m.end <= e, \A p \in 1..e : others[p] = contents[p],
           NEW k, NEW v \in Values
    PROVE  Item(others, m, k, v) <=> Item(contents, m, k, v)
<1>1. m.start \in Nat /\ m.end \in Nat /\ Size[v] \in Nat
  BY SizeAssumption DEF Marker
<1>2. ASSUME m.end - m.start = Size[v], NEW x \in 1..Size[v]
      PROVE  others[m.start + x] = contents[m.start + x]
  <2>1. m.start + x \in 1..e
    BY <1>1, <1>2
  <2> QED BY <2>1
<1> QED BY <1>2 DEF Item

AgreeUpTo(others, contents, ms, e) ==
    /\ others \in Seq(Cells) /\ e \in Nat /\ e <= Len(others)
    /\ \A i \in 1..Len(ms) : ms[i].end <= e
    /\ \A p \in 1..e : others[p] = contents[p]

(* What lies behind the last marker does not matter.                       *)
LEMMA SoundAgree ==
    ASSUME NEW contents, NEW ms, Sound(contents, ms), NEW others, NEW e,
           AgreeUpTo(others, contents, ms, e)
    PROVE  /\ Sound(others, ms)
           /\ \A k \in Keys, v \in Values :
                  Has(others, ms, k, v) <=> Has(contents, ms, k, v)
<1>1. /\ others \in Seq(Cells) /\ e \in Nat /\ e <= Len(others)
      /\ \A i \in 1..Len(ms) : ms[i].end <= e
      /\ \A p \in 1..e : others[p] = contents[p]
  BY DEF AgreeUpTo
<1>2. \A i \in 1..Len(ms) : ms[i] \in Marker
  BY ElementOfSeq DEF Sound
<1>3. ASSUME NEW i \in 1..Len(ms), NEW k \in Keys, NEW v \in Values
      PROVE  Item(others, ms[i], k, v) <=> Item(contents, ms[i], k, v)
  BY <1>1, <1>2, ItemAgree
<1>4. ASSUME NEW i \in 1..Len(ms) PROVE Delimits(others, ms[i])
  <2>1. Delimits(contents, ms[i])
    BY DEF Sound
  <2>2. ms[i].end <= Len(others)
    <3>1. ms[i].end \in Nat /\ ms[i].end <= e
      BY <1>1, <1>2 DEF Marker
    <3>2. Len(others) \in Nat
      BY <1>1, LenProperties
    <3> QED BY <1>1, <3>1, <3>2
  <2> QED BY <1>3, <2>1, <2>2 DEF Delimits
<1>5. OneEach(others, ms)
  <2>1. OneEach(contents, ms)
    BY DEF Sound
  <2> QED BY <1>3, <2>1 DEF OneEach
<1>6. Sound(others, ms)
  BY <1>1, <1>4, <1>5 DEF Sound
<1>7. ASSUME NEW k \in Keys, NEW v \in Values
      PROVE  Has(others, ms, k, v) <=> Has(contents, ms, k, v)
  BY <1>3 DEF Has
<1> QED BY <1>6, <1>7

(* The lengths of the items.                                               *)
LEMMA LengthsSound ==
    ASSUME NEW contents, NEW ms, Sound(contents, ms)
    PROVE  /\ Lengths(ms) \in Seq(Nat)
           /\ Len(Lengths(ms)) = Len(ms)
           /\ \A i \in 1..Len(ms) : /\ Lengths(ms)[i] = ms[i].end - ms[i].start
                                    /\ Lengths(ms)[i] \in Nat \ {0}
<1>1. /\ ms \in Seq(Marker) /\ Len(ms) \in Nat /\ DOMAIN ms = 1..Len(ms)
      /\ \A i \in 1..Len(ms) : ms[i] \in Marker
  BY LenProperties, ElementOfSeq DEF Sound
<1>2. ASSUME NEW i \in 1..Len(ms)
      PROVE  /\ Lengths(ms)[i] = ms[i].end - ms[i].start
             /\ Lengths(ms)[i] \in Nat \ {0}
  <2>1. /\ ms[i].start \in Nat /\ ms[i].end \in Nat
        /\ ms[i].start < ms[i].end
    BY <1>1 DEF Sound, Delimits, Marker
  <2>2. Lengths(ms)[i] = ms[i].end - ms[i].start
    BY <1>1 DEF Lengths
  <2> QED BY <2>1, <2>2
<1>3. Lengths(ms) \in [1..Len(ms) -> Nat]
  <2>1. \A i \in 1..Len(ms) : Lengths(ms)[i] \in Nat
    BY <1>2
  <2>2. Lengths(ms) = [i \in 1..Len(ms) |-> Lengths(ms)[i]]
    BY <1>1 DEF Lengths
  <2> QED BY <2>1, <2>2
<1>4. Lengths(ms) \in Seq(Nat) /\ Len(Lengths(ms)) = Len(ms)
  <2>1. Lengths(ms) \in Seq(Nat)
    BY <1>1, <1>3, SeqDef
  <2>2. DOMAIN Lengths(ms) = 1..Len(ms)
    BY <1>3
  <2> QED BY <1>1, <2>1, <2>2
<1> QED BY <1>2, <1>4

(* The rows of sound files.                                                *)
LEMMA RowSound ==
    ASSUME NEW contents, NEW ms, Sound(contents, ms), NEW i \in 1..Len(ms)
    PROVE  /\ Row(contents, ms[i]) \in Seq(Cells)
           /\ Len(Row(contents, ms[i])) = ms[i].end - ms[i].start
           /\ \A x \in 1..(ms[i].end - ms[i].start) :
                  Row(contents, ms[i])[x] = contents[ms[i].start + x]
<1> DEFINE s == ms[i].start
           e == ms[i].end
<1>1. s \in Nat /\ e \in Nat /\ s < e /\ e <= Len(contents)
  <2>1. ms[i] \in Marker
    BY ElementOfSeq DEF Sound
  <2> QED BY <2>1 DEF Sound, Delimits, Marker
<1>2. contents \in Seq(Cells) /\ Len(contents) \in Nat
  BY LenProperties DEF Sound
<1>3. Row(contents, ms[i]) = SubSeq(contents, s + 1, e)
  BY DEF Row
<1> HIDE DEF s, e
<1>4. \A p \in (s + 1)..e : contents[p] \in Cells
  <2>1. \A p \in (s + 1)..e : p \in 1..Len(contents)
    BY <1>1, <1>2
  <2> QED BY <1>2, <2>1, ElementOfSeq
<1>5. s + 1 \in Int /\ e \in Int
  BY <1>1
<1>6. /\ SubSeq(contents, s + 1, e) \in Seq(Cells)
      /\ Len(SubSeq(contents, s + 1, e)) =
             IF s + 1 <= e THEN e - (s + 1) + 1 ELSE 0
      /\ \A x \in 1..(e - (s + 1) + 1) :
             SubSeq(contents, s + 1, e)[x] = contents[(s + 1) + x - 1]
  BY <1>4, <1>5, SubSeqProperties
<1>7. s + 1 <= e /\ e - (s + 1) + 1 = e - s
  BY <1>1
<1>8. \A x \in 1..(e - s) : (s + 1) + x - 1 = s + x
  BY <1>1
<1> QED BY <1>3, <1>6, <1>7, <1>8 DEF s, e

-----------------------------------------------------------------------------
(* compact().                                                              *)

(* Files that end with their last item.                                    *)
Good(contents, ms) ==
    Sound(contents, ms) /\ EndOf(ms) = Len(contents)

Bounded(contents, ms) ==
    contents # <<>> => Len(contents) < 2 * Live(ms)

SameItems(contents, ms, others, ns) ==
    \A k \in Keys, v \in Values :
        Has(contents, ms, k, v) <=> Has(others, ns, k, v)

(* Sums of the lengths of sound files.                                     *)
LEMMA LiveSound ==
    ASSUME NEW contents, NEW ms, Sound(contents, ms)
    PROVE  /\ Live(ms) \in Nat
           /\ Len(ms) \in Nat
           /\ Sums(Lengths(ms)) \in [0..Len(ms) -> Nat]
           /\ \A i \in 1..Len(ms) : Sums(Lengths(ms))[i] =
                  Sums(Lengths(ms))[i - 1] + (ms[i].end - ms[i].start)
           /\ \A i, j \in 0..Len(ms) :
                  i <= j => Sums(Lengths(ms))[i] <= Sums(Lengths(ms))[j]
           /\ ms = <<>> => Live(ms) = 0
           /\ ms # <<>> => Live(ms) > 0
<1> DEFINE n == Len(ms)
           sum == Sums(Lengths(ms))
<1>1. n \in Nat
  BY LenProperties DEF Sound
<1>2. /\ Lengths(ms) \in Seq(Nat) /\ Len(Lengths(ms)) = n
      /\ \A i \in 1..n : /\ Lengths(ms)[i] = ms[i].end - ms[i].start
                         /\ Lengths(ms)[i] \in Nat \ {0}
  BY LengthsSound
<1>3. /\ sum \in [0..n -> Nat] /\ sum[0] = 0
      /\ \A i \in 1..n : sum[i] = sum[i - 1] + Lengths(ms)[i]
  BY <1>2, SumsAdd DEF Adds
<1>4. Live(ms) = sum[n]
  BY DEF Live
<1>5. \A i, j \in 0..n : i <= j => sum[i] <= sum[j]
  BY <1>2, SumsGrow
<1> HIDE DEF sum
<1>6. n \in 0..n /\ sum[n] \in Nat
  BY <1>1, <1>3
<1>7. ASSUME ms = <<>> PROVE sum[n] = 0
  BY <1>3, <1>7
<1>8. ASSUME ms # <<>> PROVE sum[n] > 0
  <2>1. n \in 1..n /\ n - 1 \in 0..n
    <3>1. n # 0
      BY <1>8, EmptySeq DEF Sound
    <3> QED BY <1>1, <3>1
  <2>2. /\ sum[n] = sum[n - 1] + Lengths(ms)[n]
        /\ sum[n - 1] \in Nat /\ Lengths(ms)[n] \in Nat \ {0}
    BY <1>2, <1>3, <2>1
  <2> QED BY <2>2
<1>9. \A i \in 1..n : sum[i] = sum[i - 1] + (ms[i].end - ms[i].start)
  BY <1>2, <1>3
<1> QED BY <1>1, <1>3, <1>4, <1>5, <1>6, <1>7, <1>8, <1>9 DEF sum

(* The compacted markers, and the items they delimit.                      *)
LEMMA CompactedMarkersPlace ==
    ASSUME NEW contents, NEW ms, Sound(contents, ms), Compacts(ms),
           NEW others, others = CompactedContents(contents, ms),
           NEW ns, ns = CompactedMarkers(ms)
    PROVE  /\ others \in Seq(Cells)
           /\ Len(others) = Sums(Lengths(ms))[Len(ms)]
           /\ ns \in Seq(Marker) /\ Len(ns) = Len(ms)
           /\ \A i \in 1..Len(ms) :
                  /\ ns[i].start = Sums(Lengths(ms))[i - 1]
                  /\ ns[i].end = Sums(Lengths(ms))[i]
                  /\ \A k \in Keys, v \in Values :
                         Item(others, ns[i], k, v)
                             <=> Item(contents, ms[i], k, v)
<1> DEFINE n == Len(ms)
           sum == Sums(Lengths(ms))
           rows == [i \in DOMAIN ms |-> Row(contents, ms[i])]
<1>1. /\ n \in Nat /\ DOMAIN ms = 1..n
      /\ \A i \in 1..n : ms[i] \in Marker
  BY LenProperties, ElementOfSeq DEF Sound
<1>2. /\ sum \in [0..n -> Nat]
      /\ \A i \in 1..n : sum[i] = sum[i - 1] + (ms[i].end - ms[i].start)
  BY LiveSound
<1>3. /\ Lengths(ms) \in Seq(Nat) /\ Len(Lengths(ms)) = n
      /\ \A i \in 1..n : Lengths(ms)[i] = ms[i].end - ms[i].start
  BY LengthsSound
<1>4. /\ rows \in Seq(Seq(Cells)) /\ Len(rows) = n
      /\ \A i \in 1..n : rows[i] = Row(contents, ms[i])
  <2>1. \A i \in 1..n : Row(contents, ms[i]) \in Seq(Cells)
    BY RowSound
  <2>2. rows \in [1..n -> Seq(Cells)]
    BY <1>1, <2>1
  <2>3. rows \in Seq(Seq(Cells))
    BY <1>1, <2>2, SeqDef
  <2> QED BY <1>1, <2>2, <2>3
<1>5. \A i \in 1..n :
          /\ Len(rows[i]) = ms[i].end - ms[i].start
          /\ \A x \in 1..(ms[i].end - ms[i].start) :
                 rows[i][x] = contents[ms[i].start + x]
  BY <1>4, RowSound
<1>6. others = FlattenSeq(rows)
  BY DEF CompactedContents
<1> HIDE DEF rows
<1>7. LengthsAre(Lengths(ms), rows)
  BY <1>3, <1>4, <1>5 DEF LengthsAre
<1>8. /\ others \in Seq(Cells)
      /\ Laid(others, n, rows, Lengths(ms))
  BY <1>3, <1>4, <1>6, <1>7, FlattenSeqLays
<1>9. /\ Len(others) = sum[n]
      /\ \A i \in 1..n : \A x \in 1..(ms[i].end - ms[i].start) :
             others[sum[i - 1] + x] = contents[ms[i].start + x]
  <2>1. /\ Len(others) = sum[n]
        /\ \A i \in 1..n : \A x \in 1..Lengths(ms)[i] :
               others[sum[i - 1] + x] = rows[i][x]
    BY <1>8 DEF Laid
  <2> HIDE DEF sum
  <2>2. ASSUME NEW i \in 1..n, NEW x \in 1..(ms[i].end - ms[i].start)
        PROVE  others[sum[i - 1] + x] = contents[ms[i].start + x]
    <3>1. x \in 1..Lengths(ms)[i]
      BY <1>3
    <3>2. others[sum[i - 1] + x] = rows[i][x]
      BY <2>1, <3>1
    <3>3. rows[i][x] = contents[ms[i].start + x]
      BY <1>5
    <3> QED BY <3>2, <3>3
  <2> QED BY <2>1, <2>2
<1>10. ns = [i \in 1..n |-> [ms[i] EXCEPT !.start = sum[i - 1],
                                          !.end = sum[i]]]
  BY <1>1 DEF CompactedMarkers
<1> HIDE DEF sum
<1>11. ASSUME NEW i \in 1..n
       PROVE  /\ ns[i] \in Marker
              /\ ns[i].start = sum[i - 1] /\ ns[i].end = sum[i]
              /\ ns[i].key = ms[i].key
              /\ ns[i].end - ns[i].start = ms[i].end - ms[i].start
  <2>1. i - 1 \in 0..n /\ i \in 0..n
    BY <1>1
  <2>2. sum[i - 1] \in Nat /\ sum[i] \in Nat
    BY <1>2, <2>1
  <2>3. ns[i] = [ms[i] EXCEPT !.start = sum[i - 1], !.end = sum[i]]
    BY <1>10
  <2>4. ms[i] \in Marker
    BY <1>1
  <2>5. /\ ns[i] \in Marker
        /\ ns[i].start = sum[i - 1] /\ ns[i].end = sum[i]
        /\ ns[i].key = ms[i].key
    BY <2>2, <2>3, <2>4 DEF Marker
  <2>6. ms[i].start \in Nat /\ ms[i].end \in Nat
    BY <2>4 DEF Marker
  <2>7. sum[i] = sum[i - 1] + (ms[i].end - ms[i].start)
    BY <1>2
  <2>8. sum[i] - sum[i - 1] = ms[i].end - ms[i].start
    BY <2>2, <2>6, <2>7
  <2> QED BY <2>5, <2>8
<1>12. ns \in Seq(Marker) /\ Len(ns) = n
  <2>1. ns \in [1..n -> Marker]
    <3>1. \A i \in 1..n : ns[i] \in Marker
      BY <1>11
    <3> QED BY <1>10, <3>1
  <2>2. ns \in Seq(Marker)
    BY <1>1, <2>1, SeqDef
  <2> QED BY <1>1, <2>1, <2>2
<1>13. ASSUME NEW i \in 1..n, NEW k \in Keys, NEW v \in Values
       PROVE  Item(others, ns[i], k, v) <=> Item(contents, ms[i], k, v)
  <2>1. /\ ns[i].start = sum[i - 1] /\ ns[i].key = ms[i].key
        /\ ns[i].end - ns[i].start = ms[i].end - ms[i].start
    BY <1>11
  <2>2. \A x \in 1..(ms[i].end - ms[i].start) :
            others[ns[i].start + x] = contents[ms[i].start + x]
    BY <1>9, <2>1
  <2> QED BY <2>1, <2>2 DEF Item
<1> QED BY <1>8, <1>9, <1>11, <1>12, <1>13 DEF sum

(* Closing the gaps.                                                       *)
LEMMA GapsClosed ==
    ASSUME NEW contents, NEW ms, Sound(contents, ms), Compacts(ms),
           NEW others, others = CompactedContents(contents, ms),
           NEW ns, ns = CompactedMarkers(ms)
    PROVE  /\ Good(others, ns)
           /\ SameItems(contents, ms, others, ns)
           /\ Bounded(others, ns)
<1> DEFINE n == Len(ms)
           sum == Sums(Lengths(ms))
<1>1. /\ n \in Nat /\ sum \in [0..n -> Nat] /\ Live(ms) = sum[n]
      /\ \A i \in 1..n : sum[i] = sum[i - 1] + (ms[i].end - ms[i].start)
      /\ \A i, j \in 0..n : i <= j => sum[i] <= sum[j]
      /\ ms = <<>> => Live(ms) = 0
      /\ ms # <<>> => Live(ms) > 0
  BY LiveSound DEF Live
<1>2. /\ others \in Seq(Cells) /\ Len(others) = sum[n]
      /\ ns \in Seq(Marker) /\ Len(ns) = n
      /\ \A i \in 1..n :
             /\ ns[i].start = sum[i - 1] /\ ns[i].end = sum[i]
             /\ \A k \in Keys, v \in Values :
                    Item(others, ns[i], k, v) <=> Item(contents, ms[i], k, v)
  BY CompactedMarkersPlace
<1> HIDE DEF sum
<1>3. \A i \in 1..n : /\ ms[i] \in Marker /\ ms[i].start < ms[i].end
                      /\ ms[i].start \in Nat /\ ms[i].end \in Nat
  <2>1. \A i \in 1..n : ms[i] \in Marker
    BY ElementOfSeq DEF Sound
  <2> QED BY <2>1 DEF Sound, Delimits, Marker
<1>4. ms # <<>> /\ ns # <<>> /\ n \in 1..n
  <2>1. ms = <<>> => EndOf(ms) = 0
    BY DEF EndOf
  <2>2. ms # <<>>
    BY <1>1, <2>1 DEF Compacts, Gaps
  <2>3. n # 0
    BY <2>2, EmptySeq DEF Sound
  <2> QED BY <1>1, <1>2, <2>2, <2>3
<1>5. ASSUME NEW i \in 1..n
      PROVE  i - 1 \in 0..n /\ i \in 0..n /\ n \in 0..n
  BY <1>1
<1>6. ASSUME NEW i \in 1..n PROVE Delimits(others, ns[i])
  <2>1. sum[i - 1] \in Nat /\ sum[i] \in Nat /\ sum[i] <= sum[n]
    BY <1>1, <1>5
  <2>2. ns[i].start < ns[i].end
    <3>1. sum[i] = sum[i - 1] + (ms[i].end - ms[i].start)
      BY <1>1
    <3>2. /\ ms[i].start \in Nat /\ ms[i].end \in Nat
          /\ ms[i].start < ms[i].end
      BY <1>3
    <3>3. sum[i - 1] < sum[i]
      BY <2>1, <3>1, <3>2
    <3> QED BY <1>2, <3>3
  <2>3. ns[i].end <= Len(others)
    BY <1>2, <2>1
  <2>4. PICK k \in Keys, v \in Values : Item(contents, ms[i], k, v)
    BY DEF Sound, Delimits
  <2> QED BY <1>2, <2>2, <2>3, <2>4 DEF Delimits
<1>7. Ordered(ns)
  <2> SUFFICES ASSUME NEW i \in 1..n, NEW j \in 1..n, i < j
               PROVE  ns[i].end <= ns[j].start
    BY <1>2 DEF Ordered
  <2>1. i <= j - 1
    BY <1>1
  <2>2. sum[i] <= sum[j - 1]
    BY <1>1, <1>5, <2>1
  <2> QED BY <1>2, <2>2
<1>8. OneEach(others, ns)
  BY <1>2 DEF OneEach, Sound
<1>9. Sound(others, ns)
  BY <1>2, <1>6, <1>7, <1>8 DEF Sound
<1>10. EndOf(ns) = Len(others)
  BY <1>2, <1>4 DEF EndOf, Last
<1>11. SameItems(contents, ms, others, ns)
  BY <1>2 DEF SameItems, Has
<1>12. Live(ns) = Live(ms)
  <2>1. DOMAIN ns = 1..n /\ DOMAIN ms = 1..n
    <3>1. ms \in Seq(Marker)
      BY DEF Sound
    <3> QED BY <1>2, <3>1, LenProperties
  <2>2. ASSUME NEW i \in 1..n
        PROVE  ns[i].end - ns[i].start = ms[i].end - ms[i].start
    <3>1. sum[i - 1] \in Nat /\ sum[i] \in Nat
      BY <1>1, <1>5
    <3>2. sum[i] = sum[i - 1] + (ms[i].end - ms[i].start)
      BY <1>1
    <3>3. sum[i] - sum[i - 1] = ms[i].end - ms[i].start
      BY <1>3, <3>1, <3>2
    <3> QED BY <1>2, <3>3
  <2>3. Lengths(ns) = Lengths(ms)
    BY <2>1, <2>2 DEF Lengths
  <2> QED BY <1>2, <2>3 DEF Live
<1>13. Bounded(others, ns)
  <2>1. Len(others) = Live(ns) /\ Live(ns) \in Nat /\ Live(ns) > 0
    <3>1. n \in 0..n /\ sum[n] \in Nat
      BY <1>1, <1>4, <1>5
    <3> QED BY <1>1, <1>2, <1>4, <1>12, <3>1
  <2> QED BY <2>1 DEF Bounded
<1> QED BY <1>9, <1>10, <1>11, <1>13 DEF Good

(* Cutting the contents behind the last item.                              *)
LEMMA TailCut ==
    ASSUME NEW contents, NEW ms, Sound(contents, ms), ~ Compacts(ms),
           NEW others, others = CompactedContents(contents, ms)
    PROVE  /\ Good(others, ms)
           /\ SameItems(contents, ms, others, ms)
           /\ Bounded(others, ms)
<1> DEFINE e == EndOf(ms)
<1>1. /\ e \in Nat /\ e <= Len(contents)
      /\ \A i \in 1..Len(ms) : ms[i].end <= e
      /\ e = 0 => ms = <<>>
  BY EndOfSound
<1>2. contents \in Seq(Cells) /\ Len(contents) \in Nat
  BY LenProperties DEF Sound
<1>3. others = SubSeq(contents, 1, e)
  BY DEF CompactedContents
<1> HIDE DEF e
<1>4. /\ others \in Seq(Cells) /\ Len(others) = e
      /\ \A p \in 1..e : others[p] = contents[p]
  <2>1. \A p \in 1..e : contents[p] \in Cells
    <3>1. \A p \in 1..e : p \in 1..Len(contents)
      BY <1>1, <1>2
    <3> QED BY <1>2, <3>1, ElementOfSeq
  <2>2. 1 \in Int /\ e \in Int
    BY <1>1
  <2>3. /\ SubSeq(contents, 1, e) \in Seq(Cells)
        /\ Len(SubSeq(contents, 1, e)) = IF 1 <= e THEN e - 1 + 1 ELSE 0
        /\ \A p \in 1..(e - 1 + 1) :
               SubSeq(contents, 1, e)[p] = contents[1 + p - 1]
    BY <2>1, <2>2, SubSeqProperties
  <2>4. /\ e - 1 + 1 = e
        /\ (IF 1 <= e THEN e - 1 + 1 ELSE 0) = e
        /\ \A p \in 1..e : 1 + p - 1 = p
    BY <1>1
  <2> QED BY <1>3, <2>3, <2>4
<1>5. AgreeUpTo(others, contents, ms, e)
  BY <1>1, <1>4 DEF AgreeUpTo
<1>6. Sound(others, ms) /\ SameItems(contents, ms, others, ms)
  BY <1>5, SoundAgree DEF SameItems
<1>7. Good(others, ms)
  BY <1>4, <1>6 DEF Good, e
<1>8. Bounded(others, ms)
  <2> SUFFICES ASSUME others # <<>> PROVE Len(others) < 2 * Live(ms)
    BY DEF Bounded
  <2>1. ms # <<>>
    <3>1. e # 0
      BY <1>4, EmptySeq
    <3>2. ms = <<>> => e = 0
      BY DEF EndOf, e
    <3> QED BY <3>1, <3>2
  <2>2. Live(ms) \in Nat /\ Live(ms) > 0
    BY <2>1, LiveSound
  <2>3. e - Live(ms) < Live(ms) \/ e - Live(ms) = 0
    <3>1. ~ (e - Live(ms) >= Live(ms) /\ e - Live(ms) # 0)
      BY DEF Compacts, Gaps, e
    <3> QED BY <1>1, <2>2, <3>1
  <2> QED BY <1>1, <1>4, <2>2, <2>3
<1> QED BY <1>6, <1>7, <1>8

(* Whatever sound files compact() is given, the ones it leaves end with    *)
(* their last item, hold the same items, and are bounded by them.          *)
LEMMA CompactGood ==
    ASSUME NEW contents, NEW ms, Sound(contents, ms),
           NEW others, others = CompactedContents(contents, ms),
           NEW ns, ns = CompactedMarkers(ms)
    PROVE  /\ Good(others, ns)
           /\ SameItems(contents, ms, others, ns)
           /\ Bounded(others, ns)
<1>1. CASE Compacts(ms)
  BY <1>1, GapsClosed
<1>2. CASE ~ Compacts(ms)
  <2>1. ns = ms
    BY <1>2 DEF CompactedMarkers
  <2>2. /\ Good(others, ms)
        /\ SameItems(contents, ms, others, ms)
        /\ Bounded(others, ms)
    BY <1>2, TailCut
  <2> QED BY <2>1, <2>2
<1> QED BY <1>1, <1>2

-----------------------------------------------------------------------------
(* save().                                                                 *)

(* An order of finitely many keys names each of them once.                 *)
LEMMA OrderOfKeys ==
    ASSUME NEW keys, IsFiniteSet(keys), NEW order \in SetToSeqs(keys)
    PROVE  /\ order \in Seq(keys)
           /\ \A i, j \in 1..Len(order) : order[i] = order[j] => i = j
           /\ \A k \in keys : \E j \in 1..Len(order) : order[j] = k
<1> DEFINE n == Cardinality(keys)
<1>1. n \in Nat
  BY FS_CardinalityType
<1>2. /\ order \in [1..n -> keys]
      /\ \A i, j \in 1..n : i # j => order[i] # order[j]
  BY DEF SetToSeqs
<1>3. order \in Seq(keys) /\ Len(order) = n
  <2>1. order \in Seq(keys)
    BY <1>1, <1>2, SeqDef
  <2> QED BY <1>1, <1>2, <2>1
<1>4. \A k \in keys : \E j \in 1..n : order[j] = k
  <2>1. IsFiniteSet(1..n) /\ Cardinality(1..n) = n
    BY <1>1, FS_Interval
  <2>2. order \in Injection(1..n, keys)
    BY <1>2 DEF Injection, IsInjective
  <2>3. order \in Surjection(1..n, keys)
    BY <2>1, <2>2, FS_Injection
  <2> QED BY <2>3 DEF Surjection
<1> QED BY <1>2, <1>3, <1>4

(* Writing behind a place leaves what is before it.                        *)
LEMMA OverwritePlaces ==
    ASSUME NEW base \in Seq(Cells), NEW cells \in Seq(Cells), NEW at \in Nat,
           at <= Len(base),
           NEW others, others = Overwrite(base, at, cells)
    PROVE  /\ others \in Seq(Cells)
           /\ at + Len(cells) <= Len(others)
           /\ \A p \in 1..at : others[p] = base[p]
           /\ \A p \in 1..Len(cells) : others[at + p] = cells[p]
<1> DEFINE n == Max({Len(base), at + Len(cells)})
<1>1. /\ Len(base) \in Nat /\ Len(cells) \in Nat /\ DOMAIN base = 1..Len(base)
      /\ \A p \in 1..Len(base) : base[p] \in Cells
      /\ \A p \in 1..Len(cells) : cells[p] \in Cells
  BY LenProperties, ElementOfSeq
<1>2. n \in Nat /\ at + Len(cells) <= n /\ Len(base) <= n
  <2> DEFINE b == Len(base)
             t == at + Len(cells)
  <2>1. b \in Nat /\ t \in Nat
    BY <1>1
  <2> HIDE DEF b, t
  <2>2. \E x \in {b, t} : \A y \in {b, t} : x >= y
    BY <2>1
  <2>3. Max({b, t}) \in {b, t} /\ \A y \in {b, t} : Max({b, t}) >= y
    BY <2>2 DEF Max
  <2>4. Max({b, t}) \in Nat /\ t <= Max({b, t}) /\ b <= Max({b, t})
    BY <2>1, <2>3
  <2> QED BY <2>4 DEF b, t
<1>3. others = [i \in 1..n |->
                   IF i \in (at + 1)..(at + Len(cells)) THEN cells[i - at]
                   ELSE IF i \in 1..Len(base) THEN base[i] ELSE Zero]
  BY <1>1 DEF Overwrite
<1> HIDE DEF n
<1>4. ASSUME NEW i \in 1..n PROVE others[i] \in Cells
  <2>1. CASE i \in (at + 1)..(at + Len(cells))
    <3>1. i - at \in 1..Len(cells)
      BY <1>1, <2>1
    <3> QED BY <1>1, <1>3, <2>1, <3>1
  <2>2. CASE i \notin (at + 1)..(at + Len(cells))
    <3>1. Zero \in Cells
      BY DEF Cells
    <3> QED BY <1>1, <1>3, <2>2, <3>1
  <2> QED BY <2>1, <2>2
<1>5. others \in Seq(Cells) /\ Len(others) = n
  <2>1. others \in [1..n -> Cells]
    BY <1>3, <1>4
  <2>2. others \in Seq(Cells)
    BY <1>2, <2>1, SeqDef
  <2> QED BY <1>2, <2>1, <2>2
<1>6. ASSUME NEW p \in 1..at PROVE others[p] = base[p]
  <2>1. /\ p \in 1..n /\ p \in 1..Len(base)
        /\ p \notin (at + 1)..(at + Len(cells))
    BY <1>1, <1>2
  <2> QED BY <1>3, <2>1
<1>7. ASSUME NEW p \in 1..Len(cells) PROVE others[at + p] = cells[p]
  <2>1. /\ at + p \in 1..n /\ at + p \in (at + 1)..(at + Len(cells))
        /\ (at + p) - at = p
    BY <1>1, <1>2
  <2> QED BY <1>3, <2>1
<1> QED BY <1>2, <1>5, <1>6, <1>7

(* Sound markers of other items may be put behind.                         *)
LEMMA JoinSound ==
    ASSUME NEW contents, NEW ms, Sound(contents, ms),
           NEW ns, Sound(contents, ns),
           \A i \in 1..Len(ms) : \A j \in 1..Len(ns) :
               ms[i].end <= ns[j].start,
           \A k \in Keys, v, w \in Values :
               ~ (Has(contents, ms, k, v) /\ Has(contents, ns, k, w))
    PROVE  /\ Sound(contents, ms \o ns)
           /\ \A k \in Keys, v \in Values :
                  Has(contents, ms \o ns, k, v)
                      <=> \/ Has(contents, ms, k, v)
                          \/ Has(contents, ns, k, v)
<1> DEFINE both == ms \o ns
           m == Len(ms)
           n == Len(ns)
<1>1. ms \in Seq(Marker) /\ ns \in Seq(Marker) /\ m \in Nat /\ n \in Nat
  BY LenProperties DEF Sound
<1>2. /\ both \in Seq(Marker) /\ Len(both) = m + n
      /\ \A i \in 1..m : both[i] = ms[i]
      /\ \A j \in 1..n : both[m + j] = ns[j]
  BY <1>1, ConcatPlaces
<1> HIDE DEF both
<1>3. ASSUME NEW i \in 1..(m + n)
      PROVE  \/ i \in 1..m /\ both[i] = ms[i]
             \/ i - m \in 1..n /\ both[i] = ns[i - m] /\ i > m
  <2>1. i \in 1..m \/ (i - m \in 1..n /\ i = m + (i - m) /\ i > m)
    BY <1>1
  <2> QED BY <1>2, <2>1
<1>4. ASSUME NEW i \in 1..(m + n) PROVE Delimits(contents, both[i])
  BY <1>3 DEF Sound
<1>5. Ordered(both)
  <2> SUFFICES ASSUME NEW i \in 1..(m + n), NEW j \in 1..(m + n), i < j
               PROVE  both[i].end <= both[j].start
    BY <1>2 DEF Ordered
  <2>1. CASE i \in 1..m /\ j \in 1..m
    BY <1>2, <2>1 DEF Sound, Ordered
  <2>2. CASE i \in 1..m /\ j \notin 1..m
    BY <1>2, <1>3, <2>2
  <2>3. CASE i \notin 1..m
    <3>1. i - m \in 1..n /\ both[i] = ns[i - m]
      BY <1>3, <2>3
    <3>2. j \notin 1..m
      BY <1>1, <2>3
    <3>3. j - m \in 1..n /\ both[j] = ns[j - m]
      BY <1>3, <3>2
    <3>4. i - m < j - m
      BY <1>1
    <3> QED BY <3>1, <3>3, <3>4 DEF Sound, Ordered
  <2> QED BY <2>1, <2>2, <2>3
<1>6. OneEach(contents, both)
  <2> SUFFICES ASSUME NEW i \in 1..(m + n), NEW j \in 1..(m + n),
                      NEW k \in Keys, NEW v \in Values, NEW w \in Values,
                      Item(contents, both[i], k, v),
                      Item(contents, both[j], k, w)
               PROVE  i = j
    BY <1>2 DEF OneEach
  <2>1. CASE i \in 1..m /\ j \in 1..m
    BY <1>2, <2>1 DEF Sound, OneEach
  <2>2. CASE i \in 1..m /\ j \notin 1..m
    <3>1. j - m \in 1..n /\ both[j] = ns[j - m] /\ both[i] = ms[i]
      BY <1>2, <1>3, <2>2
    <3>2. Has(contents, ms, k, v) /\ Has(contents, ns, k, w)
      BY <2>2, <3>1 DEF Has
    <3> QED BY <3>2
  <2>3. CASE i \notin 1..m /\ j \in 1..m
    <3>1. i - m \in 1..n /\ both[i] = ns[i - m] /\ both[j] = ms[j]
      BY <1>2, <1>3, <2>3
    <3>2. Has(contents, ms, k, w) /\ Has(contents, ns, k, v)
      BY <2>3, <3>1 DEF Has
    <3> QED BY <3>2
  <2>4. CASE i \notin 1..m /\ j \notin 1..m
    <3>1. /\ i - m \in 1..n /\ both[i] = ns[i - m]
          /\ j - m \in 1..n /\ both[j] = ns[j - m]
      BY <1>3, <2>4
    <3>2. i - m = j - m
      BY <3>1 DEF Sound, OneEach
    <3> QED BY <1>1, <3>2
  <2> QED BY <2>1, <2>2, <2>3, <2>4
<1>7. Sound(contents, both)
  <2>1. contents \in Seq(Cells)
    BY DEF Sound
  <2> QED BY <1>2, <1>4, <1>5, <1>6, <2>1 DEF Sound
<1>8. ASSUME NEW k \in Keys, NEW v \in Values
      PROVE  Has(contents, both, k, v)
                 <=> Has(contents, ms, k, v) \/ Has(contents, ns, k, v)
  <2>1. ASSUME Has(contents, both, k, v)
        PROVE  Has(contents, ms, k, v) \/ Has(contents, ns, k, v)
    <3>1. PICK i \in 1..(m + n) : Item(contents, both[i], k, v)
      BY <1>2, <2>1 DEF Has
    <3> QED BY <1>3, <3>1 DEF Has
  <2>2. ASSUME Has(contents, ms, k, v) PROVE Has(contents, both, k, v)
    <3>1. PICK i \in 1..m : Item(contents, ms[i], k, v)
      BY <2>2 DEF Has
    <3>2. i \in 1..(m + n)
      BY <1>1
    <3> QED BY <1>2, <3>1, <3>2 DEF Has
  <2>3. ASSUME Has(contents, ns, k, v) PROVE Has(contents, both, k, v)
    <3>1. PICK j \in 1..n : Item(contents, ns[j], k, v)
      BY <2>3 DEF Has
    <3>2. m + j \in 1..(m + n)
      BY <1>1
    <3> QED BY <1>2, <3>1, <3>2 DEF Has
  <2> QED BY <2>1, <2>2, <2>3
<1> QED BY <1>7, <1>8 DEF both

(* The items of keys in some order.                                        *)
Ordering(items, order) ==
    /\ order \in Seq(Keys)
    /\ \A j \in 1..Len(order) : items[order[j]] \in Values
    /\ \A i, j \in 1..Len(order) : order[i] = order[j] => i = j

Sizes(items, order) == [j \in DOMAIN order |-> Size[items[order[j]]]]

(* Their sizes can be added up.                                            *)
LEMMA SizesAdd ==
    ASSUME NEW items, NEW order, Ordering(items, order)
    PROVE  /\ Len(order) \in Nat
           /\ Sizes(items, order) \in Seq(Nat)
           /\ Len(Sizes(items, order)) = Len(order)
           /\ \A j \in 1..Len(order) :
                  /\ Sizes(items, order)[j] = Size[items[order[j]]]
                  /\ Sizes(items, order)[j] \in Nat \ {0}
           /\ Adds(Sums(Sizes(items, order)), Sizes(items, order))
           /\ \A i, j \in 0..Len(order) :
                  i <= j => Sums(Sizes(items, order))[i]
                                <= Sums(Sizes(items, order))[j]
<1> DEFINE n == Len(order)
           sizes == Sizes(items, order)
<1>1. n \in Nat /\ DOMAIN order = 1..n
  BY LenProperties DEF Ordering
<1>2. ASSUME NEW j \in 1..n
      PROVE  sizes[j] = Size[items[order[j]]] /\ sizes[j] \in Nat \ {0}
  <2>1. sizes[j] = Size[items[order[j]]]
    BY <1>1 DEF Sizes
  <2> QED BY <2>1, SizeAssumption DEF Ordering
<1>3. sizes \in [1..n -> Nat]
  <2>1. \A j \in 1..n : sizes[j] \in Nat
    BY <1>2
  <2>2. sizes = [j \in 1..n |-> sizes[j]]
    BY <1>1 DEF Sizes
  <2> QED BY <2>1, <2>2
<1>4. sizes \in Seq(Nat) /\ Len(sizes) = n
  <2>1. sizes \in Seq(Nat)
    BY <1>1, <1>3, SeqDef
  <2>2. DOMAIN sizes = 1..n
    BY <1>3
  <2> QED BY <1>1, <2>1, <2>2
<1>5. Adds(Sums(sizes), sizes)
  BY <1>4, SumsAdd
<1>6. \A i, j \in 0..n : i <= j => Sums(sizes)[i] <= Sums(sizes)[j]
  BY <1>4, SumsGrow
<1> QED BY <1>1, <1>2, <1>4, <1>5, <1>6

BulkIs(bulk, items, order, sum) ==
    /\ bulk \in Seq(Cells)
    /\ Len(bulk) = sum[Len(order)]
    /\ \A j \in 1..Len(order) : \A x \in 1..Size[items[order[j]]] :
           bulk[sum[j - 1] + x] = <<order[j], items[order[j]]>>

(* Where the serialised items are in the bulk.                             *)
LEMMA BulkPlaces ==
    ASSUME NEW items, NEW order, Ordering(items, order),
           NEW sum, sum = Sums(Sizes(items, order))
    PROVE  BulkIs(Bulk(items, order), items, order, sum)
<1> DEFINE n == Len(order)
           sizes == Sizes(items, order)
           rows == [j \in DOMAIN order |->
                       Serialised(order[j], items[order[j]])]
<1>1. n \in Nat /\ DOMAIN order = 1..n
  BY LenProperties DEF Ordering
<1>2. /\ sizes \in Seq(Nat) /\ Len(sizes) = n
      /\ \A j \in 1..n : /\ sizes[j] = Size[items[order[j]]]
                         /\ sizes[j] \in Nat \ {0}
  BY SizesAdd
<1>3. ASSUME NEW j \in 1..n
      PROVE  /\ rows[j] \in Seq(Cells) /\ Len(rows[j]) = sizes[j]
             /\ \A x \in 1..sizes[j] :
                    rows[j][x] = <<order[j], items[order[j]]>>
  <2> DEFINE s == Size[items[order[j]]]
  <2>1. s \in Nat /\ s = sizes[j]
    BY <1>2
  <2>2. <<order[j], items[order[j]]>> \in Cells
    <3>1. order[j] \in Keys /\ items[order[j]] \in Values
      BY ElementOfSeq DEF Ordering
    <3> QED BY <3>1 DEF Cells
  <2>3. rows[j] = [x \in 1..s |-> <<order[j], items[order[j]]>>]
    BY <1>1 DEF Serialised
  <2> HIDE DEF s, rows
  <2>4. rows[j] \in [1..s -> Cells]
    BY <2>2, <2>3
  <2>5. rows[j] \in Seq(Cells)
    BY <2>1, <2>4, SeqDef
  <2>6. DOMAIN rows[j] = 1..s
    BY <2>3
  <2>7. Len(rows[j]) = s
    BY <2>1, <2>5, <2>6
  <2>8. \A x \in 1..s : rows[j][x] = <<order[j], items[order[j]]>>
    BY <2>3
  <2> QED BY <2>1, <2>5, <2>7, <2>8
<1>4. rows \in Seq(Seq(Cells)) /\ Len(rows) = n
  <2>1. rows \in [1..n -> Seq(Cells)]
    <3>1. \A j \in 1..n : rows[j] \in Seq(Cells)
      BY <1>3
    <3>2. rows = [j \in 1..n |-> rows[j]]
      BY <1>1
    <3> QED BY <3>1, <3>2
  <2> HIDE DEF rows
  <2>2. rows \in Seq(Seq(Cells)) /\ DOMAIN rows = 1..n
    BY <1>1, <2>1, SeqDef
  <2> QED BY <1>1, <2>2
<1>5. Bulk(items, order) = FlattenSeq(rows)
  BY DEF Bulk
<1> HIDE DEF rows
<1>6. LengthsAre(sizes, rows)
  BY <1>2, <1>3, <1>4 DEF LengthsAre
<1>7. /\ FlattenSeq(rows) \in Seq(Cells)
      /\ Laid(FlattenSeq(rows), n, rows, sizes)
  BY <1>2, <1>4, <1>6, FlattenSeqLays
<1>8. Len(FlattenSeq(rows)) = sum[n]
  BY <1>7 DEF Laid
<1>9. ASSUME NEW j \in 1..n, NEW x \in 1..Size[items[order[j]]]
      PROVE  FlattenSeq(rows)[sum[j - 1] + x] = <<order[j], items[order[j]]>>
  <2>1. x \in 1..sizes[j]
    BY <1>2
  <2>2. FlattenSeq(rows)[sum[j - 1] + x] = rows[j][x]
    BY <1>7, <2>1 DEF Laid
  <2> QED BY <1>3, <2>1, <2>2
<1> QED BY <1>5, <1>7, <1>8, <1>9 DEF BulkIs

(* The bulk is in the contents behind place e.                             *)
BulkAt(others, e, items, order) ==
    /\ others \in Seq(Cells) /\ e \in Nat
    /\ e + Len(Bulk(items, order)) <= Len(others)
    /\ \A p \in 1..Len(Bulk(items, order)) :
           others[e + p] = Bulk(items, order)[p]

(* The appended markers delimit the items of the bulk.                     *)
LEMMA AppendedItem ==
    ASSUME NEW items, NEW order, Ordering(items, order),
           NEW ms, NEW others, BulkAt(others, EndOf(ms), items, order),
           NEW ns, ns = AppendedMarkers(items, order, ms),
           NEW sum, sum = Sums(Sizes(items, order))
    PROVE  /\ ns \in Seq(Marker) /\ Len(ns) = Len(order)
           /\ \A j \in 1..Len(order) :
                  /\ ns[j].start = EndOf(ms) + sum[j - 1]
                  /\ ns[j].end = EndOf(ms) + sum[j]
                  /\ ns[j].start < ns[j].end /\ ns[j].end <= Len(others)
                  /\ \A k \in Keys, v \in Values :
                         Item(others, ns[j], k, v)
                             <=> k = order[j] /\ v = items[k]
<1> DEFINE n == Len(order)
           sizes == Sizes(items, order)
           e == EndOf(ms)
<1>1. /\ n \in Nat /\ DOMAIN order = 1..n
      /\ \A j \in 1..n : order[j] \in Keys /\ items[order[j]] \in Values
  BY LenProperties, ElementOfSeq DEF Ordering
<1>2. /\ Len(sizes) = n
      /\ \A j \in 1..n : /\ sizes[j] = Size[items[order[j]]]
                         /\ sizes[j] \in Nat \ {0}
      /\ Adds(sum, sizes)
      /\ \A i, j \in 0..n : i <= j => sum[i] <= sum[j]
  BY SizesAdd
<1>3. /\ sum \in [0..n -> Nat]
      /\ \A j \in 1..n : sum[j] = sum[j - 1] + sizes[j]
  BY <1>2 DEF Adds
<1>4. ns = [j \in 1..n |-> [start |-> e + sum[j - 1], end |-> e + sum[j],
                            key |-> Hash[order[j]]]]
  BY <1>1 DEF AppendedMarkers, Sizes
<1>5. /\ e \in Nat /\ e + sum[n] <= Len(others)
      /\ others \in Seq(Cells) /\ Len(others) \in Nat
      /\ \A j \in 1..n : \A x \in 1..sizes[j] :
             sum[j - 1] + x \in 1..sum[n] =>
                 others[e + (sum[j - 1] + x)] = <<order[j], items[order[j]]>>
  <2>1. /\ Len(Bulk(items, order)) = sum[n]
        /\ \A j \in 1..n : \A x \in 1..Size[items[order[j]]] :
               Bulk(items, order)[sum[j - 1] + x] =
                   <<order[j], items[order[j]]>>
    <3>1. BulkIs(Bulk(items, order), items, order, sum)
      BY BulkPlaces
    <3> QED BY <3>1 DEF BulkIs
  <2>2. /\ others \in Seq(Cells) /\ e \in Nat
        /\ e + sum[n] <= Len(others)
        /\ \A p \in 1..sum[n] : others[e + p] = Bulk(items, order)[p]
    BY <2>1 DEF BulkAt
  <2>3. ASSUME NEW j \in 1..n, NEW x \in 1..sizes[j],
               sum[j - 1] + x \in 1..sum[n]
        PROVE  others[e + (sum[j - 1] + x)] = <<order[j], items[order[j]]>>
    <3>1. x \in 1..Size[items[order[j]]]
      BY <1>2
    <3>2. others[e + (sum[j - 1] + x)] = Bulk(items, order)[sum[j - 1] + x]
      BY <2>2, <2>3
    <3> QED BY <2>1, <3>1, <3>2
  <2>4. Len(others) \in Nat
    BY <2>2, LenProperties
  <2> QED BY <2>2, <2>3, <2>4
<1> HIDE DEF sizes, e
<1>6. ASSUME NEW j \in 1..n
      PROVE  /\ j - 1 \in 0..n /\ j \in 0..n
             /\ sum[j - 1] \in Nat /\ sum[j] \in Nat /\ sum[n] \in Nat
             /\ sum[j] = sum[j - 1] + sizes[j] /\ sum[j] <= sum[n]
             /\ sizes[j] \in Nat /\ sizes[j] > 0
  <2>1. j - 1 \in 0..n /\ j \in 0..n /\ n \in 0..n /\ j <= n
    BY <1>1
  <2> QED BY <1>2, <1>3, <2>1
<1>7. ASSUME NEW j \in 1..n
      PROVE  /\ ns[j] \in Marker /\ ns[j].key = Hash[order[j]]
             /\ ns[j].start = e + sum[j - 1] /\ ns[j].end = e + sum[j]
             /\ ns[j].start < ns[j].end /\ ns[j].end <= Len(others)
             /\ ns[j].end - ns[j].start = sizes[j]
  <2>1. /\ ns[j] = [start |-> e + sum[j - 1], end |-> e + sum[j],
                    key |-> Hash[order[j]]]
        /\ Hash[order[j]] \in Nat
    BY <1>1, <1>4, HashAssumption
  <2>2. /\ e + sum[j - 1] \in Nat /\ e + sum[j] \in Nat
        /\ e + sum[j - 1] < e + sum[j] /\ e + sum[j] <= Len(others)
        /\ (e + sum[j]) - (e + sum[j - 1]) = sizes[j]
    <3>1. /\ sum[j - 1] \in Nat /\ sum[j] \in Nat /\ sum[n] \in Nat
          /\ sum[j] = sum[j - 1] + sizes[j] /\ sum[j] <= sum[n]
          /\ sizes[j] \in Nat /\ sizes[j] > 0
      BY <1>6
    <3>2. e \in Nat /\ Len(others) \in Nat /\ e + sum[n] <= Len(others)
      BY <1>5
    <3>3. PICK a \in Nat, b \in Nat, c \in Nat, d \in Nat :
              a = sum[j - 1] /\ b = sum[j] /\ c = sum[n] /\ d = sizes[j]
      BY <3>1
    <3>4. b = a + d /\ b <= c /\ d > 0 /\ e + c <= Len(others)
      BY <3>1, <3>2, <3>3
    <3>5. /\ e + a \in Nat /\ e + b \in Nat
          /\ e + a < e + b /\ e + b <= Len(others)
          /\ (e + b) - (e + a) = d
      BY <3>2, <3>4
    <3> QED BY <3>3, <3>5
  <2>3. ns[j] \in Marker
    BY <2>1, <2>2 DEF Marker
  <2> QED BY <2>1, <2>2, <2>3
<1>8. ns \in Seq(Marker) /\ Len(ns) = n
  <2>1. ns \in [1..n -> Marker]
    <3>1. \A j \in 1..n : ns[j] \in Marker
      BY <1>7
    <3> QED BY <1>4, <3>1
  <2>2. ns \in Seq(Marker) /\ DOMAIN ns = 1..n
    BY <1>1, <2>1, SeqDef
  <2> QED BY <1>1, <2>2
<1>9. ASSUME NEW j \in 1..n
      PROVE  Item(others, ns[j], order[j], items[order[j]])
  <2>1. ASSUME NEW x \in 1..Size[items[order[j]]]
        PROVE  others[ns[j].start + x] = <<order[j], items[order[j]]>>
    <3>1. x \in 1..sizes[j] /\ x \in Nat
      BY <1>2
    <3>2. /\ sum[j - 1] \in Nat /\ sum[n] \in Nat
          /\ sum[j] = sum[j - 1] + sizes[j] /\ sum[j] <= sum[n]
          /\ sizes[j] \in Nat
      BY <1>6
    <3>3. sum[j - 1] + x \in 1..sum[n]
      <4>1. 1 <= x /\ x <= sizes[j]
        BY <3>1, <3>2
      <4>2. \A a, b, c, d \in Nat : c = a + b /\ c <= d /\ 1 <= x /\ x <= b
                                        => a + x \in 1..d
        BY <3>1
      <4>3. sum[j] \in Nat
        BY <1>6
      <4> QED BY <3>2, <4>1, <4>2, <4>3
    <3>4. others[e + (sum[j - 1] + x)] = <<order[j], items[order[j]]>>
      BY <1>5, <3>1, <3>3
    <3>5. ns[j].start + x = e + (sum[j - 1] + x)
      BY <1>5, <1>7, <3>1, <3>2
    <3> QED BY <3>4, <3>5
  <2>2. ns[j].end - ns[j].start = Size[items[order[j]]]
    BY <1>2, <1>7
  <2> QED BY <1>7, <2>1, <2>2 DEF Item
<1>10. ASSUME NEW j \in 1..n, NEW k \in Keys, NEW v \in Values
       PROVE  Item(others, ns[j], k, v) <=> k = order[j] /\ v = items[k]
  <2>1. items[order[j]] \in Values
    BY <1>1
  <2>2. Item(others, ns[j], k, v) => k = order[j] /\ v = items[order[j]]
    BY <1>9, <2>1, ItemUnique
  <2> QED BY <1>9, <2>2
<1> QED BY <1>7, <1>8, <1>10 DEF e

(* The appended markers are sound by themselves.                           *)
LEMMA AppendedSound ==
    ASSUME NEW items, NEW order, Ordering(items, order),
           NEW ms, NEW others, BulkAt(others, EndOf(ms), items, order),
           NEW ns, ns = AppendedMarkers(items, order, ms)
    PROVE  /\ Sound(others, ns)
           /\ \A j \in 1..Len(ns) : EndOf(ms) <= ns[j].start
           /\ \A k \in Keys, v \in Values :
                  Has(others, ns, k, v) <=>
                      /\ \E j \in 1..Len(order) : k = order[j]
                      /\ v = items[k]
<1> DEFINE n == Len(order)
           sum == Sums(Sizes(items, order))
           e == EndOf(ms)
<1>1. /\ n \in Nat
      /\ \A j \in 1..n : order[j] \in Keys /\ items[order[j]] \in Values
      /\ \A i, j \in 1..n : order[i] = order[j] => i = j
  BY LenProperties, ElementOfSeq DEF Ordering
<1>2. e \in Nat /\ others \in Seq(Cells)
  BY DEF BulkAt
<1>3. /\ sum \in [0..n -> Nat]
      /\ \A i, j \in 0..n : i <= j => sum[i] <= sum[j]
  BY SizesAdd DEF Adds
<1>4. /\ ns \in Seq(Marker) /\ Len(ns) = n
      /\ \A j \in 1..n :
             /\ ns[j].start = e + sum[j - 1] /\ ns[j].end = e + sum[j]
             /\ ns[j].start < ns[j].end /\ ns[j].end <= Len(others)
             /\ \A k \in Keys, v \in Values :
                    Item(others, ns[j], k, v) <=> k = order[j] /\ v = items[k]
  BY AppendedItem
<1> HIDE DEF sum, e
<1>5. ASSUME NEW j \in 1..n PROVE Delimits(others, ns[j])
  <2>1. Item(others, ns[j], order[j], items[order[j]])
    BY <1>1, <1>4
  <2> QED BY <1>1, <1>4, <2>1 DEF Delimits
<1>6. Ordered(ns)
  <2> SUFFICES ASSUME NEW i \in 1..n, NEW j \in 1..n, i < j
               PROVE  ns[i].end <= ns[j].start
    BY <1>4 DEF Ordered
  <2>1. i \in 0..n /\ j - 1 \in 0..n /\ i <= j - 1
    BY <1>1
  <2>2. sum[i] \in Nat /\ sum[j - 1] \in Nat /\ sum[i] <= sum[j - 1]
    BY <1>3, <2>1
  <2>3. e + sum[i] <= e + sum[j - 1]
    BY <1>2, <2>2
  <2> QED BY <1>4, <2>3
<1>7. OneEach(others, ns)
  <2> SUFFICES ASSUME NEW i \in 1..n, NEW j \in 1..n,
                      NEW k \in Keys, NEW v \in Values, NEW w \in Values,
                      Item(others, ns[i], k, v), Item(others, ns[j], k, w)
               PROVE  i = j
    BY <1>4 DEF OneEach
  <2>1. k = order[i] /\ k = order[j]
    BY <1>4
  <2> QED BY <1>1, <2>1
<1>8. Sound(others, ns)
  BY <1>2, <1>4, <1>5, <1>6, <1>7 DEF Sound
<1>9. ASSUME NEW j \in 1..n PROVE e <= ns[j].start
  <2>1. sum[j - 1] \in Nat
    <3>1. j - 1 \in 0..n
      BY <1>1
    <3> QED BY <1>3, <3>1
  <2> QED BY <1>2, <1>4, <2>1
<1>10. ASSUME NEW k \in Keys, NEW v \in Values
       PROVE  Has(others, ns, k, v) <=>
                  (\E j \in 1..n : k = order[j]) /\ v = items[k]
  BY <1>4 DEF Has
<1> QED BY <1>4, <1>8, <1>9, <1>10 DEF e

(* Base holds what the markers delimit.                                    *)
WritesOn(base, contents, ms) ==
    /\ base \in Seq(Cells)
    /\ EndOf(ms) <= Len(base)
    /\ ms # <<>> => base = contents

HasSaved(written, ns, keys, items, contents, ms) ==
    \A k \in Keys, v \in Values :
        Has(written, ns, k, v) <=>
            IF k \in keys THEN v = items[k] ELSE Has(contents, ms, k, v)

(* What save() has written before compact() is sound: it holds the items   *)
(* that were saved and, under the other keys, what was there.              *)
LEMMA WriteSound ==
    ASSUME NEW contents, NEW ms, Sound(contents, ms),
           NEW base, WritesOn(base, contents, ms),
           NEW keys \in SUBSET Keys, IsFiniteSet(keys),
           NEW items \in [keys -> Values], NEW order \in SetToSeqs(keys),
           NEW others,
           others = Overwrite(base, EndOf(ms), Bulk(items, order)),
           NEW ns,
           ns = Without(contents, ms, keys)
                    \o AppendedMarkers(items, order, ms)
    PROVE  Sound(others, ns) /\ HasSaved(others, ns, keys, items, contents, ms)
<1> DEFINE e == EndOf(ms)
           kept == Without(contents, ms, keys)
           appended == AppendedMarkers(items, order, ms)
           bulk == Bulk(items, order)
<1>1. /\ order \in Seq(keys)
      /\ \A i, j \in 1..Len(order) : order[i] = order[j] => i = j
      /\ \A k \in keys : \E j \in 1..Len(order) : order[j] = k
  BY OrderOfKeys
<1>2. \A j \in 1..Len(order) : order[j] \in keys
  BY <1>1, ElementOfSeq
<1>3. Ordering(items, order)
  <2>1. order \in Seq(Keys)
    BY <1>1, SeqMonotonic
  <2> QED BY <1>1, <1>2, <2>1 DEF Ordering
<1>4. e \in Nat /\ (ms = <<>> => e = 0)
  BY EndOfSound DEF EndOf
<1>5. bulk \in Seq(Cells)
  BY <1>3, BulkPlaces DEF BulkIs
<1>6. base \in Seq(Cells) /\ e <= Len(base) /\ (ms # <<>> => base = contents)
  BY DEF WritesOn
<1>7. /\ others \in Seq(Cells) /\ e + Len(bulk) <= Len(others)
      /\ \A p \in 1..e : others[p] = base[p]
      /\ \A p \in 1..Len(bulk) : others[e + p] = bulk[p]
  <2>1. others = Overwrite(base, e, bulk)
    OBVIOUS
  <2> HIDE DEF e, bulk
  <2> QED BY <1>4, <1>5, <1>6, <2>1, OverwritePlaces
<1>8. /\ Sound(contents, kept)
      /\ \A k \in Keys, v \in Values :
             Has(contents, kept, k, v)
                 <=> Has(contents, ms, k, v) /\ k \notin keys
      /\ \A i \in 1..Len(kept) : kept[i].end <= e
  BY WithoutSound
<1>9. AgreeUpTo(others, contents, kept, e)
  <2>1. e <= Len(others)
    <3>1. Len(bulk) \in Nat /\ Len(others) \in Nat
      BY <1>5, <1>7, LenProperties
    <3> HIDE DEF bulk, e
    <3> QED BY <1>4, <1>7, <3>1
  <2>2. \A p \in 1..e : others[p] = contents[p]
    BY <1>4, <1>6, <1>7
  <2> HIDE DEF bulk, e, kept
  <2> QED BY <1>4, <1>7, <1>8, <2>1, <2>2 DEF AgreeUpTo
<1>10. /\ Sound(others, kept)
       /\ \A k \in Keys, v \in Values :
              Has(others, kept, k, v) <=> Has(contents, kept, k, v)
  <2> HIDE DEF kept, e
  <2> QED BY <1>8, <1>9, SoundAgree
<1>11. BulkAt(others, e, items, order)
  BY <1>4, <1>7 DEF BulkAt
<1>12. /\ Sound(others, appended)
       /\ \A j \in 1..Len(appended) : e <= appended[j].start
       /\ \A k \in Keys, v \in Values :
              Has(others, appended, k, v) <=>
                  (\E j \in 1..Len(order) : k = order[j]) /\ v = items[k]
  BY <1>3, <1>11, AppendedSound
<1>13. \A k \in Keys, v \in Values :
           Has(others, appended, k, v) <=> k \in keys /\ v = items[k]
  <2>1. \A k : k \in keys <=> \E j \in 1..Len(order) : k = order[j]
    BY <1>1, <1>2
  <2> HIDE DEF appended
  <2> QED BY <1>12, <2>1
<1> HIDE DEF kept, appended, e
<1>14. \A i \in 1..Len(kept) : \A j \in 1..Len(appended) :
           kept[i].end <= appended[j].start
  <2> SUFFICES ASSUME NEW i \in 1..Len(kept), NEW j \in 1..Len(appended)
               PROVE  kept[i].end <= appended[j].start
    OBVIOUS
  <2>1. kept[i] \in Marker /\ appended[j] \in Marker
    BY <1>10, <1>12, ElementOfSeq DEF Sound
  <2>2. kept[i].end \in Nat /\ appended[j].start \in Nat
    BY <2>1 DEF Marker
  <2>3. kept[i].end <= e /\ e <= appended[j].start
    BY <1>8, <1>12
  <2> QED BY <1>4, <2>2, <2>3
<1>15. \A k \in Keys, v, w \in Values :
           ~ (Has(others, kept, k, v) /\ Has(others, appended, k, w))
  BY <1>8, <1>10, <1>13
<1>16. /\ Sound(others, kept \o appended)
       /\ \A k \in Keys, v \in Values :
              Has(others, kept \o appended, k, v)
                  <=> Has(others, kept, k, v) \/ Has(others, appended, k, v)
  BY <1>10, <1>12, <1>14, <1>15, JoinSound
<1>17. ns = kept \o appended
  BY DEF kept, appended
<1> QED BY <1>8, <1>10, <1>13, <1>16, <1>17 DEF HasSaved

(* Files that can be opened, and do not waste more than they use.          *)
Fine(contents, ms) == Good(contents, ms) /\ Bounded(contents, ms)

ReadsSaved(others, ls, keys, items, contents, ms) ==
    \A k \in Keys : Read(others, ls, k) =
        IF k \in keys THEN items[k] ELSE Read(contents, ms, k)

(* save(): what is read afterwards.                                        *)
LEMMA SaveFine ==
    ASSUME NEW contents, NEW ms, Sound(contents, ms),
           NEW base, WritesOn(base, contents, ms),
           NEW keys \in SUBSET Keys, IsFiniteSet(keys),
           NEW items \in [keys -> Values], NEW order \in SetToSeqs(keys),
           NEW written,
           written = Overwrite(base, EndOf(ms), Bulk(items, order)),
           NEW ns,
           ns = Without(contents, ms, keys)
                    \o AppendedMarkers(items, order, ms),
           NEW others, others = CompactedContents(written, ns),
           NEW ls, ls = CompactedMarkers(ns)
    PROVE  /\ Fine(others, ls)
           /\ ReadsSaved(others, ls, keys, items, contents, ms)
<1>1. Sound(written, ns) /\ HasSaved(written, ns, keys, items, contents, ms)
  BY WriteSound
<1>2. /\ Good(others, ls) /\ SameItems(written, ns, others, ls)
      /\ Bounded(others, ls)
  BY <1>1, CompactGood
<1>3. Sound(others, ls)
  BY <1>2 DEF Good
<1>4. \A k \in Keys, v \in Values :
          Has(others, ls, k, v) <=>
              IF k \in keys THEN v = items[k] ELSE Has(contents, ms, k, v)
  BY <1>1, <1>2 DEF SameItems, HasSaved
<1>5. ASSUME NEW k \in Keys
      PROVE  Read(others, ls, k) =
                 IF k \in keys THEN items[k] ELSE Read(contents, ms, k)
  <2>1. CASE k \in keys
    <3>1. items[k] \in Values
      BY <2>1
    <3>2. Has(others, ls, k, items[k])
      BY <1>4, <2>1, <3>1
    <3> QED BY <1>3, <2>1, <3>1, <3>2, ReadSound
  <2>2. CASE k \notin keys
    <3>1. \A v \in Values : Has(others, ls, k, v) <=> Has(contents, ms, k, v)
      BY <1>4, <2>2
    <3>2. Read(others, ls, k) = Read(contents, ms, k)
      BY <1>3, <3>1, ReadSame
    <3> QED BY <2>2, <3>2
  <2> QED BY <2>1, <2>2
<1> QED BY <1>2, <1>5 DEF Fine, ReadsSaved

-----------------------------------------------------------------------------
(* erase().                                                                *)

(* As many stored keys as there are markers are all of them, so that       *)
(* purpose_clear_all may go by the numbers.                                *)
LEMMA ClearAll ==
    ASSUME NEW contents, NEW ms, Sound(contents, ms),
           NEW keys \in SUBSET Keys, IsFiniteSet(keys),
           \A k \in keys : Read(contents, ms, k) # NoValue,
           Cardinality(keys) = Len(ms)
    PROVE  Without(contents, ms, keys) = <<>>
<1> DEFINE n == Len(ms)
           at(k) == CHOOSE i \in 1..n :
                        \E v \in Values : Item(contents, ms[i], k, v)
           f == [k \in keys |-> at(k)]
<1>1. n \in Nat
  BY LenProperties DEF Sound
<1>2. ASSUME NEW k \in keys
      PROVE  /\ at(k) \in 1..n
             /\ \E v \in Values : Item(contents, ms[at(k)], k, v)
  <2>1. k \in Keys /\ Read(contents, ms, k) # NoValue
    OBVIOUS
  <2>2. \E v \in Values : Has(contents, ms, k, v)
    BY <2>1, ReadSound
  <2>3. \E i \in 1..n : \E v \in Values : Item(contents, ms[i], k, v)
    BY <2>2 DEF Has
  <2> QED BY <2>3
<1> HIDE DEF at
<1>3. /\ f \in [keys -> 1..n]
      /\ \A k \in keys : \E v \in Values : Item(contents, ms[f[k]], k, v)
  BY <1>2
<1> HIDE DEF f
<1>4. f \in Injection(keys, 1..n)
  <2>1. ASSUME NEW k \in keys, NEW j \in keys, f[k] = f[j] PROVE k = j
    <3>1. PICK v \in Values : Item(contents, ms[f[k]], k, v)
      BY <1>3
    <3>2. PICK w \in Values : Item(contents, ms[f[k]], j, w)
      BY <1>3, <2>1
    <3> QED BY <3>1, <3>2, ItemUnique
  <2> QED BY <1>3, <2>1 DEF Injection, IsInjective
<1>5. f \in Surjection(keys, 1..n)
  <2>1. IsFiniteSet(1..n) /\ Cardinality(1..n) = n
    <3> HIDE DEF n
    <3> QED BY <1>1, FS_Interval
  <2>2. Cardinality(keys) = Cardinality(1..n)
    BY <2>1
  <2> QED BY <1>4, <2>1, <2>2, FS_Injection
<1>6. ASSUME NEW k \in Keys, NEW v \in Values, Has(contents, ms, k, v)
      PROVE  k \in keys
  <2>1. PICK i \in 1..n : Item(contents, ms[i], k, v)
    BY <1>6 DEF Has
  <2>2. PICK j \in keys : f[j] = i
    BY <1>5 DEF Surjection
  <2>3. PICK w \in Values : Item(contents, ms[i], j, w)
    BY <1>3, <2>2
  <2>4. k = j
    BY <2>1, <2>3, ItemUnique
  <2> QED BY <2>4
<1> QED BY <1>6, WithoutSound

(* erase(): what is read afterwards.                                       *)
LEMMA EraseFine ==
    ASSUME NEW contents, NEW ms, Sound(contents, ms),
           NEW base, WritesOn(base, contents, ms),
           NEW keys \in SUBSET Keys, IsFiniteSet(keys),
           \A k \in keys : Read(contents, ms, k) # NoValue,
           NEW ns,
           ns = IF Cardinality(keys) = Len(ms) THEN <<>>
                ELSE Without(contents, ms, keys),
           NEW written, written = IF ns = <<>> THEN <<>> ELSE base,
           NEW others, others = CompactedContents(written, ns),
           NEW ls, ls = CompactedMarkers(ns)
    PROVE  /\ Fine(others, ls)
           /\ \A k \in Keys : Read(others, ls, k) =
                  IF k \in keys THEN NoValue ELSE Read(contents, ms, k)
<1>1. ns = Without(contents, ms, keys)
  BY ClearAll
<1>2. /\ Sound(contents, ns)
      /\ \A k \in Keys, v \in Values :
             Has(contents, ns, k, v)
                 <=> Has(contents, ms, k, v) /\ k \notin keys
      /\ ms = <<>> => ns = <<>>
  BY <1>1, WithoutSound
<1>3. /\ Sound(written, ns)
      /\ \A k \in Keys, v \in Values :
             Has(written, ns, k, v)
                 <=> Has(contents, ms, k, v) /\ k \notin keys
  <2>1. CASE ns # <<>>
    <3>1. written = contents
      BY <1>2, <2>1 DEF WritesOn
    <3> QED BY <1>2, <3>1
  <2>2. CASE ns = <<>>
    <3>1. written = <<>> /\ Len(<<>>) = 0 /\ 1..0 = {}
      BY <2>2
    <3>2. <<>> \in Seq(Cells) /\ <<>> \in Seq(Marker)
      BY EmptySeq
    <3>3. Sound(<<>>, <<>>)
      BY <3>1, <3>2 DEF Sound, Ordered, OneEach
    <3>4. \A k \in Keys, v \in Values :
              ~ Has(contents, ns, k, v) /\ ~ Has(written, ns, k, v)
      BY <2>2, <3>1 DEF Has
    <3> QED BY <1>2, <2>2, <3>1, <3>3, <3>4
  <2> QED BY <2>1, <2>2
<1>4. /\ Good(others, ls) /\ SameItems(written, ns, others, ls)
      /\ Bounded(others, ls)
  BY <1>3, CompactGood
<1>5. Sound(others, ls)
  BY <1>4 DEF Good
<1>6. \A k \in Keys, v \in Values :
          Has(others, ls, k, v) <=> Has(contents, ms, k, v) /\ k \notin keys
  BY <1>3, <1>4 DEF SameItems
<1>7. ASSUME NEW k \in Keys
      PROVE  Read(others, ls, k) =
                 IF k \in keys THEN NoValue ELSE Read(contents, ms, k)
  <2>1. CASE k \in keys
    <3>1. \A v \in Values : ~ Has(others, ls, k, v)
      BY <1>6, <2>1
    <3> QED BY <1>5, <2>1, <3>1, ReadSound
  <2>2. CASE k \notin keys
    <3>1. \A v \in Values : Has(others, ls, k, v) <=> Has(contents, ms, k, v)
      BY <1>6, <2>2
    <3>2. Read(others, ls, k) = Read(contents, ms, k)
      BY <1>5, <3>1, ReadSame
    <3> QED BY <2>2, <3>2
  <2> QED BY <2>1, <2>2
<1> QED BY <1>4, <1>7 DEF Fine

-----------------------------------------------------------------------------
(* The inductive invariant.                                                *)

(* Between calls the committed files and those of a transaction are fine.  *)
(* In the middle of commit() it is the copy of the markers that goes with  *)
(* the contents, wherever these are by then.                               *)
IInv ==
    /\ TypeOK
    /\ Idle => Fine(main, main_m)
    /\ ptransaction /\ Idle => Fine(tr, tr_m)
    /\ ~ Idle => ptransaction
    /\ committing = 1 => Fine(tr, tr_m)
    /\ committing \in {2, 3} => Fine(main, tr_m)

(* Fine files have the types of files.                                     *)
LEMMA FineType ==
    ASSUME NEW contents, NEW ms, Fine(contents, ms)
    PROVE  /\ contents \in Seq(Cells) /\ ms \in Seq(Marker)
           /\ Sound(contents, ms)
BY DEF Fine, Good, Sound

(* No files are fine.                                                      *)
LEMMA EmptyFine == Fine(<<>>, <<>>)
<1>1. /\ <<>> \in Seq(Cells) /\ <<>> \in Seq(Marker)
      /\ Len(<<>>) = 0 /\ 1..0 = {}
  BY EmptySeq
<1>2. Sound(<<>>, <<>>)
  BY <1>1 DEF Sound, Ordered, OneEach
<1>3. EndOf(<<>>) = 0
  BY DEF EndOf
<1> QED BY <1>1, <1>2, <1>3 DEF Fine, Good, Bounded

(* What save() and erase() start from: the files an object would open, and *)
(* a copy of their contents, or an older one that no marker speaks about.  *)
LEMMA StartFine ==
    ASSUME IInv, Idle
    PROVE  /\ Fine(Contents, Markers) /\ Sound(Contents, Markers)
           /\ WritesOn(Base, Contents, Markers)
<1>1. Fine(Contents, Markers)
  BY DEF IInv, TypeOK, Contents, Markers
<1>2. Sound(Contents, Markers) /\ EndOf(Markers) = Len(Contents)
  BY <1>1 DEF Fine, Good
<1>3. EndOf(Markers) \in Nat /\ (EndOf(Markers) = 0 => Markers = <<>>)
  BY <1>2, EndOfSound
<1>4. CASE Base = Contents
  <2>1. Contents \in Seq(Cells)
    BY <1>2 DEF Sound
  <2>2. EndOf(Markers) <= Len(Contents)
    BY <1>2, <1>3
  <2> QED BY <1>1, <1>2, <1>4, <2>1, <2>2 DEF WritesOn
<1>5. CASE Base # Contents
  <2>1. Contents = <<>> /\ Base = tr
    BY <1>5 DEF Base, Contents, IInv, TypeOK
  <2>2. EndOf(Markers) = 0 /\ Markers = <<>>
    BY <1>2, <1>3, <2>1
  <2>3. tr \in Seq(Cells) /\ Len(tr) \in Nat
    BY LenProperties DEF IInv, TypeOK
  <2>4. EndOf(Markers) <= Len(Base)
    BY <2>1, <2>2, <2>3
  <2> QED BY <1>1, <1>2, <2>1, <2>2, <2>3, <2>4 DEF WritesOn
<1> QED BY <1>4, <1>5

(* A save of the items.                                                    *)
LEMMA WriteStep ==
    ASSUME IInv, NEW keys \in KeySets, NEW items \in [keys -> Values],
           NEW order \in SetToSeqs(keys), Write(items, order)
    PROVE  /\ Fine(tr', tr_m')
           /\ \A k \in Keys : Read(tr', tr_m', k) =
                  IF k \in keys THEN items[k] ELSE Stored(k)
<1>1. Idle
  BY DEF Write
<1>2. Sound(Contents, Markers) /\ WritesOn(Base, Contents, Markers)
  BY <1>1, StartFine
<1>3. keys \in SUBSET Keys /\ IsFiniteSet(keys) /\ DOMAIN items = keys
  BY DEF KeySets
<1> DEFINE written == Overwrite(Base, EndOf(Markers), Bulk(items, order))
           ns == Without(Contents, Markers, keys)
                     \o AppendedMarkers(items, order, Markers)
<1>4. tr' = CompactedContents(written, ns) /\ tr_m' = CompactedMarkers(ns)
  BY <1>3 DEF Write, WrittenContents, WrittenMarkers
<1> HIDE DEF written, ns
<1>5. /\ written = Overwrite(Base, EndOf(Markers), Bulk(items, order))
      /\ ns = Without(Contents, Markers, keys)
                  \o AppendedMarkers(items, order, Markers)
  BY DEF written, ns
<1>6. /\ Fine(tr', tr_m')
      /\ ReadsSaved(tr', tr_m', keys, items, Contents, Markers)
  BY <1>2, <1>3, <1>4, <1>5, SaveFine
<1> QED BY <1>6 DEF Stored, ReadsSaved

(* An erase of the keys.                                                   *)
LEMMA EraseStep ==
    ASSUME IInv, NEW keys \in KeySets, Erase(keys)
    PROVE  /\ Fine(tr', tr_m')
           /\ \A k \in Keys : Read(tr', tr_m', k) =
                  IF k \in keys THEN NoValue ELSE Stored(k)
<1>1. Idle
  BY DEF Erase
<1>2. Sound(Contents, Markers) /\ WritesOn(Base, Contents, Markers)
  BY <1>1, StartFine
<1>3. /\ keys \in SUBSET Keys /\ IsFiniteSet(keys)
      /\ \A k \in keys : Read(Contents, Markers, k) # NoValue
  BY DEF KeySets, Erase, StoredKeys, Stored
<1> DEFINE ns == ErasedMarkers(keys)
           written == IF ns = <<>> THEN <<>> ELSE Base
<1>4. tr' = CompactedContents(written, ns) /\ tr_m' = CompactedMarkers(ns)
  BY DEF Erase
<1> HIDE DEF written, ns
<1>5. /\ ns = IF Cardinality(keys) = Len(Markers) THEN <<>>
              ELSE Without(Contents, Markers, keys)
      /\ written = IF ns = <<>> THEN <<>> ELSE Base
  BY DEF written, ns, ErasedMarkers
<1>6. /\ Fine(tr', tr_m')
      /\ \A k \in Keys : Read(tr', tr_m', k) =
             IF k \in keys THEN NoValue ELSE Read(Contents, Markers, k)
  BY <1>2, <1>3, <1>4, <1>5, EraseFine
<1> QED BY <1>6 DEF Stored

(* The initial files.                                                      *)
LEMMA InitIInv == Init => IInv
<1> SUFFICES ASSUME Init PROVE IInv
  OBVIOUS
<1>1. TypeOK
  <2>1. <<>> \in Seq(Cells) /\ <<>> \in Seq(Marker)
    BY EmptySeq
  <2>2. main \in Seq(Cells) /\ tr \in Seq(Cells)
    BY <2>1 DEF Init
  <2>3. main_m \in Seq(Marker) /\ tr_m \in Seq(Marker)
    BY <2>1 DEF Init
  <2>4. ptransaction \in BOOLEAN
    BY DEF Init
  <2>5. committing \in 0..3
    BY DEF Init
  <2> QED BY <2>2, <2>3, <2>4, <2>5 DEF TypeOK
<1> QED BY <1>1, EmptyFine DEF Init, IInv, Idle

(* Every step leaves fine files.                                           *)
LEMMA NextIInv == IInv /\ [Operation]_vars => IInv'
<1> SUFFICES ASSUME IInv, [Operation]_vars PROVE IInv'
  OBVIOUS
<1>1. ASSUME NEW keys \in KeySets, Erase(keys) PROVE IInv'
  <2>1. Fine(tr', tr_m')
    BY <1>1, EraseStep
  <2>2. tr' \in Seq(Cells) /\ tr_m' \in Seq(Marker)
    BY <2>1, FineType
  <2> QED BY <1>1, <2>1, <2>2 DEF Erase, IInv, TypeOK, Idle
<1>2. ASSUME NEW keys \in KeySets, NEW items \in [keys -> Values],
             NEW order \in SetToSeqs(keys), Write(items, order)
      PROVE  IInv'
  <2>1. Fine(tr', tr_m')
    BY <1>2, WriteStep
  <2>2. tr' \in Seq(Cells) /\ tr_m' \in Seq(Marker)
    BY <2>1, FineType
  <2> QED BY <1>2, <2>1, <2>2 DEF Write, IInv, TypeOK, Idle
<1>3. ASSUME NEW keys \in KeySets, NEW items \in [keys -> Values],
             NEW order \in SetToSeqs(keys), CrashInWrite(items, order)
      PROVE  IInv'
  <2>1. Idle /\ tr' = WrittenContents(items, order)
    BY <1>3 DEF CrashInWrite
  <2>2. Sound(Contents, Markers) /\ WritesOn(Base, Contents, Markers)
    BY <2>1, StartFine
  <2>3. keys \in SUBSET Keys /\ IsFiniteSet(keys)
    BY DEF KeySets
  <2>4. Sound(WrittenContents(items, order),
              Without(Contents, Markers, keys)
                  \o AppendedMarkers(items, order, Markers))
    BY <2>2, <2>3, WriteSound DEF WrittenContents
  <2>5. tr' \in Seq(Cells)
    BY <2>1, <2>4 DEF Sound
  <2>6. TypeOK'
    <3>1. ptransaction' \in BOOLEAN
      BY <1>3 DEF CrashInWrite, Die
    <3>2. committing' \in 0..3
      BY <1>3 DEF CrashInWrite, Die
    <3>3. /\ main' \in Seq(Cells) /\ main_m' \in Seq(Marker)
          /\ tr_m' \in Seq(Marker)
      BY <1>3 DEF CrashInWrite, Die, IInv, TypeOK
    <3> QED BY <2>5, <3>1, <3>2, <3>3 DEF TypeOK
  <2> QED BY <1>3, <2>6 DEF CrashInWrite, Die, IInv, Idle
<1>4. <<>> \in Seq(Cells) /\ <<>> \in Seq(Marker)
  BY EmptySeq
<1>5. CASE Rollback
  <2>1. main' \in Seq(Cells) /\ tr' \in Seq(Cells)
    BY <1>4, <1>5 DEF Rollback, IInv, TypeOK
  <2>2. main_m' \in Seq(Marker) /\ tr_m' \in Seq(Marker)
    BY <1>4, <1>5 DEF Rollback, IInv, TypeOK
  <2>3. TypeOK'
    BY <1>5, <2>1, <2>2 DEF Rollback, IInv, TypeOK
  <2> QED BY <1>5, <2>3 DEF Rollback, IInv, Idle
<1>6. CASE SaveFails
  <2>1. main' \in Seq(Cells) /\ tr' \in Seq(Cells)
    BY <1>4, <1>6 DEF SaveFails, IInv, TypeOK
  <2>2. main_m' \in Seq(Marker) /\ tr_m' \in Seq(Marker)
    BY <1>4, <1>6 DEF SaveFails, IInv, TypeOK
  <2>3. TypeOK'
    BY <1>6, <2>1, <2>2 DEF SaveFails, IInv, TypeOK
  <2> QED BY <1>6, <2>3 DEF SaveFails, IInv, Idle
<1>7. CASE RemoveContents
  BY <1>4, <1>7 DEF RemoveContents, IInv, TypeOK, Idle
<1>8. CASE RenameContents
  BY <1>4, <1>8 DEF RenameContents, IInv, TypeOK, Idle
<1>9. CASE RemoveMarkers
  <2>1. main' \in Seq(Cells) /\ tr' \in Seq(Cells)
    BY <1>4, <1>9 DEF RemoveMarkers, IInv, TypeOK
  <2>2. main_m' \in Seq(Marker) /\ tr_m' \in Seq(Marker)
    BY <1>4, <1>9 DEF RemoveMarkers, IInv, TypeOK
  <2>3. TypeOK'
    BY <1>9, <2>1, <2>2 DEF RemoveMarkers, IInv, TypeOK
  <2> QED BY <1>9, <2>3 DEF RemoveMarkers, IInv, Idle
<1>10. CASE RenameMarkers
  <2>1. main' \in Seq(Cells) /\ tr' \in Seq(Cells)
    BY <1>4, <1>10 DEF RenameMarkers, IInv, TypeOK
  <2>2. main_m' \in Seq(Marker) /\ tr_m' \in Seq(Marker)
    BY <1>4, <1>10 DEF RenameMarkers, IInv, TypeOK
  <2>3. TypeOK'
    <3>1. ptransaction' \in BOOLEAN
      BY <1>10 DEF RenameMarkers
    <3>2. committing' \in 0..3
      BY <1>10 DEF RenameMarkers
    <3> QED BY <2>1, <2>2, <3>1, <3>2 DEF TypeOK
  <2> QED BY <1>10, <2>3 DEF RenameMarkers, IInv, Idle
<1>11. CASE Crash
  BY <1>11 DEF Crash, Die, IInv, TypeOK, Idle
<1>12. CASE CopyFails
  <2>1. PICK n \in 1..(Len(main) - 1) : tr' = SubSeq(main, 1, n)
    BY <1>12 DEF CopyFails
  <2>2. main \in Seq(Cells)
    BY DEF IInv, TypeOK
  <2>3. tr' \in Seq(Cells)
    BY <2>1, <2>2
  <2> QED BY <1>12, <2>3 DEF CopyFails, IInv, TypeOK, Idle
<1>13. CASE UNCHANGED vars
  BY <1>13 DEF vars, IInv, TypeOK, Idle
<1> QED
  BY <1>1, <1>2, <1>3, <1>5, <1>6, <1>7, <1>8, <1>9, <1>10, <1>11, <1>12,
     <1>13
  DEF Operation, CommitStep, KeySets

(* The invariant holds throughout.                                         *)
LEMMA Invariance == Spec => []IInv
BY InitIInv, NextIInv, PTL DEF Spec

-----------------------------------------------------------------------------
(* The theorems.                                                           *)

(* save(), erase(), compact(), commit(), discard() and crashes outside     *)
(* commit() leave contents files of cells and marker files of markers.     *)
THEOREM TypeCorrect == Spec => []TypeOK
<1>1. IInv => TypeOK
  BY DEF IInv
<1> QED BY Invariance, <1>1, PTL

(* The constructor's checks pass on fine files.                            *)
LEMMA FineWellFormed ==
    ASSUME NEW contents, NEW ms, Fine(contents, ms)
    PROVE  WellFormed(contents, ms)
<1>1. Sound(contents, ms) /\ EndOf(ms) = Len(contents)
  BY DEF Fine, Good
<1>2. /\ DOMAIN ms = 1..Len(ms) /\ Len(ms) \in Nat
      /\ \A i \in 1..Len(ms) : ms[i] \in Marker
  BY <1>1, LenProperties, ElementOfSeq DEF Sound
<1>3. ASSUME NEW i \in 1..Len(ms)
      PROVE  /\ ms[i].start < ms[i].end
             /\ \E k \in Keys, v \in Values :
                    /\ ms[i].key = Hash[k]
                    /\ Row(contents, ms[i]) = Serialised(k, v)
  <2>1. Delimits(contents, ms[i])
    BY <1>1 DEF Sound
  <2>2. PICK k \in Keys, v \in Values : Item(contents, ms[i], k, v)
    BY <2>1 DEF Delimits
  <2>3. ms[i].start < ms[i].end
    BY <2>1 DEF Delimits
  <2>4. ms[i].key = Hash[k] /\ ms[i] \in Marker
    BY <1>2, <2>2 DEF Item
  <2>5. Row(contents, ms[i]) = Serialised(k, v)
    BY <2>2, <2>3, <2>4, RowItem
  <2> QED BY <2>3, <2>4, <2>5
<1>4. ASSUME NEW i \in 2..Len(ms) PROVE ms[i - 1].end <= ms[i].start
  <2>1. i - 1 \in 1..Len(ms) /\ i \in 1..Len(ms) /\ i - 1 < i
    BY <1>2
  <2> QED BY <1>1, <2>1 DEF Sound, Ordered
<1> QED BY <1>1, <1>2, <1>3, <1>4 DEF WellFormed

(* Every file save() and erase() wrote can be opened and read.             *)
THEOREM MarkersSafety == Spec => []MarkersDelimitItems
<1>1. IInv => MarkersDelimitItems
  BY FineWellFormed DEF IInv, MarkersDelimitItems
<1> QED BY Invariance, <1>1, PTL

(* Appending never leaves two markers of one key.                          *)
THEOREM OneMarkerSafety == Spec => []OneMarkerPerKey
<1>1. IInv => OneMarkerPerKey
  <2> SUFFICES ASSUME IInv, Idle, NEW k \in Keys
               PROVE  Cardinality(MarkersOf(Contents, Markers, k)) <= 1
    BY DEF OneMarkerPerKey
  <2> DEFINE found == MarkersOf(Contents, Markers, k)
  <2>1. Sound(Contents, Markers)
    BY StartFine
  <2>2. found = {i \in 1..Len(Markers) :
                    \E v \in Values : Item(Contents, Markers[i], k, v)}
    BY <2>1, MarkersOfSound
  <2>3. \A i, j \in found : i = j
    BY <2>1, <2>2 DEF Sound, OneEach
  <2> HIDE DEF found
  <2>4. CASE found = {}
    <3>1. Cardinality(found) = 0
      BY <2>4, FS_EmptySet
    <3> QED BY <3>1 DEF found
  <2>5. CASE found # {}
    <3>1. PICK i \in found : found = {i}
      BY <2>3, <2>5
    <3>2. Cardinality(found) = 1
      BY <3>1, FS_Singleton
    <3> QED BY <3>2 DEF found
  <2> QED BY <2>4, <2>5
<1> QED BY Invariance, <1>1, PTL

(* compact() keeps the file below twice the size of its items.             *)
THEOREM SpaceSafety == Spec => []SpaceBound
<1>1. IInv => SpaceBound
  <2> SUFFICES ASSUME IInv, Idle, Contents # <<>>
               PROVE  Len(Contents) < 2 * Live(Markers)
    BY DEF SpaceBound
  <2>1. Fine(Contents, Markers)
    BY StartFine
  <2> QED BY <2>1 DEF Fine, Bounded
<1> QED BY Invariance, <1>1, PTL

-----------------------------------------------------------------------------
(* The refinement.                                                         *)

Reads(contents, ms) == [k \in Keys |-> Read(contents, ms, k)]

(* What the file holds is what is read from the files an object would      *)
(* open; in the middle of commit() from those it is about to leave.        *)
VersionsAre ==
    /\ Idle => AbsSaved = Reads(Contents, Markers)
    /\ committing = 1 => AbsSaved = Reads(Contents, Markers)
    /\ committing \in {2, 3} => AbsSaved = Reads(main, tr_m)
    /\ Idle => AbsCommitted = Reads(main, main_m)
    /\ ~ Idle => AbsCommitted = AbsSaved

(* The two versions, whichever step of commit() the object is at.          *)
LEMMA Versions == TypeOK => VersionsAre
<1> SUFFICES ASSUME TypeOK PROVE VersionsAre
  OBVIOUS
<1>1. committing \in 0..3
  BY DEF TypeOK
<1>2. committing <= 1 <=> committing \in {0, 1}
  BY <1>1
<1>3. committing >= 2 <=> committing \in {2, 3}
  BY <1>1
<1>4. ASSUME committing \in {0, 1}
      PROVE  AbsSaved = Reads(Contents, Markers)
  BY <1>2, <1>3, <1>4 DEF AbsSaved, Reads, Stored
<1>5. ASSUME committing \in {2, 3} PROVE AbsSaved = Reads(main, tr_m)
  BY <1>2, <1>3, <1>5 DEF AbsSaved, Reads
<1>6. ASSUME Idle PROVE AbsCommitted = Reads(main, main_m)
  BY <1>6 DEF AbsCommitted, Reads
<1>7. ASSUME ~ Idle PROVE AbsCommitted = AbsSaved
  <2>1. AbsCommitted = [k \in Keys |-> AbsSaved[k]]
    BY <1>7 DEF AbsCommitted
  <2>2. AbsSaved = [k \in Keys |-> AbsSaved[k]]
    <3>1. PICK c, ms : AbsSaved = Reads(c, ms)
      <4>1. CASE committing \in {0, 1}
        BY <1>4, <4>1
      <4>2. CASE committing \in {2, 3}
        BY <1>5, <4>2
      <4> QED BY <1>1, <4>1, <4>2
    <3> QED BY <3>1 DEF Reads
  <2> QED BY <2>1, <2>2
<1> QED BY <1>4, <1>5, <1>6, <1>7 DEF Idle, VersionsAre

(* The versions after a step.                                              *)
LEMMA VersionsNext ==
    ASSUME TypeOK'
    PROVE  /\ Idle' => AbsSaved' = IF ptransaction' THEN Reads(tr', tr_m')
                                   ELSE Reads(main', main_m')
           /\ committing' = 1 /\ ptransaction'
                  => AbsSaved' = Reads(tr', tr_m')
           /\ committing' \in {2, 3} => AbsSaved' = Reads(main', tr_m')
           /\ Idle' => AbsCommitted' = Reads(main', main_m')
           /\ ~ Idle' => AbsCommitted' = AbsSaved'
<1>1. VersionsAre'
  BY Versions, PTL
<1>2. Reads(Contents, Markers)' = IF ptransaction' THEN Reads(tr', tr_m')
                                  ELSE Reads(main', main_m')
  BY DEF Reads, Contents, Markers
<1>3. /\ Reads(main, tr_m)' = Reads(main', tr_m')
      /\ Reads(main, main_m)' = Reads(main', main_m')
  BY DEF Reads
<1> QED BY <1>1, <1>2, <1>3 DEF VersionsAre

(* The files of a new object are those of no key.                          *)
LEMMA InitRefines == Init => File!Init
<1> SUFFICES ASSUME Init PROVE File!Init
  OBVIOUS
<1>1. IInv /\ Idle /\ ~ ptransaction
  BY InitIInv DEF Init, Idle
<1>2. VersionsAre
  BY <1>1, Versions DEF IInv
<1>3. AbsSaved = Reads(<<>>, <<>>) /\ AbsCommitted = Reads(<<>>, <<>>)
  BY <1>1, <1>2 DEF VersionsAre, Init, Contents, Markers
<1>4. ASSUME NEW k \in Keys PROVE Read(<<>>, <<>>, k) = NoValue
  BY DEF Read, MarkersOf
<1>5. Reads(<<>>, <<>>) = [k \in Keys |-> NoValue]
  BY <1>4 DEF Reads
<1> QED BY <1>3, <1>5 DEF File!Init

(* A save or an erase writes the saved version.                            *)
LEMMA WriteRefines ==
    ASSUME IInv, IInv', NEW keys \in KeySets, NEW items \in [keys -> Values],
           NEW order \in SetToSeqs(keys), Write(items, order)
    PROVE  File!Write(items)
<1>1. /\ Idle /\ Idle' /\ ptransaction'
      /\ main' = main /\ main_m' = main_m
  BY DEF Write, Idle
<1>2. AbsSaved' = Reads(tr', tr_m') /\ AbsCommitted' = Reads(main, main_m)
  BY <1>1, VersionsNext DEF IInv
<1>3. AbsSaved = Reads(Contents, Markers) /\ AbsCommitted = Reads(main, main_m)
  BY <1>1, Versions DEF IInv, VersionsAre
<1>4. \A k \in Keys : Read(tr', tr_m', k) =
          IF k \in keys THEN items[k] ELSE Stored(k)
  BY WriteStep
<1>5. \A k \in Keys : AbsSaved[k] = Stored(k)
  BY <1>3 DEF Reads, Stored
<1>6. AbsSaved' = [k \in Keys |-> IF k \in keys THEN items[k]
                                  ELSE AbsSaved[k]]
  BY <1>2, <1>4, <1>5 DEF Reads
<1>7. DOMAIN items = keys
  OBVIOUS
<1> QED BY <1>2, <1>3, <1>6, <1>7 DEF File!Write

(* So does an erase, which takes its keys out of it.                       *)
LEMMA EraseRefines ==
    ASSUME IInv, IInv', NEW keys \in KeySets, Erase(keys)
    PROVE  File!Erase(keys)
<1>1. /\ Idle /\ Idle' /\ ptransaction'
      /\ main' = main /\ main_m' = main_m
  BY DEF Erase, Idle
<1>2. AbsSaved' = Reads(tr', tr_m') /\ AbsCommitted' = Reads(main, main_m)
  BY <1>1, VersionsNext DEF IInv
<1>3. AbsSaved = Reads(Contents, Markers) /\ AbsCommitted = Reads(main, main_m)
  BY <1>1, Versions DEF IInv, VersionsAre
<1>4. \A k \in Keys : Read(tr', tr_m', k) =
          IF k \in keys THEN NoValue ELSE Stored(k)
  BY EraseStep
<1>5. \A k \in Keys : AbsSaved[k] = Stored(k)
  BY <1>3 DEF Reads, Stored
<1>6. AbsSaved' = [k \in Keys |-> IF k \in keys THEN NoValue
                                  ELSE AbsSaved[k]]
  BY <1>2, <1>4, <1>5 DEF Reads
<1> QED BY <1>2, <1>3, <1>6 DEF File!Erase

(* Dropping the transaction, by rollback(), a failing call or the death of *)
(* the process, leaves the committed version, whatever becomes of the ".tr"*)
(* files.                                                                  *)
LEMMA DropRefines ==
    ASSUME IInv, IInv', Idle, Idle', ~ ptransaction',
           main' = main, main_m' = main_m
    PROVE  File!Rollback
<1>1. AbsSaved' = Reads(main, main_m) /\ AbsCommitted' = Reads(main, main_m)
  BY VersionsNext DEF IInv
<1>2. AbsCommitted = Reads(main, main_m)
  BY Versions DEF IInv, VersionsAre
<1> QED BY <1>1, <1>2 DEF File!Rollback

(* The first file system call of commit() commits.                         *)
LEMMA RemoveContentsRefines ==
    ASSUME IInv, IInv', RemoveContents
    PROVE  File!Commit
<1>1. /\ Idle /\ ~ Idle' /\ committing' = 1 /\ ptransaction
      /\ ptransaction' /\ tr' = tr /\ tr_m' = tr_m
  BY DEF RemoveContents, Idle
<1>2. AbsSaved' = Reads(tr, tr_m) /\ AbsCommitted' = AbsSaved'
  BY <1>1, VersionsNext DEF IInv
<1>3. AbsSaved = Reads(tr, tr_m)
  BY <1>1, Versions DEF IInv, VersionsAre, Contents, Markers
<1> QED BY <1>2, <1>3 DEF File!Commit

(* The other three leave what it committed in place.                       *)
LEMMA LaterCallsStutter ==
    ASSUME IInv, IInv', RenameContents \/ RemoveMarkers \/ RenameMarkers
    PROVE  UNCHANGED File!vars
<1>1. CASE RenameContents
  <2>1. /\ committing = 1 /\ ptransaction /\ ~ Idle
        /\ committing' = 2 /\ ~ Idle' /\ main' = tr /\ tr_m' = tr_m
    BY <1>1 DEF RenameContents, IInv, Idle
  <2>2. AbsSaved' = Reads(tr, tr_m) /\ AbsCommitted' = AbsSaved'
    BY <2>1, VersionsNext DEF IInv
  <2>3. AbsSaved = Reads(tr, tr_m) /\ AbsCommitted = AbsSaved
    BY <2>1, Versions DEF IInv, VersionsAre, Contents, Markers
  <2> QED BY <2>2, <2>3 DEF File!vars
<1>2. CASE RemoveMarkers
  <2>1. /\ committing = 2 /\ ~ Idle
        /\ committing' = 3 /\ ~ Idle' /\ main' = main /\ tr_m' = tr_m
    BY <1>2 DEF RemoveMarkers, Idle
  <2>2. AbsSaved' = Reads(main, tr_m) /\ AbsCommitted' = AbsSaved'
    BY <2>1, VersionsNext DEF IInv
  <2>3. AbsSaved = Reads(main, tr_m) /\ AbsCommitted = AbsSaved
    BY <2>1, Versions DEF IInv, VersionsAre
  <2> QED BY <2>2, <2>3 DEF File!vars
<1>3. CASE RenameMarkers
  <2>1. /\ committing = 3 /\ ~ Idle
        /\ Idle' /\ ~ ptransaction' /\ main' = main /\ main_m' = tr_m
    BY <1>3 DEF RenameMarkers, Idle
  <2>2. AbsSaved' = Reads(main, tr_m) /\ AbsCommitted' = Reads(main, tr_m)
    BY <2>1, VersionsNext DEF IInv
  <2>3. AbsSaved = Reads(main, tr_m) /\ AbsCommitted = AbsSaved
    BY <2>1, Versions DEF IInv, VersionsAre
  <2> QED BY <2>2, <2>3 DEF File!vars
<1> QED BY <1>1, <1>2, <1>3

(* Every step of the file is a step of TxFile, or none.                    *)
LEMMA StepRefines ==
    IInv /\ IInv' /\ [Operation]_vars => [File!Next]_File!vars
<1> SUFFICES ASSUME IInv, IInv', [Operation]_vars
             PROVE  File!Next \/ UNCHANGED File!vars
  OBVIOUS
<1>1. ASSUME NEW keys \in KeySets, Erase(keys) PROVE File!Next
  <2>1. keys \in SUBSET Keys /\ File!Erase(keys)
    BY <1>1, EraseRefines DEF KeySets
  <2> QED BY <2>1 DEF File!Next
<1>2. ASSUME NEW keys \in KeySets, NEW items \in [keys -> Values],
             NEW order \in SetToSeqs(keys), Write(items, order)
      PROVE  File!Next
  <2>1. keys \in SUBSET Keys /\ File!Write(items)
    BY <1>2, WriteRefines DEF KeySets
  <2> QED BY <2>1 DEF File!Next
<1>3. ASSUME \/ Rollback \/ SaveFails \/ CopyFails \/ Crash
             \/ \E keys \in KeySets : \E items \in [keys -> Values],
                                         order \in SetToSeqs(keys) :
                    CrashInWrite(items, order)
      PROVE  File!Next
  <2>1. /\ Idle /\ Idle' /\ ~ ptransaction'
        /\ main' = main /\ main_m' = main_m
    BY <1>3 DEF Rollback, SaveFails, CopyFails, Crash, CrashInWrite, Die, Idle
  <2>2. File!Rollback
    BY <2>1, DropRefines
  <2> QED BY <2>2 DEF File!Next
<1>4. ASSUME RemoveContents PROVE File!Next
  <2>1. File!Commit
    BY <1>4, RemoveContentsRefines
  <2> QED BY <2>1 DEF File!Next
<1>5. ASSUME RenameContents \/ RemoveMarkers \/ RenameMarkers
      PROVE  UNCHANGED File!vars
  BY <1>5, LaterCallsStutter
<1>6. ASSUME UNCHANGED vars PROVE UNCHANGED File!vars
  BY <1>6 DEF vars, File!vars, AbsSaved, AbsCommitted, Stored, Contents,
              Markers, Idle
<1> QED BY <1>1, <1>2, <1>3, <1>4, <1>5, <1>6
        DEF Operation, CommitStep, KeySets

(* Whatever the order of saves, erases, compactions, failures and crashes  *)
(* outside commit(), the file reads back what was written last, and        *)
(* commit() and rollback() move whole versions.                            *)
THEOREM Implementation == Spec => ImplementsTxFile
<1>1. Init => File!Init
  BY InitRefines
<1>2. IInv /\ IInv' /\ [Operation]_vars => [File!Next]_File!vars
  BY StepRefines
<1> QED BY <1>1, <1>2, Invariance, PTL DEF Spec, ImplementsTxFile, File!Spec
=============================================================================
