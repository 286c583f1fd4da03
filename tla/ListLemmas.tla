----------------------------- MODULE ListLemmas -----------------------------
(***************************************************************************)
(* Facts about the lists of sessions of the facilities: doubly linked      *)
(* lists (add_list_node and remove_list_node of connector_def.h), in which *)
(* a session is once.  The models have them as sequences; what a sequence  *)
(* operator does to the elements is stated here once.                      *)
(***************************************************************************)
EXTENDS Integers, SequencesExt, FiniteSetsExt, TLAPS, FiniteSetTheorems,
        SequenceTheorems

\* A list that holds each of its elements once, and what it holds.
Once(seq) == \A i, j \in 1 .. Len(seq) : seq[i] = seq[j] => i = j
Elements(seq) == {seq[i] : i \in 1 .. Len(seq)}

\* RemoveAt of the community modules, element by element.
LEMMA RemoveAtIs ==
    ASSUME NEW S, NEW seq \in Seq(S), NEW i \in 1 .. Len(seq)
    PROVE  /\ RemoveAt(seq, i) \in Seq(S)
           /\ Len(RemoveAt(seq, i)) = Len(seq) - 1
           /\ \A j \in 1 .. Len(seq) - 1 :
                RemoveAt(seq, i)[j] = IF j < i THEN seq[j] ELSE seq[j + 1]
<1> DEFINE front == SubSeq(seq, 1, i - 1)
           back  == SubSeq(seq, i + 1, Len(seq))
<1>1. Len(seq) \in Nat /\ \A j \in 1 .. Len(seq) : seq[j] \in S
  BY LenProperties, ElementOfSeq
<1>2. /\ front \in Seq(S) /\ Len(front) = i - 1
      /\ \A j \in 1 .. i - 1 : front[j] = seq[j]
  <2>1. \A j \in 1 .. i - 1 : seq[j] \in S
    BY <1>1
  <2>2. /\ front \in Seq(S)
        /\ Len(front) = IF 1 <= i - 1 THEN (i - 1) - 1 + 1 ELSE 0
        /\ \A j \in 1 .. (i - 1) - 1 + 1 : front[j] = seq[1 + j - 1]
    BY <1>1, <2>1, SubSeqProperties
  <2> QED
    BY <1>1, <2>2
<1>3. /\ back \in Seq(S) /\ Len(back) = Len(seq) - i
      /\ \A j \in 1 .. Len(seq) - i : back[j] = seq[i + j]
  <2>1. \A j \in i + 1 .. Len(seq) : seq[j] \in S
    BY <1>1
  <2>2. /\ back \in Seq(S)
        /\ Len(back) = IF i + 1 <= Len(seq) THEN Len(seq) - (i + 1) + 1 ELSE 0
        /\ \A j \in 1 .. Len(seq) - (i + 1) + 1 : back[j] = seq[(i + 1) + j - 1]
    BY <1>1, <2>1, SubSeqProperties
  <2> QED
    BY <1>1, <2>2
<1> HIDE DEF front, back
<1>4. /\ front \o back \in Seq(S)
      /\ Len(front \o back) = Len(front) + Len(back)
      /\ \A j \in 1 .. Len(front) + Len(back) :
            (front \o back)[j] = IF j <= Len(front) THEN front[j]
                                 ELSE back[j - Len(front)]
  BY <1>2, <1>3, ConcatProperties
<1>5. RemoveAt(seq, i) = front \o back
  BY DEF RemoveAt, front, back
<1>6. ASSUME NEW j \in 1 .. Len(seq) - 1
      PROVE  (front \o back)[j] = IF j < i THEN seq[j] ELSE seq[j + 1]
  <2>1. j \in 1 .. Len(front) + Len(back)
    BY <1>1, <1>2, <1>3
  <2>2. CASE j < i
    BY <1>1, <1>2, <1>4, <2>1, <2>2
  <2>3. CASE ~(j < i)
    <3>1. j - Len(front) \in 1 .. Len(seq) - i /\ i + (j - Len(front)) = j + 1
      BY <1>1, <1>2, <2>3
    <3> QED
      BY <1>1, <1>2, <1>3, <1>4, <2>1, <2>3, <3>1
  <2> QED
    BY <2>2, <2>3
<1>7. Len(front) + Len(back) = Len(seq) - 1
  BY <1>1, <1>2, <1>3
<1> QED
  BY <1>4, <1>5, <1>6, <1>7

\* What leaves the list, and what stays.
LEMMA RemovedOnce ==
    ASSUME NEW S, NEW seq \in Seq(S), Once(seq), NEW i \in 1 .. Len(seq)
    PROVE  /\ Once(RemoveAt(seq, i))
           /\ Elements(RemoveAt(seq, i)) = Elements(seq) \ {seq[i]}
<1> DEFINE rest == RemoveAt(seq, i)
<1>1. /\ Len(seq) \in Nat /\ rest \in Seq(S) /\ Len(rest) = Len(seq) - 1
      /\ \A j \in 1 .. Len(seq) - 1 :
            rest[j] = IF j < i THEN seq[j] ELSE seq[j + 1]
  BY LenProperties, RemoveAtIs
<1> HIDE DEF rest
<1>2. Once(rest)
  BY <1>1 DEF Once
<1>3. ASSUME NEW j \in 1 .. Len(rest)
      PROVE  rest[j] \in Elements(seq) \ {seq[i]}
  BY <1>1 DEF Once, Elements
<1>4. ASSUME NEW j \in 1 .. Len(seq), j # i
      PROVE  seq[j] \in Elements(rest)
  <2>1. CASE j < i
    <3>1. j \in 1 .. Len(rest) /\ rest[j] = seq[j]
      BY <1>1, <2>1
    <3> QED
      BY <3>1 DEF Elements
  <2>2. CASE j > i
    <3>1. j - 1 \in 1 .. Len(rest) /\ rest[j - 1] = seq[j]
      BY <1>1, <2>2
    <3> QED
      BY <3>1 DEF Elements
  <2> QED
    BY <1>1, <1>4, <2>1, <2>2
<1> QED
  BY <1>2, <1>3, <1>4 DEF Elements, rest

\* A new head keeps every element of the list unique.
LEMMA AddedOnce ==
    ASSUME NEW S, NEW seq \in Seq(S), Once(seq), NEW x \in S, x \notin Elements(seq)
    PROVE  /\ <<x>> \o seq \in Seq(S)
           /\ Once(<<x>> \o seq)
           /\ Elements(<<x>> \o seq) = Elements(seq) \cup {x}
<1> DEFINE new == <<x>> \o seq
<1>1. <<x>> \in Seq(S) /\ Len(<<x>>) = 1 /\ <<x>>[1] = x /\ Len(seq) \in Nat
  BY LenProperties
<1>2. /\ new \in Seq(S) /\ Len(new) = 1 + Len(seq)
      /\ \A i \in 1 .. 1 + Len(seq) :
            new[i] = IF i <= 1 THEN <<x>>[i] ELSE seq[i - 1]
  BY <1>1, ConcatProperties
<1> HIDE DEF new
<1>3. new[1] = x /\ \A i \in 2 .. 1 + Len(seq) : new[i] = seq[i - 1]
  BY <1>1, <1>2
<1>4. ASSUME NEW i \in 1 .. Len(new)
      PROVE  \/ i = 1 /\ new[i] = x
             \/ i - 1 \in 1 .. Len(seq) /\ new[i] = seq[i - 1] /\ new[i] # x
  BY <1>1, <1>2, <1>3 DEF Elements
<1>5. Once(new) /\ \A i \in 1 .. Len(new) : new[i] \in Elements(seq) \cup {x}
  <2>1. ASSUME NEW i \in 1 .. Len(new), NEW j \in 1 .. Len(new), new[i] = new[j]
        PROVE  i = j
    <3>1. CASE i = 1 \/ j = 1
      BY <1>4, <2>1, <3>1
    <3>2. CASE i - 1 \in 1 .. Len(seq) /\ j - 1 \in 1 .. Len(seq)
      <4>1. seq[i - 1] = seq[j - 1]
        BY <1>1, <1>2, <1>3, <2>1, <3>2
      <4>2. i - 1 = j - 1
        BY <3>2, <4>1 DEF Once
      <4> QED
        BY <1>1, <1>2, <4>2
    <3> QED
      BY <1>4, <3>1, <3>2
  <2>2. ASSUME NEW i \in 1 .. Len(new)
        PROVE  new[i] \in Elements(seq) \cup {x}
    BY <1>4 DEF Elements
  <2> QED
    BY <2>1, <2>2 DEF Once
<1>6. ASSUME NEW i \in 1 .. Len(seq)
      PROVE  seq[i] \in Elements(new)
  <2>1. i + 1 \in 1 .. Len(new) /\ new[i + 1] = seq[i]
    BY <1>1, <1>2, <1>3
  <2> QED
    BY <2>1 DEF Elements
<1>7. x \in Elements(new)
  BY <1>1, <1>2, <1>3 DEF Elements
<1> QED
  BY ZenonT(60), <1>2, <1>5, <1>6, <1>7 DEF Elements, new

\* A list that holds each element once is as long as there are elements.
LEMMA LengthCounts ==
    ASSUME NEW S, NEW seq \in Seq(S), Once(seq)
    PROVE  Cardinality(Elements(seq)) = Len(seq)
<1>1. Len(seq) \in Nat /\ seq \in [1 .. Len(seq) -> Elements(seq)]
  BY LenProperties DEF Elements
<1>2. seq \in Bijection(1 .. Len(seq), Elements(seq))
  BY <1>1 DEF Bijection, Injection, Surjection, IsInjective, Once, Elements
<1> QED
  BY <1>1, <1>2, FS_CountingElements DEF ExistsBijection

\* The smallest of a set of numbers is one of them.
LEMMA MinOf ==
    ASSUME NEW S \in SUBSET Nat, IsFiniteSet(S), S # {}
    PROVE  Min(S) \in S /\ \A y \in S : Min(S) <= y
<1> DEFINE below(x) == {y \in S : y < x}
           T == {below(x) : x \in S}
<1>1. T \subseteq FiniteSubsetsOf(S) /\ T # {}
  <2>1. FiniteSubsetsOf(S) = SUBSET S
    BY FS_FiniteSubsetsOfFinite
  <2>2. T \subseteq SUBSET S /\ T # {}
    OBVIOUS
  <2> QED
    BY <2>1, <2>2
<1>2. PICK t \in T : \A z \in T : ~ (<<z, t>> \in StrictSubsetOrdering(S))
  BY <1>1, FS_StrictSubsetOrderingWellFounded, WFMin
<1>3. PICK x \in S : t = below(x)
  OBVIOUS
<1>4. ASSUME NEW y \in S, y < x
      PROVE  FALSE
  <2>1. below(y) \in T
    OBVIOUS
  <2>2. below(y) \subseteq below(x) /\ y \in below(x) /\ y \notin below(y)
    <3>1. \A z \in S : z < y => z < x
      BY <1>4
    <3>2. ~(y < y)
      BY y \in Nat
    <3> QED
      BY <1>4, <3>1, <3>2
  <2>3. <<below(y), t>> \in StrictSubsetOrdering(S)
    BY <1>3, <2>2 DEF StrictSubsetOrdering
  <2> QED
    BY <1>2, <2>1, <2>3
<1>5. x \in S /\ \A y \in S : x <= y
  BY <1>4
<1> QED
  BY <1>5 DEF Min

\* What is left of a list without its first n elements.
LEMMA CutOnce ==
    ASSUME NEW S, NEW seq \in Seq(S), Once(seq), NEW n \in 0 .. Len(seq)
    PROVE  /\ SubSeq(seq, n + 1, Len(seq)) \in Seq(S)
           /\ Once(SubSeq(seq, n + 1, Len(seq)))
           /\ Elements(SubSeq(seq, n + 1, Len(seq)))
                = Elements(seq) \ {seq[i] : i \in 1 .. n}
<1> DEFINE rest == SubSeq(seq, n + 1, Len(seq))
<1>1. Len(seq) \in Nat /\ \A i \in n + 1 .. Len(seq) : seq[i] \in S
  BY LenProperties, ElementOfSeq
<1>2. /\ rest \in Seq(S)
      /\ Len(rest) = IF n + 1 <= Len(seq) THEN Len(seq) - (n + 1) + 1 ELSE 0
      /\ \A j \in 1 .. Len(seq) - (n + 1) + 1 : rest[j] = seq[(n + 1) + j - 1]
  BY <1>1, SubSeqProperties
<1>3. /\ Len(rest) = Len(seq) - n
      /\ \A j \in 1 .. Len(seq) - n : rest[j] = seq[n + j]
  BY <1>1, <1>2
<1> HIDE DEF rest
<1>4. Once(rest)
  <2> SUFFICES ASSUME NEW i \in 1 .. Len(rest), NEW j \in 1 .. Len(rest), rest[i] = rest[j]
               PROVE  i = j
    BY DEF Once
  <2>1. n + i \in 1 .. Len(seq) /\ n + j \in 1 .. Len(seq) /\ seq[n + i] = seq[n + j]
    BY <1>1, <1>3
  <2>2. n + i = n + j
    BY <2>1 DEF Once
  <2> QED
    BY <1>1, <1>3, <2>2
<1>5. ASSUME NEW j \in 1 .. Len(rest)
      PROVE  rest[j] \in Elements(seq) \ {seq[i] : i \in 1 .. n}
  <2>1. n + j \in 1 .. Len(seq) /\ rest[j] = seq[n + j] /\ \A i \in 1 .. n : i # n + j
    BY <1>1, <1>3
  <2> QED
    BY <1>1, <2>1 DEF Once, Elements
<1>6. ASSUME NEW i \in 1 .. Len(seq), i \notin 1 .. n
      PROVE  seq[i] \in Elements(rest)
  <2>1. i - n \in 1 .. Len(rest) /\ n + (i - n) = i
    BY <1>1, <1>3, <1>6
  <2>2. rest[i - n] = seq[i]
    BY <1>3, <2>1
  <2> QED
    BY <2>1, <2>2 DEF Elements
<1> QED
  BY <1>2, <1>4, <1>5, <1>6 DEF Elements, rest

\* The community modules say the same of a list in words of their own.
LEMMA ListWords ==
    ASSUME NEW S, NEW seq \in Seq(S)
    PROVE  Range(seq) = Elements(seq) /\ (IsInjective(seq) <=> Once(seq))
<1>1. DOMAIN seq = 1 .. Len(seq)
  BY LenProperties
<1> QED
  BY <1>1 DEF Range, IsInjective, Elements, Once
-----------------------------------------------------------------------------
\* How many elements of a stream are in a set, and that none of one set comes
\* before one of another.
HowMany(seq, S) == Cardinality({i \in 1 .. Len(seq) : seq[i] \in S})
NoneBefore(seq, A, B) ==
    \A i, j \in 1 .. Len(seq) : i < j /\ seq[j] \in B => seq[i] \notin A

\* A number, which is 0 exactly when there is none.
LEMMA HowManyTyped ==
    ASSUME NEW V, NEW seq \in Seq(V), NEW S
    PROVE  /\ IsFiniteSet({i \in 1 .. Len(seq) : seq[i] \in S})
           /\ HowMany(seq, S) \in Nat
           /\ HowMany(seq, S) = 0 <=> \A i \in 1 .. Len(seq) : seq[i] \notin S
<1> DEFINE W == {i \in 1 .. Len(seq) : seq[i] \in S}
<1>1. Len(seq) \in Nat /\ IsFiniteSet(1 .. Len(seq)) /\ W \in SUBSET (1 .. Len(seq))
  BY LenProperties, FS_Interval
<1>2. IsFiniteSet(W)
  BY <1>1, FS_Subset
<1>3. Cardinality(W) \in Nat /\ (Cardinality(W) = 0 <=> W = {})
  BY <1>2, FS_CardinalityType, FS_EmptySet
<1>4. W = {} <=> \A i \in 1 .. Len(seq) : seq[i] \notin S
  OBVIOUS
<1> QED
  BY <1>2, <1>3, <1>4 DEF HowMany

\* None of a set is none of its subsets.
LEMMA NoneOfSubset ==
    ASSUME NEW V, NEW seq \in Seq(V), NEW S, NEW T, T \subseteq S, HowMany(seq, S) = 0
    PROVE  HowMany(seq, T) = 0
BY HowManyTyped

\* There is nothing in an empty stream.
LEMMA EmptyStream ==
    ASSUME NEW S, NEW T
    PROVE  HowMany(<< >>, S) = 0 /\ NoneBefore(<< >>, S, T)
<1>1. << >> \in Seq(S) /\ Len(<< >>) = 0
  OBVIOUS
<1>2. \A i \in 1 .. Len(<< >>) : FALSE
  BY <1>1
<1>3. HowMany(<< >>, S) = 0
  BY <1>1, <1>2, HowManyTyped
<1>4. NoneBefore(<< >>, S, T)
  BY <1>2 DEF NoneBefore
<1> QED
  BY <1>3, <1>4

\* One more at the end.
LEMMA AtTheEnd ==
    ASSUME NEW V, NEW seq \in Seq(V), NEW x \in V
    PROVE  /\ \A S : HowMany(Append(seq, x), S)
                        = HowMany(seq, S) + (IF x \in S THEN 1 ELSE 0)
           /\ \A S, T : NoneBefore(seq, S, T) /\ (x \in T => HowMany(seq, S) = 0)
                            => NoneBefore(Append(seq, x), S, T)
<1> DEFINE new == Append(seq, x)
           n   == Len(seq)
<1>1. /\ n \in Nat /\ new \in Seq(V) /\ Len(new) = n + 1 /\ new[n + 1] = x
      /\ \A i \in 1 .. n : new[i] = seq[i]
  BY AppendProperties, LenProperties
<1> HIDE DEF new, n
<1>2. /\ \A i \in 1 .. n + 1 : i = n + 1 \/ i \in 1 .. n
      /\ n + 1 \in 1 .. n + 1 /\ n + 1 \notin 1 .. n /\ \A i \in 1 .. n : i \in 1 .. n + 1
  BY <1>1
<1>3. ASSUME NEW S
      PROVE  HowMany(new, S) = HowMany(seq, S) + (IF x \in S THEN 1 ELSE 0)
  <2> DEFINE W  == {i \in 1 .. n : seq[i] \in S}
             W1 == {i \in 1 .. n + 1 : new[i] \in S}
  <2>1. IsFiniteSet(W) /\ Cardinality(W) = HowMany(seq, S) /\ Cardinality(W) \in Nat
    BY HowManyTyped DEF HowMany, n
  <2>2. Cardinality(W1) = HowMany(new, S)
    BY <1>1 DEF HowMany
  <2>3. CASE x \in S
    <3>1. W1 = W \cup {n + 1} /\ n + 1 \notin W
      BY <1>1, <1>2, <2>3
    <3>2. Cardinality(W \cup {n + 1}) = Cardinality(W) + 1
      BY <2>1, <3>1, FS_AddElement
    <3> QED
      BY <2>1, <2>2, <2>3, <3>1, <3>2
  <2>4. CASE x \notin S
    <3>1. W1 = W
      BY <1>1, <1>2, <2>4
    <3>2. HowMany(new, S) = HowMany(seq, S) /\ HowMany(seq, S) \in Nat
      BY <2>1, <2>2, <3>1
    <3> QED
      BY <2>4, <3>2
  <2> QED
    BY <2>3, <2>4
<1>4. ASSUME NEW S, NEW T, NoneBefore(seq, S, T), x \in T => HowMany(seq, S) = 0,
             NEW i \in 1 .. n + 1, NEW j \in 1 .. n + 1, i < j, new[j] \in T
      PROVE  new[i] \notin S
  <2>1. i \in 1 .. n /\ new[i] = seq[i]
    BY <1>1, <1>2, <1>4
  <2>2. CASE j = n + 1
    <3>1. HowMany(seq, S) = 0
      BY <1>1, <1>4, <2>2
    <3>2. \A k \in 1 .. Len(seq) : seq[k] \notin S
      BY <3>1, HowManyTyped
    <3> QED
      BY <2>1, <3>2 DEF n
  <2>3. CASE j \in 1 .. n
    <3>1. new[j] = seq[j]
      BY <1>1, <2>3
    <3> QED
      BY <1>4, <2>1, <2>3, <3>1 DEF NoneBefore, n
  <2> QED
    BY <1>2, <2>2, <2>3
<1>5. ASSUME NEW S, NEW T, NoneBefore(seq, S, T), x \in T => HowMany(seq, S) = 0
      PROVE  NoneBefore(new, S, T)
  BY <1>1, <1>4, <1>5 DEF NoneBefore
<1> QED
  BY <1>3, <1>5 DEF new

\* One more at the head.
LEMMA AtTheHead ==
    ASSUME NEW V, NEW seq \in Seq(V), NEW x \in V
    PROVE  /\ <<x>> \o seq \in Seq(V)
           /\ \A S : HowMany(<<x>> \o seq, S)
                        = HowMany(seq, S) + (IF x \in S THEN 1 ELSE 0)
           /\ \A S, T : NoneBefore(<<x>> \o seq, S, T)
                            => /\ NoneBefore(seq, S, T)
                               /\ x \in S => HowMany(seq, T) = 0
<1> DEFINE new == <<x>> \o seq
           n   == Len(seq)
<1>1. /\ n \in Nat /\ <<x>> \in Seq(V) /\ Len(<<x>>) = 1 /\ <<x>>[1] = x
  BY LenProperties
<1>2. /\ new \in Seq(V) /\ Len(new) = 1 + n
      /\ \A i \in 1 .. 1 + n : new[i] = IF i <= 1 THEN <<x>>[i] ELSE seq[i - 1]
  BY <1>1, ConcatProperties
<1> HIDE DEF new, n
<1>3. /\ 1 \in 1 .. 1 + n /\ new[1] = x
      /\ \A i \in 1 .. n : i + 1 \in 1 .. 1 + n /\ i + 1 # 1 /\ new[i + 1] = seq[i]
      /\ \A i \in 1 .. 1 + n : i = 1 \/ (i - 1 \in 1 .. n /\ i = (i - 1) + 1)
  <2>1. 1 \in 1 .. 1 + n /\ new[1] = x
    BY <1>1, <1>2
  <2>2. ASSUME NEW i \in 1 .. n
        PROVE  i + 1 \in 1 .. 1 + n /\ i + 1 # 1 /\ new[i + 1] = seq[i]
    <3>1. i + 1 \in 1 .. 1 + n /\ ~(i + 1 <= 1) /\ (i + 1) - 1 = i
      BY <1>1
    <3> QED
      BY <1>2, <3>1
  <2>3. \A i \in 1 .. 1 + n : i = 1 \/ (i - 1 \in 1 .. n /\ i = (i - 1) + 1)
    BY <1>1
  <2> QED
    BY <2>1, <2>2, <2>3
<1>4. ASSUME NEW S
      PROVE  HowMany(new, S) = HowMany(seq, S) + (IF x \in S THEN 1 ELSE 0)
  <2> DEFINE W  == {i \in 1 .. n : seq[i] \in S}
             W1 == {i \in 1 .. 1 + n : new[i] \in S}
             W2 == W1 \ {1}
             f  == [i \in W |-> i + 1]
  <2>1. IsFiniteSet(W) /\ Cardinality(W) = HowMany(seq, S) /\ Cardinality(W) \in Nat
    BY HowManyTyped DEF HowMany, n
  <2>2. Cardinality(W1) = HowMany(new, S)
    BY <1>2 DEF HowMany
  <2>3. /\ \A i \in W : i \in Nat /\ i + 1 \in W2
        /\ \A j \in W2 : j - 1 \in W /\ j = (j - 1) + 1
    <3>1. ASSUME NEW i \in W
          PROVE  i \in Nat /\ i + 1 \in W2
      BY <1>1, <1>3
    <3>2. ASSUME NEW j \in W2
          PROVE  j - 1 \in W /\ j = (j - 1) + 1
      <4>1. j \in 1 .. 1 + n /\ j # 1 /\ new[j] \in S
        OBVIOUS
      <4>2. j - 1 \in 1 .. n /\ j = (j - 1) + 1
        BY <1>3, <4>1
      <4>3. new[(j - 1) + 1] = seq[j - 1]
        BY <1>3, <4>2
      <4> QED
        BY <4>1, <4>2, <4>3
    <3> QED
      BY <3>1, <3>2
  <2> HIDE DEF W, W2
  <2>4. f \in Bijection(W, W2)
    <3>1. f \in [W -> W2]
      BY <2>3
    <3>2. \A i, j \in W : f[i] = f[j] => i = j
      BY <2>3
    <3>3. \A j \in W2 : \E i \in W : f[i] = j
      <4>1. ASSUME NEW j \in W2
            PROVE  \E i \in W : f[i] = j
        <5>1. j - 1 \in W /\ f[j - 1] = j
          BY <2>3
        <5> QED
          BY <5>1
      <4> QED
        BY <4>1
    <3> QED
      BY <3>1, <3>2, <3>3 DEF Bijection, Injection, Surjection, IsInjective
  <2>5. IsFiniteSet(W2) /\ Cardinality(W2) = Cardinality(W)
    BY <2>1, <2>4, FS_Bijection DEF ExistsBijection
  <2>6. CASE x \in S
    <3>1. W1 = W2 \cup {1} /\ 1 \notin W2
      BY <1>3, <2>6 DEF W2
    <3>2. Cardinality(W2 \cup {1}) = Cardinality(W2) + 1
      BY <2>5, <3>1, FS_AddElement
    <3> QED
      BY <2>1, <2>2, <2>5, <2>6, <3>1, <3>2
  <2>7. CASE x \notin S
    <3>1. W1 = W2
      BY <1>3, <2>7 DEF W2
    <3>2. HowMany(new, S) = HowMany(seq, S) /\ HowMany(seq, S) \in Nat
      BY <2>1, <2>2, <2>5, <3>1
    <3> QED
      BY <2>7, <3>2
  <2> QED
    BY <2>6, <2>7
<1>5. ASSUME NEW S, NEW T, NoneBefore(new, S, T)
      PROVE  NoneBefore(seq, S, T) /\ (x \in S => HowMany(seq, T) = 0)
  <2>1. ASSUME NEW i \in 1 .. n, NEW j \in 1 .. n, i < j, seq[j] \in T
        PROVE  seq[i] \notin S
    <3>1. i + 1 \in 1 .. Len(new) /\ j + 1 \in 1 .. Len(new) /\ i + 1 < j + 1
      BY <1>2, <1>3, <2>1
    <3>2. new[i + 1] = seq[i] /\ new[j + 1] = seq[j]
      BY <1>3
    <3> QED
      BY <1>5, <2>1, <3>1, <3>2 DEF NoneBefore
  <2>2. ASSUME x \in S, NEW j \in 1 .. n
        PROVE  seq[j] \notin T
    <3>1. 1 \in 1 .. Len(new) /\ j + 1 \in 1 .. Len(new) /\ 1 < j + 1
      BY <1>1, <1>2, <1>3
    <3> QED
      BY <1>3, <1>5, <2>2, <3>1 DEF NoneBefore
  <2>3. NoneBefore(seq, S, T)
    BY <2>1 DEF NoneBefore, n
  <2>4. x \in S => HowMany(seq, T) = 0
    BY <2>2, HowManyTyped DEF n
  <2> QED
    BY <2>3, <2>4
<1> QED
  BY <1>2, <1>4, <1>5 DEF new
=============================================================================
