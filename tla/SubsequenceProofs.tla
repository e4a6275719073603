------------------------- MODULE SubsequenceProofs -------------------------
(***************************************************************************)
(* What Kept keeps: its elements, their order, their number.                *)
(*                                                                          *)
(* Kept is a recursive function, so each fact is an induction on the length *)
(* of the sequence.  The library states induction for a predicate given as  *)
(* an operator; here it is derived from the well-foundedness of < for a set *)
(* T that contains 0 and every successor of its members, which is enough:   *)
(* T is the set of the lengths, or of the sequences, with the property.     *)
(***************************************************************************)
EXTENDS Subsequences, Integers, Functions, SequenceTheorems, WellFoundedInduction, TLAPS

\* A non-empty set of naturals has a least element.
LEMMA LeastNat ==
  ASSUME NEW T \in SUBSET Nat, T # {}
  PROVE  \E m \in T : \A n \in T : m <= n
<1>1. PICK m \in T : \A n \in T : ~ (<<n, m>> \in OpToRel(<, Nat))
  BY WFMin, NatLessThanWellFounded
<1>2. ASSUME NEW n \in T PROVE ~(n < m)
  <2>1. n < m => <<n, m>> \in OpToRel(<, Nat)
    BY DEF OpToRel
  <2> QED BY <1>1, <2>1
<1> QED BY <1>2

\* Induction over the naturals, for a set in the place of a predicate.
LEMMA NatSetInduction ==
  ASSUME NEW T, 0 \in T, \A n \in Nat : n \in T => n + 1 \in T
  PROVE  Nat \subseteq T
<1> SUFFICES ASSUME Nat \ T # {} PROVE FALSE
  OBVIOUS
<1>1. PICK m \in Nat \ T : \A n \in Nat \ T : m <= n
  BY LeastNat
<1>2. m # 0 /\ m - 1 \in Nat /\ m - 1 \in T
  BY <1>1
<1> QED BY <1>1, <1>2

\* Induction over sequences, for a set in the place of a predicate.
LEMMA SeqSetInduction ==
  ASSUME NEW R, NEW P, <<>> \in P,
         \A s \in Seq(R), e \in R : s \in P => Append(s, e) \in P
  PROVE  Seq(R) \subseteq P
<1> DEFINE T == {n \in Nat : \A s \in Seq(R) : Len(s) = n => s \in P}
<1>1. 0 \in T
  BY EmptySeq
<1>2. ASSUME NEW n \in Nat, n \in T PROVE n + 1 \in T
  <2> SUFFICES ASSUME NEW s \in Seq(R), Len(s) = n + 1 PROVE s \in P
    OBVIOUS
  <2>1. PICK t \in Seq(R), e \in R : s = Append(t, e)
    BY SequenceEmptyOrAppend, EmptySeq
  <2>2. Len(t) = n
    BY <2>1, AppendProperties
  <2> QED BY <1>2, <2>1, <2>2
<1>3. Nat \subseteq T
  <2> HIDE DEF T
  <2> QED BY <1>1, <1>2, NatSetInduction
<1> QED BY <1>3

-----------------------------------------------------------------------------
\* What step i of the recursion of Kept adds to f, the values before it.
KeptStep(s, S, f, i) ==
  IF i = 0 THEN <<>> ELSE IF s[i] \in S THEN Append(f[i - 1], s[i]) ELSE f[i - 1]

\* f is the recursion of Kept up to n.
KeptRun(f, s, S, n) == f = [i \in 0..n |-> KeptStep(s, S, f, i)]

\* The recursion of Kept has a solution up to every step.
LEMMA KeptRunExists ==
  ASSUME NEW s, NEW S, NEW m \in Nat
  PROVE  \E f : KeptRun(f, s, S, m)
<1> DEFINE T == {n \in Nat : \E f : KeptRun(f, s, S, n)}
<1>1. 0 \in T
  <2> DEFINE f == [i \in 0..0 |-> <<>>]
  <2>1. KeptRun(f, s, S, 0)
    BY DEF KeptRun, KeptStep
  <2> QED BY <2>1
<1>2. ASSUME NEW n \in Nat, n \in T PROVE n + 1 \in T
  <2>1. PICK f : KeptRun(f, s, S, n)
    BY <1>2
  <2> DEFINE g == [i \in 0..n + 1 |-> IF i = n + 1 THEN KeptStep(s, S, f, i) ELSE f[i]]
  <2>2. ASSUME NEW i \in 0..n + 1 PROVE g[i] = KeptStep(s, S, g, i)
    <3>1. CASE i = n + 1
      BY <3>1 DEF KeptStep
    <3>2. CASE i \in 0..n
      <4>1. f[i] = KeptStep(s, S, f, i)
        BY <2>1, <3>2 DEF KeptRun
      <4>2. g[i] = f[i] /\ (i # 0 => g[i - 1] = f[i - 1])
        BY <3>2
      <4> QED BY <4>1, <4>2 DEF KeptStep
    <3> QED BY <3>1, <3>2
  <2>3. g = [i \in 0..n + 1 |-> g[i]]
    OBVIOUS
  <2>4. KeptRun(g, s, S, n + 1)
    <3> HIDE DEF g
    <3> QED BY <2>2, <2>3 DEF KeptRun
  <2> QED BY <2>4
<1>3. Nat \subseteq T
  <2> HIDE DEF T
  <2> QED BY <1>1, <1>2, NatSetInduction
<1> QED BY <1>3

\* Kept is the last value of its recursion.
LEMMA KeptUnfolds ==
  ASSUME NEW s, NEW S, Len(s) \in Nat
  PROVE  \E f : KeptRun(f, s, S, Len(s)) /\ Kept(s, S) = f[Len(s)]
<1> DEFINE g == CHOOSE f : KeptRun(f, s, S, Len(s))
<1>1. KeptRun(g, s, S, Len(s))
  BY KeptRunExists
<1>2. Kept(s, S) = g[Len(s)]
  BY DEF Kept, KeptRun, KeptStep
<1> QED BY <1>1, <1>2

\* Nothing is kept of the empty sequence.
LEMMA KeptOfEmpty == ASSUME NEW S PROVE Kept(<<>>, S) = <<>>
<1>1. Len(<<>>) = 0
  OBVIOUS
<1>2. PICK f : KeptRun(f, <<>>, S, 0) /\ Kept(<<>>, S) = f[0]
  BY <1>1, KeptUnfolds
<1> QED BY <1>2 DEF KeptRun, KeptStep

\* An element at the end is kept, or not, after what is kept of the others.
LEMMA KeptOfAppend ==
  ASSUME NEW R, NEW s \in Seq(R), NEW e \in R, NEW S
  PROVE  Kept(Append(s, e), S) = IF e \in S THEN Append(Kept(s, S), e) ELSE Kept(s, S)
<1> DEFINE t == Append(s, e)
<1>1. /\ Len(s) \in Nat /\ Len(t) = Len(s) + 1
      /\ t[Len(s) + 1] = e /\ \A i \in 1..Len(s) : t[i] = s[i]
  BY AppendProperties, LenProperties
<1> HIDE DEF t
<1>2. PICK f : KeptRun(f, s, S, Len(s)) /\ Kept(s, S) = f[Len(s)]
  BY <1>1, KeptUnfolds
<1>3. PICK g : KeptRun(g, t, S, Len(s) + 1) /\ Kept(t, S) = g[Len(s) + 1]
  BY <1>1, KeptUnfolds
<1> DEFINE T == {n \in Nat : n <= Len(s) => g[n] = f[n]}
<1>4. 0 \in T
  BY <1>1, <1>2, <1>3 DEF KeptRun, KeptStep
<1>5. ASSUME NEW n \in Nat, n \in T PROVE n + 1 \in T
  <2> SUFFICES ASSUME n + 1 <= Len(s) PROVE g[n + 1] = f[n + 1]
    OBVIOUS
  <2>1. /\ n + 1 \in 0..Len(s) /\ n + 1 \in 0..Len(s) + 1 /\ n + 1 # 0 /\ (n + 1) - 1 = n
        /\ t[n + 1] = s[n + 1] /\ g[n] = f[n]
    BY <1>1, <1>5
  <2>2. f[n + 1] = KeptStep(s, S, f, n + 1) /\ g[n + 1] = KeptStep(t, S, g, n + 1)
    BY <1>2, <1>3, <2>1 DEF KeptRun
  <2> QED BY <2>1, <2>2 DEF KeptStep
<1>6. Nat \subseteq T
  <2> HIDE DEF T
  <2> QED BY <1>4, <1>5, NatSetInduction
<1>7. g[Len(s)] = f[Len(s)]
  BY <1>1, <1>6
<1>8. g[Len(s) + 1] = KeptStep(t, S, g, Len(s) + 1)
  BY <1>1, <1>3 DEF KeptRun
<1> QED BY <1>1, <1>2, <1>3, <1>7, <1>8 DEF KeptStep, t

-----------------------------------------------------------------------------
\* What is kept is a sequence of the same elements.
LEMMA KeptType ==
  ASSUME NEW R, NEW s \in Seq(R), NEW S
  PROVE  Kept(s, S) \in Seq(R)
<1> DEFINE P == {t \in Seq(R) : Kept(t, S) \in Seq(R)}
<1>1. <<>> \in P
  BY KeptOfEmpty, EmptySeq
<1>2. ASSUME NEW t \in Seq(R), NEW e \in R, t \in P PROVE Append(t, e) \in P
  <2>1. Append(t, e) \in Seq(R) /\ Append(Kept(t, S), e) \in Seq(R)
    BY <1>2, AppendProperties
  <2> QED BY <1>2, <2>1, KeptOfAppend
<1>3. Seq(R) \subseteq P
  <2> HIDE DEF P
  <2> QED BY <1>1, <1>2, SeqSetInduction
<1> QED BY <1>3

\* The elements of a sequence and of an extension of it.
LEMMA RangeOfAppend ==
  ASSUME NEW R, NEW s \in Seq(R), NEW e \in R
  PROVE  Range(Append(s, e)) = Range(s) \union {e}
<1>1. /\ DOMAIN s = 1..Len(s) /\ DOMAIN Append(s, e) = 1..Len(s) + 1 /\ Len(s) \in Nat
      /\ \A i \in 1..Len(s) : Append(s, e)[i] = s[i]
      /\ Append(s, e)[Len(s) + 1] = e
  BY AppendProperties, LenProperties
<1> QED BY <1>1 DEF Range

\* Kept holds the elements of s that are in S.
LEMMA KeptRange ==
  ASSUME NEW R, NEW s \in Seq(R), NEW S
  PROVE  Range(Kept(s, S)) = Range(s) \intersect S
<1> DEFINE P == {t \in Seq(R) : Range(Kept(t, S)) = Range(t) \intersect S}
<1>1. <<>> \in P
  BY KeptOfEmpty DEF Range
<1>2. ASSUME NEW t \in Seq(R), NEW e \in R, t \in P PROVE Append(t, e) \in P
  <2>1. Range(Append(t, e)) = Range(t) \union {e}
    BY RangeOfAppend
  <2>2. Range(Append(Kept(t, S), e)) = Range(Kept(t, S)) \union {e}
    BY RangeOfAppend, KeptType
  <2>3. /\ Append(t, e) \in Seq(R)
        /\ Kept(Append(t, e), S) = IF e \in S THEN Append(Kept(t, S), e) ELSE Kept(t, S)
    BY AppendProperties, KeptOfAppend
  <2> QED BY <1>2, <2>1, <2>2, <2>3
<1>3. Seq(R) \subseteq P
  <2> HIDE DEF P
  <2> QED BY <1>1, <1>2, SeqSetInduction
<1> QED BY <1>3

\* Two subsequences of one sequence are equal when they keep the same of its elements.
LEMMA KeptSame ==
  ASSUME NEW R, NEW s \in Seq(R), NEW S, NEW T,
         \A e \in Range(s) : e \in S <=> e \in T
  PROVE  Kept(s, S) = Kept(s, T)
<1> DEFINE P == {t \in Seq(R) : (\A e \in Range(t) : e \in S <=> e \in T)
                                   => Kept(t, S) = Kept(t, T)}
<1>1. <<>> \in P
  BY KeptOfEmpty
<1>2. ASSUME NEW t \in Seq(R), NEW e \in R, t \in P PROVE Append(t, e) \in P
  <2>1. Range(Append(t, e)) = Range(t) \union {e}
    BY RangeOfAppend
  <2>2. /\ Append(t, e) \in Seq(R)
        /\ \A U : Kept(Append(t, e), U) = IF e \in U THEN Append(Kept(t, U), e) ELSE Kept(t, U)
    BY AppendProperties, KeptOfAppend
  <2> QED BY <1>2, <2>1, <2>2
<1>3. Seq(R) \subseteq P
  <2> HIDE DEF P
  <2> QED BY <1>1, <1>2, SeqSetInduction
<1> QED BY <1>3

\* Keeping all of it leaves a sequence as it is.
LEMMA KeptAll ==
  ASSUME NEW R, NEW s \in Seq(R), NEW S, Range(s) \subseteq S
  PROVE  Kept(s, S) = s
<1> DEFINE P == {t \in Seq(R) : Range(t) \subseteq S => Kept(t, S) = t}
<1>1. <<>> \in P
  BY KeptOfEmpty
<1>2. ASSUME NEW t \in Seq(R), NEW e \in R, t \in P PROVE Append(t, e) \in P
  <2>1. Range(Append(t, e)) = Range(t) \union {e}
    BY RangeOfAppend
  <2> QED BY <1>2, <2>1, KeptOfAppend, AppendProperties
<1>3. Seq(R) \subseteq P
  <2> HIDE DEF P
  <2> QED BY <1>1, <1>2, SeqSetInduction
<1> QED BY <1>3

\* Keeping S, then T, keeps what is in both.
LEMMA KeptTwice ==
  ASSUME NEW R, NEW s \in Seq(R), NEW S, NEW T
  PROVE  Kept(Kept(s, S), T) = Kept(s, S \intersect T)
<1> DEFINE P == {t \in Seq(R) : Kept(Kept(t, S), T) = Kept(t, S \intersect T)}
<1>1. <<>> \in P
  BY KeptOfEmpty
<1>2. ASSUME NEW t \in Seq(R), NEW e \in R, t \in P PROVE Append(t, e) \in P
  <2>1. Kept(Append(Kept(t, S), e), T)
          = IF e \in T THEN Append(Kept(Kept(t, S), T), e) ELSE Kept(Kept(t, S), T)
    BY KeptOfAppend, KeptType
  <2>2. /\ Append(t, e) \in Seq(R)
        /\ \A U : Kept(Append(t, e), U) = IF e \in U THEN Append(Kept(t, U), e) ELSE Kept(t, U)
    BY AppendProperties, KeptOfAppend
  <2> QED BY <1>2, <2>1, <2>2
<1>3. Seq(R) \subseteq P
  <2> HIDE DEF P
  <2> QED BY <1>1, <1>2, SeqSetInduction
<1> QED BY <1>3

\* Something is lost unless everything is kept.
LEMMA KeptShorter ==
  ASSUME NEW R, NEW s \in Seq(R), NEW S
  PROVE  /\ Len(Kept(s, S)) <= Len(s)
         /\ ~(Range(s) \subseteq S) => Len(Kept(s, S)) < Len(s)
<1> DEFINE Shorter(t) == /\ Len(Kept(t, S)) <= Len(t)
                         /\ ~(Range(t) \subseteq S) => Len(Kept(t, S)) < Len(t)
           P == {t \in Seq(R) : Shorter(t)}
<1>1. <<>> \in P
  BY KeptOfEmpty DEF Range
<1>2. ASSUME NEW t \in Seq(R), NEW e \in R, t \in P PROVE Append(t, e) \in P
  <2>1. Range(Append(t, e)) = Range(t) \union {e}
    BY RangeOfAppend
  <2>2. /\ Len(t) \in Nat /\ Len(Append(t, e)) = Len(t) + 1 /\ Append(t, e) \in Seq(R)
        /\ Len(Kept(t, S)) \in Nat /\ Len(Append(Kept(t, S), e)) = Len(Kept(t, S)) + 1
    BY AppendProperties, LenProperties, KeptType
  <2>3. CASE e \in S
    BY <1>2, <2>1, <2>2, <2>3, KeptOfAppend
  <2>4. CASE e \notin S
    BY <1>2, <2>1, <2>2, <2>4, KeptOfAppend
  <2> QED BY <2>3, <2>4
<1>3. Seq(R) \subseteq P
  <2> HIDE DEF P
  <2> QED BY <1>1, <1>2, SeqSetInduction
<1> QED BY <1>3

\* No element stands in s twice.
NoRepeat(s) == \A i, j \in DOMAIN s : s[i] = s[j] => i = j

\* A new element at the end repeats none exactly if s did not hold it.
LEMMA NoRepeatOfAppend ==
  ASSUME NEW R, NEW s \in Seq(R), NEW e \in R
  PROVE  NoRepeat(Append(s, e)) <=> NoRepeat(s) /\ e \notin Range(s)
<1>1. /\ DOMAIN s = 1..Len(s) /\ DOMAIN Append(s, e) = 1..Len(s) + 1 /\ Len(s) \in Nat
      /\ \A i \in 1..Len(s) : Append(s, e)[i] = s[i]
      /\ Append(s, e)[Len(s) + 1] = e
  BY AppendProperties, LenProperties
<1> QED BY <1>1 DEF NoRepeat, Range

\* What is kept of a sequence without repetition has none.
LEMMA KeptNoRepeat ==
  ASSUME NEW R, NEW s \in Seq(R), NEW S, NoRepeat(s)
  PROVE  NoRepeat(Kept(s, S))
<1> DEFINE P == {t \in Seq(R) : NoRepeat(t) => NoRepeat(Kept(t, S))}
<1>1. <<>> \in P
  BY KeptOfEmpty DEF NoRepeat
<1>2. ASSUME NEW t \in Seq(R), NEW e \in R, t \in P PROVE Append(t, e) \in P
  <2>1. NoRepeat(Append(Kept(t, S), e)) <=> NoRepeat(Kept(t, S)) /\ e \notin Range(Kept(t, S))
    BY NoRepeatOfAppend, KeptType
  <2>2. Range(Kept(t, S)) = Range(t) \intersect S
    BY KeptRange
  <2> QED BY <1>2, <2>1, <2>2, NoRepeatOfAppend, KeptOfAppend, AppendProperties
<1>3. Seq(R) \subseteq P
  <2> HIDE DEF P
  <2> QED BY <1>1, <1>2, SeqSetInduction
<1> QED BY <1>3

\* The head of what is kept stands in s before every other element that is kept.
LEMMA KeptHead ==
  ASSUME NEW R, NEW s \in Seq(R), NEW S, Kept(s, S) # <<>>
  PROVE  \E i \in 1..Len(s) : /\ s[i] = Head(Kept(s, S)) /\ s[i] \in S
                               /\ \A j \in 1..i - 1 : s[j] \notin S
<1> DEFINE First(t, i) == /\ t[i] = Head(Kept(t, S)) /\ t[i] \in S
                          /\ \A j \in 1..i - 1 : t[j] \notin S
           P == {t \in Seq(R) : Kept(t, S) # <<>> => \E i \in 1..Len(t) : First(t, i)}
<1>1. <<>> \in P
  BY KeptOfEmpty
<1>2. ASSUME NEW t \in Seq(R), NEW e \in R, t \in P PROVE Append(t, e) \in P
  <2>1. /\ Len(t) \in Nat /\ Len(Append(t, e)) = Len(t) + 1 /\ Append(t, e) \in Seq(R)
        /\ \A i \in 1..Len(t) : Append(t, e)[i] = t[i]
        /\ Append(t, e)[Len(t) + 1] = e
    BY AppendProperties, LenProperties
  <2>2. Kept(Append(t, e), S) = IF e \in S THEN Append(Kept(t, S), e) ELSE Kept(t, S)
    BY KeptOfAppend
  <2>3. Kept(t, S) \in Seq(R) /\ Range(Kept(t, S)) = Range(t) \intersect S
    BY KeptType, KeptRange
  <2>4. CASE Kept(t, S) # <<>>
    <3>1. PICK i \in 1..Len(t) : First(t, i)
      BY <1>2, <2>4
    <3>2. Head(Append(Kept(t, S), e)) = Head(Kept(t, S))
      BY <2>3, <2>4, HeadTailAppend
    <3>3. Kept(Append(t, e), S) # <<>> /\ Head(Kept(Append(t, e), S)) = Head(Kept(t, S))
      BY <2>2, <2>3, <2>4, <3>2, AppendProperties
    <3>4. /\ i \in 1..Len(Append(t, e)) /\ Append(t, e)[i] = t[i]
          /\ \A j \in 1..i - 1 : Append(t, e)[j] = t[j]
      BY <2>1
    <3>5. First(Append(t, e), i)
      BY <3>1, <3>3, <3>4
    <3> QED BY <2>1, <3>4, <3>5
  <2>5. CASE Kept(t, S) = <<>> /\ e \in S
    <3>1. \A j \in 1..Len(t) : t[j] \notin S
      BY <2>3, <2>5 DEF Range
    <3>2. Head(Kept(Append(t, e), S)) = e
      BY <2>2, <2>3, <2>5, HeadTailAppend
    <3>3. First(Append(t, e), Len(t) + 1) /\ Len(t) + 1 \in 1..Len(Append(t, e))
      BY <2>1, <2>5, <3>1, <3>2
    <3> HIDE DEF First
    <3> QED BY <2>1, <3>3
  <2>6. CASE Kept(t, S) = <<>> /\ e \notin S
    BY <2>1, <2>2, <2>6
  <2> QED BY <2>4, <2>5, <2>6
<1>3. Seq(R) \subseteq P
  <2> HIDE DEF P
  <2> QED BY <1>1, <1>2, SeqSetInduction
<1> QED BY <1>3

\* a stands in s before b.
Before(s, a, b) == \E i, j \in DOMAIN s : i < j /\ s[i] = a /\ s[j] = b

\* An element at the end comes after all the others.
LEMMA BeforeInAppend ==
  ASSUME NEW R, NEW s \in Seq(R), NEW e \in R, NEW a, NEW b
  PROVE  Before(Append(s, e), a, b) <=> Before(s, a, b) \/ (a \in Range(s) /\ b = e)
<1>1. /\ DOMAIN s = 1..Len(s) /\ DOMAIN Append(s, e) = 1..Len(s) + 1 /\ Len(s) \in Nat
      /\ \A i \in 1..Len(s) : Append(s, e)[i] = s[i]
      /\ Append(s, e)[Len(s) + 1] = e
  BY AppendProperties, LenProperties
<1>2. ASSUME Before(Append(s, e), a, b)
      PROVE  Before(s, a, b) \/ (a \in Range(s) /\ b = e)
  <2>1. PICK i, j \in 1..Len(s) + 1 : i < j /\ Append(s, e)[i] = a /\ Append(s, e)[j] = b
    BY <1>1, <1>2 DEF Before
  <2>2. i \in 1..Len(s) /\ s[i] = a /\ a \in Range(s)
    BY <1>1, <2>1 DEF Range
  <2>3. CASE j = Len(s) + 1
    BY <1>1, <2>1, <2>2, <2>3
  <2>4. CASE j \in 1..Len(s)
    BY <1>1, <2>1, <2>2, <2>4 DEF Before
  <2> QED BY <2>1, <2>3, <2>4, <1>1
<1>3. ASSUME Before(s, a, b) PROVE Before(Append(s, e), a, b)
  <2>1. PICK i, j \in 1..Len(s) : i < j /\ s[i] = a /\ s[j] = b
    BY <1>1, <1>3 DEF Before
  <2>2. i \in 1..Len(s) + 1 /\ j \in 1..Len(s) + 1
    BY <1>1
  <2> QED BY <1>1, <2>1, <2>2 DEF Before
<1>4. ASSUME a \in Range(s), b = e PROVE Before(Append(s, e), a, b)
  <2>1. PICK i \in 1..Len(s) : s[i] = a
    BY <1>1, <1>4 DEF Range
  <2>2. i \in 1..Len(s) + 1 /\ Len(s) + 1 \in 1..Len(s) + 1 /\ i < Len(s) + 1
    BY <1>1
  <2> QED BY <1>1, <1>4, <2>1, <2>2 DEF Before
<1> QED BY <1>2, <1>3, <1>4

\* What is kept keeps its order.
LEMMA KeptOrder ==
  ASSUME NEW R, NEW s \in Seq(R), NEW S, NEW a \in S, NEW b \in S
  PROVE  Before(s, a, b) => Before(Kept(s, S), a, b)
<1> DEFINE P == {t \in Seq(R) : Before(t, a, b) => Before(Kept(t, S), a, b)}
<1>1. <<>> \in P
  BY EmptySeq DEF Before
<1>2. ASSUME NEW t \in Seq(R), NEW e \in R, t \in P PROVE Append(t, e) \in P
  <2>1. /\ Append(t, e) \in Seq(R)
        /\ Kept(Append(t, e), S) = IF e \in S THEN Append(Kept(t, S), e) ELSE Kept(t, S)
    BY AppendProperties, KeptOfAppend
  <2>2. /\ Before(Append(t, e), a, b) <=> Before(t, a, b) \/ (a \in Range(t) /\ b = e)
        /\ Before(Append(Kept(t, S), e), a, b)
              <=> Before(Kept(t, S), a, b) \/ (a \in Range(Kept(t, S)) /\ b = e)
    BY BeforeInAppend, KeptType
  <2>3. Range(Kept(t, S)) = Range(t) \intersect S
    BY KeptRange
  <2> QED BY <1>2, <2>1, <2>2, <2>3
<1>3. Seq(R) \subseteq P
  <2> HIDE DEF P
  <2> QED BY <1>1, <1>2, SeqSetInduction
<1> QED BY <1>3
=============================================================================
