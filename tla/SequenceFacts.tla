---------------------------- MODULE SequenceFacts ----------------------------
(***************************************************************************)
(* Facts about the sequences that stand for message queues: what is left   *)
(* when a message is taken off, put on, or a batch is cut off.             *)
(***************************************************************************)
EXTENDS Integers, Sequences, SequenceTheorems, FiniteSetTheorems, Selection, TLAPS

\* The head, the tail and the length of a sequence that is not empty.
LEMMA SeqFacts ==
  ASSUME NEW S, NEW s \in Seq(S), s # <<>>
  PROVE  /\ Head(s) \in S
         /\ Tail(s) \in Seq(S)
         /\ Len(s) \in Nat \ {0}
BY HeadTailProperties, EmptySeq, LenProperties

\* A prefix and what is left of a sequence.
LEMMA SplitFacts ==
  ASSUME NEW S, NEW s \in Seq(S), NEW n \in 1..Len(s)
  PROVE  /\ SubSeq(s, 1, n) \in Seq(S)
         /\ SubSeq(s, n + 1, Len(s)) \in Seq(S)
         /\ Len(SubSeq(s, 1, n)) = n
         /\ SubSeq(s, 1, n) # <<>>
         /\ SubSeq(s, 1, n) \o SubSeq(s, n + 1, Len(s)) = s
<1>1. Len(s) \in Nat /\ \A i \in 1..Len(s) : s[i] \in S
  BY LenProperties, ElementOfSeq
<1>2. SubSeq(s, 1, n) \in Seq(S) /\ Len(SubSeq(s, 1, n)) = n
  BY <1>1, SubSeqProperties
<1>3. SubSeq(s, n + 1, Len(s)) \in Seq(S)
  BY <1>1, SubSeqProperties
<1>4. SubSeq(s, 1, n) # <<>>
  BY <1>2, EmptySeq
<1>5. SubSeq(s, 1, n) \o SubSeq(s, n + 1, Len(s)) = s
  BY <1>1, ConcatAdjacentSubSeq, SubSeqFull
<1>. QED
  BY <1>2, <1>3, <1>4, <1>5

-----------------------------------------------------------------------------
(* The elements of a sequence, and those that must not occur twice in it.  *)

Elems(s) == {s[i] : i \in 1..Len(s)}
Single(s, R) == \A i, j \in 1..Len(s) : s[i] \in R /\ s[i] = s[j] => i = j

LEMMA AppendElems ==
  ASSUME NEW S, NEW s \in Seq(S), NEW x \in S, NEW R
  PROVE  /\ Elems(Append(s, x)) = Elems(s) \cup {x}
         /\ Single(s, R) /\ x \notin Elems(s) \cap R => Single(Append(s, x), R)
<1>. DEFINE t == Append(s, x)
<1>1. Len(s) \in Nat /\ Len(t) = Len(s) + 1 /\ t[Len(s) + 1] = x /\ \A i \in 1..Len(s) : t[i] = s[i]
  BY AppendProperties, LenProperties
<1>. HIDE DEF t
<1>2. Elems(t) = Elems(s) \cup {x}
  <2>1. \A i \in 1..Len(s) : i \in 1..Len(t) /\ t[i] = s[i]
    BY <1>1
  <2>2. \A i \in 1..Len(t) : (i \in 1..Len(s) /\ t[i] = s[i]) \/ t[i] = x
    BY <1>1
  <2>3. Len(s) + 1 \in 1..Len(t)
    BY <1>1
  <2>. QED
    BY <1>1, <2>1, <2>2, <2>3 DEF Elems
<1>3. ASSUME Single(s, R), x \notin Elems(s) \cap R
      PROVE  Single(t, R)
  <2>. SUFFICES ASSUME NEW i \in 1..Len(t), NEW j \in 1..Len(t), t[i] \in R, t[i] = t[j]
                PROVE  i = j
    BY DEF Single
  <2>1. i \in 1..Len(s) \/ i = Len(s) + 1
    BY <1>1
  <2>2. j \in 1..Len(s) \/ j = Len(s) + 1
    BY <1>1
  <2>3. \A n \in 1..Len(s) : t[n] # x \/ x \notin R
    BY <1>1, <1>3 DEF Elems
  <2>. QED
    BY <1>1, <1>3, <2>1, <2>2, <2>3 DEF Single
<1>. QED
  BY <1>2, <1>3 DEF t

LEMMA TailElems ==
  ASSUME NEW S, NEW s \in Seq(S), s # <<>>, NEW R
  PROVE  /\ Elems(s) = {Head(s)} \cup Elems(Tail(s))
         /\ Single(s, R) => Single(Tail(s), R) /\ Head(s) \notin Elems(Tail(s)) \cap R
<1>. DEFINE t == Tail(s)
<1>1. /\ Len(s) \in Nat \ {0} /\ Len(t) = Len(s) - 1 /\ Head(s) = s[1]
      /\ \A i \in 1..Len(t) : t[i] = s[i + 1]
  BY HeadTailProperties, LenProperties, EmptySeq, SeqFacts
<1>. HIDE DEF t
<1>2. \A i \in 1..Len(s) : i = 1 \/ (i - 1 \in 1..Len(t) /\ t[i - 1] = s[i])
  BY <1>1
<1>3. \A i \in 1..Len(t) : i + 1 \in 1..Len(s) /\ t[i] = s[i + 1]
  BY <1>1
<1>4. 1 \in 1..Len(s)
  BY <1>1
<1>5. Elems(s) = {Head(s)} \cup Elems(t)
  <2>1. \A x \in Elems(s) : x \in {Head(s)} \cup Elems(t)
    BY <1>1, <1>2 DEF Elems
  <2>2. \A x \in Elems(t) : x \in Elems(s)
    BY <1>3 DEF Elems
  <2>3. Head(s) \in Elems(s)
    BY <1>1, <1>4 DEF Elems
  <2>. QED
    BY <2>1, <2>2, <2>3
<1>6. ASSUME Single(s, R)
      PROVE  Single(t, R) /\ Head(s) \notin Elems(t) \cap R
  <2>1. \A i, j \in 1..Len(t) : t[i] \in R /\ t[i] = t[j] => i = j
    <3>1. TAKE i, j \in 1..Len(t)
    <3>2. HAVE t[i] \in R /\ t[i] = t[j]
    <3>3. i + 1 = j + 1
      BY <1>3, <1>6, <3>2 DEF Single
    <3>. QED
      BY <3>3
  <2>2. \A j \in 1..Len(t) : ~(t[j] = Head(s) /\ t[j] \in R)
    <3>1. SUFFICES ASSUME NEW j \in 1..Len(t), t[j] = Head(s), t[j] \in R
                   PROVE  FALSE
      OBVIOUS
    <3>2. s[j + 1] = s[1] /\ s[1] \in R /\ j + 1 \in 1..Len(s)
      BY <1>1, <1>3, <3>1
    <3>3. j + 1 = 1
      BY <1>4, <1>6, <3>2 DEF Single
    <3>. QED
      BY <3>3
  <2>. QED
    BY <2>1, <2>2 DEF Single, Elems
<1>. QED
  BY <1>5, <1>6 DEF t

LEMMA SplitElems ==
  ASSUME NEW S, NEW s \in Seq(S), NEW n \in 1..Len(s), NEW R
  PROVE  LET a == SubSeq(s, 1, n)
             b == SubSeq(s, n + 1, Len(s))
         IN /\ Elems(s) = Elems(a) \cup Elems(b)
            /\ Single(s, R) => Single(a, R) /\ Single(b, R) /\ Elems(a) \cap Elems(b) \cap R = {}
<1>. DEFINE a == SubSeq(s, 1, n)
            b == SubSeq(s, n + 1, Len(s))
<1>1. Len(s) \in Nat /\ \A i \in 1..Len(s) : s[i] \in S
  BY LenProperties, ElementOfSeq
<1>2. /\ Len(a) = n /\ \A i \in 1..n : a[i] = s[i]
      /\ Len(b) = Len(s) - n /\ \A i \in 1..Len(s) - n : b[i] = s[n + i]
  <2>1. Len(a) = n /\ \A i \in 1..n : a[i] = s[i]
    BY <1>1, SubSeqProperties
  <2>2. Len(b) = Len(s) - n /\ \A i \in 1..Len(s) - n : b[i] = s[n + i]
    BY <1>1, SubSeqProperties
  <2>. QED
    BY <2>1, <2>2
<1>. HIDE DEF a, b
<1>3. \A i \in 1..Len(a) : i \in 1..Len(s) /\ a[i] = s[i] /\ i <= n
  BY <1>1, <1>2
<1>4. \A i \in 1..Len(b) : n + i \in 1..Len(s) /\ b[i] = s[n + i] /\ n + i > n
  BY <1>1, <1>2
<1>5. \A i \in 1..Len(s) : (i \in 1..Len(a) /\ a[i] = s[i]) \/ (i - n \in 1..Len(b) /\ b[i - n] = s[i])
  BY <1>1, <1>2
<1>6. Elems(s) = Elems(a) \cup Elems(b)
  <2>1. \A x \in Elems(s) : x \in Elems(a) \cup Elems(b)
    BY <1>5 DEF Elems
  <2>2. \A x \in Elems(a) : x \in Elems(s)
    BY <1>3 DEF Elems
  <2>3. \A x \in Elems(b) : x \in Elems(s)
    BY <1>4 DEF Elems
  <2>. QED
    BY <2>1, <2>2, <2>3
<1>7. ASSUME Single(s, R)
      PROVE  Single(a, R) /\ Single(b, R) /\ Elems(a) \cap Elems(b) \cap R = {}
  <2>1. Single(a, R)
    BY <1>3, <1>7 DEF Single
  <2>2. \A i, j \in 1..Len(b) : b[i] \in R /\ b[i] = b[j] => i = j
    <3>1. TAKE i, j \in 1..Len(b)
    <3>2. HAVE b[i] \in R /\ b[i] = b[j]
    <3>3. n + i = n + j
      BY <1>4, <1>7, <3>2 DEF Single
    <3>. QED
      BY <1>1, <3>3
  <2>3. \A i \in 1..Len(a), j \in 1..Len(b) : ~(a[i] = b[j] /\ a[i] \in R)
    <3>1. SUFFICES ASSUME NEW i \in 1..Len(a), NEW j \in 1..Len(b), a[i] = b[j], a[i] \in R
                   PROVE  FALSE
      OBVIOUS
    <3>2. i = n + j
      BY <1>3, <1>4, <1>7, <3>1 DEF Single
    <3>. QED
      BY <1>3, <1>4, <3>2
  <2>. QED
    BY <2>1, <2>2, <2>3 DEF Single, Elems
<1>. QED
  BY <1>6, <1>7 DEF a, b

\* A sequence without elements.
LEMMA NoElems == Elems(<<>>) = {} /\ \A R : Single(<<>>, R)
BY DEF Elems, Single

-----------------------------------------------------------------------------
(***************************************************************************)
(* Induction.  The theorems of the library take a predicate as parameter,  *)
(* which the provers cannot instantiate; a set of numbers they can.  It    *)
(* rests on the order of the finite sets 0..n by inclusion, which is well  *)
(* founded.                                                                *)
(***************************************************************************)

\* A set with 0 and the successor of each of its numbers has all natural numbers.
LEMMA InductiveSet ==
  ASSUME NEW I, 0 \in I, \A n \in Nat : n \in I => n + 1 \in I
  PROVE  Nat \subseteq I
<1>. SUFFICES ASSUME NEW m \in Nat, m \notin I
              PROVE  FALSE
  OBVIOUS
<1>. DEFINE T == Nat \ I
            Below(n) == 0..n
            W == {Below(n) : n \in T}
            R == StrictSubsetOrdering(Nat)
<1>1. IsWellFoundedOn(R, FiniteSubsetsOf(Nat))
  BY FS_StrictSubsetOrderingWellFounded
<1>2. W \subseteq FiniteSubsetsOf(Nat)
  <2>. SUFFICES ASSUME NEW n \in Nat
                PROVE  0..n \in FiniteSubsetsOf(Nat)
    OBVIOUS
  <2>1. IsFiniteSet(0..n)
    BY FS_Interval
  <2>2. 0..n \in SUBSET Nat
    OBVIOUS
  <2>. HIDE DEF T, Below, W
  <2>. QED
    BY <2>1, <2>2 DEF FiniteSubsetsOf
<1>3. Below(m) \in W
  OBVIOUS
<1>. HIDE DEF W
<1>4. PICK X \in W : \A Y \in W : ~(<<Y, X>> \in R)
  <2>1. W # {}
    BY <1>3
  <2>. HIDE DEF R
  <2>. QED
    BY <1>1, <1>2, <2>1, WFMin
<1>5. PICK x \in T : X = Below(x)
  BY <1>4 DEF W
<1>6. x \in Nat \ {0} /\ x - 1 \notin I
  OBVIOUS
<1>7. Below(x - 1) \in W
  BY <1>6 DEF W
<1>8. Below(x - 1) \subseteq Below(x) /\ Below(x - 1) # Below(x) /\ Below(x - 1) \subseteq Nat /\ Below(x) \subseteq Nat
  <2>1. x \in Below(x) /\ x \notin Below(x - 1)
    BY <1>6
  <2>2. Below(x - 1) \subseteq Below(x) /\ Below(x) \subseteq Nat
    BY <1>6
  <2>. QED
    BY <2>1, <2>2
<1>9. <<Below(x - 1), X>> \in R
  <2>. HIDE DEF Below
  <2>. QED
    BY <1>5, <1>8 DEF StrictSubsetOrdering
<1>. QED
  BY <1>4, <1>7, <1>9

\* Induction up to a bound.
LEMMA BoundedInduction ==
  ASSUME NEW m \in Nat, NEW I, 0 \in I, \A n \in 0..m : n # m /\ n \in I => n + 1 \in I
  PROVE  0..m \subseteq I
<1>. DEFINE J == {n \in Nat : n \in I \/ n > m}
<1>1. 0 \in J
  OBVIOUS
<1>2. \A n \in Nat : n \in J => n + 1 \in J
  OBVIOUS
<1>. HIDE DEF J
<1>3. Nat \subseteq J
  BY <1>1, <1>2, InductiveSet
<1>. QED
  BY <1>3 DEF J

\* A set of numbers that has an element has a least one.
LEMMA LeastNumber ==
  ASSUME NEW S, S \subseteq Nat, S # {}
  PROVE  \E m \in S : \A k \in S : m <= k
<1>. SUFFICES ASSUME \A m \in S : \E k \in S : k < m
              PROVE  FALSE
  OBVIOUS
<1>. DEFINE I == {n \in Nat : \A k \in S : n <= k}
<1>1. 0 \in I
  OBVIOUS
<1>2. \A n \in Nat : n \in I => n + 1 \in I
  OBVIOUS
<1>. HIDE DEF I
<1>3. Nat \subseteq I
  BY <1>1, <1>2, InductiveSet
<1>4. PICK m \in S : TRUE
  OBVIOUS
<1>5. m + 1 \in I
  BY <1>3, <1>4
<1>. QED
  BY <1>4, <1>5 DEF I

\* A function that is given by its first value and by what follows from each value.
LEMMA Recursion ==
  ASSUME NEW V, NEW v \in V, NEW m \in Nat, NEW G \in [1..m -> [V -> V]]
  PROVE  \E f \in [0..m -> V] : f[0] = v /\ \A n \in 1..m : f[n] = G[n][f[n - 1]]
<1>. DEFINE Upto(f, k) == f \in [0..k -> V] /\ f[0] = v /\ \A n \in 1..k : f[n] = G[n][f[n - 1]]
            I == {k \in 0..m : \E f : Upto(f, k)}
<1>1. 0 \in I
  <2>. DEFINE f == [n \in 0..0 |-> v]
  <2>1. Upto(f, 0)
    OBVIOUS
  <2>. HIDE DEF Upto, f
  <2>. QED
    BY <2>1
<1>2. ASSUME NEW k \in 0..m, k # m, k \in I
      PROVE  k + 1 \in I
  <2>1. PICK g : Upto(g, k)
    BY <1>2
  <2>2. k + 1 \in 1..m /\ g[k] \in V
    BY <1>2, <2>1
  <2>3. G[k + 1][g[k]] \in V
    BY <2>2
  <2>. DEFINE f == [n \in 0..(k + 1) |-> IF n = k + 1 THEN G[k + 1][g[k]] ELSE g[n]]
  <2>4. /\ \A n \in 0..k : f[n] = g[n]
        /\ f[k + 1] = G[k + 1][g[k]]
    BY <1>2
  <2>5. f \in [0..(k + 1) -> V]
    BY <2>1, <2>3
  <2>. HIDE DEF f
  <2>6. \A n \in 1..(k + 1) : f[n] = G[n][f[n - 1]]
    <3>1. TAKE n \in 1..(k + 1)
    <3>2. CASE n = k + 1
      BY <1>2, <2>4, <3>2
    <3>3. CASE n \in 1..k
      BY <1>2, <2>1, <2>4, <3>3
    <3>. QED
      BY <1>2, <3>2, <3>3
  <2>7. Upto(f, k + 1)
    BY <1>2, <2>1, <2>4, <2>5, <2>6
  <2>. QED
    BY <2>2, <2>7
<1>. HIDE DEF I
<1>3. m \in I
  <2>1. 0..m \subseteq I
    BY <1>1, <1>2, BoundedInduction
  <2>. QED
    BY <2>1
<1>4. PICK f : Upto(f, m)
  <2>. HIDE DEF Upto
  <2>. QED
    BY <1>3 DEF I
<1>. QED
  BY <1>4

-----------------------------------------------------------------------------
(* What Selected keeps of a sequence.                                      *)

TakenStep(s, R, f, n) ==
  IF n = 0 THEN <<>> ELSE IF s[n] \in R THEN Append(f[n - 1], s[n]) ELSE f[n - 1]

\* The recursive definition of Taken has a solution.
LEMMA TakenExists ==
  ASSUME NEW S, NEW s \in Seq(S), NEW R
  PROVE  Taken(s, R) = [n \in 0..Len(s) |-> TakenStep(s, R, Taken(s, R), n)]
<1>. DEFINE Solves(f, m) == f = [n \in 0..m |-> TakenStep(s, R, f, n)]
            I == {m \in Nat : \E f : Solves(f, m)}
<1>1. 0 \in I
  <2>. DEFINE f == [n \in 0..0 |-> <<>>]
  <2>1. f = [n \in 0..0 |-> TakenStep(s, R, f, n)]
    BY DEF TakenStep
  <2>. QED
    BY <2>1
<1>2. ASSUME NEW m \in Nat, m \in I
      PROVE  m + 1 \in I
  <2>1. PICK g : Solves(g, m)
    BY <1>2
  <2>. DEFINE f == [n \in 0..(m + 1) |-> IF n = m + 1 THEN TakenStep(s, R, g, n) ELSE g[n]]
  <2>2. \A n \in 0..m : f[n] = g[n]
    OBVIOUS
  <2>3. \A n \in 0..(m + 1) : n # 0 => n - 1 \in 0..m
    OBVIOUS
  <2>4. \A n \in 0..(m + 1) : f[n] = TakenStep(s, R, f, n)
    <3>1. TAKE n \in 0..(m + 1)
    <3>2. TakenStep(s, R, f, n) = TakenStep(s, R, g, n)
      BY <2>2, <2>3 DEF TakenStep
    <3>3. n \in 0..m => g[n] = TakenStep(s, R, g, n)
      BY <2>1
    <3>. QED
      BY <3>2, <3>3
  <2>5. Solves(f, m + 1)
    BY <2>4
  <2>. HIDE DEF Solves, f
  <2>. QED
    BY <2>5
<1>3. Len(s) \in I
  <2>. HIDE DEF I
  <2>1. Nat \subseteq I
    BY <1>1, <1>2, InductiveSet
  <2>. QED
    BY <2>1, LenProperties
<1>4. Taken(s, R) = CHOOSE f : Solves(f, Len(s))
  BY DEF Taken, TakenStep
<1>5. PICK f : Solves(f, Len(s))
  BY <1>3
<1>. HIDE DEF Solves
<1>6. Solves(CHOOSE g : Solves(g, Len(s)), Len(s))
  BY <1>5
<1>. QED
  BY <1>4, <1>6 DEF Solves

TakenBy(t, s, R, S) ==
  /\ t[0] = <<>>
  /\ \A n \in 1..Len(s) : t[n] = IF s[n] \in R THEN Append(t[n - 1], s[n]) ELSE t[n - 1]
  /\ \A n \in 0..Len(s) : t[n] \in Seq(S \cap R)

\* The values of Taken.
LEMMA TakenFacts ==
  ASSUME NEW S, NEW s \in Seq(S), NEW R
  PROVE  TakenBy(Taken(s, R), s, R, S)
<1>. DEFINE t == Taken(s, R)
<1>1. t = [n \in 0..Len(s) |-> TakenStep(s, R, t, n)]
  BY TakenExists
<1>2. Len(s) \in Nat /\ \A n \in 1..Len(s) : s[n] \in S
  BY LenProperties, ElementOfSeq
<1>. HIDE DEF t
<1>3. \A n \in 0..Len(s) : t[n] = TakenStep(s, R, t, n)
  BY <1>1
<1>4. t[0] = <<>>
  BY <1>2, <1>3 DEF TakenStep
<1>5. \A n \in 1..Len(s) : t[n] = IF s[n] \in R THEN Append(t[n - 1], s[n]) ELSE t[n - 1]
  BY <1>2, <1>3 DEF TakenStep
<1>6. \A n \in 0..Len(s) : t[n] \in Seq(S \cap R)
  <2>. DEFINE I == {n \in Nat : n <= Len(s) => t[n] \in Seq(S \cap R)}
  <2>1. 0 \in I
    BY <1>4, EmptySeq
  <2>2. ASSUME NEW n \in Nat, n \in I
        PROVE  n + 1 \in I
    <3>. SUFFICES ASSUME n + 1 <= Len(s)
                  PROVE  t[n + 1] \in Seq(S \cap R)
      OBVIOUS
    <3>1. n + 1 \in 1..Len(s) /\ t[n] \in Seq(S \cap R) /\ n + 1 - 1 = n
      BY <1>2, <2>2
    <3>2. s[n + 1] \in S
      BY <1>2, <3>1
    <3>3. t[n + 1] = IF s[n + 1] \in R THEN Append(t[n], s[n + 1]) ELSE t[n]
      BY <1>5, <3>1
    <3>. QED
      BY <3>1, <3>2, <3>3
  <2>. HIDE DEF I
  <2>3. Nat \subseteq I
    BY <2>1, <2>2, InductiveSet
  <2>. QED
    BY <1>2, <2>3 DEF I
<1>. QED
  BY <1>4, <1>5, <1>6 DEF t, TakenBy

\* What is selected from two sequences put together.
LEMMA TakenOfConcat ==
  \A S, R : \A s, u \in Seq(S) : Selected(s \o u, R) = Selected(s, R) \o Selected(u, R)
<1>0. SUFFICES ASSUME NEW S, NEW R, NEW s, NEW u, s \in Seq(S), u \in Seq(S)
               PROVE  Selected(s \o u, R) = Selected(s, R) \o Selected(u, R)
  OBVIOUS
<1>. DEFINE w == s \o u
<1>1. /\ Len(s) \in Nat /\ Len(u) \in Nat /\ w \in Seq(S) /\ Len(w) = Len(s) + Len(u)
      /\ \A n \in 1..Len(s) : w[n] = s[n]
      /\ \A n \in 1..Len(u) : w[Len(s) + n] = u[n] /\ u[n] \in S
  BY <1>0, ConcatProperties, LenProperties, ElementOfSeq
<1>. HIDE DEF w
<1>2. PICK ts, tu, tw : ts = Taken(s, R) /\ tu = Taken(u, R) /\ tw = Taken(w, R)
  OBVIOUS
<1>3. TakenBy(ts, s, R, S) /\ TakenBy(tu, u, R, S) /\ TakenBy(tw, w, R, S)
  <2>1. w \in Seq(S)
    BY <1>1
  <2>2. TakenBy(Taken(s, R), s, R, S)
    BY <1>0, TakenFacts, Zenon
  <2>3. TakenBy(Taken(u, R), u, R, S)
    BY <1>0, TakenFacts, Zenon
  <2>4. TakenBy(Taken(w, R), w, R, S)
    BY <2>1, TakenFacts, Zenon
  <2>. QED
    BY <1>2, <2>2, <2>3, <2>4
<1>4. Seq(S \cap R) \subseteq Seq(S)
  BY SeqMonotonic
<1>5. \A n \in 0..Len(s) : tw[n] = ts[n]
  <2>. DEFINE I == {n \in 0..Len(s) : tw[n] = ts[n]}
  <2>1. 0 \in I
    BY <1>1, <1>3 DEF TakenBy
  <2>2. ASSUME NEW n \in 0..Len(s), n # Len(s), n \in I
        PROVE  n + 1 \in I
    <3>1. n + 1 \in 1..Len(s) /\ n + 1 \in 1..Len(w) /\ tw[n] = ts[n] /\ n + 1 - 1 = n
      BY <1>1, <2>2
    <3>2. w[n + 1] = s[n + 1]
      BY <1>1, <3>1
    <3>3. tw[n + 1] = ts[n + 1]
      BY <1>3, <3>1, <3>2, SMTT(30) DEF TakenBy
    <3>. QED
      BY <3>1, <3>3
  <2>. HIDE DEF I
  <2>3. 0..Len(s) \subseteq I
    BY <1>1, <2>1, <2>2, BoundedInduction
  <2>. QED
    BY <2>3 DEF I
<1>6. PICK a : a \in Seq(S) /\ a = ts[Len(s)]
  <2>1. ts[Len(s)] \in Seq(S \cap R)
    BY <1>1, <1>3 DEF TakenBy
  <2>2. ts[Len(s)] \in Seq(S)
    BY <1>4, <2>1
  <2>. QED
    BY <2>2, Zenon
<1>. DEFINE W(n) == tw[Len(s) + n] = a \o tu[n]
<1>7. \A n \in 0..Len(u) : W(n)
  <2>. DEFINE I == {n \in 0..Len(u) : W(n)}
  <2>. HIDE DEF W
  <2>1. 0 \in I
    <3>1. tw[Len(s) + 0] = a
      BY <1>1, <1>5, <1>6
    <3>2. tu[0] = <<>>
      BY <1>3 DEF TakenBy
    <3>3. a \o <<>> = a
      BY <1>6, ConcatEmptySeq
    <3>. QED
      <4>1. W(0)
        BY <3>1, <3>2, <3>3 DEF W
      <4>. QED
        BY <1>1, <4>1
  <2>2. ASSUME NEW n \in 0..Len(u), n # Len(u), n \in I
        PROVE  n + 1 \in I
    <3>1. /\ n + 1 \in 1..Len(u) /\ n + 1 \in 0..Len(u) /\ n + 1 - 1 = n
          /\ Len(s) + (n + 1) \in 1..Len(w) /\ Len(s) + (n + 1) - 1 = Len(s) + n
      BY <1>1, <2>2
    <3>2. PICK i : i = Len(s) + (n + 1)
      OBVIOUS
    <3>3. i \in 1..Len(w) /\ i - 1 = Len(s) + n /\ w[i] = u[n + 1]
      BY <1>1, <3>1, <3>2
    <3>4. PICK x : x \in S /\ x = u[n + 1]
      BY <1>1, <3>1
    <3>5. PICK b : b \in Seq(S) /\ b = tu[n]
      BY <1>3, <1>4, <2>2 DEF TakenBy
    <3>6. tw[i - 1] = a \o b
      BY <2>2, <3>3, <3>5 DEF W
    <3>7. tw[i] = IF x \in R THEN Append(a \o b, x) ELSE a \o b
      BY <1>3, <3>3, <3>4, <3>6 DEF TakenBy
    <3>8. tu[n + 1] = IF x \in R THEN Append(b, x) ELSE b
      BY <1>3, <3>1, <3>4, <3>5 DEF TakenBy
    <3>9. Append(a \o b, x) = a \o Append(b, x)
      <4>1. a \in Seq(S) /\ b \in Seq(S) /\ x \in S
        BY <1>6, <3>4, <3>5
      <4>. QED
        BY <4>1
    <3>10. W(n + 1)
      BY <3>2, <3>7, <3>8, <3>9 DEF W
    <3>. QED
      BY <3>1, <3>10
  <2>. HIDE DEF I
  <2>3. 0..Len(u) \subseteq I
    BY <1>1, <2>1, <2>2, BoundedInduction
  <2>. QED
    BY <2>3 DEF I
<1>8. tw[Len(w)] = ts[Len(s)] \o tu[Len(u)]
  <2>1. W(Len(u))
    BY <1>1, <1>7
  <2>. QED
    BY <1>1, <1>6, <2>1
<1>. QED
  BY <1>2, <1>8 DEF Selected, w

LEMMA SelectedEmpty ==
  ASSUME NEW R
  PROVE  Selected(<<>>, R) = <<>>
<1>1. <<>> \in Seq({}) /\ Len(<<>>) = 0
  BY EmptySeq
<1>2. TakenBy(Taken(<<>>, R), <<>>, R, {})
  BY <1>1, TakenFacts, Zenon
<1>. QED
  BY <1>1, <1>2 DEF Selected, TakenBy

LEMMA SelectedOne ==
  ASSUME NEW x, NEW R
  PROVE  Selected(<<x>>, R) = IF x \in R THEN <<x>> ELSE <<>>
<1>. DEFINE s == <<x>>
<1>1. s \in Seq({x}) /\ Len(s) = 1 /\ s[1] = x /\ Append(<<>>, x) = s
  OBVIOUS
<1>. HIDE DEF s
<1>2. TakenBy(Taken(s, R), s, R, {x})
  BY <1>1, TakenFacts, Zenon
<1>3. Taken(s, R)[1] = IF x \in R THEN s ELSE <<>>
  <2>1. 1 \in 1..Len(s) /\ 1 - 1 = 0
    BY <1>1
  <2>. QED
    BY <1>1, <1>2, <2>1 DEF TakenBy
<1>. QED
  BY <1>1, <1>3 DEF Selected, s

LEMMA SelectedType ==
  ASSUME NEW S, NEW s \in Seq(S), NEW R
  PROVE  Selected(s, R) \in Seq(S \cap R)
<1>1. TakenBy(Taken(s, R), s, R, S)
  BY TakenFacts, Zenon
<1>2. Len(s) \in 0..Len(s)
  BY LenProperties
<1>. QED
  BY <1>1, <1>2 DEF Selected, TakenBy

\* Nothing of the set is left out.
LEMMA SelectedKeeps ==
  ASSUME NEW S, NEW s \in Seq(S), NEW R
  PROVE  Elems(s) \cap R \subseteq Elems(Selected(s, R))
<1>1. PICK t : t = Taken(s, R)
  OBVIOUS
<1>2. TakenBy(t, s, R, S)
  BY <1>1, TakenFacts, Zenon
<1>3. Len(s) \in Nat /\ \A n \in 1..Len(s) : s[n] \in S
  BY LenProperties, ElementOfSeq
<1>. DEFINE K(n) == \A i \in 1..n : s[i] \in R => s[i] \in Elems(t[n])
            I == {n \in 0..Len(s) : K(n)}
<1>4. 0 \in I
  BY <1>3
<1>5. ASSUME NEW n \in 0..Len(s), n # Len(s), n \in I
      PROVE  n + 1 \in I
  <2>1. n + 1 \in 1..Len(s) /\ n + 1 - 1 = n /\ n + 1 \in 0..Len(s) /\ K(n)
    BY <1>3, <1>5
  <2>2. t[n] \in Seq(S \cap R)
    BY <1>2 DEF TakenBy
  <2>3. t[n + 1] = IF s[n + 1] \in R THEN Append(t[n], s[n + 1]) ELSE t[n]
    BY <1>2, <2>1 DEF TakenBy
  <2>4. CASE s[n + 1] \in R
    <3>1. s[n + 1] \in S \cap R
      BY <1>3, <2>1, <2>4
    <3>2. Elems(Append(t[n], s[n + 1])) = Elems(t[n]) \cup {s[n + 1]}
      <4>. DEFINE T == S \cap R
      <4>1. PICK q, x : q = t[n] /\ x = s[n + 1]
        OBVIOUS
      <4>2. q \in Seq(T) /\ x \in T
        BY <2>2, <3>1, <4>1
      <4>. HIDE DEF T
      <4>3. Elems(Append(q, x)) = Elems(q) \cup {x}
        BY <4>2, AppendElems
      <4>. QED
        BY <4>1, <4>3
    <3>3. Elems(t[n + 1]) = Elems(t[n]) \cup {s[n + 1]}
      BY <2>3, <2>4, <3>2
    <3>4. \A i \in 1..(n + 1) : i \in 1..n \/ i = n + 1
      OBVIOUS
    <3>5. K(n + 1)
      BY <2>1, <3>3, <3>4
    <3>. QED
      BY <2>1, <3>5
  <2>5. CASE s[n + 1] \notin R
    <3>1. t[n + 1] = t[n]
      BY <2>3, <2>5
    <3>2. \A i \in 1..(n + 1) : i \in 1..n \/ i = n + 1
      OBVIOUS
    <3>3. K(n + 1)
      BY <2>1, <2>5, <3>1, <3>2
    <3>. QED
      BY <2>1, <3>3
  <2>. QED
    BY <2>4, <2>5
<1>. HIDE DEF I
<1>6. 0..Len(s) \subseteq I
  BY <1>3, <1>4, <1>5, BoundedInduction
<1>7. K(Len(s))
  <2>1. Len(s) \in I
    BY <1>3, <1>6
  <2>. QED
    BY <2>1 DEF I
<1>8. \A x \in Elems(s) \cap R : x \in Elems(t[Len(s)])
  <2>1. \A x \in Elems(s) \cap R : \E i \in 1..Len(s) : x = s[i]
    BY DEF Elems
  <2>. QED
    BY <1>7, <2>1
<1>9. Selected(s, R) = t[Len(s)]
  BY <1>1 DEF Selected
<1>. QED
  BY <1>8, <1>9

\* The head of a sequence and what follows it.
LEMMA HeadFirst ==
  ASSUME NEW S, NEW s \in Seq(S), s # <<>>
  PROVE  <<Head(s)>> \o Tail(s) = s
<1>1. Head(s) \in S /\ Tail(s) \in Seq(S) /\ Len(s) \in Nat \ {0}
  BY SeqFacts
<1>. QED
  BY <1>1

\* What is put in front of a sequence is taken off it again.
LEMMA FrontOfConcat ==
  ASSUME NEW S, NEW s \in Seq(S), NEW x \in S
  PROVE  /\ <<x>> \o s # <<>>
         /\ Head(<<x>> \o s) = x
         /\ Tail(<<x>> \o s) = s
OBVIOUS

\* The part of two sequences put together that comes from the first.
LEMMA FirstOfConcat ==
  ASSUME NEW S, NEW s \in Seq(S), NEW u \in Seq(S)
  PROVE  /\ Len(s) \in 0..Len(s \o u)
         /\ SubSeq(s \o u, 1, Len(s)) = s
<1>1. s \o u \in Seq(S) /\ Len(s) \in Nat /\ Len(u) \in Nat /\ Len(s \o u) = Len(s) + Len(u)
  BY ConcatProperties, LenProperties
<1>2. SubSeq(s \o u, 1, Len(s)) = s
  BY <1>1
<1>. QED
  BY <1>1, <1>2

\* Sequences put together may be grouped either way.
LEMMA Regroup ==
  ASSUME NEW S
  PROVE  /\ \A s, t, u \in Seq(S) : (s \o t) \o u = s \o (t \o u)
         /\ \A s, t \in Seq(S) : s \o t \in Seq(S)
<1>1. \A s, t, u \in Seq(S) : (s \o t) \o u = s \o (t \o u)
  <2>1. SUFFICES ASSUME NEW s \in Seq(S), NEW t \in Seq(S), NEW u \in Seq(S)
                 PROVE  (s \o t) \o u = s \o (t \o u)
    OBVIOUS
  <2>. QED
    OBVIOUS
<1>2. \A s, t \in Seq(S) : s \o t \in Seq(S)
  BY ConcatProperties
<1>. QED
  BY <1>1, <1>2

\* Of five sequences put together the first may be split off.
SplitsOff(x, f, q, h, m) == (((x \o f) \o q) \o h) \o m = x \o (((f \o q) \o h) \o m)

LEMMA SplitOff ==
  ASSUME NEW S
  PROVE  \A x, f, q, h, m :
           x \in Seq(S) /\ f \in Seq(S) /\ q \in Seq(S) /\ h \in Seq(S) /\ m \in Seq(S)
             => SplitsOff(x, f, q, h, m)
<1>0. \A s, t \in Seq(S) : s \o t \in Seq(S)
  BY Regroup
<1>1. \A s, t, u \in Seq(S) : (s \o t) \o u = s \o (t \o u)
  BY Regroup
<1>2. SUFFICES ASSUME NEW x, NEW f, NEW q, NEW h, NEW m,
                      x \in Seq(S), f \in Seq(S), q \in Seq(S), h \in Seq(S), m \in Seq(S)
               PROVE  SplitsOff(x, f, q, h, m)
  OBVIOUS
<1>3. f \o q \in Seq(S)
  BY <1>0, <1>2, Zenon
<1>4. (f \o q) \o h \in Seq(S)
  BY <1>0, <1>2, <1>3, Zenon
<1>5. (x \o f) \o q = x \o (f \o q)
  <2>1. x \in Seq(S) /\ f \in Seq(S) /\ q \in Seq(S)
    BY <1>2, Zenon
  <2>. QED
    BY <1>1, <2>1, ZenonT(60)
<1>6. (x \o (f \o q)) \o h = x \o ((f \o q) \o h)
  <2>1. x \in Seq(S) /\ f \o q \in Seq(S) /\ h \in Seq(S)
    BY <1>2, <1>3, Zenon
  <2>. QED
    BY <1>1, <2>1, ZenonT(60)
<1>7. (x \o ((f \o q) \o h)) \o m = x \o (((f \o q) \o h) \o m)
  <2>1. x \in Seq(S) /\ (f \o q) \o h \in Seq(S) /\ m \in Seq(S)
    BY <1>2, <1>4, Zenon
  <2>. QED
    BY <1>1, <2>1, ZenonT(60)
<1>. QED
  BY <1>5, <1>6, <1>7, Zenon DEF SplitsOff

\* If all elements belong to the set, all are selected.
LEMMA SelectedAll ==
  ASSUME NEW S, NEW s \in Seq(S), NEW R, \A i \in 1..Len(s) : s[i] \in R
  PROVE  Selected(s, R) = s
<1>1. Len(s) \in Nat /\ \A i \in 1..Len(s) : s[i] \in S
  BY LenProperties, ElementOfSeq
<1>2. PICK t : t = Taken(s, R)
  OBVIOUS
<1>3. TakenBy(t, s, R, S)
  BY <1>2, TakenFacts, Zenon
<1>. DEFINE I == {n \in 0..Len(s) : t[n] = SubSeq(s, 1, n)}
<1>4. 0 \in I
  <2>1. SubSeq(s, 1, 0) = <<>>
    BY <1>1
  <2>. QED
    BY <1>1, <1>3, <2>1 DEF TakenBy
<1>5. \A n \in 0..Len(s) : n # Len(s) /\ n \in I => n + 1 \in I
  <2>1. SUFFICES ASSUME NEW n \in 0..Len(s), n # Len(s), t[n] = SubSeq(s, 1, n)
                 PROVE  n + 1 \in 0..Len(s) /\ t[n + 1] = SubSeq(s, 1, n + 1)
    OBVIOUS
  <2>2. n + 1 \in 1..Len(s) /\ (n + 1) - 1 = n
    BY <1>1, <2>1
  <2>3. t[n + 1] = Append(t[n], s[n + 1])
    BY <1>3, <2>2 DEF TakenBy
  <2>4. Append(SubSeq(s, 1, n), s[n + 1]) = SubSeq(s, 1, n + 1)
    BY <1>1, <2>2
  <2>. QED
    BY <2>1, <2>2, <2>3, <2>4
<1>. HIDE DEF I
<1>6. 0..Len(s) \subseteq I
  BY <1>1, <1>4, <1>5, BoundedInduction
<1>7. Len(s) \in I
  BY <1>1, <1>6
<1>8. SubSeq(s, 1, Len(s)) = s
  BY <1>1
<1>. QED
  BY <1>2, <1>7, <1>8 DEF I, Selected

\* What r is when it is x and y put together.
ConcatOf(x, y, r, S) ==
  /\ r \in Seq(S) /\ Len(r) = Len(x) + Len(y)
  /\ \A i \in 1..Len(x) : r[i] = x[i]
  /\ \A i \in 1..Len(y) : r[Len(x) + i] = y[i]

LEMMA ConcatParts ==
  \A S : \A x, y \in Seq(S) : ConcatOf(x, y, x \o y, S)
<1>0. SUFFICES ASSUME NEW S, NEW x \in Seq(S), NEW y \in Seq(S)
               PROVE  ConcatOf(x, y, x \o y, S)
  OBVIOUS
<1>1. Len(x) \in Nat /\ Len(y) \in Nat
  BY LenProperties
<1>2. PICK r : r = x \o y
  OBVIOUS
<1>3. /\ r \in Seq(S) /\ Len(r) = Len(x) + Len(y)
      /\ \A i \in 1..Len(x) + Len(y) : r[i] = IF i <= Len(x) THEN x[i] ELSE y[i - Len(x)]
  BY <1>2, ConcatProperties
<1>4. \A i \in 1..Len(x) : i \in 1..Len(x) + Len(y) /\ i <= Len(x)
  BY <1>1
<1>5. \A i \in 1..Len(y) : /\ Len(x) + i \in 1..Len(x) + Len(y)
                         /\ ~(Len(x) + i <= Len(x)) /\ (Len(x) + i) - Len(x) = i
  BY <1>1
<1>. QED
  BY <1>2, <1>3, <1>4, <1>5 DEF ConcatOf
=============================================================================
