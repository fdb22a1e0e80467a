------------------------------ MODULE TextProofs ------------------------------
(***************************************************************************)
(* Proofs about the parts that work on text: the options of the JVM, the   *)
(* session in shared memory, the arguments in a message.                   *)
(***************************************************************************)
EXTENDS JvmOptions, SessionText, ArgumentText, SequenceFacts

-----------------------------------------------------------------------------
(* Sequences that are put together.                                        *)

PiecesOf(f, ss, S) ==
  /\ f \in [0..Len(ss) -> Seq(S)] /\ f[0] = <<>>
  /\ \A n \in 1..Len(ss) : f[n] = f[n - 1] \o ss[n]

\* FlattenSeq(ss) is the last of the sequences that grow by one element of ss after the other.
LEMMA FlattenFacts ==
  \A S : \A ss \in Seq(Seq(S)) : \E f : PiecesOf(f, ss, S) /\ FlattenSeq(ss) = f[Len(ss)]
<1>0. SUFFICES ASSUME NEW S, NEW ss, ss \in Seq(Seq(S))
               PROVE  \E f : PiecesOf(f, ss, S) /\ FlattenSeq(ss) = f[Len(ss)]
  OBVIOUS
<1>. DEFINE m == Len(ss)
            V == Seq(S)
            G == [n \in 1..m |-> [w \in V |-> w \o ss[n]]]
            Solves(g) == g = [i \in 1..m |-> IF i = 1 THEN ss[i] ELSE g[i - 1] \o ss[i]]
<1>1. m \in Nat /\ \A n \in 1..m : ss[n] \in V
  BY <1>0, LenProperties, ElementOfSeq
<1>2. <<>> \in V
  BY EmptySeq
<1>3. G \in [1..m -> [V -> V]]
  <2>1. \A n \in 1..m, w \in V : w \o ss[n] \in V
    BY <1>1, ConcatProperties
  <2>. QED
    BY <2>1
<1>. HIDE DEF V, m
<1>4. PICK f \in [0..m -> V] : f[0] = <<>> /\ \A n \in 1..m : f[n] = G[n][f[n - 1]]
  <2>. HIDE DEF G
  <2>1. PICK W, H, a, k : W = V /\ H = G /\ a = <<>> /\ k = m
    OBVIOUS
  <2>2. k \in Nat /\ a \in W /\ H \in [1..k -> [W -> W]]
    BY <1>1, <1>2, <1>3, <2>1, Zenon
  <2>3. \E h \in [0..k -> W] : h[0] = a /\ \A n \in 1..k : h[n] = H[n][h[n - 1]]
    BY <2>2, Recursion
  <2>. QED
    BY <2>1, <2>3, Zenon
<1>5. \A n \in 1..m : f[n] = f[n - 1] \o ss[n]
  <2>1. \A n \in 1..m : f[n - 1] \in V
    BY <1>1
  <2>. QED
    BY <1>4, <2>1
<1>6. PiecesOf(f, ss, S)
  BY <1>4, <1>5 DEF PiecesOf, m, V
<1>7. CASE m = 0
  <2>1. ss = <<>> /\ FlattenSeq(ss) = ss
    BY <1>7, EmptySeq DEF FlattenSeq, m
  <2>. QED
    BY <1>4, <1>6, <1>7, <2>1 DEF m
<1>8. CASE m # 0
  <2>1. FlattenSeq(ss) = (CHOOSE g : Solves(g))[m]
    BY <1>8 DEF FlattenSeq, m
  <2>2. \A i \in 1..m : f[i] = IF i = 1 THEN ss[i] ELSE f[i - 1] \o ss[i]
    <3>1. SUFFICES ASSUME NEW i \in 1..m, i = 1
                   PROVE  f[i] = ss[i]
      BY <1>5
    <3>2. PICK a, b : a = f[1] /\ b = ss[1]
      OBVIOUS
    <3>3. a = <<>> \o b /\ b \in Seq(S)
      <4>1. 1 \in 1..m /\ 1 - 1 = 0
        BY <1>1, <3>1
      <4>2. f[1] = f[1 - 1] \o ss[1] /\ ss[1] \in V
        BY <1>1, <1>5, <4>1, Zenon
      <4>3. f[1] = <<>> \o ss[1]
        BY <1>4, <4>1, <4>2, Zenon
      <4>. QED
        BY <3>2, <4>2, <4>3, Zenon DEF V
    <3>4. <<>> \o b = b
      BY <3>3
    <3>. QED
      BY <3>1, <3>2, <3>3, <3>4
  <2>3. Solves([i \in 1..m |-> f[i]])
    <3>1. PICK h : h = [i \in 1..m |-> f[i]]
      OBVIOUS
    <3>2. \A i \in 1..m : i # 1 => i - 1 \in 1..m
      BY <1>1
    <3>3. h = [i \in 1..m |-> IF i = 1 THEN ss[i] ELSE h[i - 1] \o ss[i]]
      BY <2>2, <3>1, <3>2
    <3>. QED
      BY <3>1, <3>3
  <2>4. PICK g : g = CHOOSE h : Solves(h)
    OBVIOUS
  <2>5. Solves(g)
    <3>. HIDE DEF Solves
    <3>. QED
      BY <2>3, <2>4
  <2>6. m \in 1..m
    BY <1>1, <1>8
  <2>7. \A i \in 1..m : g[i] = f[i]
    <3>. DEFINE I == {k \in 0..m : k = 0 \/ g[k] = f[k]}
    <3>1. 0 \in I
      BY <1>1
    <3>2. \A k \in 0..m : k # m /\ k \in I => k + 1 \in I
      <4>1. SUFFICES ASSUME NEW k \in 0..m, k # m, k = 0 \/ g[k] = f[k]
                     PROVE  k + 1 \in 0..m /\ g[k + 1] = f[k + 1]
        OBVIOUS
      <4>2. PICK i : i = k + 1
        OBVIOUS
      <4>3. i \in 1..m /\ i - 1 = k /\ (i = 1 <=> k = 0)
        BY <1>1, <4>1, <4>2
      <4>4. g[i] = IF i = 1 THEN ss[i] ELSE g[i - 1] \o ss[i]
        BY <2>5, <4>3
      <4>5. f[i] = IF i = 1 THEN ss[i] ELSE f[i - 1] \o ss[i]
        BY <2>2, <4>3
      <4>6. g[i] = f[i]
        BY <4>1, <4>3, <4>4, <4>5
      <4>. QED
        BY <1>1, <4>2, <4>3, <4>6
    <3>. HIDE DEF I, Solves
    <3>3. 0..m \subseteq I
      BY <1>1, <3>1, <3>2, BoundedInduction
    <3>4. \A i \in 1..m : i \in 0..m /\ i # 0
      BY <1>1
    <3>. QED
      BY <3>3, <3>4 DEF I
  <2>. QED
    BY <1>6, <2>1, <2>4, <2>6, <2>7 DEF m
<1>. QED
  BY <1>7, <1>8

\* What each element adds can be found in the whole.
LEMMA PiecesFacts ==
  ASSUME NEW S, NEW ss \in Seq(Seq(S)), NEW f, PiecesOf(f, ss, S), NEW n \in 0..Len(ss)
  PROVE  \A m \in n..Len(ss) : Len(f[n]) <= Len(f[m]) /\ \A j \in 1..Len(f[n]) : f[m][j] = f[n][j]
<1>1. Len(ss) \in Nat /\ \A k \in 1..Len(ss) : ss[k] \in Seq(S) /\ Len(ss[k]) \in Nat
  BY LenProperties, ElementOfSeq
<1>2. \A k \in 0..Len(ss) : f[k] \in Seq(S) /\ Len(f[k]) \in Nat
  BY LenProperties DEF PiecesOf
<1>. DEFINE top == Len(ss) - n
            Extends(m) == Len(f[n]) <= Len(f[m]) /\ \A j \in 1..Len(f[n]) : f[m][j] = f[n][j]
            I == {k \in 0..top : Extends(n + k)}
<1>3. 0 \in I
  <2>1. n + 0 = n /\ 0 \in 0..top
    BY <1>1
  <2>2. Extends(n)
    BY <1>2
  <2>. QED
    BY <2>1, <2>2
<1>4. \A k \in 0..top : k # top /\ k \in I => k + 1 \in I
  <2>1. SUFFICES ASSUME NEW k \in 0..top, k # top, Extends(n + k)
                 PROVE  Extends(n + (k + 1)) /\ k + 1 \in 0..top
    OBVIOUS
  <2>2. PICK i : i = n + (k + 1)
    OBVIOUS
  <2>3. i \in 1..Len(ss) /\ i - 1 = n + k /\ i - 1 \in 0..Len(ss) /\ k + 1 \in 0..top
    BY <1>1, <2>1, <2>2
  <2>4. PICK p, q, r, s : p = f[n] /\ q = f[i - 1] /\ r = f[i] /\ s = ss[i]
    OBVIOUS
  <2>5. p \in Seq(S) /\ q \in Seq(S) /\ s \in Seq(S) /\ r = q \o s
    BY <1>1, <1>2, <2>3, <2>4 DEF PiecesOf
  <2>6. Len(p) \in Nat /\ Len(q) \in Nat /\ Len(s) \in Nat
    BY <2>5, LenProperties
  <2>7. Len(r) = Len(q) + Len(s) /\ \A j \in 1..Len(q) : r[j] = q[j]
    BY <2>5, <2>6, ConcatProperties
  <2>8. Len(p) <= Len(q) /\ \A j \in 1..Len(p) : q[j] = p[j]
    BY <2>1, <2>3, <2>4
  <2>9. Len(p) <= Len(r) /\ \A j \in 1..Len(p) : r[j] = p[j]
    BY <2>6, <2>7, <2>8
  <2>. QED
    BY <2>2, <2>3, <2>4, <2>9
<1>. HIDE DEF I
<1>5. 0..top \subseteq I
  <2>1. top \in Nat
    BY <1>1
  <2>. HIDE DEF top
  <2>. QED
    BY <1>3, <1>4, <2>1, BoundedInduction
<1>6. \A m \in n..Len(ss) : m - n \in I /\ n + (m - n) = m
  BY <1>1, <1>5
<1>. QED
  BY <1>6 DEF I

\* Short sequences.
LEMMA TwoOf == \A x, y : <<x>> \o <<y>> = <<x, y>>
<1>1. SUFFICES ASSUME NEW x, NEW y
               PROVE  <<x>> \o <<y>> = <<x, y>>
  OBVIOUS
<1>2. PICK S, s, t, u, w : S = {x, y} /\ s = <<x>> /\ t = <<y>> /\ u = s \o t /\ w = <<x, y>>
  OBVIOUS
<1>3. s \in Seq(S) /\ t \in Seq(S) /\ Len(s) = 1 /\ Len(t) = 1 /\ s[1] = x /\ t[1] = y
  BY <1>2
<1>4. w \in Seq(S) /\ Len(w) = 2 /\ w[1] = x /\ w[2] = y
  BY <1>2
<1>5. ConcatOf(s, t, u, S)
  BY <1>2, <1>3, ConcatParts
<1>6. u \in Seq(S) /\ Len(u) = 2 /\ u[1] = x /\ u[2] = y
  <2>1. 1 \in 1..1 /\ 1 + 1 = 2
    OBVIOUS
  <2>. QED
    BY <1>3, <1>5, <2>1 DEF ConcatOf
<1>7. \A i \in 1..2 : u[i] = w[i]
  <2>1. \A i \in 1..2 : i = 1 \/ i = 2
    OBVIOUS
  <2>. QED
    BY <1>4, <1>6, <2>1
<1>8. u = w
  BY <1>4, <1>6, <1>7, SeqEqual
<1>. QED
  BY <1>2, <1>8

\* A sequence and one element more.
LEMMA OneMore ==
  ASSUME NEW S, NEW s, NEW x, s \in Seq(S), x \in S
  PROVE  s \o <<x>> = Append(s, x)
OBVIOUS

LEMMA OneLonger ==
  ASSUME NEW S, NEW t, NEW w, NEW x, NEW n \in Nat, t \in Seq(S), w \in Seq(S), x \in S,
         Len(t) = n, Len(w) = n + 1, w[n + 1] = x, \A i \in 1..n : w[i] = t[i]
  PROVE  t \o <<x>> = w
<1>1. PICK u, k : u = t \o <<x>> /\ k = n + 1
  OBVIOUS
<1>2. u = Append(t, x)
  BY <1>1, OneMore
<1>3. u \in Seq(S) /\ Len(u) = k /\ u[k] = x /\ \A i \in 1..n : u[i] = t[i]
  BY <1>1, <1>2, AppendProperties
<1>4. \A i \in 1..k : i \in 1..n \/ i = k
  BY <1>1
<1>5. \A i \in 1..k : u[i] = w[i]
  BY <1>1, <1>3, <1>4
<1>6. u = w
  BY <1>1, <1>3, <1>5, SeqEqual
<1>. QED
  BY <1>1, <1>6

LEMMA FiveOf ==
  \A a, b, c, d, e : <<a>> \o <<b>> \o <<c>> \o <<d>> \o <<e>> = <<a, b, c, d, e>>
<1>0. SUFFICES ASSUME NEW a, NEW b, NEW c, NEW d, NEW e
               PROVE  <<a>> \o <<b>> \o <<c>> \o <<d>> \o <<e>> = <<a, b, c, d, e>>
  OBVIOUS
<1>1. PICK S : S = {a, b, c, d, e}
  OBVIOUS
<1>2. a \in S /\ b \in S /\ c \in S /\ d \in S /\ e \in S
  BY <1>1
<1>3. <<a>> \o <<b>> = <<a, b>>
  BY TwoOf
<1>4. <<a, b>> \o <<c>> = <<a, b, c>>
  <2>1. PICK t, w : t = <<a, b>> /\ w = <<a, b, c>>
    OBVIOUS
  <2>2. t \in Seq(S) /\ Len(t) = 2 /\ t[1] = a /\ t[2] = b
    BY <1>2, <2>1
  <2>3. w \in Seq(S) /\ Len(w) = 2 + 1 /\ w[2 + 1] = c /\ w[1] = a /\ w[2] = b /\ w[3] = c
    BY <1>2, <2>1
  <2>4. \A i \in 1..2 : i = 1 \/ i = 2
    OBVIOUS
  <2>5. \A i \in 1..2 : w[i] = t[i]
    BY <2>2, <2>3, <2>4
  <2>6. t \o <<c>> = w
    BY <1>2, <2>2, <2>3, <2>5, OneLonger
  <2>. QED
    BY <2>1, <2>6
<1>5. <<a, b, c>> \o <<d>> = <<a, b, c, d>>
  <2>1. PICK t, w : t = <<a, b, c>> /\ w = <<a, b, c, d>>
    OBVIOUS
  <2>2. t \in Seq(S) /\ Len(t) = 3 /\ t[1] = a /\ t[2] = b /\ t[3] = c
    BY <1>2, <2>1
  <2>3. w \in Seq(S) /\ Len(w) = 3 + 1 /\ w[3 + 1] = d /\ w[1] = a /\ w[2] = b /\ w[3] = c /\ w[4] = d
    BY <1>2, <2>1
  <2>4. \A i \in 1..3 : i = 1 \/ i = 2 \/ i = 3
    OBVIOUS
  <2>5. \A i \in 1..3 : w[i] = t[i]
    BY <2>2, <2>3, <2>4
  <2>6. t \o <<d>> = w
    BY <1>2, <2>2, <2>3, <2>5, OneLonger
  <2>. QED
    BY <2>1, <2>6
<1>6. <<a, b, c, d>> \o <<e>> = <<a, b, c, d, e>>
  <2>1. PICK t, w : t = <<a, b, c, d>> /\ w = <<a, b, c, d, e>>
    OBVIOUS
  <2>2. t \in Seq(S) /\ Len(t) = 4 /\ t[1] = a /\ t[2] = b /\ t[3] = c /\ t[4] = d
    BY <1>2, <2>1
  <2>3. w \in Seq(S) /\ Len(w) = 4 + 1 /\ w[4 + 1] = e /\ w[1] = a /\ w[2] = b /\ w[3] = c /\ w[4] = d /\ w[5] = e
    BY <1>2, <2>1
  <2>4. \A i \in 1..4 : i = 1 \/ i = 2 \/ i = 3 \/ i = 4
    OBVIOUS
  <2>5. \A i \in 1..4 : w[i] = t[i]
    BY <2>2, <2>3, <2>4
  <2>6. t \o <<e>> = w
    BY <1>2, <2>2, <2>3, <2>5, OneLonger
  <2>. QED
    BY <2>1, <2>6
<1>. QED
  BY <1>3, <1>4, <1>5, <1>6, Zenon

\* A function on 1..n as a sequence.
LEMMA IndexedSeq ==
  ASSUME NEW S, NEW n \in Nat, NEW f, f = [i \in 1..n |-> f[i]], \A i \in 1..n : f[i] \in S
  PROVE  f \in Seq(S) /\ Len(f) = n
<1>1. f \in [1..n -> S]
  OBVIOUS
<1>. QED
  BY <1>1

\* Concatenations grouped in another way.
Grouped(s, t, u) == (s \o t) \o u = s \o (t \o u)

LEMMA Regrouped ==
  \A S : \A s, t, u \in Seq(S) : Grouped(s, t, u)
  BY Regroup DEF Grouped

GroupedFive(a, b, c, d, e) == (((a \o b) \o c) \o d) \o e = a \o (b \o (c \o (d \o e)))

LEMMA FiveParts ==
  \A S : \A a, b, c, d, e \in Seq(S) : GroupedFive(a, b, c, d, e)
<1>0. SUFFICES ASSUME NEW S, NEW a \in Seq(S), NEW b \in Seq(S), NEW c \in Seq(S), NEW d \in Seq(S), NEW e \in Seq(S)
               PROVE  GroupedFive(a, b, c, d, e)
  OBVIOUS
<1>1. a \in Seq(S) /\ b \in Seq(S) /\ c \in Seq(S) /\ d \in Seq(S) /\ e \in Seq(S)
  OBVIOUS
<1>2. PICK ab, abc, de, cde : ab = a \o b /\ abc = ab \o c /\ de = d \o e /\ cde = c \o de
  OBVIOUS
<1>3. ab \in Seq(S) /\ de \in Seq(S)
  BY <1>1, <1>2, ConcatProperties
<1>4. abc \in Seq(S) /\ cde \in Seq(S)
  BY <1>1, <1>2, <1>3, ConcatProperties
<1>5. Grouped(abc, d, e) /\ Grouped(ab, c, de) /\ Grouped(a, b, cde)
  BY <1>1, <1>3, <1>4, Regrouped
<1>. QED
  BY <1>2, <1>5, Zenon DEF Grouped, GroupedFive

\* The least element of a set of numbers.
LEMMA LeastIs ==
  ASSUME NEW I, I \subseteq Nat, NEW n \in I, \A i \in I : n <= i
  PROVE  I # {} /\ Min(I) = n
<1>1. \A x \in I : (\A y \in I : x <= y) => x = n
  <2>1. SUFFICES ASSUME NEW x \in I, \A y \in I : x <= y
                 PROVE  x = n
    OBVIOUS
  <2>2. x <= n /\ n <= x /\ x \in Nat /\ n \in Nat
    BY <2>1
  <2>. QED
    BY <2>2
<1>. QED
  BY <1>1 DEF Min

-----------------------------------------------------------------------------
(* The options of the JVM: where the selected elements come from.          *)

\* p says for each element of u its place among the first n of s; all of R have one.
PlacesOf(p, u, s, n, R) ==
  /\ p \in [1..Len(u) -> 1..n]
  /\ \A i, j \in 1..Len(u) : i < j => p[i] < p[j]
  /\ \A i \in 1..Len(u) : u[i] = s[p[i]] /\ s[p[i]] \in R
  /\ \A k \in 1..n : s[k] \in R => \E i \in 1..Len(u) : p[i] = k

\* One more element.
LEMMA PlacesGrow ==
  ASSUME NEW S, NEW s \in Seq(S), NEW R, NEW u, u \in Seq(S), NEW n \in Nat, n + 1 \in 1..Len(s),
         NEW p, PlacesOf(p, u, s, n, R)
  PROVE  /\ s[n + 1] \notin R => PlacesOf(p, u, s, n + 1, R)
         /\ s[n + 1] \in R => \E q : PlacesOf(q, Append(u, s[n + 1]), s, n + 1, R)
<1>1. Len(u) \in Nat /\ Len(s) \in Nat /\ s[n + 1] \in S
  BY LenProperties, ElementOfSeq
<1>2. ASSUME s[n + 1] \notin R
      PROVE  PlacesOf(p, u, s, n + 1, R)
  <2>1. p \in [1..Len(u) -> 1..(n + 1)]
    BY DEF PlacesOf
  <2>2. \A k \in 1..(n + 1) : s[k] \in R => k \in 1..n
    BY <1>2
  <2>. QED
    BY <2>1, <2>2 DEF PlacesOf
<1>3. ASSUME s[n + 1] \in R
      PROVE  \E q : PlacesOf(q, Append(u, s[n + 1]), s, n + 1, R)
  <2>. DEFINE q == [i \in 1..(Len(u) + 1) |-> IF i = Len(u) + 1 THEN n + 1 ELSE p[i]]
  <2>1. PICK w : w = Append(u, s[n + 1])
    OBVIOUS
  <2>2. Len(w) = Len(u) + 1 /\ w[Len(u) + 1] = s[n + 1] /\ \A i \in 1..Len(u) : w[i] = u[i]
    BY <1>1, <2>1, AppendProperties
  <2>3. \A i \in 1..Len(w) : i \in 1..Len(u) \/ i = Len(u) + 1
    BY <1>1, <2>2
  <2>4. \A i \in 1..Len(u) : q[i] = p[i] /\ p[i] \in 1..n /\ i # Len(u) + 1
    BY <1>1 DEF PlacesOf
  <2>5. q[Len(u) + 1] = n + 1 /\ Len(u) + 1 \in 1..Len(w)
    BY <1>1, <2>2
  <2>6. q \in [1..Len(w) -> 1..(n + 1)]
    <3>1. p \in [1..Len(u) -> 1..n]
      BY DEF PlacesOf
    <3>2. \A i \in 1..(Len(u) + 1) : i = Len(u) + 1 \/ p[i] \in 1..(n + 1)
      BY <1>1, <3>1
    <3>3. q \in [1..(Len(u) + 1) -> 1..(n + 1)]
      BY <3>2
    <3>. QED
      BY <2>2, <3>3, Zenon
  <2>. HIDE DEF q
  <2>7. \A i, j \in 1..Len(w) : i < j => q[i] < q[j]
    <3>1. SUFFICES ASSUME NEW i \in 1..Len(w), NEW j \in 1..Len(w), i < j
                   PROVE  q[i] < q[j]
      OBVIOUS
    <3>2. i \in 1..Len(u)
      BY <1>1, <2>2, <3>1
    <3>3. CASE j = Len(u) + 1
      BY <2>4, <2>5, <3>2, <3>3
    <3>4. CASE j \in 1..Len(u)
      BY <2>4, <3>1, <3>2, <3>4 DEF PlacesOf
    <3>. QED
      BY <2>3, <3>3, <3>4
  <2>8. \A i \in 1..Len(w) : w[i] = s[q[i]] /\ s[q[i]] \in R
    <3>1. \A i \in 1..Len(u) : w[i] = s[q[i]] /\ s[q[i]] \in R
      BY <2>2, <2>4 DEF PlacesOf
    <3>. QED
      BY <1>3, <2>2, <2>3, <2>5, <3>1
  <2>9. \A k \in 1..(n + 1) : s[k] \in R => \E i \in 1..Len(w) : q[i] = k
    <3>1. SUFFICES ASSUME NEW k \in 1..(n + 1), s[k] \in R
                   PROVE  \E i \in 1..Len(w) : q[i] = k
      OBVIOUS
    <3>2. CASE k = n + 1
      BY <2>5, <3>2
    <3>3. CASE k \in 1..n
      <4>1. PICK i \in 1..Len(u) : p[i] = k
        BY <3>1, <3>3 DEF PlacesOf
      <4>. QED
        BY <1>1, <2>2, <2>4, <4>1
    <3>. QED
      BY <3>2, <3>3
  <2>10. PlacesOf(q, w, s, n + 1, R)
    BY <2>6, <2>7, <2>8, <2>9 DEF PlacesOf
  <2>. QED
    BY <2>1, <2>10
<1>. QED
  BY <1>2, <1>3

LEMMA SelectedPlaces ==
  ASSUME NEW S, NEW s \in Seq(S), NEW R
  PROVE  \E p : PlacesOf(p, Selected(s, R), s, Len(s), R)
<1>1. Len(s) \in Nat
  BY LenProperties
<1>2. PICK t : t = Taken(s, R)
  OBVIOUS
<1>3. TakenBy(t, s, R, S)
  BY <1>2, TakenFacts, Zenon
<1>4. \A n \in 0..Len(s) : t[n] \in Seq(S)
  <2>1. Seq(S \cap R) \subseteq Seq(S)
    BY SeqMonotonic
  <2>. QED
    BY <1>3, <2>1 DEF TakenBy
<1>. DEFINE Placed(n) == \E p : PlacesOf(p, t[n], s, n, R)
            I == {n \in 0..Len(s) : Placed(n)}
<1>5. 0 \in I
  <2>1. t[0] = <<>> /\ Len(<<>>) = 0
    BY <1>3 DEF TakenBy
  <2>2. PlacesOf(<<>>, <<>>, s, 0, R)
    BY DEF PlacesOf
  <2>. QED
    BY <1>1, <2>1, <2>2
<1>6. \A n \in 0..Len(s) : n # Len(s) /\ n \in I => n + 1 \in I
  <2>1. SUFFICES ASSUME NEW n \in 0..Len(s), n # Len(s), Placed(n)
                 PROVE  n + 1 \in 0..Len(s) /\ Placed(n + 1)
    OBVIOUS
  <2>2. PICK p : PlacesOf(p, t[n], s, n, R)
    BY <2>1
  <2>3. n + 1 \in 1..Len(s) /\ n + 1 \in 0..Len(s) /\ n + 1 - 1 = n /\ n \in Nat
    BY <1>1, <2>1
  <2>4. PICK u : u = t[n]
    OBVIOUS
  <2>5. u \in Seq(S) /\ PlacesOf(p, u, s, n, R)
    BY <1>4, <2>2, <2>4
  <2>6. t[n + 1] = IF s[n + 1] \in R THEN Append(u, s[n + 1]) ELSE u
    BY <1>3, <2>3, <2>4 DEF TakenBy
  <2>7. /\ s[n + 1] \notin R => PlacesOf(p, u, s, n + 1, R)
        /\ s[n + 1] \in R => \E q : PlacesOf(q, Append(u, s[n + 1]), s, n + 1, R)
    BY <2>3, <2>5, PlacesGrow
  <2>8. Placed(n + 1)
    BY <2>6, <2>7
  <2>. QED
    BY <2>3, <2>8
<1>. HIDE DEF I
<1>7. 0..Len(s) \subseteq I
  BY <1>1, <1>5, <1>6, BoundedInduction
<1>8. Placed(Len(s))
  BY <1>1, <1>7 DEF I
<1>. QED
  BY <1>2, <1>8 DEF Selected

\* How much two sets select that share nothing and leave nothing out.
LEMMA SelectedCounts ==
  ASSUME NEW S, NEW s \in Seq(S), NEW Q, NEW R, \A n \in 1..Len(s) : s[n] \in Q <=> s[n] \notin R
  PROVE  Len(Selected(s, Q)) + Len(Selected(s, R)) = Len(s)
<1>1. Len(s) \in Nat /\ \A n \in 1..Len(s) : s[n] \in S
  BY LenProperties, ElementOfSeq
<1>2. PICK t, u : t = Taken(s, Q) /\ u = Taken(s, R)
  OBVIOUS
<1>3. TakenBy(t, s, Q, S) /\ TakenBy(u, s, R, S)
  BY <1>2, TakenFacts, Zenon
<1>4. \A n \in 0..Len(s) : t[n] \in Seq(S) /\ u[n] \in Seq(S)
  <2>1. Seq(S \cap Q) \subseteq Seq(S) /\ Seq(S \cap R) \subseteq Seq(S)
    BY SeqMonotonic
  <2>. QED
    BY <1>3, <2>1 DEF TakenBy
<1>. DEFINE I == {n \in 0..Len(s) : Len(t[n]) + Len(u[n]) = n}
<1>5. 0 \in I
  <2>1. t[0] = <<>> /\ u[0] = <<>> /\ Len(<<>>) = 0
    BY <1>3 DEF TakenBy
  <2>2. Len(t[0]) + Len(u[0]) = 0 /\ 0 \in 0..Len(s)
    BY <1>1, <2>1
  <2>. QED
    BY <2>2
<1>6. \A n \in 0..Len(s) : n # Len(s) /\ n \in I => n + 1 \in I
  <2>1. SUFFICES ASSUME NEW n \in 0..Len(s), n # Len(s), Len(t[n]) + Len(u[n]) = n
                 PROVE  n + 1 \in 0..Len(s) /\ Len(t[n + 1]) + Len(u[n + 1]) = n + 1
    OBVIOUS
  <2>2. n + 1 \in 1..Len(s) /\ n + 1 - 1 = n
    BY <1>1, <2>1
  <2>3. PICK a, b, x : a = t[n] /\ b = u[n] /\ x = s[n + 1]
    OBVIOUS
  <2>4. a \in Seq(S) /\ b \in Seq(S) /\ x \in S /\ (x \in Q <=> x \notin R)
    BY <1>1, <1>4, <2>1, <2>2, <2>3
  <2>5. t[n + 1] = IF x \in Q THEN Append(a, x) ELSE a
    BY <1>3, <2>2, <2>3 DEF TakenBy
  <2>6. u[n + 1] = IF x \in R THEN Append(b, x) ELSE b
    BY <1>3, <2>2, <2>3 DEF TakenBy
  <2>7. Len(a) \in Nat /\ Len(b) \in Nat /\ Len(Append(a, x)) = Len(a) + 1 /\ Len(Append(b, x)) = Len(b) + 1
    BY <2>4, LenProperties, AppendProperties
  <2>8. Len(a) + Len(b) = n
    BY <2>1, <2>3
  <2>9. CASE x \in Q
    <3>1. Len(t[n + 1]) = Len(a) + 1 /\ u[n + 1] = b
      BY <2>4, <2>5, <2>6, <2>7, <2>9
    <3>. QED
      BY <1>1, <2>2, <2>7, <2>8, <3>1
  <2>10. CASE x \in R
    <3>1. Len(u[n + 1]) = Len(b) + 1 /\ t[n + 1] = a
      BY <2>4, <2>5, <2>6, <2>7, <2>10
    <3>. QED
      BY <1>1, <2>2, <2>7, <2>8, <3>1
  <2>. QED
    BY <2>4, <2>9, <2>10
<1>. HIDE DEF I
<1>7. 0..Len(s) \subseteq I
  BY <1>1, <1>5, <1>6, BoundedInduction
<1>8. Len(s) \in I
  BY <1>1, <1>7
<1>. QED
  BY <1>2, <1>8 DEF I, Selected

-----------------------------------------------------------------------------
(* The options as they are given and as they come to the command line.     *)

\* The first library path of a list.
FirstLibrary(at, s) ==
  \/ at = 0 /\ \A j \in 1..Len(s) : ~IsLibraryPath(s[j])
  \/ at \in 1..Len(s) /\ IsLibraryPath(s[at]) /\ \A j \in 1..Len(s) : j < at => ~IsLibraryPath(s[j])

LEMMA FirstLibraryFacts ==
  ASSUME NEW s
  PROVE  FirstLibrary(SelectInSeq(s, IsLibraryPath), s)
<1>. DEFINE I == {i \in 1..Len(s) : IsLibraryPath(s[i])}
            at == SelectInSeq(s, IsLibraryPath)
<1>1. at = IF I # {} THEN CHOOSE x \in I : \A y \in I : x <= y ELSE 0
  BY DEF SelectInSeq, Min
<1>2. CASE I = {}
  BY <1>1, <1>2 DEF FirstLibrary
<1>3. CASE I # {}
  <2>1. \E x \in I : \A y \in I : x <= y
    <3>1. I \subseteq Nat
      OBVIOUS
    <3>. HIDE DEF I
    <3>. QED
      BY <1>3, <3>1, LeastNumber
  <2>2. at \in I /\ \A y \in I : at <= y
    <3>. HIDE DEF I, at
    <3>. QED
      BY <1>1, <1>3, <2>1
  <2>3. PICK a : a = at
    OBVIOUS
  <2>4. a \in 1..Len(s) /\ IsLibraryPath(s[a]) /\ \A y \in 1..Len(s) : IsLibraryPath(s[y]) => a <= y
    BY <2>2, <2>3
  <2>5. \A y \in 1..Len(s) : y < a => ~(a <= y)
    BY <2>4
  <2>6. FirstLibrary(a, s)
    BY <2>4, <2>5 DEF FirstLibrary
  <2>. QED
    BY <2>3, <2>6
<1>. QED
  BY <1>2, <1>3

\* What is an option.
LEMMA OptionFacts ==
  /\ OwnLibrary \in Options
  /\ \A o \in Options, v \in Seq(ValueParts) : [o EXCEPT !.value = v] \in Options
  /\ \A o \in Options : /\ o.value \in Seq(ValueParts) /\ <<"exe">> \o o.value \in Seq(ValueParts)
                        /\ o.is = "classpath" => o.prefix = "-Djava.class.path"
                        /\ o.is = "cwd" => o.prefix = "-Duser.dir"
<1>1. <<"exe">> \in Seq(ValueParts)
  BY OptionsAssumption
<1>2. OwnLibrary \in Options
  BY <1>1, OptionsAssumption DEF OwnLibrary, Options
<1>3. \A o \in Options, v \in Seq(ValueParts) : [o EXCEPT !.value = v] \in Options
  BY DEF Options
<1>4. \A o \in Options : o.value \in Seq(ValueParts)
  BY DEF Options
<1>5. \A v \in Seq(ValueParts) : <<"exe">> \o v \in Seq(ValueParts)
  BY <1>1, ConcatProperties
<1>6. \A o \in Options : /\ o.is = "classpath" => o.prefix = "-Djava.class.path"
                         /\ o.is = "cwd" => o.prefix = "-Duser.dir"
  BY DEF Options
<1>. QED
  BY <1>2, <1>3, <1>4, <1>5, <1>6

\* The option that stands for the added one, and what becomes of it.
LibraryGiven == [prefix |-> "-djava.library.path", is |-> "library", value |-> <<>>]
Leading(o) == [o EXCEPT !.value = <<"exe">> \o @]

LEMMA LeadingFacts ==
  /\ LibraryGiven \in Options /\ IsLibraryPath(LibraryGiven) /\ Leading(LibraryGiven) = OwnLibrary
  /\ \A o \in Options : /\ Leading(o) \in Options /\ Leading(o).prefix = o.prefix /\ Leading(o).is = o.is
                        /\ Leading(o).value = <<"exe">> \o o.value
<1>1. <<>> \in Seq(ValueParts) /\ <<"exe">> \o <<>> = <<"exe">>
  <2>1. <<"exe">> \in Seq({"exe"})
    OBVIOUS
  <2>. QED
    BY <2>1, EmptySeq, ConcatEmptySeq
<1>2. LibraryGiven \in Options
  BY <1>1, OptionsAssumption DEF LibraryGiven, Options
<1>3. LibraryGiven.is = "library" /\ LibraryGiven.value = <<>>
  BY DEF LibraryGiven
<1>4. Leading(LibraryGiven) = OwnLibrary
  BY <1>1 DEF LibraryGiven, Leading, OwnLibrary
<1>5. \A o \in Options : /\ Leading(o) \in Options /\ Leading(o).prefix = o.prefix /\ Leading(o).is = o.is
                         /\ Leading(o).value = <<"exe">> \o o.value
  <2>1. SUFFICES ASSUME NEW o \in Options
                 PROVE  /\ Leading(o) \in Options /\ Leading(o).prefix = o.prefix /\ Leading(o).is = o.is
                        /\ Leading(o).value = <<"exe">> \o o.value
    OBVIOUS
  <2>2. PICK v : v = <<"exe">> \o o.value
    OBVIOUS
  <2>3. v \in Seq(ValueParts)
    BY <2>2, OptionFacts
  <2>4. Leading(o) = [o EXCEPT !.value = v]
    BY <2>2 DEF Leading
  <2>5. Leading(o) \in Options
    BY <2>3, <2>4, OptionFacts
  <2>6. DOMAIN o = {"prefix", "is", "value"}
    BY DEF Options
  <2>. QED
    BY <2>2, <2>4, <2>5, <2>6
<1>. QED
  BY <1>2, <1>3, <1>4, <1>5 DEF IsLibraryPath

\* The configured options, completed by the one for the added path, before and after it is prepended.
Completed(opts) ==
  opts \o (IF \E n \in DOMAIN opts : IsLibraryPath(opts[n]) THEN <<>> ELSE <<LibraryGiven>>)
Leads(s, k) == IsLibraryPath(s[k]) /\ \A j \in 1..Len(s) : j < k => ~IsLibraryPath(s[j])

PrependedTo(r, s) ==
  /\ r \in Seq(Options) /\ s \in Seq(Options) /\ Len(r) = Len(s) /\ Len(s) # 0
  /\ \A k \in 1..Len(s) : r[k] = IF Leads(s, k) THEN Leading(s[k]) ELSE s[k]

LEMMA PrependedFacts ==
  ASSUME NEW opts, opts \in Seq(Options)
  PROVE  PrependedTo(Prepended(opts), Completed(opts))
<1>1. Len(opts) \in Nat /\ DOMAIN opts = 1..Len(opts) /\ \A n \in 1..Len(opts) : opts[n] \in Options
  BY LenProperties, ElementOfSeq
<1>2. PICK at : at = SelectInSeq(opts, IsLibraryPath)
  OBVIOUS
<1>3. FirstLibrary(at, opts)
  BY <1>2, FirstLibraryFacts
<1>4. PICK s, r : s = Completed(opts) /\ r = Prepended(opts)
  OBVIOUS
<1>5. r = IF at = 0 THEN Append(opts, OwnLibrary) ELSE [opts EXCEPT ![at].value = <<"exe">> \o @]
  BY <1>2, <1>4 DEF Prepended
<1>6. CASE at = 0
  <2>1. \A j \in 1..Len(opts) : ~IsLibraryPath(opts[j])
    BY <1>3, <1>6 DEF FirstLibrary
  <2>2. s = opts \o <<LibraryGiven>>
    <3>1. ~\E n \in DOMAIN opts : IsLibraryPath(opts[n])
      BY <1>1, <2>1
    <3>. QED
      BY <1>4, <3>1 DEF Completed
  <2>3. s = Append(opts, LibraryGiven)
    BY <2>2, LeadingFacts
  <2>4. /\ s \in Seq(Options) /\ Len(s) = Len(opts) + 1 /\ s[Len(opts) + 1] = LibraryGiven
        /\ \A k \in 1..Len(opts) : s[k] = opts[k]
    BY <2>3, <1>1, LeadingFacts, AppendProperties
  <2>5. /\ r \in Seq(Options) /\ Len(r) = Len(opts) + 1 /\ r[Len(opts) + 1] = OwnLibrary
        /\ \A k \in 1..Len(opts) : r[k] = opts[k]
    BY <1>5, <1>6, <1>1, OptionFacts, AppendProperties
  <2>6. \A k \in 1..Len(s) : k \in 1..Len(opts) \/ k = Len(opts) + 1
    BY <1>1, <2>4
  <2>7. \A k \in 1..Len(opts) : ~Leads(s, k)
    BY <2>1, <2>4 DEF Leads
  <2>8. Leads(s, Len(opts) + 1)
    <3>1. \A j \in 1..Len(s) : j < Len(opts) + 1 => j \in 1..Len(opts)
      BY <1>1, <2>4
    <3>. QED
      BY <2>1, <2>4, <3>1, LeadingFacts DEF Leads
  <2>9. \A k \in 1..Len(s) : r[k] = IF Leads(s, k) THEN Leading(s[k]) ELSE s[k]
    BY <2>4, <2>5, <2>6, <2>7, <2>8, LeadingFacts
  <2>10. Len(r) = Len(s) /\ Len(s) # 0
    BY <1>1, <2>4, <2>5
  <2>. QED
    BY <1>4, <2>4, <2>5, <2>9, <2>10 DEF PrependedTo
<1>7. CASE at # 0
  <2>1. at \in 1..Len(opts) /\ IsLibraryPath(opts[at]) /\ \A j \in 1..Len(opts) : j < at => ~IsLibraryPath(opts[j])
    BY <1>3, <1>7 DEF FirstLibrary
  <2>2. s = opts
    <3>1. \E n \in DOMAIN opts : IsLibraryPath(opts[n])
      BY <1>1, <2>1
    <3>2. s = opts \o <<>>
      BY <1>4, <3>1 DEF Completed
    <3>. QED
      BY <3>2, ConcatEmptySeq
  <2>3. r = [opts EXCEPT ![at] = Leading(opts[at])]
    BY <1>5, <1>7 DEF Leading
  <2>4. Leading(opts[at]) \in Options
    BY <1>1, <2>1, LeadingFacts
  <2>5. /\ r \in Seq(Options) /\ Len(r) = Len(opts)
        /\ \A k \in 1..Len(opts) : r[k] = IF k = at THEN Leading(opts[at]) ELSE opts[k]
    BY <1>1, <2>1, <2>3, <2>4, ExceptSeq
  <2>6. \A k \in 1..Len(opts) : Leads(opts, k) <=> k = at
    <3>1. SUFFICES ASSUME NEW k \in 1..Len(opts)
                   PROVE  Leads(opts, k) <=> k = at
      OBVIOUS
    <3>2. k < at \/ k = at \/ at < k
      BY <1>1, <2>1
    <3>. QED
      BY <2>1, <3>2 DEF Leads
  <2>7. Len(opts) # 0
    BY <1>1, <2>1
  <2>. QED
    BY <1>4, <2>2, <2>5, <2>6, <2>7 DEF PrependedTo
<1>. QED
  BY <1>6, <1>7

\* The command line is what is given, but for the one library path that leads to the launcher.
SameOptions(c, g) ==
  /\ c \in Seq(Options) /\ g \in Seq(Options) /\ Len(c) = Len(g) /\ Len(g) # 0
  /\ \A k \in 1..Len(g) : c[k] = Meant(k) /\ c[k].prefix = g[k].prefix /\ c[k].is = g[k].is
  /\ \A k \in 1..Len(g) : g[k].is # "library" => c[k] = g[k]

LEMMA CommandLineFacts ==
  ASSUME override \in Seq(Options), configured \in Seq(Options)
  PROVE  SameOptions(CommandLine, Given)
<1>1. PICK o, r, s : o = override /\ r = Prepended(configured) /\ s = Completed(configured)
  OBVIOUS
<1>2. PrependedTo(r, s)
  BY <1>1, PrependedFacts
<1>3. PICK c, g : c = CommandLine /\ g = Given
  OBVIOUS
<1>4. c = o \o r /\ g = o \o s
  <2>1. PICK f, e : /\ f = configured
                    /\ e = IF \E n \in DOMAIN f : IsLibraryPath(f[n]) THEN <<>> ELSE <<LibraryGiven>>
    OBVIOUS
  <2>2. e \in Seq(Options) /\ o \in Seq(Options) /\ f \in Seq(Options)
    <3>1. <<LibraryGiven>> \in Seq(Options) /\ <<>> \in Seq(Options)
      BY LeadingFacts, EmptySeq
    <3>. QED
      BY <1>1, <2>1, <3>1
  <2>3. g = (o \o f) \o e
    BY <1>1, <1>3, <2>1 DEF Given, LibraryGiven
  <2>4. s = f \o e
    BY <1>1, <2>1 DEF Completed
  <2>5. (o \o f) \o e = o \o (f \o e)
    BY <2>2, Regroup
  <2>6. c = o \o r
    BY <1>1, <1>3 DEF CommandLine
  <2>7. g = o \o s
    BY <2>3, <2>4, <2>5
  <2>. QED
    BY <2>6, <2>7
<1>5. o \in Seq(Options) /\ r \in Seq(Options) /\ s \in Seq(Options) /\ Len(r) = Len(s) /\ Len(s) # 0
  BY <1>1, <1>2 DEF PrependedTo
<1>6. ConcatOf(o, r, c, Options) /\ ConcatOf(o, s, g, Options)
  BY <1>4, <1>5, ConcatParts
<1>7. Len(o) \in Nat /\ Len(r) \in Nat /\ Len(s) \in Nat
  BY <1>5, LenProperties
<1>8. /\ c \in Seq(Options) /\ g \in Seq(Options) /\ Len(c) = Len(g) /\ Len(g) # 0
      /\ Len(g) = Len(o) + Len(s)
  BY <1>5, <1>6, <1>7 DEF ConcatOf
<1>9. \A k \in 1..Len(g) : g[k] \in Options
  BY <1>8, ElementOfSeq
<1>10. \A k \in 1..Len(g) : c[k] = Meant(k) /\ c[k] \in {g[k], Leading(g[k])} /\ (c[k] # g[k] => IsLibraryPath(g[k]))
  <2>1. SUFFICES ASSUME NEW k \in 1..Len(g)
                 PROVE  c[k] = Meant(k) /\ c[k] \in {g[k], Leading(g[k])} /\ (c[k] # g[k] => IsLibraryPath(g[k]))
    OBVIOUS
  <2>2. Meant(k) = IF LeadsToLauncher(k) THEN Leading(g[k]) ELSE g[k]
    BY <1>3 DEF Meant, Leading
  <2>3. LeadsToLauncher(k) <=> /\ k > Len(o) /\ IsLibraryPath(g[k])
                               /\ \A j \in (Len(o) + 1)..(k - 1) : ~IsLibraryPath(g[j])
    BY <1>1, <1>3 DEF LeadsToLauncher
  <2>4. CASE k \in 1..Len(o)
    <3>1. c[k] = o[k] /\ g[k] = o[k]
      BY <1>6, <2>4 DEF ConcatOf
    <3>2. ~(k > Len(o))
      BY <1>7, <2>4
    <3>. QED
      BY <2>2, <2>3, <3>1, <3>2
  <2>5. CASE k \notin 1..Len(o)
    <3>1. PICK i : i \in 1..Len(s) /\ k = Len(o) + i
      <4>1. k - Len(o) \in 1..Len(s) /\ k = Len(o) + (k - Len(o))
        BY <1>7, <1>8, <2>5
      <4>. QED
        BY <4>1
    <3>2. c[k] = r[i] /\ g[k] = s[i]
      BY <1>5, <1>6, <3>1 DEF ConcatOf
    <3>3. LeadsToLauncher(k) <=> Leads(s, i)
      <4>1. k > Len(o)
        BY <1>7, <3>1
      <4>2. ASSUME \A j \in (Len(o) + 1)..(k - 1) : ~IsLibraryPath(g[j]),
                   NEW j \in 1..Len(s), j < i
            PROVE  ~IsLibraryPath(s[j])
        <5>1. Len(o) + j \in (Len(o) + 1)..(k - 1) /\ g[Len(o) + j] = s[j]
          BY <1>6, <1>7, <3>1, <4>2 DEF ConcatOf
        <5>. QED
          BY <4>2, <5>1
      <4>3. ASSUME \A j \in 1..Len(s) : j < i => ~IsLibraryPath(s[j]),
                   NEW j \in (Len(o) + 1)..(k - 1)
            PROVE  ~IsLibraryPath(g[j])
        <5>1. j - Len(o) \in 1..Len(s) /\ j - Len(o) < i /\ j = Len(o) + (j - Len(o))
          BY <1>7, <3>1, <4>3
        <5>2. g[j] = s[j - Len(o)]
          <6>1. PICK n : n = j - Len(o)
            OBVIOUS
          <6>2. n \in 1..Len(s) /\ j = Len(o) + n
            BY <5>1, <6>1
          <6>. QED
            BY <1>6, <6>1, <6>2 DEF ConcatOf
        <5>. QED
          BY <4>3, <5>1, <5>2
      <4>. QED
        BY <2>3, <3>2, <4>1, <4>2, <4>3 DEF Leads
    <3>4. r[i] = IF Leads(s, i) THEN Leading(s[i]) ELSE s[i]
      BY <1>2, <3>1 DEF PrependedTo
    <3>5. Leads(s, i) => IsLibraryPath(s[i])
      BY DEF Leads
    <3>. QED
      BY <2>2, <3>2, <3>3, <3>4, <3>5
  <2>. QED
    BY <2>4, <2>5
<1>11. \A k \in 1..Len(g) : c[k].prefix = g[k].prefix /\ c[k].is = g[k].is
  BY <1>9, <1>10, LeadingFacts
<1>12. \A k \in 1..Len(g) : g[k].is # "library" => c[k] = g[k]
  BY <1>10 DEF IsLibraryPath
<1>. QED
  BY <1>3, <1>8, <1>10, <1>11, <1>12 DEF SameOptions

-----------------------------------------------------------------------------
(* Taking out the duplicates.                                              *)

FirstOf(c, n) == \A j \in 1..(n - 1) : c[j].prefix # c[n].prefix

MarkedBy(m, c) ==
  /\ m \in Seq(Options \cup {Null}) /\ Len(m) = Len(c)
  /\ \A n \in 1..Len(c) : m[n] = IF FirstOf(c, n) THEN c[n] ELSE Null
  /\ \A n \in 1..Len(c) : m[n] \in Options <=> FirstOf(c, n)

LEMMA MarkedFacts ==
  ASSUME NEW c, c \in Seq(Options)
  PROVE  MarkedBy(Marked(c), c)
<1>1. Len(c) \in Nat /\ DOMAIN c = 1..Len(c) /\ \A n \in 1..Len(c) : c[n] \in Options
  BY LenProperties, ElementOfSeq
<1>2. PICK m : m = Marked(c)
  OBVIOUS
<1>3. m = [n \in 1..Len(c) |-> IF FirstOf(c, n) THEN c[n] ELSE Null]
  <2>1. \A n \in 1..Len(c) : FirstOf(c, n) <=> ~\E k \in 1..(n - 1) : c[k].prefix = c[n].prefix
    BY DEF FirstOf
  <2>. QED
    BY <1>1, <1>2, <2>1 DEF Marked
<1>4. \A n \in 1..Len(c) : m[n] = IF FirstOf(c, n) THEN c[n] ELSE Null
  BY <1>3
<1>5. m \in Seq(Options \cup {Null}) /\ Len(m) = Len(c)
  <2>1. m \in [1..Len(c) -> Options \cup {Null}]
    BY <1>1, <1>3
  <2>. QED
    BY <1>1, <2>1
<1>6. \A n \in 1..Len(c) : m[n] \in Options <=> FirstOf(c, n)
  BY <1>1, <1>4, OptionsAssumption
<1>. QED
  BY <1>2, <1>4, <1>5, <1>6 DEF MarkedBy

\* Nothing is marked where there is one option only.
LEMMA MarkedOne ==
  ASSUME NEW c, c \in Seq(Options), Len(c) < 2
  PROVE  Marked(c) = c
<1>1. PICK m : m = Marked(c)
  OBVIOUS
<1>2. MarkedBy(m, c)
  BY <1>1, MarkedFacts
<1>3. Len(c) \in Nat /\ \A n \in 1..Len(c) : FirstOf(c, n)
  <2>1. Len(c) \in Nat
    BY LenProperties
  <2>2. \A n \in 1..Len(c) : 1..(n - 1) = {}
    BY <2>1
  <2>. QED
    BY <2>1, <2>2 DEF FirstOf
<1>4. \A n \in 1..Len(c) : m[n] = c[n]
  BY <1>2, <1>3 DEF MarkedBy
<1>5. m \in Seq(Options \cup {Null}) /\ c \in Seq(Options \cup {Null}) /\ Len(m) = Len(c)
  BY <1>2 DEF MarkedBy
<1>6. m = c
  BY <1>4, <1>5, SeqEqual
<1>. QED
  BY <1>1, <1>6

\* What is kept of m, and argv when n of its elements have been gone through and u of them kept.
Kept(m) == Selected(m, Options)
Halfway(m, u, n) ==
  [k \in 1..Len(m) |-> IF k <= Len(u) THEN u[k] ELSE IF k <= n THEN Null ELSE m[k]]
AtGap(g, l, n) == (g = l /\ l < n) \/ (g + 1 = l /\ l = n)

\* What a round of the loop makes of a, w being kept of one more element.
RoundOf(m, w, n, g, a) ==
  /\ a[g + 1] = Null /\ a[n + 1] # Null =>
       /\ [a EXCEPT ![g + 1] = a[n + 1], ![n + 1] = Null] = Halfway(m, w, n + 1)
       /\ AtGap(g + 1, Len(w), n + 1)
  /\ a[g + 1] = Null /\ a[n + 1] = Null => a = Halfway(m, w, n + 1) /\ AtGap(g, Len(w), n + 1)
  /\ a[g + 1] # Null => a = Halfway(m, w, n + 1) /\ AtGap(g + 1, Len(w), n + 1)

LEMMA HalfwayStep ==
  ASSUME NEW m, m \in Seq(Options \cup {Null}), NEW u, u \in Seq(Options),
         NEW n \in Nat, n + 1 \in 2..Len(m), NEW g \in Nat, AtGap(g, Len(u), n),
         NEW a, a = Halfway(m, u, n),
         NEW w, w = IF m[n + 1] \in Options THEN Append(u, m[n + 1]) ELSE u
  PROVE  RoundOf(m, w, n, g, a)
<1>1. Len(m) \in Nat /\ m[n + 1] \in Options \cup {Null} /\ Len(u) \in Nat
  BY LenProperties, ElementOfSeq
<1>2. \A k \in 1..Len(u) : u[k] \in Options /\ u[k] # Null
  BY <1>1, ElementOfSeq, OptionsAssumption
<1>3. PICK x : x = m[n + 1]
  OBVIOUS
<1>4. x = Null <=> x \notin Options
  BY <1>1, <1>3, OptionsAssumption
<1>5. PICK l : l = Len(u)
  OBVIOUS
<1>6. l \in Nat /\ ((g = l /\ l < n) \/ (g + 1 = l /\ l = n)) /\ n + 1 \in 1..Len(m)
  BY <1>1, <1>5 DEF AtGap
<1>7. \A k \in 1..Len(m) : a[k] = IF k <= l THEN u[k] ELSE IF k <= n THEN Null ELSE m[k]
  BY <1>5 DEF Halfway
<1>8. a[n + 1] = x
  BY <1>3, <1>6, <1>7
<1>9. a[g + 1] = Null <=> g = l
  <2>1. CASE g = l
    <3>1. g + 1 \in 1..Len(m) /\ ~(g + 1 <= l) /\ g + 1 <= n
      BY <1>1, <1>6, <2>1
    <3>. QED
      BY <1>7, <2>1, <3>1
  <2>2. CASE g # l
    <3>1. g + 1 \in 1..Len(m) /\ g + 1 <= l /\ g + 1 \in 1..Len(u)
      BY <1>1, <1>5, <1>6, <2>2
    <3>. QED
      BY <1>2, <1>7, <2>2, <3>1
  <2>. QED
    BY <2>1, <2>2
<1>10. CASE x = Null
  <2>1. w = u
    BY <1>3, <1>4, <1>10
  <2>2. \A k \in 1..Len(m) : a[k] = IF k <= l THEN u[k] ELSE IF k <= n + 1 THEN Null ELSE m[k]
    <3>1. \A k \in 1..Len(m) : k # n + 1 => (k <= n <=> k <= n + 1)
      BY <1>1
    <3>. QED
      BY <1>3, <1>6, <1>7, <1>10, <3>1
  <2>3. a = Halfway(m, w, n + 1)
    <3>1. a = [k \in 1..Len(m) |-> a[k]]
      BY DEF Halfway
    <3>. QED
      BY <1>5, <2>1, <2>2, <3>1 DEF Halfway
  <2>4. IF g = l THEN AtGap(g, Len(w), n + 1) ELSE AtGap(g + 1, Len(w), n + 1)
    BY <1>5, <1>6, <2>1 DEF AtGap
  <2>. QED
    BY <1>5, <1>8, <1>9, <1>10, <2>3, <2>4, <1>3 DEF RoundOf
<1>11. CASE x # Null
  <2>1. /\ Len(w) = l + 1 /\ w[l + 1] = x
        /\ \A k \in 1..l : w[k] = u[k]
    <3>1. w = Append(u, x) /\ x \in Options
      BY <1>3, <1>4, <1>11
    <3>. QED
      BY <1>5, <3>1, AppendProperties
  <2>2. PICK b : b = Halfway(m, w, n + 1)
    OBVIOUS
  <2>3. \A k \in 1..Len(m) : b[k] = IF k <= l + 1 THEN w[k] ELSE IF k <= n + 1 THEN Null ELSE m[k]
    BY <2>1, <2>2 DEF Halfway
  <2>4. b = [k \in 1..Len(m) |-> b[k]] /\ a = [k \in 1..Len(m) |-> a[k]]
    BY <2>2 DEF Halfway
  <2>5. CASE g = l
    <3>1. l + 1 \in 1..Len(m) /\ n + 1 # l + 1
      BY <1>1, <1>6, <2>5
    <3>2. b[l + 1] = x
      BY <1>6, <2>1, <2>3, <3>1
    <3>3. b[n + 1] = Null
      <4>1. ~(n + 1 <= l + 1)
        BY <1>6, <2>5
      <4>. QED
        BY <1>6, <2>3, <4>1
    <3>4. \A k \in 1..Len(m) : k # l + 1 /\ k # n + 1 => b[k] = a[k]
      <4>1. SUFFICES ASSUME NEW k \in 1..Len(m), k # l + 1, k # n + 1
                     PROVE  b[k] = a[k]
        OBVIOUS
      <4>2. (k <= l + 1 <=> k <= l) /\ (k <= n + 1 <=> k <= n)
        BY <1>6, <4>1
      <4>3. CASE k <= l
        <5>1. k \in 1..l
          BY <1>6, <4>3
        <5>. QED
          BY <1>7, <2>1, <2>3, <4>2, <4>3, <5>1
      <4>4. CASE ~(k <= l)
        BY <1>7, <2>3, <4>2, <4>4
      <4>. QED
        BY <4>3, <4>4
    <3>5. PICK e : e = [a EXCEPT ![g + 1] = x, ![n + 1] = Null]
      OBVIOUS
    <3>6. \A k \in 1..Len(m) : e[k] = IF k = n + 1 THEN Null ELSE IF k = l + 1 THEN x ELSE a[k]
      BY <2>4, <2>5, <3>5
    <3>7. e = [k \in 1..Len(m) |-> e[k]]
      <4>1. DOMAIN e = DOMAIN a
        BY <3>5
      <4>. QED
        BY <2>4, <3>5
    <3>8. \A k \in 1..Len(m) : e[k] = b[k]
      BY <3>1, <3>2, <3>3, <3>4, <3>6
    <3>9. e = b
      BY <2>4, <3>7, <3>8
    <3>10. AtGap(g + 1, Len(w), n + 1)
      BY <1>6, <2>1, <2>5 DEF AtGap
    <3>. QED
      BY <1>3, <1>5, <1>8, <1>9, <1>11, <2>2, <2>5, <3>5, <3>9, <3>10 DEF RoundOf
  <2>6. CASE g # l
    <3>1. l = n /\ g + 1 = l
      BY <1>6, <2>6
    <3>2. \A k \in 1..Len(m) : a[k] = b[k]
      <4>1. SUFFICES ASSUME NEW k \in 1..Len(m)
                     PROVE  a[k] = b[k]
        OBVIOUS
      <4>2. CASE k \in 1..l
        <5>1. k <= l /\ k <= l + 1
          BY <1>6, <4>2
        <5>. QED
          BY <1>7, <2>1, <2>3, <4>2, <5>1
      <4>3. CASE k = l + 1
        BY <1>6, <1>8, <2>1, <2>3, <3>1, <4>3
      <4>4. CASE k > l + 1
        BY <1>6, <1>7, <2>3, <3>1, <4>4
      <4>. QED
        BY <1>6, <4>2, <4>3, <4>4
    <3>3. a = b
      BY <2>4, <3>2
    <3>4. AtGap(g + 1, Len(w), n + 1)
      BY <1>6, <2>1, <3>1 DEF AtGap
    <3>. QED
      BY <1>3, <1>5, <1>8, <1>9, <1>11, <2>2, <2>6, <3>3, <3>4 DEF RoundOf
  <2>. QED
    BY <2>5, <2>6
<1>. QED
  BY <1>10, <1>11

-----------------------------------------------------------------------------
(* What is set from the options that are kept.                             *)

SettingStep(list, f, n) ==
  IF n = 0 THEN [classpath |-> Null, cwd |-> Null, passed |-> <<>>] ELSE Sorted(list[n], f[n - 1])

\* The recursive definition of Setting has a solution.
LEMMA SettingExists ==
  ASSUME NEW list, list \in Seq(Options)
  PROVE  Setting(list) = [n \in 0..Len(list) |-> SettingStep(list, Setting(list), n)]
<1>. DEFINE Solves(f, m) == f = [n \in 0..m |-> SettingStep(list, f, n)]
            I == {m \in Nat : \E f : Solves(f, m)}
<1>1. 0 \in I
  <2>. DEFINE f == [n \in 0..0 |-> [classpath |-> Null, cwd |-> Null, passed |-> <<>>]]
  <2>1. f = [n \in 0..0 |-> SettingStep(list, f, n)]
    BY DEF SettingStep
  <2>. QED
    BY <2>1
<1>2. ASSUME NEW m \in Nat, m \in I
      PROVE  m + 1 \in I
  <2>1. PICK g : Solves(g, m)
    BY <1>2
  <2>. DEFINE f == [n \in 0..(m + 1) |-> IF n = m + 1 THEN SettingStep(list, g, n) ELSE g[n]]
  <2>2. \A n \in 0..m : f[n] = g[n]
    OBVIOUS
  <2>3. \A n \in 0..(m + 1) : n # 0 => n - 1 \in 0..m
    OBVIOUS
  <2>4. \A n \in 0..(m + 1) : f[n] = SettingStep(list, f, n)
    <3>1. TAKE n \in 0..(m + 1)
    <3>2. SettingStep(list, f, n) = SettingStep(list, g, n)
      BY <2>2, <2>3 DEF SettingStep
    <3>3. n \in 0..m => g[n] = SettingStep(list, g, n)
      BY <2>1
    <3>. QED
      BY <3>2, <3>3
  <2>5. Solves(f, m + 1)
    BY <2>4
  <2>. HIDE DEF Solves, f
  <2>. QED
    BY <2>5
<1>3. Len(list) \in I
  <2>. HIDE DEF I
  <2>1. Nat \subseteq I
    BY <1>1, <1>2, InductiveSet
  <2>. QED
    BY <2>1, LenProperties
<1>4. Setting(list) = CHOOSE f : Solves(f, Len(list))
  BY DEF Setting, SettingStep
<1>5. PICK f : Solves(f, Len(list))
  BY <1>3
<1>. HIDE DEF Solves
<1>6. Solves(CHOOSE g : Solves(g, Len(list)), Len(list))
  BY <1>5
<1>. QED
  BY <1>4, <1>6 DEF Solves

Jvm(a, b, p) == [classpath |-> a, cwd |-> b, passed |-> p]

\* What one more option does.
LEMMA SortedFacts ==
  ASSUME NEW a, NEW b, NEW p, NEW o
  PROVE  /\ o.is = "classpath" => Sorted(o, Jvm(a, b, p)) = Jvm(o.value, b, p)
         /\ o.is = "cwd" => Sorted(o, Jvm(a, b, p)) = Jvm(a, IF o.value = <<>> THEN b ELSE o.value, p)
         /\ o.is \notin {"classpath", "cwd"} => Sorted(o, Jvm(a, b, p)) = Jvm(a, b, Append(p, o))
<1>1. PICK r : r = Jvm(a, b, p)
  OBVIOUS
<1>2. ASSUME o.is = "classpath" PROVE Sorted(o, r) = Jvm(o.value, b, p)
  BY <1>1, <1>2 DEF Sorted, Jvm
<1>3. ASSUME o.is = "cwd" PROVE Sorted(o, r) = Jvm(a, IF o.value = <<>> THEN b ELSE o.value, p)
  <2>1. Sorted(o, r) = IF o.value = <<>> THEN r ELSE [r EXCEPT !.cwd = o.value]
    BY <1>3 DEF Sorted
  <2>. QED
    BY <1>1, <2>1 DEF Jvm
<1>4. ASSUME o.is \notin {"classpath", "cwd"} PROVE Sorted(o, r) = Jvm(a, b, Append(p, o))
  <2>1. Sorted(o, r) = [r EXCEPT !.passed = Append(@, o)]
    BY <1>4 DEF Sorted
  <2>2. PICK w : w = Append(p, o)
    OBVIOUS
  <2>3. Sorted(o, r) = [r EXCEPT !.passed = w]
    BY <1>1, <2>1, <2>2 DEF Jvm
  <2>. QED
    BY <1>1, <2>2, <2>3 DEF Jvm
<1>. QED
  BY <1>1, <1>2, <1>3, <1>4

PassedKinds == {o \in Options : o.is \notin {"classpath", "cwd"}}
Distinct(s) == \A i, j \in 1..Len(s) : s[i].prefix = s[j].prefix => i = j

\* The class path and the working directory that the first n options of s set.
SetBy(a, b, s, n) ==
  \A k \in 1..n : /\ s[k].is = "classpath" => a = s[k].value
                  /\ s[k].is = "cwd" /\ s[k].value # <<>> => b = s[k].value

LEMMA SetByStep ==
  ASSUME NEW s, s \in Seq(Options), Distinct(s), NEW n \in Nat, n + 1 \in 1..Len(s),
         NEW a, NEW b, SetBy(a, b, s, n), NEW c, NEW d,
         s[n + 1].is = "classpath" => c = s[n + 1].value,
         s[n + 1].is # "classpath" => c = a,
         s[n + 1].is = "cwd" /\ s[n + 1].value # <<>> => d = s[n + 1].value,
         s[n + 1].is # "cwd" => d = b
  PROVE  SetBy(c, d, s, n + 1)
<1>1. SUFFICES ASSUME NEW k \in 1..(n + 1)
               PROVE  /\ s[k].is = "classpath" => c = s[k].value
                      /\ s[k].is = "cwd" /\ s[k].value # <<>> => d = s[k].value
  BY DEF SetBy
<1>2. CASE k = n + 1
  BY <1>2
<1>3. CASE k \in 1..n
  <2>1. k \in 1..Len(s) /\ k # n + 1 /\ Len(s) \in Nat
    BY <1>3, LenProperties
  <2>2. s[k] \in Options /\ s[n + 1] \in Options
    BY <2>1, ElementOfSeq
  <2>3. s[k].prefix # s[n + 1].prefix
    BY <2>1 DEF Distinct
  <2>4. ~(s[k].is = "classpath" /\ s[n + 1].is = "classpath") /\ ~(s[k].is = "cwd" /\ s[n + 1].is = "cwd")
    BY <2>2, <2>3, OptionFacts
  <2>. QED
    BY <1>3, <2>4 DEF SetBy
<1>. QED
  BY <1>2, <1>3

\* The outcome: what is passed on in its order, and the one class path and working directory.
LEMMA SettingFacts ==
  ASSUME NEW s, s \in Seq(Options), Distinct(s)
  PROVE  \E a, b : /\ Setting(s)[Len(s)] = Jvm(a, b, Selected(s, PassedKinds))
                   /\ SetBy(a, b, s, Len(s))
<1>1. Len(s) \in Nat /\ \A n \in 1..Len(s) : s[n] \in Options
  BY LenProperties, ElementOfSeq
<1>2. PICK f, t : f = Setting(s) /\ t = Taken(s, PassedKinds)
  OBVIOUS
<1>3. f = [n \in 0..Len(s) |-> SettingStep(s, f, n)]
  BY <1>2, SettingExists
<1>4. TakenBy(t, s, PassedKinds, Options)
  BY <1>2, TakenFacts, Zenon
<1>. DEFINE Good(n) == \E a, b : f[n] = Jvm(a, b, t[n]) /\ SetBy(a, b, s, n)
            I == {n \in 0..Len(s) : Good(n)}
<1>5. 0 \in I
  <2>1. f[0] = SettingStep(s, f, 0)
    BY <1>1, <1>3
  <2>2. f[0] = Jvm(Null, Null, <<>>) /\ t[0] = <<>>
    BY <1>4, <2>1 DEF SettingStep, Jvm, TakenBy
  <2>3. SetBy(Null, Null, s, 0)
    BY DEF SetBy
  <2>. QED
    BY <1>1, <2>2, <2>3
<1>6. \A n \in 0..Len(s) : n # Len(s) /\ n \in I => n + 1 \in I
  <2>1. SUFFICES ASSUME NEW n \in 0..Len(s), n # Len(s), Good(n)
                 PROVE  n + 1 \in 0..Len(s) /\ Good(n + 1)
    OBVIOUS
  <2>2. PICK a, b : f[n] = Jvm(a, b, t[n]) /\ SetBy(a, b, s, n)
    BY <2>1
  <2>3. n + 1 \in 1..Len(s) /\ n + 1 \in 0..Len(s) /\ n + 1 - 1 = n /\ n + 1 # 0
    BY <1>1, <2>1
  <2>4. PICK o, p : o = s[n + 1] /\ p = t[n]
    OBVIOUS
  <2>5. f[n + 1] = Sorted(o, Jvm(a, b, p))
    <3>1. f[n + 1] = SettingStep(s, f, n + 1)
      BY <1>3, <2>3
    <3>. QED
      BY <2>2, <2>3, <2>4, <3>1 DEF SettingStep
  <2>6. t[n + 1] = IF o \in PassedKinds THEN Append(p, o) ELSE p
    BY <1>4, <2>3, <2>4 DEF TakenBy
  <2>7. o \in PassedKinds <=> o.is \notin {"classpath", "cwd"}
    BY <1>1, <2>3, <2>4 DEF PassedKinds
  <2>8. PICK c, d : /\ c = IF o.is = "classpath" THEN o.value ELSE a
                    /\ d = IF o.is = "cwd" /\ o.value # <<>> THEN o.value ELSE b
    OBVIOUS
  <2>9. f[n + 1] = Jvm(c, d, t[n + 1])
    <3>1. CASE o.is = "classpath"
      BY <2>5, <2>6, <2>7, <2>8, <3>1, SortedFacts
    <3>2. CASE o.is = "cwd"
      BY <2>5, <2>6, <2>7, <2>8, <3>2, SortedFacts
    <3>3. CASE o.is \notin {"classpath", "cwd"}
      BY <2>5, <2>6, <2>7, <2>8, <3>3, SortedFacts
    <3>. QED
      BY <3>1, <3>2, <3>3
  <2>10. SetBy(c, d, s, n + 1)
    BY <2>2, <2>3, <2>4, <2>8, SetByStep
  <2>. QED
    BY <2>3, <2>9, <2>10
<1>. HIDE DEF I
<1>7. 0..Len(s) \subseteq I
  BY <1>1, <1>5, <1>6, BoundedInduction
<1>8. Good(Len(s))
  BY <1>1, <1>7 DEF I
<1>. QED
  BY <1>2, <1>8 DEF Selected

-----------------------------------------------------------------------------
(* The invariant: how far argv is compacted, and what has been made of it. *)

CompactInv ==
  LET m == Marked(CommandLine)
      kept == Taken(m, Options)[next]
  IN /\ argc = Len(m) /\ next \in 1..Len(m) /\ gap \in Nat
     /\ AtGap(gap, Len(kept), next)
     /\ argv = Halfway(m, kept, next)

KeptInv ==
  /\ argc = Len(Kept(Marked(CommandLine)))
  /\ SubSeq(argv, 1, argc) = Kept(Marked(CommandLine))

OptionsInvariant ==
  /\ override \in Overrides /\ configured \in Configured
  /\ phase \in {"parse", "compact", "set", "created"}
  /\ phase = "parse" => gap = 0 /\ next = 1
  /\ phase = "compact" => CompactInv
  /\ phase \in {"set", "created"} => KeptInv
  /\ phase = "created" => jvm = Setting(Kept(Marked(CommandLine)))[Len(Kept(Marked(CommandLine)))]

LEMMA OptionsStart == OptionsInit => OptionsInvariant
BY DEF OptionsInit, OptionsInvariant

\* The command line and what is marked in it.
LineIs(c, m) == c \in Seq(Options) /\ c # <<>> /\ MarkedBy(m, c) /\ m \in Seq(Options \cup {Null})

LEMMA LineFacts ==
  ASSUME override \in Overrides, configured \in Configured
  PROVE  LineIs(CommandLine, Marked(CommandLine))
<1>1. override \in Seq(Options) /\ configured \in Seq(Options)
  BY OptionsAssumption
<1>2. PICK c, g, m : c = CommandLine /\ g = Given /\ m = Marked(c)
  OBVIOUS
<1>3. SameOptions(c, g)
  BY <1>1, <1>2, CommandLineFacts
<1>4. c \in Seq(Options) /\ Len(c) # 0
  BY <1>3 DEF SameOptions
<1>5. c # <<>>
  BY <1>4
<1>6. MarkedBy(m, c)
  BY <1>2, <1>4, MarkedFacts
<1>. QED
  BY <1>2, <1>4, <1>5, <1>6 DEF LineIs, MarkedBy

\* As much is kept as is not removed.
LEMMA KeptCounts ==
  ASSUME NEW m, m \in Seq(Options \cup {Null})
  PROVE  /\ Len(Selected(m, {Null})) + Len(Kept(m)) = Len(m)
         /\ Kept(m) \in Seq(Options)
         /\ Len(Selected(m, {Null})) \in Nat
         /\ Len(Selected(m, {Null})) = 0 => Kept(m) = m
<1>. DEFINE T == Options \cup {Null}
<1>1. \A n \in 1..Len(m) : m[n] \in {Null} <=> m[n] \notin Options
  BY ElementOfSeq, OptionsAssumption
<1>2. Len(Selected(m, {Null})) + Len(Kept(m)) = Len(m)
  <2>1. PICK S, Q : S = T /\ Q = {Null}
    OBVIOUS
  <2>2. m \in Seq(S) /\ \A n \in 1..Len(m) : m[n] \in Q <=> m[n] \notin Options
    BY <1>1, <2>1
  <2>3. Len(Selected(m, Q)) + Len(Selected(m, Options)) = Len(m)
    BY <2>2, SelectedCounts
  <2>. QED
    BY <2>1, <2>3 DEF Kept
<1>3. Kept(m) \in Seq(T \cap Options) /\ Selected(m, {Null}) \in Seq(T \cap {Null})
  BY SelectedType, Zenon DEF Kept
<1>4. Kept(m) \in Seq(Options) /\ Len(Selected(m, {Null})) \in Nat
  <2>1. T \cap Options = Options
    OBVIOUS
  <2>. QED
    BY <1>3, <2>1, LenProperties
<1>5. ASSUME Len(Selected(m, {Null})) = 0
      PROVE  Kept(m) = m
  <2>1. PICK S, Q, r : S = T /\ Q = {Null} /\ r = Selected(m, Q)
    OBVIOUS
  <2>2. r = <<>>
    <3>1. r \in Seq(S \cap Q) /\ Len(r) = 0
      BY <1>3, <1>5, <2>1
    <3>. QED
      BY <3>1, EmptySeq
  <2>3. Elems(m) \cap Q \subseteq Elems(r)
    BY <2>1, SelectedKeeps, Zenon
  <2>4. Elems(m) \cap Q = {}
    BY <2>2, <2>3, NoElems
  <2>5. \A n \in 1..Len(m) : m[n] \in Options
    BY <1>1, <2>1, <2>4 DEF Elems
  <2>6. Selected(m, Options) = m
    BY <2>5, SelectedAll
  <2>. QED
    BY <2>6 DEF Kept
<1>. QED
  BY <1>2, <1>4, <1>5

\* What is taken of m in one more step.
LEMMA KeptStep ==
  ASSUME NEW m, m \in Seq(Options \cup {Null})
  PROVE  /\ \A n \in 0..Len(m) : Taken(m, Options)[n] \in Seq(Options)
         /\ \A n \in 1..Len(m) : Taken(m, Options)[n] =
              IF m[n] \in Options THEN Append(Taken(m, Options)[n - 1], m[n]) ELSE Taken(m, Options)[n - 1]
         /\ Taken(m, Options)[0] = <<>>
<1>. DEFINE T == Options \cup {Null}
<1>1. PICK t : t = Taken(m, Options)
  OBVIOUS
<1>2. TakenBy(t, m, Options, T)
  BY <1>1, TakenFacts, Zenon
<1>3. T \cap Options = Options
  OBVIOUS
<1>. HIDE DEF T
<1>. QED
  BY <1>1, <1>2, <1>3 DEF TakenBy

-----------------------------------------------------------------------------
(* The steps.                                                              *)

LEMMA ConsolidateKeeps ==
  ASSUME OptionsInvariant, Consolidate
  PROVE  OptionsInvariant'
<1>1. PICK c, m : c = CommandLine /\ m = Marked(CommandLine)
  OBVIOUS
<1>2. LineIs(c, m)
  BY <1>1, LineFacts DEF OptionsInvariant
<1>3. /\ override' = override /\ configured' = configured /\ gap' = gap /\ next' = next /\ jvm' = jvm
      /\ argc' = Len(c) /\ gap = 0 /\ next = 1
  BY <1>1 DEF OptionsInvariant, Consolidate
<1>4. CommandLine' = c /\ Marked(CommandLine)' = m
  <2>1. CommandLine' = CommandLine
    BY <1>3 DEF CommandLine
  <2>. QED
    BY <1>1, <2>1 DEF Marked
<1>5. /\ c \in Seq(Options) /\ m \in Seq(Options \cup {Null}) /\ Len(m) = Len(c) /\ Len(c) \in Nat \ {0}
  BY <1>2, LenProperties, EmptySeq DEF LineIs, MarkedBy
<1>6. argv' = m
  <2>1. argv' = IF Len(c) < 2 THEN c ELSE m
    BY <1>1 DEF Consolidate
  <2>2. Len(c) < 2 => m = c
    BY <1>1, <1>5, MarkedOne
  <2>. QED
    BY <2>1, <2>2
<1>7. PICK r : r = Len(Selected(m, {Null}))
  OBVIOUS
<1>8. r \in Nat /\ r + Len(Kept(m)) = Len(m) /\ Kept(m) \in Seq(Options) /\ (r = 0 => Kept(m) = m)
  BY <1>5, <1>7, KeptCounts
<1>9. phase' = IF r > 0 THEN "compact" ELSE "set"
  BY <1>1, <1>7 DEF Consolidate, RemovedCount
<1>10. CASE r > 0
  <2>1. PICK t : t = Taken(m, Options)
    OBVIOUS
  <2>2. 1 \in 1..Len(m) /\ 1 - 1 = 0 /\ m[1] \in Options
    <3>1. 1 \in 1..Len(m) /\ 1..(1 - 1) = {}
      BY <1>5
    <3>2. FirstOf(c, 1)
      BY <3>1 DEF FirstOf
    <3>. QED
      BY <1>2, <1>5, <3>1, <3>2 DEF LineIs, MarkedBy
  <2>3. t[1] = <<m[1]>>
    <3>1. t[1] = Append(t[0], m[1]) /\ t[0] = <<>>
      BY <1>5, <2>1, <2>2, KeptStep
    <3>. QED
      BY <3>1
  <2>4. PICK u : u = t[1]
    OBVIOUS
  <2>5. Len(u) = 1 /\ u[1] = m[1]
    BY <2>3, <2>4
  <2>6. m = Halfway(m, u, 1)
    <3>1. \A k \in 1..Len(m) : m[k] = IF k <= Len(u) THEN u[k] ELSE IF k <= 1 THEN Null ELSE m[k]
      <4>1. \A k \in 1..Len(m) : k <= 1 => k = 1
        BY <1>5
      <4>. QED
        BY <2>5, <4>1
    <3>2. m = [k \in 1..Len(m) |-> m[k]]
      BY <1>5
    <3>. QED
      BY <3>1, <3>2 DEF Halfway
  <2>7. AtGap(0, Len(u), 1)
    BY <2>5 DEF AtGap
  <2>8. (argc = Len(m) /\ next \in 1..Len(m) /\ gap \in Nat /\ AtGap(gap, Len(u), next) /\ argv = Halfway(m, u, next))'
    <3>1. argc' = Len(m) /\ next' = 1 /\ gap' = 0 /\ argv' = Halfway(m, u, 1)
      BY <1>3, <1>5, <1>6, <2>6
    <3>. QED
      BY <2>2, <2>7, <3>1
  <2>9. CompactInv'
    BY <1>4, <2>1, <2>4, <2>8, <1>3 DEF CompactInv
  <2>. QED
    BY <1>3, <1>9, <1>10, <2>9 DEF OptionsInvariant
<1>11. CASE ~(r > 0)
  <2>1. Kept(m) = m /\ argc' = Len(m)
    BY <1>3, <1>5, <1>8, <1>11
  <2>2. SubSeq(m, 1, Len(m)) = m
    BY <1>5, SubSeqFull
  <2>3. KeptInv'
    BY <1>4, <1>6, <2>1, <2>2 DEF KeptInv
  <2>. QED
    BY <1>3, <1>9, <1>11, <2>3 DEF OptionsInvariant
<1>. QED
  BY <1>8, <1>10, <1>11

LEMMA CompactKeeps ==
  ASSUME OptionsInvariant, Compact
  PROVE  OptionsInvariant'
<1>1. PICK c, m : c = CommandLine /\ m = Marked(CommandLine)
  OBVIOUS
<1>2. m \in Seq(Options \cup {Null}) /\ Len(m) \in Nat
  BY <1>1, LineFacts, LenProperties DEF OptionsInvariant, LineIs
<1>3. PICK t : t = Taken(m, Options)
  OBVIOUS
<1>4. PICK u, n, g, a : u = t[next] /\ n = next /\ g = gap /\ a = argv
  OBVIOUS
<1>5. /\ argc = Len(m) /\ n \in 1..Len(m) /\ g \in Nat /\ AtGap(g, Len(u), n) /\ a = Halfway(m, u, n)
  <2>1. CompactInv
    BY DEF OptionsInvariant, Compact, Compacting
  <2>. QED
    BY <1>1, <1>3, <1>4, <2>1 DEF CompactInv
<1>6. n + 1 \in 2..Len(m) /\ n \in Nat /\ n + 1 \in 1..Len(m) /\ n + 1 - 1 = n /\ n \in 0..Len(m)
  <2>1. n < Len(m)
    BY <1>4, <1>5 DEF Compact, Compacting
  <2>. QED
    BY <1>2, <1>5, <2>1
<1>7. PICK w : w = t[n + 1]
  OBVIOUS
<1>8. u \in Seq(Options) /\ w = IF m[n + 1] \in Options THEN Append(u, m[n + 1]) ELSE u
  <2>1. t[n] \in Seq(Options)
    BY <1>2, <1>3, <1>6, KeptStep
  <2>2. t[n + 1] = IF m[n + 1] \in Options THEN Append(t[n], m[n + 1]) ELSE t[n]
    <3>1. PICK i : i = n + 1
      OBVIOUS
    <3>2. i \in 1..Len(m) /\ i - 1 = n
      BY <1>6, <3>1
    <3>3. t[i] = IF m[i] \in Options THEN Append(t[i - 1], m[i]) ELSE t[i - 1]
      <4>1. \A j \in 1..Len(m) : t[j] = IF m[j] \in Options THEN Append(t[j - 1], m[j]) ELSE t[j - 1]
        BY <1>2, <1>3, KeptStep, Zenon
      <4>. QED
        BY <3>2, <4>1, Zenon
    <3>. QED
      BY <3>1, <3>2, <3>3
  <2>. QED
    BY <1>4, <1>6, <1>7, <2>1, <2>2
<1>9. RoundOf(m, w, n, g, a)
  <2>1. /\ m \in Seq(Options \cup {Null}) /\ u \in Seq(Options)
        /\ n \in Nat /\ n + 1 \in 2..Len(m) /\ g \in Nat /\ AtGap(g, Len(u), n)
        /\ a = Halfway(m, u, n) /\ w = IF m[n + 1] \in Options THEN Append(u, m[n + 1]) ELSE u
    BY <1>2, <1>5, <1>6, <1>8, Zenon
  <2>. QED
    BY <2>1, HalfwayStep, Zenon
<1>10. /\ argv' = IF a[g + 1] = Null /\ a[n + 1] # Null
                  THEN [a EXCEPT ![g + 1] = a[n + 1], ![n + 1] = Null] ELSE a
       /\ next' = n + 1
       /\ gap' = IF a[g + 1] = Null /\ a[n + 1] = Null THEN g ELSE g + 1
       /\ override' = override /\ configured' = configured /\ argc' = argc /\ phase' = phase /\ phase = "compact"
  BY <1>4 DEF Compact, Compacting, IndicesMove, Curr, Nxt
<1>11. PICK h, b : h = gap' /\ b = argv'
  OBVIOUS
<1>12. b = Halfway(m, w, n + 1) /\ AtGap(h, Len(w), n + 1) /\ h \in Nat
  <2>1. CASE a[g + 1] = Null /\ a[n + 1] # Null
    BY <1>5, <1>9, <1>10, <1>11, <2>1 DEF RoundOf
  <2>2. CASE a[g + 1] = Null /\ a[n + 1] = Null
    BY <1>5, <1>9, <1>10, <1>11, <2>2 DEF RoundOf
  <2>3. CASE a[g + 1] # Null
    BY <1>5, <1>9, <1>10, <1>11, <2>3 DEF RoundOf
  <2>. QED
    BY <2>1, <2>2, <2>3
<1>13. Marked(CommandLine)' = m
  <2>1. CommandLine' = c
    BY <1>1, <1>10 DEF CommandLine
  <2>. QED
    BY <1>1, <2>1 DEF Marked
<1>14. CompactInv'
  <2>1. Taken(m, Options)[next'] = w
    BY <1>3, <1>7, <1>10
  <2>2. argc' = Len(m) /\ next' \in 1..Len(m) /\ gap' \in Nat /\ AtGap(gap', Len(w), next') /\ argv' = Halfway(m, w, next')
    BY <1>5, <1>6, <1>10, <1>11, <1>12
  <2>. QED
    BY <1>13, <2>1, <2>2 DEF CompactInv
<1>. QED
  BY <1>10, <1>14 DEF OptionsInvariant

LEMMA CompactDoneKeeps ==
  ASSUME OptionsInvariant, CompactDone
  PROVE  OptionsInvariant'
<1>1. PICK c, m : c = CommandLine /\ m = Marked(CommandLine)
  OBVIOUS
<1>2. m \in Seq(Options \cup {Null}) /\ Len(m) \in Nat
  BY <1>1, LineFacts, LenProperties DEF OptionsInvariant, LineIs
<1>3. PICK t : t = Taken(m, Options)
  OBVIOUS
<1>4. PICK u, n, g, a : u = t[next] /\ n = next /\ g = gap /\ a = argv
  OBVIOUS
<1>5. /\ argc = Len(m) /\ n \in 1..Len(m) /\ g \in Nat /\ AtGap(g, Len(u), n) /\ a = Halfway(m, u, n)
  <2>1. CompactInv
    BY DEF OptionsInvariant, CompactDone
  <2>. QED
    BY <1>1, <1>3, <1>4, <2>1 DEF CompactInv
<1>6. PICK l : l = Len(u)
  OBVIOUS
<1>7. u \in Seq(Options) /\ l \in Nat /\ n \in 0..Len(m)
  <2>1. n \in 0..Len(m)
    BY <1>2, <1>5
  <2>2. u \in Seq(Options)
    BY <1>2, <1>3, <1>4, <2>1, KeptStep
  <2>. QED
    BY <1>6, <2>1, <2>2, LenProperties
<1>8. n = Len(m)
  <2>1. ~(g < Len(m) - 1 /\ n < Len(m))
    BY <1>4, <1>5 DEF CompactDone, Compacting
  <2>2. AtGap(g, l, n)
    BY <1>5, <1>6
  <2>. QED
    BY <1>2, <1>5, <1>7, <2>1, <2>2 DEF AtGap
<1>9. u = Kept(m)
  BY <1>3, <1>4, <1>8 DEF Kept, Selected
<1>10. l <= Len(m)
  <2>1. AtGap(g, l, n)
    BY <1>5, <1>6
  <2>. QED
    BY <1>2, <1>5, <1>7, <1>8, <2>1 DEF AtGap
<1>11. SubSeq(a, 1, l) = u
  <2>1. Len(a) = Len(m) /\ a \in Seq(Options \cup {Null}) /\ \A k \in 1..l : a[k] = u[k]
    <3>1. \A k \in 1..Len(m) : a[k] = IF k <= l THEN u[k] ELSE IF k <= n THEN Null ELSE m[k]
      BY <1>5, <1>6 DEF Halfway
    <3>2. \A k \in 1..l : k \in 1..Len(m) /\ k <= l
      BY <1>2, <1>7, <1>10
    <3>3. \A k \in 1..l : a[k] = u[k]
      BY <3>1, <3>2
    <3>4. \A k \in 1..Len(m) : a[k] \in Options \cup {Null}
      <4>1. \A k \in 1..Len(m) : m[k] \in Options \cup {Null}
        BY <1>2, ElementOfSeq
      <4>2. \A k \in 1..Len(m) : k <= l => u[k] \in Options
        <5>1. \A k \in 1..Len(u) : u[k] \in Options
          BY <1>7, ElementOfSeq
        <5>. QED
          BY <1>6, <1>7, <5>1
      <4>. QED
        BY <3>1, <4>1, <4>2
    <3>5. a = [k \in 1..Len(m) |-> a[k]]
      BY <1>5 DEF Halfway
    <3>6. a \in [1..Len(m) -> Options \cup {Null}]
      BY <3>4, <3>5
    <3>. QED
      BY <1>2, <3>3, <3>6
  <2>2. PICK v : v = SubSeq(a, 1, l)
    OBVIOUS
  <2>3. v \in Seq(Options \cup {Null}) /\ Len(v) = l /\ \A k \in 1..l : v[k] = a[k]
    BY <1>2, <1>7, <1>10, <2>1, <2>2
  <2>4. u \in Seq(Options \cup {Null})
    <3>1. Seq(Options) \subseteq Seq(Options \cup {Null})
      BY SeqMonotonic
    <3>. QED
      BY <1>7, <3>1
  <2>5. v = u
    BY <1>6, <2>1, <2>3, <2>4, SeqEqual
  <2>. QED
    BY <2>2, <2>5
<1>12. /\ override' = override /\ configured' = configured /\ argv' = a /\ phase' = "set"
       /\ argc' = Len(m) - RemovedCount
  BY <1>4, <1>5 DEF CompactDone
<1>13. argc' = l
  <2>1. PICK r : r = RemovedCount
    OBVIOUS
  <2>2. r = Len(Selected(m, {Null}))
    BY <1>1, <2>1 DEF RemovedCount
  <2>3. r \in Nat /\ r + Len(Kept(m)) = Len(m)
    BY <1>2, <2>2, KeptCounts
  <2>. QED
    BY <1>2, <1>6, <1>7, <1>9, <1>12, <2>1, <2>3
<1>14. Marked(CommandLine)' = m
  <2>1. CommandLine' = c
    BY <1>1, <1>12 DEF CommandLine
  <2>. QED
    BY <1>1, <2>1 DEF Marked
<1>15. KeptInv'
  BY <1>6, <1>9, <1>11, <1>12, <1>13, <1>14 DEF KeptInv
<1>. QED
  BY <1>12, <1>15 DEF OptionsInvariant

LEMMA CreateKeeps ==
  ASSUME OptionsInvariant, Create
  PROVE  OptionsInvariant'
<1>1. PICK c, m, k : c = CommandLine /\ m = Marked(CommandLine) /\ k = Kept(m)
  OBVIOUS
<1>2. /\ override' = override /\ configured' = configured /\ argv' = argv /\ argc' = argc
      /\ phase' = "created" /\ jvm' = Setting(SubSeq(argv, 1, argc))[argc] /\ phase = "set"
  BY DEF Create
<1>3. argc = Len(k) /\ SubSeq(argv, 1, argc) = k
  BY <1>1, <1>2 DEF OptionsInvariant, KeptInv
<1>4. Marked(CommandLine)' = m
  <2>1. CommandLine' = c
    BY <1>1, <1>2 DEF CommandLine
  <2>. QED
    BY <1>1, <2>1 DEF Marked
<1>5. KeptInv' /\ jvm' = Setting(k)[Len(k)]
  BY <1>1, <1>2, <1>3, <1>4 DEF KeptInv
<1>. QED
  BY <1>1, <1>2, <1>4, <1>5 DEF OptionsInvariant

LEMMA OptionsStep == OptionsInvariant /\ [OptionsNext]_optionVars => OptionsInvariant'
<1>1. CASE UNCHANGED optionVars
  <2>1. ASSUME OptionsInvariant
        PROVE  OptionsInvariant'
    <3>1. /\ override' = override /\ configured' = configured /\ argv' = argv /\ argc' = argc
          /\ gap' = gap /\ next' = next /\ jvm' = jvm /\ phase' = phase
      BY <1>1 DEF optionVars
    <3>2. Marked(CommandLine)' = Marked(CommandLine)
      <4>1. CommandLine' = CommandLine
        BY <3>1 DEF CommandLine
      <4>. QED
        BY <4>1 DEF Marked
    <3>3. (CompactInv => CompactInv') /\ (KeptInv => KeptInv')
      BY <3>1, <3>2 DEF CompactInv, KeptInv
    <3>. QED
      BY <2>1, <3>1, <3>2, <3>3 DEF OptionsInvariant
  <2>. QED
    BY <2>1
<1>. QED
  BY <1>1, ConsolidateKeeps, CompactKeeps, CompactDoneKeeps, CreateKeeps DEF OptionsNext

-----------------------------------------------------------------------------
(* What is passed on.                                                      *)

\* The options of k are at the places p of the command line c: those that come first.
KeptOf(p, k, c) ==
  /\ k \in Seq(Options) /\ p \in [1..Len(k) -> 1..Len(c)]
  /\ \A i, j \in 1..Len(k) : i < j => p[i] < p[j]
  /\ \A i \in 1..Len(k) : k[i] = c[p[i]] /\ FirstOf(c, p[i])
  /\ \A n \in 1..Len(c) : FirstOf(c, n) => \E i \in 1..Len(k) : p[i] = n

LEMMA KeptPlaces ==
  ASSUME NEW c, NEW m, LineIs(c, m)
  PROVE  \E p : KeptOf(p, Kept(m), c)
<1>1. PICK k, S : k = Kept(m) /\ S = Options \cup {Null}
  OBVIOUS
<1>2. m \in Seq(S) /\ Len(m) = Len(c) /\ k \in Seq(Options)
  BY <1>1, KeptCounts DEF LineIs, MarkedBy
<1>3. PICK p : PlacesOf(p, k, m, Len(m), Options)
  <2>1. k = Selected(m, Options)
    BY <1>1 DEF Kept
  <2>. QED
    BY <1>2, <2>1, SelectedPlaces, Zenon
<1>4. \A i \in 1..Len(k) : p[i] \in 1..Len(c)
  BY <1>2, <1>3 DEF PlacesOf
<1>5. \A n \in 1..Len(c) : (m[n] \in Options <=> FirstOf(c, n)) /\ (FirstOf(c, n) => m[n] = c[n])
  BY DEF LineIs, MarkedBy
<1>6. \A i \in 1..Len(k) : k[i] = c[p[i]] /\ FirstOf(c, p[i])
  <2>1. \A i \in 1..Len(k) : k[i] = m[p[i]] /\ m[p[i]] \in Options
    BY <1>3 DEF PlacesOf
  <2>. QED
    BY <1>4, <1>5, <2>1
<1>7. \A n \in 1..Len(c) : FirstOf(c, n) => \E i \in 1..Len(k) : p[i] = n
  BY <1>2, <1>3, <1>5 DEF PlacesOf
<1>8. KeptOf(p, k, c)
  BY <1>2, <1>3, <1>6, <1>7 DEF KeptOf, PlacesOf
<1>. QED
  BY <1>1, <1>8

\* Of two options with one prefix, only one comes first.
LEMMA OneFirst ==
  ASSUME NEW c, NEW i \in Nat, NEW j \in Nat, i \in 1..Len(c), j \in 1..Len(c),
         FirstOf(c, i), FirstOf(c, j), c[i].prefix = c[j].prefix
  PROVE  i = j
<1>1. i < j => i \in 1..(j - 1)
  OBVIOUS
<1>2. j < i => j \in 1..(i - 1)
  OBVIOUS
<1>3. ~(i < j) /\ ~(j < i)
  BY <1>1, <1>2 DEF FirstOf
<1>. QED
  BY <1>3

LEMMA KeptDistinct ==
  ASSUME NEW c, NEW k, NEW p, KeptOf(p, k, c)
  PROVE  Distinct(k)
<1>1. SUFFICES ASSUME NEW i \in 1..Len(k), NEW j \in 1..Len(k), k[i].prefix = k[j].prefix
               PROVE  i = j
  BY DEF Distinct
<1>2. /\ p[i] \in 1..Len(c) /\ p[j] \in 1..Len(c) /\ FirstOf(c, p[i]) /\ FirstOf(c, p[j])
      /\ k[i] = c[p[i]] /\ k[j] = c[p[j]] /\ (i < j => p[i] < p[j]) /\ (j < i => p[j] < p[i])
  BY DEF KeptOf
<1>3. PICK a, b : a = p[i] /\ b = p[j]
  OBVIOUS
<1>4. a = b
  <2>1. a \in Nat /\ b \in Nat /\ a \in 1..Len(c) /\ b \in 1..Len(c)
    BY <1>2, <1>3
  <2>2. FirstOf(c, a) /\ FirstOf(c, b) /\ c[a].prefix = c[b].prefix
    BY <1>1, <1>2, <1>3
  <2>. QED
    BY <2>1, <2>2, OneFirst
<1>5. i \in Nat /\ j \in Nat /\ a \in Nat
  BY <1>2, <1>3
<1>. QED
  BY <1>2, <1>3, <1>4, <1>5

\* An option is passed on from each place that wins, in the order of the places.
LEMMA OutcomeFacts ==
  ASSUME override \in Overrides, configured \in Configured, phase = "created",
         jvm = Setting(Kept(Marked(CommandLine)))[Len(Kept(Marked(CommandLine)))]
  PROVE  OverridesWin
<1>1. PICK c, g, m, k : c = CommandLine /\ g = Given /\ m = Marked(CommandLine) /\ k = Kept(m)
  OBVIOUS
<1>2. SameOptions(c, g)
  <2>1. override \in Seq(Options) /\ configured \in Seq(Options)
    BY OptionsAssumption
  <2>. QED
    BY <1>1, <2>1, CommandLineFacts
<1>3. PICK p : KeptOf(p, k, c)
  <2>1. LineIs(c, m)
    BY <1>1, LineFacts
  <2>. QED
    BY <1>1, <2>1, KeptPlaces
<1>4. k \in Seq(Options) /\ Distinct(k)
  <2>1. Distinct(k)
    BY <1>3, KeptDistinct, Zenon
  <2>. QED
    BY <1>3, <2>1 DEF KeptOf
<1>5. PICK a, b : jvm = Jvm(a, b, Selected(k, PassedKinds)) /\ SetBy(a, b, k, Len(k))
  <2>1. jvm = Setting(k)[Len(k)]
    BY <1>1
  <2>. QED
    BY <1>4, <2>1, SettingFacts
<1>6. PICK u : u = Selected(k, PassedKinds)
  OBVIOUS
<1>7. PICK q : PlacesOf(q, u, k, Len(k), PassedKinds)
  BY <1>4, <1>6, SelectedPlaces, Zenon
<1>8. u \in Seq(Options)
  <2>1. u \in Seq(Options \cap PassedKinds)
    BY <1>4, <1>6, SelectedType, Zenon
  <2>2. Options \cap PassedKinds \subseteq Options
    OBVIOUS
  <2>. QED
    BY <2>1, <2>2, SeqMonotonic
<1>9. jvm.passed = u /\ jvm.classpath = a /\ jvm.cwd = b /\ DOMAIN u = 1..Len(u)
  BY <1>5, <1>6, <1>8 DEF Jvm
<1>10. DOMAIN g = 1..Len(g) /\ Len(g) = Len(c) /\ Len(g) \in Nat
  BY <1>2, LenProperties DEF SameOptions
<1>11. \A n \in 1..Len(g) : /\ c[n] = Meant(n) /\ c[n].prefix = g[n].prefix /\ c[n].is = g[n].is
                            /\ g[n].is # "library" => c[n] = g[n]
                            /\ c[n] \in Options
  BY <1>2, <1>10, ElementOfSeq DEF SameOptions
<1>12. \A n \in 1..Len(g) : Wins(n) <=> FirstOf(c, n)
  <2>1. SUFFICES ASSUME NEW n \in 1..Len(g)
                 PROVE  Wins(n) <=> FirstOf(c, n)
    OBVIOUS
  <2>2. \A j \in 1..(n - 1) : j \in 1..Len(g)
    BY <1>10
  <2>3. Wins(n) <=> \A j \in 1..(n - 1) : g[j].prefix # g[n].prefix
    BY <1>1 DEF Wins
  <2>. QED
    BY <1>11, <2>2, <2>3 DEF FirstOf
<1>13. \A n : n \in PassedOn <=> n \in 1..Len(g) /\ FirstOf(c, n) /\ c[n].is \notin {"classpath", "cwd"}
  BY <1>1, <1>10, <1>11, <1>12 DEF PassedOn
\* Where an element of u is on the command line.
<1>. DEFINE at(n) == p[q[n]]
<1>14. \A n \in 1..Len(u) : /\ q[n] \in 1..Len(k) /\ at(n) \in 1..Len(g) /\ u[n] = c[at(n)] /\ FirstOf(c, at(n))
                            /\ at(n) \in PassedOn
  <2>1. SUFFICES ASSUME NEW n \in 1..Len(u)
                 PROVE  /\ q[n] \in 1..Len(k) /\ at(n) \in 1..Len(g) /\ u[n] = c[at(n)] /\ FirstOf(c, at(n))
                        /\ at(n) \in PassedOn
    OBVIOUS
  <2>2. PICK i : i = q[n]
    OBVIOUS
  <2>3. i \in 1..Len(k) /\ u[n] = k[i] /\ k[i] \in PassedKinds
    BY <1>7, <2>1, <2>2 DEF PlacesOf
  <2>4. PICK j : j = p[i]
    OBVIOUS
  <2>5. j \in 1..Len(g) /\ k[i] = c[j] /\ FirstOf(c, j)
    BY <1>3, <1>10, <2>3, <2>4 DEF KeptOf
  <2>6. c[j].is \notin {"classpath", "cwd"}
    BY <2>3, <2>5 DEF PassedKinds
  <2>7. j \in PassedOn
    BY <1>13, <2>5, <2>6
  <2>. QED
    BY <2>2, <2>3, <2>4, <2>5, <2>7
<1>15. \A j \in PassedOn : \E n \in 1..Len(u) : at(n) = j
  <2>1. SUFFICES ASSUME NEW j \in PassedOn
                 PROVE  \E n \in 1..Len(u) : at(n) = j
    OBVIOUS
  <2>2. j \in 1..Len(c) /\ FirstOf(c, j) /\ c[j].is \notin {"classpath", "cwd"} /\ c[j] \in Options
    BY <1>10, <1>11, <1>13, <2>1
  <2>3. PICK i \in 1..Len(k) : p[i] = j
    BY <1>3, <2>2 DEF KeptOf
  <2>4. k[i] \in PassedKinds
    <3>1. k[i] = c[j]
      BY <1>3, <2>3 DEF KeptOf
    <3>. QED
      BY <2>2, <3>1 DEF PassedKinds
  <2>5. PICK n \in 1..Len(u) : q[n] = i
    BY <1>7, <2>3, <2>4 DEF PlacesOf
  <2>. QED
    BY <2>3, <2>5
<1>16. \A i, j \in 1..Len(u) : i < j => at(i) < at(j)
  <2>1. SUFFICES ASSUME NEW i \in 1..Len(u), NEW j \in 1..Len(u), i < j
                 PROVE  at(i) < at(j)
    OBVIOUS
  <2>2. PICK x, y : x = q[i] /\ y = q[j]
    OBVIOUS
  <2>3. x \in 1..Len(k) /\ y \in 1..Len(k) /\ x < y
    BY <1>7, <2>1, <2>2 DEF PlacesOf
  <2>4. p[x] < p[y]
    BY <1>3, <2>3 DEF KeptOf
  <2>. QED
    BY <2>2, <2>4
\* An option that is passed says where it was.
<1>17. \A n \in 1..Len(u), j \in PassedOn : u[n] = Meant(j) => at(n) = j
  <2>1. SUFFICES ASSUME NEW n \in 1..Len(u), NEW j \in PassedOn, u[n] = Meant(j)
                 PROVE  at(n) = j
    OBVIOUS
  <2>2. PICK i : i = at(n)
    OBVIOUS
  <2>3. i \in 1..Len(g) /\ u[n] = c[i] /\ FirstOf(c, i)
    BY <1>14, <2>1, <2>2
  <2>4. j \in 1..Len(g) /\ FirstOf(c, j) /\ u[n] = c[j]
    BY <1>11, <1>13, <2>1
  <2>5. i \in Nat /\ j \in Nat /\ i \in 1..Len(c) /\ j \in 1..Len(c) /\ c[i].prefix = c[j].prefix
    BY <1>10, <2>3, <2>4
  <2>6. i = j
    BY <2>3, <2>4, <2>5, OneFirst
  <2>. QED
    BY <2>2, <2>6
<1>. HIDE DEF at
<1>18. \A n \in 1..Len(u) : \E j \in PassedOn : u[n] = Meant(j)
  BY <1>11, <1>14
<1>19. \A j \in PassedOn : \E n \in 1..Len(u) : u[n] = Meant(j)
  <2>1. SUFFICES ASSUME NEW j \in PassedOn
                 PROVE  \E n \in 1..Len(u) : u[n] = Meant(j)
    OBVIOUS
  <2>2. PICK n \in 1..Len(u) : at(n) = j
    BY <1>15, <2>1
  <2>3. u[n] = c[j] /\ j \in 1..Len(g)
    BY <1>14, <2>2
  <2>4. u[n] = Meant(j)
    BY <1>11, <2>3
  <2>. QED
    BY <2>4
<1>20. \A x, n \in 1..Len(u) : \A i, j \in PassedOn :
         x < n /\ u[x] = Meant(i) /\ u[n] = Meant(j) => i < j
  BY <1>16, <1>17
<1>21. \A n \in 1..Len(g) : Wins(n) =>
         /\ g[n].is = "classpath" => a = g[n].value
         /\ g[n].is = "cwd" /\ g[n].value # <<>> => b = g[n].value
  <2>1. SUFFICES ASSUME NEW n \in 1..Len(g), Wins(n), g[n].is \in {"classpath", "cwd"}
                 PROVE  /\ g[n].is = "classpath" => a = g[n].value
                        /\ g[n].is = "cwd" /\ g[n].value # <<>> => b = g[n].value
    OBVIOUS
  <2>2. c[n] = g[n] /\ FirstOf(c, n) /\ n \in 1..Len(c)
    BY <1>10, <1>11, <1>12, <2>1
  <2>3. PICK i \in 1..Len(k) : p[i] = n
    BY <1>3, <2>2 DEF KeptOf
  <2>4. k[i] = g[n]
    BY <1>3, <2>2, <2>3 DEF KeptOf
  <2>. QED
    BY <1>5, <2>4 DEF SetBy
<1>22. /\ DOMAIN jvm.passed = 1..Len(u) /\ DOMAIN Given = 1..Len(g)
  BY <1>1, <1>9, <1>10
<1>. QED
  BY <1>1, <1>9, <1>18, <1>19, <1>20, <1>21, <1>22 DEF OverridesWin

\* The invariant of the consolidation: of each prefix the first option is kept, and argv stays the same list.
THEOREM OptionsConsolidated == OptionsSpec => []OptionsInvariant
BY OptionsStart, OptionsStep, PTL DEF OptionsSpec

\* What the JVM is created with: of each prefix the first option, the annotation's before config.ini's.
THEOREM AnnotationWins == OptionsSpec => []OverridesWin
<1>1. OptionsInvariant => OverridesWin
  <2>1. ASSUME OptionsInvariant, phase = "created"
        PROVE  OverridesWin
    BY <2>1, OutcomeFacts DEF OptionsInvariant
  <2>2. ASSUME phase # "created"
        PROVE  OverridesWin
    BY <2>2 DEF OverridesWin
  <2>. QED
    BY <2>1, <2>2
<1>. QED
  BY OptionsConsolidated, <1>1, PTL

-----------------------------------------------------------------------------
(* The session in shared memory: the steps of a reader.                    *)

Kinds == {"line", "property", "number", "newline"}

ReachedStep(r, whats, f, n) == IF n = 0 THEN r ELSE Step(f[n - 1], whats[n])

\* The recursive definition of Reached has a solution.
LEMMA ReachedExists ==
  ASSUME NEW r, NEW whats, whats \in Seq(Kinds)
  PROVE  Reached(r, whats) = [n \in 0..Len(whats) |-> ReachedStep(r, whats, Reached(r, whats), n)]
<1>. DEFINE Solves(f, m) == f = [n \in 0..m |-> ReachedStep(r, whats, f, n)]
            I == {m \in Nat : \E f : Solves(f, m)}
<1>1. 0 \in I
  <2>. DEFINE f == [n \in 0..0 |-> r]
  <2>1. f = [n \in 0..0 |-> ReachedStep(r, whats, f, n)]
    BY DEF ReachedStep
  <2>. QED
    BY <2>1
<1>2. ASSUME NEW m \in Nat, m \in I
      PROVE  m + 1 \in I
  <2>1. PICK g : Solves(g, m)
    BY <1>2
  <2>. DEFINE f == [n \in 0..(m + 1) |-> IF n = m + 1 THEN ReachedStep(r, whats, g, n) ELSE g[n]]
  <2>2. \A n \in 0..m : f[n] = g[n]
    OBVIOUS
  <2>3. \A n \in 0..(m + 1) : n # 0 => n - 1 \in 0..m
    OBVIOUS
  <2>4. \A n \in 0..(m + 1) : f[n] = ReachedStep(r, whats, f, n)
    <3>1. TAKE n \in 0..(m + 1)
    <3>2. ReachedStep(r, whats, f, n) = ReachedStep(r, whats, g, n)
      BY <2>2, <2>3 DEF ReachedStep
    <3>3. n \in 0..m => g[n] = ReachedStep(r, whats, g, n)
      BY <2>1
    <3>. QED
      BY <3>2, <3>3
  <2>5. Solves(f, m + 1)
    BY <2>4
  <2>. HIDE DEF Solves, f
  <2>. QED
    BY <2>5
<1>3. Len(whats) \in I
  <2>. HIDE DEF I
  <2>1. Nat \subseteq I
    BY <1>1, <1>2, InductiveSet
  <2>. QED
    BY <2>1, LenProperties
<1>4. Reached(r, whats) = CHOOSE f : Solves(f, Len(whats))
  BY DEF Reached, ReachedStep
<1>5. PICK f : Solves(f, Len(whats))
  BY <1>3
<1>. HIDE DEF Solves
<1>6. Solves(CHOOSE g : Solves(g, Len(whats)), Len(whats))
  BY <1>5
<1>. QED
  BY <1>4, <1>6 DEF Solves

\* The streams f after each number of steps.
ReachedBy(f, r, whats) ==
  f[0] = r /\ \A n \in 1..Len(whats) : f[n] = Step(f[n - 1], whats[n])

LEMMA ReachedFacts ==
  \A r : \A whats \in Seq(Kinds) : ReachedBy(Reached(r, whats), r, whats)
<1>1. SUFFICES ASSUME NEW r, NEW whats, whats \in Seq(Kinds)
               PROVE  ReachedBy(Reached(r, whats), r, whats)
  OBVIOUS
<1>2. PICK f : f = Reached(r, whats)
  OBVIOUS
<1>3. f = [n \in 0..Len(whats) |-> ReachedStep(r, whats, f, n)]
  BY <1>1, <1>2, ReachedExists
<1>4. Len(whats) \in Nat
  BY <1>1, LenProperties
<1>5. f[0] = r
  BY <1>3, <1>4 DEF ReachedStep
<1>6. \A n \in 1..Len(whats) : f[n] = Step(f[n - 1], whats[n])
  <2>1. \A n \in 1..Len(whats) : n \in 0..Len(whats) /\ n # 0
    BY <1>4
  <2>. QED
    BY <1>3, <2>1 DEF ReachedStep
<1>. QED
  BY <1>2, <1>5, <1>6 DEF ReachedBy

LEMMA StepsNone == \A r : Steps(r, <<>>) = r
<1>1. SUFFICES ASSUME NEW r
               PROVE  Steps(r, <<>>) = r
  OBVIOUS
<1>2. <<>> \in Seq(Kinds) /\ Len(<<>>) = 0
  BY EmptySeq
<1>3. ReachedBy(Reached(r, <<>>), r, <<>>)
  BY <1>2, ReachedFacts
<1>. QED
  BY <1>2, <1>3 DEF Steps, ReachedBy

LEMMA StepsOne == \A r : \A what \in Kinds : Steps(r, <<what>>) = Step(r, what)
<1>1. SUFFICES ASSUME NEW r, NEW what \in Kinds
               PROVE  Steps(r, <<what>>) = Step(r, what)
  OBVIOUS
<1>2. PICK w : w = <<what>>
  OBVIOUS
<1>3. w \in Seq(Kinds) /\ Len(w) = 1 /\ w[1] = what
  BY <1>2
<1>4. PICK f : f = Reached(r, w)
  OBVIOUS
<1>5. ReachedBy(f, r, w)
  BY <1>3, <1>4, ReachedFacts
<1>6. f[1] = Step(f[1 - 1], w[1]) /\ f[0] = r
  BY <1>3, <1>5 DEF ReachedBy
<1>7. f[1] = Step(r, what)
  BY <1>3, <1>6
<1>. QED
  BY <1>2, <1>3, <1>4, <1>7 DEF Steps

\* The steps of a sequence that is put together are taken one part after the other.
LEMMA StepsBoth ==
  \A r : \A v, w \in Seq(Kinds) : Steps(r, v \o w) = Steps(Steps(r, v), w)
<1>1. SUFFICES ASSUME NEW r, NEW v, NEW w, v \in Seq(Kinds), w \in Seq(Kinds)
               PROVE  Steps(r, v \o w) = Steps(Steps(r, v), w)
  OBVIOUS
<1>2. PICK a, q, f, g, h : a = v \o w /\ f = Reached(r, v) /\ q = Steps(r, v) /\ g = Reached(q, w) /\ h = Reached(r, a)
  OBVIOUS
<1>3. ConcatOf(v, w, a, Kinds)
  BY <1>1, <1>2, ConcatParts
<1>4. Len(v) \in Nat /\ Len(w) \in Nat /\ Len(a) = Len(v) + Len(w) /\ a \in Seq(Kinds)
  BY <1>1, <1>3, LenProperties DEF ConcatOf
<1>5. ReachedBy(f, r, v) /\ ReachedBy(g, q, w) /\ ReachedBy(h, r, a)
  BY <1>1, <1>2, <1>4, ReachedFacts
<1>6. q = f[Len(v)]
  BY <1>2 DEF Steps
<1>7. h[Len(v)] = q
  <2>. DEFINE I == {n \in 0..Len(v) : h[n] = f[n]}
  <2>1. 0 \in I
    BY <1>4, <1>5 DEF ReachedBy
  <2>2. \A n \in 0..Len(v) : n # Len(v) /\ n \in I => n + 1 \in I
    <3>1. SUFFICES ASSUME NEW n \in 0..Len(v), n # Len(v), h[n] = f[n]
                   PROVE  n + 1 \in 0..Len(v) /\ h[n + 1] = f[n + 1]
      OBVIOUS
    <3>2. PICK i : i = n + 1
      OBVIOUS
    <3>3. i \in 1..Len(v) /\ i \in 1..Len(a) /\ i - 1 = n /\ i \in 0..Len(v)
      BY <1>4, <3>1, <3>2
    <3>4. a[i] = v[i]
      BY <1>3, <3>3 DEF ConcatOf
    <3>5. h[i] = Step(h[i - 1], a[i]) /\ f[i] = Step(f[i - 1], v[i])
      BY <1>5, <3>3 DEF ReachedBy
    <3>6. h[i] = f[i]
      BY <3>1, <3>3, <3>4, <3>5
    <3>. QED
      BY <3>2, <3>3, <3>6
  <2>. HIDE DEF I
  <2>3. 0..Len(v) \subseteq I
    BY <1>4, <2>1, <2>2, BoundedInduction
  <2>4. Len(v) \in I
    BY <1>4, <2>3
  <2>. QED
    BY <1>6, <2>4 DEF I
<1>8. h[Len(v) + Len(w)] = g[Len(w)]
  <2>. DEFINE Same(n) == h[Len(v) + n] = g[n]
              I == {n \in 0..Len(w) : Same(n)}
  <2>1. 0 \in I
    <3>1. Len(v) + 0 = Len(v) /\ g[0] = q
      BY <1>4, <1>5 DEF ReachedBy
    <3>2. Same(0)
      BY <1>7, <3>1
    <3>. QED
      BY <1>4, <3>2
  <2>2. \A n \in 0..Len(w) : n # Len(w) /\ n \in I => n + 1 \in I
    <3>1. SUFFICES ASSUME NEW n \in 0..Len(w), n # Len(w), Same(n)
                   PROVE  n + 1 \in 0..Len(w) /\ Same(n + 1)
      OBVIOUS
    <3>2. PICK i, j : i = n + 1 /\ j = Len(v) + (n + 1)
      OBVIOUS
    <3>3. i \in 1..Len(w) /\ j \in 1..Len(a) /\ i - 1 = n /\ j - 1 = Len(v) + n /\ j = Len(v) + i /\ i \in 0..Len(w)
      BY <1>4, <3>1, <3>2
    <3>4. a[j] = w[i]
      BY <1>3, <3>3 DEF ConcatOf
    <3>5. h[j] = Step(h[j - 1], a[j]) /\ g[i] = Step(g[i - 1], w[i])
      BY <1>5, <3>3 DEF ReachedBy
    <3>6. h[j] = g[i]
      BY <3>1, <3>3, <3>4, <3>5
    <3>. QED
      BY <3>2, <3>3, <3>6
  <2>. HIDE DEF I, Same
  <2>3. 0..Len(w) \subseteq I
    BY <1>4, <2>1, <2>2, BoundedInduction
  <2>4. Len(w) \in I
    BY <1>4, <2>3
  <2>. QED
    BY <2>4 DEF I, Same
<1>. QED
  BY <1>2, <1>4, <1>8 DEF Steps

-----------------------------------------------------------------------------
(* What reads what.                                                        *)

ReadValues == Numbers \cup Seq(Alphabet)

\* The steps read the values from the text and stop behind it, whatever follows.
Reads(whats, text, values) ==
  /\ whats \in Seq(Kinds) /\ text \in Seq(Alphabet) /\ values \in Seq(ReadValues)
  /\ \A rest \in Seq(Alphabet), got \in Seq(ReadValues) :
       Steps(Stream(text \o rest, "good", got), whats) = Stream(rest, "good", got \o values)

\* The parts of a text with the character c at place n.
MarkedText(t, s, c, rest, n) ==
  /\ n \in Nat \ {0} /\ n = Len(s) + 1 /\ t \in Seq(Alphabet) /\ Len(t) \in Nat /\ n \in 1..Len(t)
  /\ t # <<>> /\ t[n] = c /\ \A i \in 1..(n - 1) : t[i] = s[i]
  /\ SubSeq(t, 1, n - 1) = s
  /\ SubSeq(t, n + 1, Len(t)) = rest

LEMMA MarkedTextFacts ==
  \A s, rest \in Seq(Alphabet) : \A c \in Alphabet :
    MarkedText(Append(s, c) \o rest, s, c, rest, Len(s) + 1)
<1>1. SUFFICES ASSUME NEW s, NEW rest, NEW c, s \in Seq(Alphabet), rest \in Seq(Alphabet), c \in Alphabet
               PROVE  MarkedText(Append(s, c) \o rest, s, c, rest, Len(s) + 1)
  OBVIOUS
<1>2. PICK a, t, n, l : a = Append(s, c) /\ t = a \o rest /\ n = Len(s) + 1 /\ l = Len(s)
  OBVIOUS
<1>3. l \in Nat /\ Len(rest) \in Nat /\ n = l + 1
  BY <1>1, <1>2, LenProperties
<1>4. a \in Seq(Alphabet) /\ Len(a) = n /\ a[n] = c /\ \A i \in 1..l : a[i] = s[i]
  BY <1>1, <1>2, AppendProperties
<1>5. ConcatOf(a, rest, t, Alphabet)
  BY <1>1, <1>2, <1>4, ConcatParts
<1>6. /\ t \in Seq(Alphabet) /\ Len(t) = n + Len(rest)
      /\ \A i \in 1..n : t[i] = a[i]
      /\ \A i \in 1..Len(rest) : t[n + i] = rest[i]
  BY <1>4, <1>5 DEF ConcatOf
<1>7. t[n] = c /\ \A i \in 1..l : t[i] = s[i]
  <2>1. \A i \in 1..l : i \in 1..n
    BY <1>3
  <2>2. n \in 1..n
    BY <1>3
  <2>. QED
    BY <1>4, <1>6, <2>1, <2>2
<1>8. SubSeq(t, 1, l) = s
  <2>1. PICK v : v = SubSeq(t, 1, l)
    OBVIOUS
  <2>2. v \in Seq(Alphabet) /\ Len(v) = l /\ \A i \in 1..l : v[i] = t[i]
    BY <1>3, <1>6, <2>1
  <2>3. v = s
    BY <1>1, <1>2, <1>7, <2>2, SeqEqual
  <2>. QED
    BY <2>1, <2>3
<1>9. SubSeq(t, n + 1, Len(t)) = rest
  <2>1. PICK v : v = SubSeq(t, n + 1, Len(t))
    OBVIOUS
  <2>2. v \in Seq(Alphabet) /\ Len(v) = Len(rest) /\ \A i \in 1..Len(rest) : v[i] = t[n + i]
    BY <1>3, <1>6, <2>1
  <2>3. v = rest
    BY <1>1, <1>6, <2>2, SeqEqual
  <2>. QED
    BY <2>1, <2>3
<1>10. n \in 1..Len(t) /\ Len(t) \in Nat /\ n - 1 = l /\ n \in Nat \ {0}
  BY <1>3, <1>6
<1>11. t # <<>>
  BY <1>10
<1>12. MarkedText(t, s, c, rest, n)
  BY <1>2, <1>6, <1>7, <1>8, <1>9, <1>10, <1>11 DEF MarkedText
<1>. QED
  BY <1>2, <1>12

\* What ends with a character that is not in it is read up to there.
LEMMA UptoReads ==
  ASSUME NEW c, NEW s, NEW rest, NEW got, c \in Alphabet, s \in Seq(Alphabet \ {c}),
         rest \in Seq(Alphabet), got \in Seq(ReadValues)
  PROVE  Upto(Stream(Append(s, c) \o rest, "good", got), c) = Stream(rest, "good", got \o <<s>>)
<1>1. c \in Alphabet /\ s \in Seq(Alphabet \ {c}) /\ rest \in Seq(Alphabet) /\ got \in Seq(ReadValues)
  OBVIOUS
<1>2. s \in Seq(Alphabet) /\ \A i \in 1..Len(s) : s[i] # c
  <2>1. Seq(Alphabet \ {c}) \subseteq Seq(Alphabet)
    BY SeqMonotonic
  <2>2. \A i \in 1..Len(s) : s[i] \in Alphabet \ {c}
    BY <1>1, ElementOfSeq
  <2>. QED
    BY <1>1, <2>1, <2>2
<1>3. PICK t, n, r : t = Append(s, c) \o rest /\ n = Len(s) + 1 /\ r = Stream(t, "good", got)
  OBVIOUS
<1>4. MarkedText(t, s, c, rest, n)
  BY <1>1, <1>2, <1>3, MarkedTextFacts
<1>5. r.in = t /\ r.got = got
  BY <1>3 DEF Stream
<1>. DEFINE I == {i \in 1..Len(t) : t[i] = c}
<1>6. I # {} /\ Min(I) = n
  <2>1. n \in I
    BY <1>4 DEF MarkedText
  <2>2. \A i \in I : n <= i
    <3>1. SUFFICES ASSUME NEW i \in 1..Len(t), t[i] = c
                   PROVE  n <= i
      OBVIOUS
    <3>2. n \in Nat /\ i \in Nat /\ n = Len(s) + 1
      BY <1>4, <3>1 DEF MarkedText
    <3>3. ~(i < n)
      <4>1. i < n => i \in 1..(n - 1) /\ i \in 1..Len(s)
        BY <1>2, <3>1, <3>2, LenProperties
      <4>. QED
        BY <1>2, <1>4, <3>1, <4>1 DEF MarkedText
    <3>. QED
      BY <3>2, <3>3
  <2>3. I \subseteq Nat
    OBVIOUS
  <2>. HIDE DEF I
  <2>. QED
    BY <2>1, <2>2, <2>3, LeastIs
<1>7. SelectInSeq(t, LAMBDA x : x = c) = n
  BY <1>6 DEF SelectInSeq
<1>8. n # 0 /\ n - 1 + 2 = n + 1 /\ t # <<>> /\ SubSeq(t, 1, n - 1) = s /\ SubSeq(t, n + 1, Len(t)) = rest
  BY <1>4 DEF MarkedText
<1>9. Upto(r, c) = Stream(SubSeq(t, (n - 1) + 2, Len(t)), "good", Append(got, SubSeq(t, 1, n - 1)))
  BY <1>5, <1>7, <1>8 DEF Upto
<1>10. Append(got, s) = got \o <<s>>
  BY <1>1
<1>11. Upto(r, c) = Stream(rest, "good", got \o <<s>>)
  BY <1>8, <1>9, <1>10
<1>. QED
  BY <1>3, <1>11

\* A number, and the line feed behind it.
LEMMA NumberReads ==
  ASSUME NEW n, NEW rest, NEW got, n \in Numbers, rest \in Seq(Alphabet), got \in Seq(ReadValues)
  PROVE  Number(Stream(<<Digits(n)>> \o rest, "good", got)) = Stream(rest, "good", got \o <<n>>)
<1>1. PICK d : d = Digits(n)
  OBVIOUS
<1>2. d \in Alphabet /\ d \notin {LineFeed, Return} /\ IsNumber(d) /\ NumberOf(d) = n
  BY <1>1, SessionAssumption
<1>3. PICK t, r : t = <<d>> \o rest /\ r = Stream(t, "good", got)
  OBVIOUS
<1>4. MarkedText(t, <<>>, d, rest, 1)
  <2>1. <<>> \in Seq(Alphabet) /\ Len(<<>>) + 1 = 1 /\ Append(<<>>, d) = <<d>>
    BY EmptySeq
  <2>2. MarkedText(Append(<<>>, d) \o rest, <<>>, d, rest, Len(<<>>) + 1)
    BY <1>2, <2>1, MarkedTextFacts
  <2>. QED
    BY <1>3, <2>1, <2>2
<1>5. r.in = t /\ r.got = got
  BY <1>3 DEF Stream
<1>. DEFINE I == {i \in 1..Len(t) : t[i] \notin {LineFeed, Return}}
<1>6. I # {} /\ Min(I) = 1
  <2>1. 1 \in I
    BY <1>2, <1>4 DEF MarkedText
  <2>2. I \subseteq Nat /\ \A i \in I : 1 <= i
    OBVIOUS
  <2>. HIDE DEF I
  <2>. QED
    BY <2>1, <2>2, LeastIs
<1>7. SelectInSeq(t, LAMBDA x : x \notin {LineFeed, Return}) = 1
  BY <1>6 DEF SelectInSeq
<1>8. t[1] = d /\ SubSeq(t, 1 + 1, Len(t)) = rest
  BY <1>4 DEF MarkedText
<1>9. Number(r) = Stream(SubSeq(t, 1 + 1, Len(t)), "good", Append(got, NumberOf(t[1])))
  BY <1>2, <1>5, <1>7, <1>8 DEF Number
<1>10. Append(got, n) = got \o <<n>>
  BY DEF ReadValues
<1>11. Number(r) = Stream(rest, "good", got \o <<n>>)
  BY <1>2, <1>8, <1>9, <1>10
<1>. QED
  BY <1>1, <1>3, <1>11

LEMMA NewlineReads ==
  ASSUME NEW rest, NEW got, rest \in Seq(Alphabet)
  PROVE  Newline(Stream(<<LineFeed>> \o rest, "good", got)) = Stream(rest, "good", got)
<1>1. PICK t, r : t = <<LineFeed>> \o rest /\ r = Stream(t, "good", got)
  OBVIOUS
<1>2. t # <<>> /\ Head(t) = LineFeed /\ Tail(t) = rest
  BY <1>1, SessionAssumption, FrontOfConcat
<1>3. r.in = t
  BY <1>1 DEF Stream
<1>4. Newline(r) = [r EXCEPT !.in = Tail(@)]
  BY <1>2, <1>3 DEF Newline
<1>5. PICK u : u = Tail(r.in)
  OBVIOUS
<1>6. [r EXCEPT !.in = u] = Stream(u, "good", got)
  BY <1>1 DEF Stream
<1>. QED
  BY <1>1, <1>2, <1>3, <1>4, <1>5, <1>6

\* One step of each kind.
LEMMA StepIs ==
  \A in, got : LET r == Stream(in, "good", got)
               IN /\ Step(r, "line") = Upto(r, LineFeed)
                  /\ Step(r, "property") = Upto(r, PropertyEnd)
                  /\ Step(r, "number") = Number(r)
                  /\ Step(r, "newline") = Newline(r)
<1>1. SUFFICES ASSUME NEW in, NEW got, NEW r, r = Stream(in, "good", got)
               PROVE  /\ Step(r, "line") = Upto(r, LineFeed)
                      /\ Step(r, "property") = Upto(r, PropertyEnd)
                      /\ Step(r, "number") = Number(r)
                      /\ Step(r, "newline") = Newline(r)
  OBVIOUS
<1>2. r.state # "fail"
  BY <1>1 DEF Stream
<1>3. Step(r, "line") = Upto(r, LineFeed)
  BY <1>2 DEF Step
<1>4. Step(r, "property") = Upto(r, PropertyEnd)
  BY <1>2 DEF Step
<1>5. Step(r, "number") = Number(r)
  BY <1>2 DEF Step
<1>6. Step(r, "newline") = Newline(r)
  BY <1>2 DEF Step
<1>. QED
  BY <1>3, <1>4, <1>5, <1>6

\* What a single step reads.
LEMMA ReadsOne ==
  ASSUME NEW what \in Kinds, NEW text, NEW values, text \in Seq(Alphabet), values \in Seq(ReadValues),
         \A rest \in Seq(Alphabet), got \in Seq(ReadValues) :
           Step(Stream(text \o rest, "good", got), what) = Stream(rest, "good", got \o values)
  PROVE  Reads(<<what>>, text, values)
<1>1. <<what>> \in Seq(Kinds)
  OBVIOUS
<1>2. \A rest \in Seq(Alphabet), got \in Seq(ReadValues) :
        Steps(Stream(text \o rest, "good", got), <<what>>) = Stream(rest, "good", got \o values)
  BY StepsOne
<1>. QED
  BY <1>1, <1>2 DEF Reads

\* What ends with the character c.
LEMMA EndedReads ==
  ASSUME NEW c \in Alphabet, NEW s, s \in Seq(Alphabet \ {c}), NEW what \in Kinds,
         \A r : r.state # "fail" => Step(r, what) = Upto(r, c)
  PROVE  Reads(<<what>>, Append(s, c), <<s>>)
<1>1. s \in Seq(Alphabet)
  <2>1. Seq(Alphabet \ {c}) \subseteq Seq(Alphabet)
    BY SeqMonotonic
  <2>. QED
    BY <2>1
<1>2. Append(s, c) \in Seq(Alphabet) /\ <<s>> \in Seq(ReadValues)
  BY <1>1, AppendProperties DEF ReadValues
<1>3. \A rest \in Seq(Alphabet), got \in Seq(ReadValues) :
        Step(Stream(Append(s, c) \o rest, "good", got), what) = Stream(rest, "good", got \o <<s>>)
  <2>1. SUFFICES ASSUME NEW rest, NEW got, rest \in Seq(Alphabet), got \in Seq(ReadValues)
                 PROVE  Step(Stream(Append(s, c) \o rest, "good", got), what) = Stream(rest, "good", got \o <<s>>)
    OBVIOUS
  <2>2. PICK r : r = Stream(Append(s, c) \o rest, "good", got)
    OBVIOUS
  <2>3. r.state # "fail"
    BY <2>2 DEF Stream
  <2>4. Step(r, what) = Upto(r, c)
    BY <2>3
  <2>5. Upto(r, c) = Stream(rest, "good", got \o <<s>>)
    BY <2>1, <2>2, UptoReads
  <2>. QED
    BY <2>2, <2>4, <2>5
<1>. QED
  BY <1>2, <1>3, ReadsOne

\* One text after the other.
LEMMA ReadsBoth ==
  \A v, s, a, w, t, b : Reads(v, s, a) /\ Reads(w, t, b) => Reads(v \o w, s \o t, a \o b)
<1>1. SUFFICES ASSUME NEW v, NEW s, NEW a, NEW w, NEW t, NEW b, Reads(v, s, a), Reads(w, t, b)
               PROVE  Reads(v \o w, s \o t, a \o b)
  OBVIOUS
<1>2. /\ v \in Seq(Kinds) /\ s \in Seq(Alphabet) /\ a \in Seq(ReadValues)
      /\ w \in Seq(Kinds) /\ t \in Seq(Alphabet) /\ b \in Seq(ReadValues)
  BY <1>1 DEF Reads
<1>3. v \o w \in Seq(Kinds) /\ s \o t \in Seq(Alphabet) /\ a \o b \in Seq(ReadValues)
  BY <1>2, ConcatProperties
<1>4. \A rest \in Seq(Alphabet), got \in Seq(ReadValues) :
        Steps(Stream((s \o t) \o rest, "good", got), v \o w) = Stream(rest, "good", got \o (a \o b))
  <2>1. SUFFICES ASSUME NEW rest, NEW got, rest \in Seq(Alphabet), got \in Seq(ReadValues)
                 PROVE  Steps(Stream((s \o t) \o rest, "good", got), v \o w) = Stream(rest, "good", got \o (a \o b))
    OBVIOUS
  <2>2. PICK x, y, g, h : x = (s \o t) \o rest /\ y = t \o rest /\ g = got \o a /\ h = got \o (a \o b)
    OBVIOUS
  <2>3. y \in Seq(Alphabet) /\ g \in Seq(ReadValues)
    BY <1>2, <2>1, <2>2, ConcatProperties
  <2>4. x = s \o y /\ h = g \o b
    <3>1. Grouped(s, t, rest)
      BY <1>2, <2>1, Regrouped
    <3>2. Grouped(got, a, b)
      BY <1>2, <2>1, Regrouped
    <3>. QED
      BY <2>2, <3>1, <3>2, Zenon DEF Grouped
  <2>5. Steps(Stream(x, "good", got), v) = Stream(y, "good", g)
    BY <1>1, <2>1, <2>2, <2>3, <2>4, Zenon DEF Reads
  <2>6. Steps(Stream(y, "good", g), w) = Stream(rest, "good", h)
    BY <1>1, <2>1, <2>2, <2>3, <2>4, Zenon DEF Reads
  <2>7. Steps(Stream(x, "good", got), v \o w) = Steps(Steps(Stream(x, "good", got), v), w)
    BY <1>2, StepsBoth
  <2>8. Steps(Stream(x, "good", got), v \o w) = Stream(rest, "good", h)
    BY <2>5, <2>6, <2>7
  <2>. QED
    BY <2>2, <2>8
<1>. QED
  BY <1>3, <1>4 DEF Reads

LEMMA ReadsNone == Reads(<<>>, <<>>, <<>>)
<1>1. <<>> \in Seq(Kinds) /\ <<>> \in Seq(Alphabet) /\ <<>> \in Seq(ReadValues)
  BY EmptySeq
<1>2. \A rest \in Seq(Alphabet), got \in Seq(ReadValues) : <<>> \o rest = rest /\ got \o <<>> = got
  BY ConcatEmptySeq
<1>3. \A rest \in Seq(Alphabet), got \in Seq(ReadValues) :
        Steps(Stream(<<>> \o rest, "good", got), <<>>) = Stream(rest, "good", got \o <<>>)
  BY <1>2, StepsNone
<1>. QED
  BY <1>1, <1>3 DEF Reads

\* Lines, properties, numbers and line feeds.
LEMMA LineReads == \A s \in Names : Reads(<<"line">>, Line(s), <<s>>)
<1>1. SUFFICES ASSUME NEW s, s \in Names
               PROVE  Reads(<<"line">>, Line(s), <<s>>)
  OBVIOUS
<1>2. LineFeed \in Alphabet /\ "line" \in Kinds /\ s \in Seq(Alphabet \ {LineFeed})
  BY <1>1, SessionAssumption DEF Kinds, Names
<1>3. \A r : r.state # "fail" => Step(r, "line") = Upto(r, LineFeed)
  BY DEF Step
<1>4. Reads(<<"line">>, Append(s, LineFeed), <<s>>)
  BY <1>2, <1>3, EndedReads
<1>5. Append(s, LineFeed) = Line(s)
  BY <1>2 DEF Line
<1>. QED
  BY <1>4, <1>5

LEMMA PropertyReads == \A s \in Seq(Alphabet \ {Return}) : Reads(<<"property">>, Append(s, PropertyEnd), <<s>>)
<1>1. SUFFICES ASSUME NEW s, s \in Seq(Alphabet \ {Return})
               PROVE  Reads(<<"property">>, Append(s, PropertyEnd), <<s>>)
  OBVIOUS
<1>2. Return \in Alphabet /\ "property" \in Kinds /\ PropertyEnd = Return
  BY SessionAssumption DEF Kinds, PropertyEnd
<1>3. \A r : r.state # "fail" => Step(r, "property") = Upto(r, Return)
  BY DEF Step, PropertyEnd
<1>4. Reads(<<"property">>, Append(s, Return), <<s>>)
  BY <1>1, <1>2, <1>3, EndedReads
<1>. QED
  BY <1>2, <1>4

LEMMA LineFeedReads == Reads(<<"newline">>, <<LineFeed>>, <<>>)
<1>1. "newline" \in Kinds /\ <<LineFeed>> \in Seq(Alphabet) /\ <<>> \in Seq(ReadValues)
  BY SessionAssumption, EmptySeq DEF Kinds
<1>2. \A rest \in Seq(Alphabet), got \in Seq(ReadValues) :
        Step(Stream(<<LineFeed>> \o rest, "good", got), "newline") = Stream(rest, "good", got \o <<>>)
  <2>1. \A got \in Seq(ReadValues) : got \o <<>> = got
    BY ConcatEmptySeq
  <2>. QED
    BY <2>1, StepIs, NewlineReads
<1>. QED
  BY <1>1, <1>2, ReadsOne

LEMMA NumberLineReads == \A n \in Numbers : Reads(NumberSteps, NumberLine(n), <<n>>)
<1>1. SUFFICES ASSUME NEW n, n \in Numbers
               PROVE  Reads(NumberSteps, NumberLine(n), <<n>>)
  OBVIOUS
<1>2. Digits(n) \in Alphabet /\ "number" \in Kinds
  BY <1>1, SessionAssumption DEF Kinds
<1>3. <<Digits(n)>> \in Seq(Alphabet) /\ <<n>> \in Seq(ReadValues)
  BY <1>1, <1>2 DEF ReadValues
<1>4. \A rest \in Seq(Alphabet), got \in Seq(ReadValues) :
        Step(Stream(<<Digits(n)>> \o rest, "good", got), "number") = Stream(rest, "good", got \o <<n>>)
  BY <1>1, StepIs, NumberReads
<1>5. Reads(<<"number">>, <<Digits(n)>>, <<n>>)
  BY <1>2, <1>3, <1>4, ReadsOne
<1>6. Reads(<<"number">> \o <<"newline">>, <<Digits(n)>> \o <<LineFeed>>, <<n>> \o <<>>)
  BY <1>5, LineFeedReads, ReadsBoth, Zenon
<1>7. <<"number">> \o <<"newline">> = NumberSteps
  BY TwoOf DEF NumberSteps
<1>8. <<n>> \o <<>> = <<n>>
  BY <1>3, ConcatEmptySeq
<1>. QED
  BY <1>6, <1>7, <1>8 DEF NumberLine, Line

\* A method, a command.
LEMMA MethodReads == \A m \in Methods : Reads(MethodSteps, MethodText(m), MethodValues(m))
<1>1. SUFFICES ASSUME NEW m \in Methods
               PROVE  Reads(MethodSteps, MethodText(m), MethodValues(m))
  OBVIOUS
<1>2. /\ m.static \in Numbers /\ m.which \in Numbers /\ m.name \in Names /\ m.descriptor \in Names
      /\ Type \in Names
  BY SessionAssumption DEF Methods
<1>3. /\ Reads(<<"line">>, Line(Type), <<Type>>)
      /\ Reads(NumberSteps, NumberLine(m.static), <<m.static>>)
      /\ Reads(NumberSteps, NumberLine(m.which), <<m.which>>)
      /\ Reads(<<"line">>, Line(m.name), <<m.name>>)
      /\ Reads(<<"line">>, Line(m.descriptor), <<m.descriptor>>)
  BY <1>2, LineReads, NumberLineReads
<1>4. Reads(<<"line">> \o NumberSteps, Line(Type) \o NumberLine(m.static), <<Type>> \o <<m.static>>)
  BY <1>3, ReadsBoth, Zenon
<1>5. Reads(<<"line">> \o NumberSteps \o NumberSteps, Line(Type) \o NumberLine(m.static) \o NumberLine(m.which),
            <<Type>> \o <<m.static>> \o <<m.which>>)
  BY <1>3, <1>4, ReadsBoth, Zenon
<1>6. Reads(<<"line">> \o NumberSteps \o NumberSteps \o <<"line">>,
            Line(Type) \o NumberLine(m.static) \o NumberLine(m.which) \o Line(m.name),
            <<Type>> \o <<m.static>> \o <<m.which>> \o <<m.name>>)
  BY <1>3, <1>5, ReadsBoth, Zenon
<1>7. Reads(MethodSteps, MethodText(m),
            <<Type>> \o <<m.static>> \o <<m.which>> \o <<m.name>> \o <<m.descriptor>>)
  BY <1>3, <1>6, ReadsBoth, Zenon DEF MethodSteps, MethodText
<1>8. <<Type>> \o <<m.static>> \o <<m.which>> \o <<m.name>> \o <<m.descriptor>> = MethodValues(m)
  BY FiveOf, Zenon DEF MethodValues
<1>. QED
  BY <1>7, <1>8

LEMMA CommandReads == \A m \in Commands : Reads(CommandSteps, CommandText(m), CommandValues(m))
<1>1. SUFFICES ASSUME NEW m \in Commands
               PROVE  Reads(CommandSteps, CommandText(m), CommandValues(m))
  OBVIOUS
<1>2. m.command \in Names /\ m.options \in Names /\ Type \in Names
  BY SessionAssumption DEF Commands
<1>3. Reads(MethodSteps, MethodText(m), MethodValues(m))
  <2>1. PICK k : k = [static |-> m.static, which |-> m.which, name |-> m.name, descriptor |-> m.descriptor]
    OBVIOUS
  <2>2. k \in Methods
    BY <2>1 DEF Methods, Commands
  <2>3. MethodText(m) = MethodText(k) /\ MethodValues(m) = MethodValues(k)
    BY <2>1 DEF MethodText, MethodValues
  <2>. QED
    BY <2>2, <2>3, MethodReads
<1>4. /\ Reads(<<"line">>, Line(Type), <<Type>>)
      /\ Reads(<<"line">>, Line(m.command), <<m.command>>)
      /\ Reads(<<"line">>, Line(m.options), <<m.options>>)
  BY <1>2, LineReads
<1>5. Reads(<<"line">> \o MethodSteps, Line(Type) \o MethodText(m), <<Type>> \o MethodValues(m))
  BY <1>3, <1>4, ReadsBoth, Zenon
<1>6. Reads(<<"line">> \o MethodSteps \o <<"line">>, Line(Type) \o MethodText(m) \o Line(m.command),
            <<Type>> \o MethodValues(m) \o <<m.command>>)
  BY <1>4, <1>5, ReadsBoth, Zenon
<1>7. Reads(CommandSteps, CommandText(m), <<Type>> \o MethodValues(m) \o <<m.command>> \o <<m.options>>)
  BY <1>4, <1>6, ReadsBoth, Zenon DEF CommandSteps, CommandText
<1>8. <<Type>> \o MethodValues(m) \o <<m.command>> \o <<m.options>> = CommandValues(m)
  <2>1. PICK u : u = <<Type>> \o MethodValues(m)
    OBVIOUS
  <2>2. u \in Seq(ReadValues) /\ <<m.command>> \in Seq(ReadValues) /\ <<m.options>> \in Seq(ReadValues)
    BY <1>4, <1>5, <2>1 DEF Reads
  <2>3. Grouped(u, <<m.command>>, <<m.options>>)
    BY <2>2, Regrouped
  <2>4. <<m.command>> \o <<m.options>> = <<m.command, m.options>>
    BY TwoOf
  <2>. QED
    BY <2>1, <2>3, <2>4, Zenon DEF CommandValues, Grouped
<1>. QED
  BY <1>7, <1>8

\* Many texts, each read by the same steps.
LEMMA ReadsAll ==
  ASSUME NEW E, NEW ss, NEW vv, NEW n \in Nat,
         E \in Seq(Kinds), ss \in Seq(Seq(Alphabet)), vv \in Seq(Seq(ReadValues)), Len(ss) = n, Len(vv) = n,
         \A i \in 1..n : Reads(E, ss[i], vv[i])
  PROVE  Reads(FlattenSeq([i \in 1..n |-> E]), FlattenSeq(ss), FlattenSeq(vv))
<1>1. PICK ee : ee = [i \in 1..n |-> E]
  OBVIOUS
<1>2. ee \in Seq(Seq(Kinds)) /\ Len(ee) = n /\ \A i \in 1..n : ee[i] = E
  BY <1>1
<1>3. PICK f : PiecesOf(f, ee, Kinds) /\ FlattenSeq(ee) = f[n]
  BY <1>2, FlattenFacts
<1>4. PICK g : PiecesOf(g, ss, Alphabet) /\ FlattenSeq(ss) = g[n]
  BY FlattenFacts
<1>5. PICK h : PiecesOf(h, vv, ReadValues) /\ FlattenSeq(vv) = h[n]
  BY FlattenFacts
<1>. DEFINE I == {k \in 0..n : Reads(f[k], g[k], h[k])}
<1>6. 0 \in I
  <2>1. f[0] = <<>> /\ g[0] = <<>> /\ h[0] = <<>>
    BY <1>3, <1>4, <1>5 DEF PiecesOf
  <2>. QED
    BY <2>1, ReadsNone
<1>7. \A k \in 0..n : k # n /\ k \in I => k + 1 \in I
  <2>1. SUFFICES ASSUME NEW k \in 0..n, k # n, Reads(f[k], g[k], h[k])
                 PROVE  k + 1 \in 0..n /\ Reads(f[k + 1], g[k + 1], h[k + 1])
    OBVIOUS
  <2>2. PICK i : i = k + 1
    OBVIOUS
  <2>3. i \in 1..n /\ i - 1 = k /\ i \in 0..n
    BY <2>1, <2>2
  <2>4. f[i] = f[k] \o E
    BY <1>2, <1>3, <2>3 DEF PiecesOf
  <2>5. g[i] = g[k] \o ss[i] /\ h[i] = h[k] \o vv[i]
    BY <1>4, <1>5, <2>3 DEF PiecesOf
  <2>6. Reads(E, ss[i], vv[i])
    BY <2>3
  <2>7. Reads(f[k] \o E, g[k] \o ss[i], h[k] \o vv[i])
    BY <2>1, <2>6, ReadsBoth, Zenon
  <2>8. Reads(f[i], g[i], h[i])
    BY <2>4, <2>5, <2>7
  <2>. QED
    BY <2>2, <2>3, <2>8
<1>. HIDE DEF I
<1>8. 0..n \subseteq I
  BY <1>6, <1>7, BoundedInduction
<1>9. n \in I
  BY <1>8
<1>. QED
  BY <1>1, <1>3, <1>4, <1>5, <1>9 DEF I

\* A text and a line feed behind it.
LEMMA ReadsLine == \A E, t, v : Reads(E, t, v) => Reads(E \o <<"newline">>, Line(t), v)
<1>1. SUFFICES ASSUME NEW E, NEW t, NEW v, Reads(E, t, v)
               PROVE  Reads(E \o <<"newline">>, Line(t), v)
  OBVIOUS
<1>2. Reads(E \o <<"newline">>, t \o <<LineFeed>>, v \o <<>>)
  BY <1>1, LineFeedReads, ReadsBoth, Zenon
<1>3. v \o <<>> = v
  BY <1>1, ConcatEmptySeq DEF Reads
<1>. QED
  BY <1>2, <1>3 DEF Line

\* stream_vec_in() reads the values from the text and stops behind it.
ReadsVector(element, text, values) ==
  /\ text \in Seq(Alphabet) /\ values \in Seq(ReadValues)
  /\ \A rest \in Seq(Alphabet), got \in Seq(ReadValues) :
       VectorIn(Stream(text \o rest, "good", got), element) = Stream(rest, "good", got \o values)

LEMMA VectorReads ==
  ASSUME NEW E, NEW texts, NEW tt, NEW vv, NEW end, NEW n \in Nat, n \in Numbers,
         E \in Seq(Kinds), tt \in Seq(Seq(Alphabet)), vv \in Seq(Seq(ReadValues)),
         Len(texts) = n, Len(tt) = n, Len(vv) = n,
         tt = [i \in DOMAIN texts |-> Append(texts[i], end)],
         \A i \in 1..n : Reads(E, tt[i], vv[i])
  PROVE  ReadsVector(E, VectorText(texts, end), VectorValues(vv))
<1>1. PICK hs, es, ns, A, B, C, V, W :
        /\ hs = <<"line">> \o NumberSteps /\ es = FlattenSeq([i \in 1..n |-> E]) /\ ns = <<"newline", "newline">>
        /\ A = Line(Type) \o NumberLine(n) /\ B = FlattenSeq(tt) /\ C = <<LineFeed, LineFeed>>
        /\ V = <<Type, n>> /\ W = FlattenSeq(vv)
  OBVIOUS
<1>2. VectorText(texts, end) = (A \o B) \o C /\ VectorValues(vv) = V \o W
  BY <1>1 DEF VectorText, VectorValues
<1>3. Reads(hs, A, V)
  <2>1. Reads(<<"line">>, Line(Type), <<Type>>) /\ Reads(NumberSteps, NumberLine(n), <<n>>)
    BY LineReads, NumberLineReads, SessionAssumption
  <2>2. Reads(<<"line">> \o NumberSteps, Line(Type) \o NumberLine(n), <<Type>> \o <<n>>)
    BY <2>1, ReadsBoth, Zenon
  <2>3. <<Type>> \o <<n>> = <<Type, n>>
    BY TwoOf
  <2>. QED
    BY <1>1, <2>2, <2>3
<1>4. Reads(es \o ns, B \o C, W)
  <2>1. Reads(es, B, W)
    BY <1>1, ReadsAll
  <2>2. Reads(<<"newline">> \o <<"newline">>, <<LineFeed>> \o <<LineFeed>>, <<>> \o <<>>)
    BY LineFeedReads, ReadsBoth, Zenon
  <2>3. Reads(ns, C, <<>> \o <<>>)
    <3>1. <<"newline">> \o <<"newline">> = ns /\ <<LineFeed>> \o <<LineFeed>> = C
      BY <1>1, TwoOf
    <3>. QED
      BY <2>2, <3>1
  <2>4. Reads(es \o ns, B \o C, W \o (<<>> \o <<>>))
    BY <2>1, <2>3, ReadsBoth, Zenon
  <2>5. W \o (<<>> \o <<>>) = W
    <3>1. <<>> \o <<>> = <<>>
      <4>1. <<>> \in Seq(ReadValues)
        BY EmptySeq
      <4>. QED
        BY <4>1, ConcatEmptySeq
    <3>2. W \in Seq(ReadValues)
      BY <2>1 DEF Reads
    <3>3. W \o <<>> = W
      BY <3>2, ConcatEmptySeq
    <3>. QED
      BY <3>1, <3>3
  <2>. QED
    BY <2>4, <2>5
<1>5. /\ A \in Seq(Alphabet) /\ B \in Seq(Alphabet) /\ C \in Seq(Alphabet)
      /\ V \in Seq(ReadValues) /\ W \in Seq(ReadValues) /\ hs \in Seq(Kinds)
  <2>1. B \in Seq(Alphabet)
    <3>1. Reads(es, B, W)
      BY <1>1, ReadsAll
    <3>. QED
      BY <3>1 DEF Reads
  <2>2. C \in Seq(Alphabet)
    BY <1>1, SessionAssumption
  <2>. QED
    BY <1>3, <1>4, <2>1, <2>2 DEF Reads
<1>6. (A \o B) \o C \in Seq(Alphabet) /\ V \o W \in Seq(ReadValues) /\ B \o C \in Seq(Alphabet)
  BY <1>5, ConcatProperties
<1>7. ASSUME NEW rest, NEW got, rest \in Seq(Alphabet), got \in Seq(ReadValues)
      PROVE  VectorIn(Stream(((A \o B) \o C) \o rest, "good", got), E) = Stream(rest, "good", got \o (V \o W))
  <2>1. PICK x, y, g, r, head : /\ x = ((A \o B) \o C) \o rest /\ y = (B \o C) \o rest /\ g = got \o V
                                /\ r = Stream(x, "good", got) /\ head = Steps(r, hs)
    OBVIOUS
  <2>2. y \in Seq(Alphabet) /\ g \in Seq(ReadValues)
    BY <1>5, <1>6, <1>7, <2>1, ConcatProperties
  <2>3. x = A \o y
    <3>1. Grouped(A, B, C)
      BY <1>5, Regrouped
    <3>2. PICK q : q = B \o C
      OBVIOUS
    <3>3. A \in Seq(Alphabet) /\ q \in Seq(Alphabet) /\ rest \in Seq(Alphabet)
      BY <1>5, <1>6, <1>7, <3>2
    <3>4. Grouped(A, q, rest)
      BY <3>3, Regrouped
    <3>. QED
      BY <2>1, <3>1, <3>2, <3>4, Zenon DEF Grouped
  <2>4. head = Stream(y, "good", g)
    BY <1>3, <1>7, <2>1, <2>2, <2>3, Zenon DEF Reads
  <2>5. Last(g) = n
    <3>1. Len(V) = 2 /\ V[2] = n /\ Len(got) \in Nat
      BY <1>1, <1>7, LenProperties
    <3>2. ConcatOf(got, V, g, ReadValues)
      BY <1>5, <1>7, <2>1, ConcatParts
    <3>3. Len(g) = Len(got) + 2 /\ g[Len(got) + 2] = n
      <4>1. 2 \in 1..2
        OBVIOUS
      <4>. QED
        BY <3>1, <3>2, <4>1 DEF ConcatOf
    <3>. QED
      BY <3>3 DEF Last
  <2>6. head.state = "good" /\ head.got = g
    BY <2>4 DEF Stream
  <2>7. VectorIn(r, E) = Steps(head, es \o ns)
    BY <1>1, <2>1, <2>5, <2>6 DEF VectorIn
  <2>8. Steps(head, es \o ns) = Stream(rest, "good", g \o W)
    BY <1>4, <1>7, <2>1, <2>2, <2>4, Zenon DEF Reads
  <2>9. Grouped(got, V, W)
    BY <1>5, <1>7, Regrouped
  <2>. QED
    BY <2>1, <2>7, <2>8, <2>9, Zenon DEF Grouped
<1>. QED
  BY <1>2, <1>6, <1>7 DEF ReadsVector

\* A command table, the system properties.
LEMMA TableReads ==
  \A table \in Seq(Commands) : Len(table) \in Numbers =>
    ReadsVector(CommandSteps \o <<"newline">>, VectorText(CommandTexts(table), LineFeed), TableValues(table))
<1>1. SUFFICES ASSUME NEW table, table \in Seq(Commands), Len(table) \in Numbers
               PROVE  ReadsVector(CommandSteps \o <<"newline">>, VectorText(CommandTexts(table), LineFeed), TableValues(table))
  OBVIOUS
<1>2. PICK n, E, texts, tt, vv :
        /\ n = Len(table) /\ E = CommandSteps \o <<"newline">> /\ texts = CommandTexts(table)
        /\ tt = [i \in DOMAIN texts |-> Append(texts[i], LineFeed)]
        /\ vv = [i \in DOMAIN table |-> CommandValues(table[i])]
  OBVIOUS
<1>3. n \in Nat /\ n \in Numbers /\ DOMAIN table = 1..n /\ \A i \in 1..n : table[i] \in Commands
  BY <1>1, <1>2, LenProperties, ElementOfSeq
<1>4. DOMAIN texts = 1..n /\ \A i \in 1..n : texts[i] = CommandText(table[i])
  BY <1>2, <1>3 DEF CommandTexts
<1>5. \A i \in 1..n : tt[i] = Line(CommandText(table[i])) /\ vv[i] = CommandValues(table[i])
  <2>1. SUFFICES ASSUME NEW i \in 1..n
                 PROVE  tt[i] = Line(CommandText(table[i])) /\ vv[i] = CommandValues(table[i])
    OBVIOUS
  <2>2. CommandText(table[i]) \in Seq(Alphabet) /\ LineFeed \in Alphabet
    BY <1>3, CommandReads, SessionAssumption DEF Reads
  <2>3. CommandText(table[i]) \o <<LineFeed>> = Append(CommandText(table[i]), LineFeed)
    BY <2>2, OneMore
  <2>. QED
    BY <1>2, <1>3, <1>4, <2>3 DEF Line
<1>6. \A i \in 1..n : Reads(E, tt[i], vv[i])
  <2>1. SUFFICES ASSUME NEW i \in 1..n
                 PROVE  Reads(E, tt[i], vv[i])
    OBVIOUS
  <2>2. Reads(CommandSteps, CommandText(table[i]), CommandValues(table[i]))
    BY <1>3, CommandReads
  <2>3. Reads(CommandSteps \o <<"newline">>, Line(CommandText(table[i])), CommandValues(table[i]))
    BY <2>2, ReadsLine, Zenon
  <2>. QED
    BY <1>2, <1>5, <2>3
<1>7. \A i \in 1..n : tt[i] \in Seq(Alphabet) /\ vv[i] \in Seq(ReadValues)
  BY <1>6 DEF Reads
<1>8. E \in Seq(Kinds)
  <2>1. CommandSteps \in Seq(Kinds)
    BY DEF CommandSteps, MethodSteps, NumberSteps, Kinds
  <2>2. <<"newline">> \in Seq(Kinds)
    BY LineFeedReads DEF Reads
  <2>. QED
    BY <1>2, <2>1, <2>2, ConcatProperties
<1>9. tt \in Seq(Seq(Alphabet)) /\ vv \in Seq(Seq(ReadValues)) /\ Len(tt) = n /\ Len(vv) = n /\ Len(texts) = n
  <2>1. tt = [i \in 1..n |-> tt[i]] /\ vv = [i \in 1..n |-> vv[i]] /\ texts = [i \in 1..n |-> texts[i]]
    BY <1>2, <1>3, <1>4 DEF CommandTexts
  <2>2. tt \in Seq(Seq(Alphabet)) /\ Len(tt) = n
    BY <1>3, <1>7, <2>1, IndexedSeq
  <2>3. vv \in Seq(Seq(ReadValues)) /\ Len(vv) = n
    BY <1>3, <1>7, <2>1, IndexedSeq
  <2>4. Len(texts) = n
    BY <1>3, <1>4, <2>1, LenProperties, IndexedSeq
  <2>. QED
    BY <2>2, <2>3, <2>4
<1>10. ReadsVector(E, VectorText(texts, LineFeed), VectorValues(vv))
  BY <1>2, <1>3, <1>6, <1>8, <1>9, VectorReads
<1>. QED
  BY <1>2, <1>10 DEF TableValues

LEMMA PropertiesRead ==
  \A pp \in Seq(Seq(Alphabet \ {Return})) : Len(pp) \in Numbers =>
    ReadsVector(<<"property">>, VectorText(pp, PropertyEnd), VectorValues([i \in DOMAIN pp |-> <<pp[i]>>]))
<1>1. SUFFICES ASSUME NEW pp, pp \in Seq(Seq(Alphabet \ {Return})), Len(pp) \in Numbers
               PROVE  ReadsVector(<<"property">>, VectorText(pp, PropertyEnd), VectorValues([i \in DOMAIN pp |-> <<pp[i]>>]))
  OBVIOUS
<1>2. PICK n, tt, vv :
        /\ n = Len(pp) /\ tt = [i \in DOMAIN pp |-> Append(pp[i], PropertyEnd)]
        /\ vv = [i \in DOMAIN pp |-> <<pp[i]>>]
  OBVIOUS
<1>3. n \in Nat /\ n \in Numbers /\ DOMAIN pp = 1..n /\ \A i \in 1..n : pp[i] \in Seq(Alphabet \ {Return})
  BY <1>1, <1>2, LenProperties, ElementOfSeq
<1>4. \A i \in 1..n : Reads(<<"property">>, tt[i], vv[i])
  <2>1. \A i \in 1..n : tt[i] = Append(pp[i], PropertyEnd) /\ vv[i] = <<pp[i]>>
    BY <1>2, <1>3
  <2>. QED
    BY <1>3, <2>1, PropertyReads
<1>5. \A i \in 1..n : tt[i] \in Seq(Alphabet) /\ vv[i] \in Seq(ReadValues)
  BY <1>4 DEF Reads
<1>6. tt \in Seq(Seq(Alphabet)) /\ vv \in Seq(Seq(ReadValues)) /\ Len(tt) = n /\ Len(vv) = n
  <2>1. tt = [i \in 1..n |-> tt[i]] /\ vv = [i \in 1..n |-> vv[i]]
    BY <1>2, <1>3
  <2>2. tt \in Seq(Seq(Alphabet)) /\ Len(tt) = n
    BY <1>3, <1>5, <2>1, IndexedSeq
  <2>3. vv \in Seq(Seq(ReadValues)) /\ Len(vv) = n
    BY <1>3, <1>5, <2>1, IndexedSeq
  <2>. QED
    BY <2>2, <2>3
<1>7. <<"property">> \in Seq(Kinds)
  BY DEF Kinds
<1>8. ReadsVector(<<"property">>, VectorText(pp, PropertyEnd), VectorValues(vv))
  BY <1>2, <1>3, <1>4, <1>6, <1>7, VectorReads
<1>. QED
  BY <1>2, <1>8

\* What stands before the command tables: numbers, entry points, two lines.
FrontSteps ==
  (((<<"line">> \o NumberSteps) \o NumberSteps) \o FlattenSeq([n \in 1..7 |-> MethodSteps \o <<"newline">>]))
    \o <<"line", "line">>
FrontText(ss) ==
  Line(Type) \o NumberLine(ss.pid) \o NumberLine(ss.max)
    \o FlattenSeq([n \in DOMAIN ss.points |-> Line(MethodText(ss.points[n]))])
    \o (Line(ss.words) \o Line(ss.classPath))
FrontValues(ss) ==
  <<Type, ss.pid, ss.max>> \o FlattenSeq([n \in DOMAIN ss.points |-> MethodValues(ss.points[n])])
    \o <<ss.words, ss.classPath>>

LEMMA TwoLinesRead ==
  \A a, b \in Names : Reads(<<"line", "line">>, Line(a) \o Line(b), <<a, b>>)
<1>1. SUFFICES ASSUME NEW a, NEW b, a \in Names, b \in Names
               PROVE  Reads(<<"line", "line">>, Line(a) \o Line(b), <<a, b>>)
  OBVIOUS
<1>2. Reads(<<"line">>, Line(a), <<a>>) /\ Reads(<<"line">>, Line(b), <<b>>)
  BY <1>1, LineReads
<1>3. Reads(<<"line">> \o <<"line">>, Line(a) \o Line(b), <<a>> \o <<b>>)
  BY <1>2, ReadsBoth, Zenon
<1>4. <<"line">> \o <<"line">> = <<"line", "line">> /\ <<a>> \o <<b>> = <<a, b>>
  BY TwoOf
<1>. QED
  BY <1>3, <1>4

LEMMA NumbersRead ==
  \A m, n \in Numbers :
    Reads((<<"line">> \o NumberSteps) \o NumberSteps, Line(Type) \o NumberLine(m) \o NumberLine(n), <<Type, m, n>>)
<1>1. SUFFICES ASSUME NEW m \in Numbers, NEW n \in Numbers
               PROVE  Reads((<<"line">> \o NumberSteps) \o NumberSteps,
                            Line(Type) \o NumberLine(m) \o NumberLine(n), <<Type, m, n>>)
  OBVIOUS
<1>2. /\ Reads(<<"line">>, Line(Type), <<Type>>) /\ Reads(NumberSteps, NumberLine(m), <<m>>)
      /\ Reads(NumberSteps, NumberLine(n), <<n>>)
  BY LineReads, NumberLineReads, SessionAssumption
<1>3. Reads(<<"line">> \o NumberSteps, Line(Type) \o NumberLine(m), <<Type>> \o <<m>>)
  BY <1>2, ReadsBoth, Zenon
<1>4. Reads((<<"line">> \o NumberSteps) \o NumberSteps, Line(Type) \o NumberLine(m) \o NumberLine(n),
            (<<Type>> \o <<m>>) \o <<n>>)
  BY <1>2, <1>3, ReadsBoth, Zenon
<1>5. (<<Type>> \o <<m>>) \o <<n>> = <<Type, m, n>>
  <2>1. PICK S, t, w : S = {Type, m, n} /\ t = <<Type, m>> /\ w = <<Type, m, n>>
    OBVIOUS
  <2>2. t \in Seq(S) /\ Len(t) = 2 /\ t[1] = Type /\ t[2] = m /\ n \in S
    BY <2>1
  <2>3. w \in Seq(S) /\ Len(w) = 2 + 1 /\ w[2 + 1] = n /\ w[1] = Type /\ w[2] = m
    BY <2>1
  <2>4. \A i \in 1..2 : i = 1 \/ i = 2
    OBVIOUS
  <2>5. \A i \in 1..2 : w[i] = t[i]
    BY <2>2, <2>3, <2>4
  <2>6. t \o <<n>> = w
    <3>1. 2 \in Nat
      OBVIOUS
    <3>. QED
      BY <2>2, <2>3, <2>5, <3>1, OneLonger
  <2>7. <<Type>> \o <<m>> = <<Type, m>>
    BY TwoOf
  <2>. QED
    BY <2>1, <2>6, <2>7, Zenon
<1>. QED
  BY <1>4, <1>5

LEMMA PointsRead ==
  \A points \in Seq(Methods) : Len(points) = 7 =>
    Reads(FlattenSeq([n \in 1..7 |-> MethodSteps \o <<"newline">>]),
          FlattenSeq([n \in DOMAIN points |-> Line(MethodText(points[n]))]),
          FlattenSeq([n \in DOMAIN points |-> MethodValues(points[n])]))
<1>1. SUFFICES ASSUME NEW points, points \in Seq(Methods), Len(points) = 7
               PROVE  Reads(FlattenSeq([n \in 1..7 |-> MethodSteps \o <<"newline">>]),
                            FlattenSeq([n \in DOMAIN points |-> Line(MethodText(points[n]))]),
                            FlattenSeq([n \in DOMAIN points |-> MethodValues(points[n])]))
  OBVIOUS
<1>2. PICK n, E, tt, vv :
        /\ n = 7 /\ E = MethodSteps \o <<"newline">>
        /\ tt = [i \in DOMAIN points |-> Line(MethodText(points[i]))]
        /\ vv = [i \in DOMAIN points |-> MethodValues(points[i])]
  OBVIOUS
<1>3. n \in Nat /\ DOMAIN points = 1..n /\ \A i \in 1..n : points[i] \in Methods
  BY <1>1, <1>2, LenProperties, ElementOfSeq
<1>4. \A i \in 1..n : tt[i] = Line(MethodText(points[i])) /\ vv[i] = MethodValues(points[i])
  BY <1>2, <1>3
<1>5. \A i \in 1..n : Reads(E, tt[i], vv[i])
  <2>1. SUFFICES ASSUME NEW i \in 1..n
                 PROVE  Reads(E, tt[i], vv[i])
    OBVIOUS
  <2>2. Reads(MethodSteps, MethodText(points[i]), MethodValues(points[i]))
    BY <1>3, MethodReads
  <2>3. Reads(MethodSteps \o <<"newline">>, Line(MethodText(points[i])), MethodValues(points[i]))
    BY <2>2, ReadsLine, Zenon
  <2>. QED
    BY <1>2, <1>4, <2>3
<1>6. \A i \in 1..n : tt[i] \in Seq(Alphabet) /\ vv[i] \in Seq(ReadValues)
  BY <1>5 DEF Reads
<1>7. tt = [i \in 1..n |-> tt[i]] /\ vv = [i \in 1..n |-> vv[i]]
  BY <1>2, <1>3
<1>8. tt \in Seq(Seq(Alphabet)) /\ Len(tt) = n
  BY <1>3, <1>6, <1>7, IndexedSeq
<1>9. vv \in Seq(Seq(ReadValues)) /\ Len(vv) = n
  BY <1>3, <1>6, <1>7, IndexedSeq
<1>10. E \in Seq(Kinds)
  <2>1. MethodSteps \in Seq(Kinds) /\ <<"newline">> \in Seq(Kinds)
    BY DEF MethodSteps, NumberSteps, Kinds
  <2>. QED
    BY <1>2, <2>1, ConcatProperties
<1>11. Reads(FlattenSeq([i \in 1..n |-> E]), FlattenSeq(tt), FlattenSeq(vv))
  BY <1>3, <1>5, <1>8, <1>9, <1>10, ReadsAll
<1>. QED
  BY <1>2, <1>11

LEMMA FrontReads == \A ss \in Contents : Reads(FrontSteps, FrontText(ss), FrontValues(ss))
<1>1. SUFFICES ASSUME NEW ss \in Contents
               PROVE  Reads(FrontSteps, FrontText(ss), FrontValues(ss))
  OBVIOUS
<1>2. /\ ss.pid \in Numbers /\ ss.max \in Numbers /\ ss.points \in Seq(Methods) /\ Len(ss.points) = 7
      /\ ss.words \in Names /\ ss.classPath \in Names
  BY DEF Contents
<1>3. PICK a, s, u, b, t, v, c, x, y :
        /\ a = (<<"line">> \o NumberSteps) \o NumberSteps
        /\ s = Line(Type) \o NumberLine(ss.pid) \o NumberLine(ss.max) /\ u = <<Type, ss.pid, ss.max>>
        /\ b = FlattenSeq([n \in 1..7 |-> MethodSteps \o <<"newline">>])
        /\ t = FlattenSeq([n \in DOMAIN ss.points |-> Line(MethodText(ss.points[n]))])
        /\ v = FlattenSeq([n \in DOMAIN ss.points |-> MethodValues(ss.points[n])])
        /\ c = <<"line", "line">> /\ x = Line(ss.words) \o Line(ss.classPath) /\ y = <<ss.words, ss.classPath>>
  OBVIOUS
<1>4. Reads(a, s, u)
  BY <1>2, <1>3, NumbersRead
<1>5. Reads(b, t, v)
  BY <1>2, <1>3, PointsRead
<1>6. Reads(c, x, y)
  BY <1>2, <1>3, TwoLinesRead
<1>7. Reads(a \o b, s \o t, u \o v)
  BY <1>4, <1>5, ReadsBoth, Zenon
<1>8. Reads((a \o b) \o c, (s \o t) \o x, (u \o v) \o y)
  BY <1>6, <1>7, ReadsBoth, Zenon
<1>9. FrontSteps = (a \o b) \o c /\ FrontText(ss) = (s \o t) \o x /\ FrontValues(ss) = (u \o v) \o y
  BY <1>3 DEF FrontSteps, FrontText, FrontValues
<1>. QED
  BY <1>8, <1>9

\* What stands behind the vectors: two lines, to the end.
TailText(ss) == Line(ss.level) \o Line(ss.jvm)

\* Reading what was published gives every value, and nothing is left.
LEMMA SessionReads ==
  \A ss \in Contents : SessionIn(SessionOut(ss)) = Stream(<<>>, "good", Values(ss))
<1>1. SUFFICES ASSUME NEW ss \in Contents
               PROVE  SessionIn(SessionOut(ss)) = Stream(<<>>, "good", Values(ss))
  OBVIOUS
<1>2. /\ ss.supervisor \in Seq(Commands) /\ ss.worker \in Seq(Commands)
      /\ ss.properties \in Seq(Seq(Alphabet \ {Return})) /\ ss.level \in Names /\ ss.jvm \in Names
      /\ Len(ss.supervisor) \in Numbers /\ Len(ss.worker) \in Numbers /\ Len(ss.properties) \in Numbers
  BY DEF Contents
<1>3. PICK A, B, C, D, E, a, b, c, d, e :
        /\ A = FrontText(ss) /\ a = FrontValues(ss)
        /\ B = VectorText(CommandTexts(ss.supervisor), LineFeed) /\ b = TableValues(ss.supervisor)
        /\ C = VectorText(CommandTexts(ss.worker), LineFeed) /\ c = TableValues(ss.worker)
        /\ D = VectorText(ss.properties, PropertyEnd)
        /\ d = VectorValues([n \in DOMAIN ss.properties |-> <<ss.properties[n]>>])
        /\ E = TailText(ss) /\ e = <<ss.level, ss.jvm>>
  OBVIOUS
<1>4. PICK entry : entry = CommandSteps \o <<"newline">>
  OBVIOUS
<1>5. /\ Reads(FrontSteps, A, a)
      /\ ReadsVector(entry, B, b) /\ ReadsVector(entry, C, c) /\ ReadsVector(<<"property">>, D, d)
      /\ Reads(<<"line", "line">>, E, e)
  <2>1. Reads(FrontSteps, A, a)
    BY <1>3, FrontReads
  <2>2. ReadsVector(entry, B, b) /\ ReadsVector(entry, C, c)
    BY <1>2, <1>3, <1>4, TableReads
  <2>3. ReadsVector(<<"property">>, D, d)
    BY <1>2, <1>3, PropertiesRead
  <2>4. Reads(<<"line", "line">>, E, e)
    BY <1>2, <1>3, TwoLinesRead DEF TailText
  <2>. QED
    BY <2>1, <2>2, <2>3, <2>4
<1>6. /\ A \in Seq(Alphabet) /\ B \in Seq(Alphabet) /\ C \in Seq(Alphabet) /\ D \in Seq(Alphabet) /\ E \in Seq(Alphabet)
      /\ a \in Seq(ReadValues) /\ b \in Seq(ReadValues) /\ c \in Seq(ReadValues) /\ d \in Seq(ReadValues)
      /\ e \in Seq(ReadValues)
  BY <1>5 DEF Reads, ReadsVector
<1>7. SessionOut(ss) = (((A \o B) \o C) \o D) \o E
  <2>1. PICK n, w, k, l, j : /\ n = Line(Type) \o NumberLine(ss.pid) \o NumberLine(ss.max)
                                      \o FlattenSeq([i \in DOMAIN ss.points |-> Line(MethodText(ss.points[i]))])
                             /\ w = Line(ss.words) /\ k = Line(ss.classPath) /\ l = Line(ss.level) /\ j = Line(ss.jvm)
    OBVIOUS
  <2>2. SessionOut(ss) = ((((((n \o w) \o k) \o B) \o C) \o D) \o l) \o j
    BY <1>3, <2>1 DEF SessionOut
  <2>3. A = n \o (w \o k) /\ E = l \o j
    BY <1>3, <2>1 DEF FrontText, TailText
  <2>4. n \in Seq(Alphabet) /\ w \in Seq(Alphabet) /\ k \in Seq(Alphabet) /\ l \in Seq(Alphabet) /\ j \in Seq(Alphabet)
    <3>1. n \in Seq(Alphabet)
      <4>1. Line(Type) \o NumberLine(ss.pid) \o NumberLine(ss.max) \in Seq(Alphabet)
        BY NumbersRead DEF Contents, Reads
      <4>2. FlattenSeq([i \in DOMAIN ss.points |-> Line(MethodText(ss.points[i]))]) \in Seq(Alphabet)
        BY PointsRead DEF Contents, Reads
      <4>. QED
        BY <2>1, <4>1, <4>2, ConcatProperties
    <3>2. ss.words \in Names /\ ss.classPath \in Names
      BY DEF Contents
    <3>. QED
      BY <1>2, <2>1, <3>1, <3>2, LineReads DEF Reads
  <2>5. ((A \o B) \o C) \o D \in Seq(Alphabet)
    <3>1. A \o B \in Seq(Alphabet)
      BY <1>6, ConcatProperties
    <3>2. (A \o B) \o C \in Seq(Alphabet)
      BY <1>6, <3>1, ConcatProperties
    <3>. QED
      BY <1>6, <3>2, ConcatProperties
  <2>6. Grouped(n, w, k) /\ Grouped(((A \o B) \o C) \o D, l, j)
    BY <2>4, <2>5, Regrouped
  <2>. QED
    BY <2>2, <2>3, <2>6, Zenon DEF Grouped
<1>8. PICK z, y, x, w, r, g, h, i, j :
        /\ z = E \o <<>> /\ y = D \o z /\ x = C \o y /\ w = B \o x /\ r = A \o w
        /\ g = <<>> \o a /\ h = g \o b /\ i = h \o c /\ j = i \o d
  OBVIOUS
<1>9. /\ <<>> \in Seq(Alphabet) /\ <<>> \in Seq(ReadValues)
      /\ z \in Seq(Alphabet) /\ y \in Seq(Alphabet) /\ x \in Seq(Alphabet) /\ w \in Seq(Alphabet)
      /\ g \in Seq(ReadValues) /\ h \in Seq(ReadValues) /\ i \in Seq(ReadValues) /\ j \in Seq(ReadValues)
  <2>1. <<>> \in Seq(Alphabet) /\ <<>> \in Seq(ReadValues)
    BY EmptySeq
  <2>2. z \in Seq(Alphabet) /\ g \in Seq(ReadValues)
    BY <1>6, <1>8, <2>1, ConcatProperties
  <2>3. y \in Seq(Alphabet) /\ h \in Seq(ReadValues)
    BY <1>6, <1>8, <2>2, ConcatProperties
  <2>4. x \in Seq(Alphabet) /\ i \in Seq(ReadValues)
    BY <1>6, <1>8, <2>3, ConcatProperties
  <2>5. w \in Seq(Alphabet) /\ j \in Seq(ReadValues)
    BY <1>6, <1>8, <2>4, ConcatProperties
  <2>. QED
    BY <2>1, <2>2, <2>3, <2>4, <2>5
<1>10. SessionOut(ss) = r
  <2>1. (((A \o B) \o C) \o D) \o E = A \o (B \o (C \o (D \o E)))
    <3>1. A \in Seq(Alphabet) /\ B \in Seq(Alphabet) /\ C \in Seq(Alphabet) /\ D \in Seq(Alphabet) /\ E \in Seq(Alphabet)
      BY <1>6
    <3>2. GroupedFive(A, B, C, D, E)
      BY <3>1, FiveParts
    <3>. QED
      BY <3>2 DEF GroupedFive
  <2>2. E \o <<>> = E
    BY <1>6, ConcatEmptySeq
  <2>. QED
    BY <1>7, <1>8, <2>1, <2>2
<1>11. Values(ss) = j \o e
  <2>1. g = a
    BY <1>6, <1>8, ConcatEmptySeq
  <2>. QED
    BY <1>3, <1>8, <2>1 DEF Values, FrontValues
<1>12. PICK lines, commands, workers, rest :
        /\ lines = Steps(Stream(r, "good", <<>>), FrontSteps)
        /\ commands = VectorIn(lines, entry) /\ workers = VectorIn(commands, entry)
        /\ rest = VectorIn(workers, <<"property">>)
  OBVIOUS
<1>13. SessionIn(r) = Steps(rest, <<"line", "line">>)
  <2>1. PICK s, as, bs, cs : /\ s = Stream(r, "good", <<>>) /\ as = (<<"line">> \o NumberSteps) \o NumberSteps
                             /\ bs = FlattenSeq([n \in 1..7 |-> MethodSteps \o <<"newline">>])
                             /\ cs = <<"line", "line">>
    OBVIOUS
  <2>2. FrontSteps = (as \o bs) \o cs
    BY <2>1 DEF FrontSteps
  <2>3. as \in Seq(Kinds) /\ bs \in Seq(Kinds) /\ cs \in Seq(Kinds)
    <3>1. as \in Seq(Kinds)
      BY <2>1, NumbersRead DEF Contents, Reads
    <3>2. bs \in Seq(Kinds)
      BY <2>1, PointsRead DEF Contents, Reads
    <3>3. cs \in Seq(Kinds)
      BY <1>5, <2>1 DEF Reads
    <3>. QED
      BY <3>1, <3>2, <3>3
  <2>4. as \o bs \in Seq(Kinds)
    BY <2>3, ConcatProperties
  <2>5. lines = Steps(Steps(Steps(s, as), bs), cs)
    <3>1. Steps(s, (as \o bs) \o cs) = Steps(Steps(s, as \o bs), cs)
      BY <2>3, <2>4, StepsBoth
    <3>2. Steps(s, as \o bs) = Steps(Steps(s, as), bs)
      BY <2>3, StepsBoth
    <3>. QED
      BY <1>12, <2>1, <2>2, <3>1, <3>2, Zenon
  <2>. QED
    BY <1>4, <1>12, <2>1, <2>5 DEF SessionIn
<1>14. lines = Stream(w, "good", g)
  BY <1>5, <1>8, <1>9, <1>12, Zenon DEF Reads
<1>15. commands = Stream(x, "good", h)
  <2>1. /\ ReadsVector(entry, B, b) /\ x \in Seq(Alphabet) /\ g \in Seq(ReadValues)
        /\ w = B \o x /\ h = g \o b /\ lines = Stream(w, "good", g)
    BY <1>5, <1>8, <1>9, <1>14
  <2>2. VectorIn(Stream(B \o x, "good", g), entry) = Stream(x, "good", g \o b)
    BY <2>1 DEF ReadsVector
  <2>. QED
    BY <1>12, <2>1, <2>2, Zenon
<1>16. workers = Stream(y, "good", i)
  <2>1. /\ ReadsVector(entry, C, c) /\ y \in Seq(Alphabet) /\ h \in Seq(ReadValues)
        /\ x = C \o y /\ i = h \o c /\ commands = Stream(x, "good", h)
    BY <1>5, <1>8, <1>9, <1>15
  <2>2. VectorIn(Stream(C \o y, "good", h), entry) = Stream(y, "good", h \o c)
    BY <2>1 DEF ReadsVector
  <2>. QED
    BY <1>12, <2>1, <2>2, Zenon
<1>17. rest = Stream(z, "good", j)
  <2>1. /\ ReadsVector(<<"property">>, D, d) /\ z \in Seq(Alphabet) /\ i \in Seq(ReadValues)
        /\ y = D \o z /\ j = i \o d /\ workers = Stream(y, "good", i)
    BY <1>5, <1>8, <1>9, <1>16
  <2>2. VectorIn(Stream(D \o z, "good", i), <<"property">>) = Stream(z, "good", i \o d)
    BY <2>1 DEF ReadsVector
  <2>. QED
    BY <1>12, <2>1, <2>2, Zenon
<1>18. Steps(rest, <<"line", "line">>) = Stream(<<>>, "good", j \o e)
  BY <1>5, <1>8, <1>9, <1>17, Zenon DEF Reads
<1>. QED
  BY <1>10, <1>11, <1>13, <1>18

-----------------------------------------------------------------------------
(* Publishing and reading.                                                 *)

\* What is shared is what the service has published; what was taken is all of it.
TextInvariant ==
  /\ session \in Sessions
  /\ shared = <<>> \/ shared = SessionOut(session)
  /\ taken.got = <<>> \/ taken = Stream(<<>>, "good", Values(session))

LEMMA TextInvariantHolds == TextSpec => []TextInvariant
<1>1. TextInit => TextInvariant
  <2>1. SUFFICES ASSUME TextInit
                 PROVE  TextInvariant
    OBVIOUS
  <2>2. taken.got = <<>>
    BY <2>1 DEF TextInit, Stream
  <2>. QED
    BY <2>1, <2>2 DEF TextInit, TextInvariant
<1>2. TextInvariant /\ [TextNext]_textVars => TextInvariant'
  <2>1. SUFFICES ASSUME TextInvariant, [TextNext]_textVars
                 PROVE  TextInvariant'
    OBVIOUS
  <2>2. CASE Publish
    BY <2>1, <2>2 DEF Publish, TextInvariant
  <2>3. CASE ReadSession
    <3>1. shared = SessionOut(session) /\ session \in Contents
      BY <2>1, <2>3, SessionAssumption DEF ReadSession, TextInvariant
    <3>2. taken' = Stream(<<>>, "good", Values(session))
      BY <2>3, <3>1, SessionReads DEF ReadSession
    <3>. QED
      BY <2>1, <2>3, <3>2 DEF ReadSession, TextInvariant
  <2>4. CASE UNCHANGED textVars
    BY <2>1, <2>4 DEF textVars, TextInvariant
  <2>. QED
    BY <2>1, <2>2, <2>3, <2>4 DEF TextNext
<1>. QED
  BY <1>1, <1>2, PTL DEF TextSpec

(***************************************************************************)
(* Whatever a service publishes, a client reads back field by field and to *)
(* the end (SessionComesThrough): names, methods and tables of every       *)
(* length, empty ones too, properties with line feeds in them, provided    *)
(* that no name holds a line feed and no property a return, the characters *)
(* that end them.                                                          *)
(***************************************************************************)
THEOREM SessionRead == TextSpec => []SessionComesThrough
<1>1. TextInvariant => SessionComesThrough
  BY DEF TextInvariant, SessionComesThrough, Stream
<1>. QED
  BY <1>1, TextInvariantHolds, PTL

-----------------------------------------------------------------------------
(* The arguments of a command: the parser.                                 *)

Parser(a, w, q, e) == [argv |-> a, word |-> w, quote |-> q, escape |-> e]

Parsers == [argv : Seq(Seq(Characters)), word : Seq(Characters),
            quote : {<<>>} \cup {<<c>> : c \in Characters}, escape : {<<>>, <<Backslash>>}]

\* What a character does to a parser that is given by its parts.
LEMMA AddedIs ==
  \A a, w, q, e, c, p : p = Parser(a, w, q, e) => Added(p, c) = Parser(a, Append(w, c), q, <<>>)
<1>1. SUFFICES ASSUME NEW a, NEW w, NEW q, NEW e, NEW c, NEW p, p = Parser(a, w, q, e)
               PROVE  Added(p, c) = Parser(a, Append(w, c), q, <<>>)
  BY Zenon
<1>2. PICK r : r = [p EXCEPT !.word = Append(p.word, c), !.escape = <<>>]
  OBVIOUS
<1>3. r = Parser(a, Append(w, c), q, <<>>)
  BY <1>1, <1>2 DEF Parser
<1>. QED
  BY <1>1, <1>2, <1>3 DEF Added

LEMMA ParsedEscaped ==
  ASSUME NEW a, NEW w, NEW q, NEW c
  PROVE  Parsed(Parser(a, w, q, <<Backslash>>), c) =
           IF q # <<>> /\ <<c>> # q
           THEN Parser(a, Append(Append(w, Backslash), c), q, <<>>)
           ELSE Parser(a, Append(w, c), q, <<>>)
<1>1. PICK p, r : p = Parser(a, w, q, <<Backslash>>) /\ r = Parser(a, Append(w, Backslash), q, <<>>)
  OBVIOUS
<1>2. Added(p, c) = Parser(a, Append(w, c), q, <<>>) /\ Added(p, Backslash) = r
  BY <1>1, AddedIs
<1>3. Added(r, c) = Parser(a, Append(Append(w, Backslash), c), q, <<>>)
  BY <1>1, AddedIs
<1>4. p.quote = q /\ p.escape = <<Backslash>>
  BY <1>1 DEF Parser
<1>5. Parsed(p, c) = IF p.quote # <<>> /\ <<c>> # p.quote
                     THEN Added(Added(p, Backslash), c) ELSE Added(p, c)
  BY <1>4 DEF Parsed
<1>. QED
  BY <1>1, <1>2, <1>3, <1>4, <1>5

\* What a character does to a parser that has no backslash just before.
AfterPlain(a, w, q, c) ==
  IF <<c>> = q THEN Parser(a, w, <<>>, <<>>)
  ELSE IF c = Backslash THEN Parser(a, w, q, <<Backslash>>)
  ELSE IF q # <<>> THEN Parser(a, Append(w, c), q, <<>>)
  ELSE IF c = Space THEN Parser(IF w = <<>> THEN a ELSE Append(a, w), <<>>, q, <<>>)
  ELSE IF c \in {Quote, Apostrophe} THEN Parser(a, w, <<c>>, <<>>)
  ELSE Parser(a, Append(w, c), q, <<>>)

LEMMA ParsedPlain ==
  ASSUME NEW a, NEW w, NEW q, NEW c
  PROVE  Parsed(Parser(a, w, q, <<>>), c) = AfterPlain(a, w, q, c)
<1>1. PICK p : p = Parser(a, w, q, <<>>)
  OBVIOUS
<1>2. Added(p, c) = Parser(a, Append(w, c), q, <<>>)
  BY <1>1, AddedIs
<1>3. p.argv = a /\ p.word = w /\ p.quote = q /\ p.escape = <<>>
  BY <1>1 DEF Parser
<1>4. /\ [p EXCEPT !.quote = <<>>] = Parser(a, w, <<>>, <<>>)
      /\ [p EXCEPT !.escape = <<c>>] = Parser(a, w, q, <<c>>)
      /\ [p EXCEPT !.quote = <<c>>] = Parser(a, w, <<c>>, <<>>)
  <2>1. PICK r, s, t : /\ r = [p EXCEPT !.quote = <<>>]
                       /\ s = [p EXCEPT !.escape = <<c>>]
                       /\ t = [p EXCEPT !.quote = <<c>>]
    OBVIOUS
  <2>2. r = Parser(a, w, <<>>, <<>>)
    BY <1>1, <2>1 DEF Parser
  <2>3. s = Parser(a, w, q, <<c>>)
    BY <1>1, <2>1 DEF Parser
  <2>4. t = Parser(a, w, <<c>>, <<>>)
    BY <1>1, <2>1 DEF Parser
  <2>. QED
    BY <2>1, <2>2, <2>3, <2>4
<1>5. [p EXCEPT !.argv = IF p.word = <<>> THEN p.argv ELSE Append(p.argv, p.word), !.word = <<>>]
        = Parser(IF w = <<>> THEN a ELSE Append(a, w), <<>>, q, <<>>)
  <2>1. PICK d : d = IF w = <<>> THEN a ELSE Append(a, w)
    OBVIOUS
  <2>2. [p EXCEPT !.argv = d, !.word = <<>>] = Parser(d, <<>>, q, <<>>)
    <3>1. PICK r : r = [p EXCEPT !.argv = d, !.word = <<>>]
      OBVIOUS
    <3>2. r = Parser(d, <<>>, q, <<>>)
      BY <1>1, <3>1 DEF Parser
    <3>. QED
      BY <3>1, <3>2
  <2>3. (IF p.word = <<>> THEN p.argv ELSE Append(p.argv, p.word)) = d
    BY <1>3, <2>1
  <2>. QED
    BY <2>1, <2>2, <2>3
<1>6. Parsed(p, c) =
        IF <<c>> = p.quote THEN [p EXCEPT !.quote = <<>>]
        ELSE IF c = Backslash THEN [p EXCEPT !.escape = <<c>>]
        ELSE IF p.quote # <<>> THEN Added(p, c)
        ELSE IF c = Space
        THEN [p EXCEPT !.argv = IF p.word = <<>> THEN p.argv ELSE Append(p.argv, p.word), !.word = <<>>]
        ELSE IF c \in {Quote, Apostrophe} THEN [p EXCEPT !.quote = <<c>>]
        ELSE Added(p, c)
  BY <1>3 DEF Parsed
<1>. QED
  BY <1>1, <1>2, <1>3, <1>4, <1>5, <1>6 DEF AfterPlain

\* The parser stays one.
LEMMA ParsedType ==
  ASSUME NEW p \in Parsers, NEW c \in Characters, Backslash \in Characters
  PROVE  Parsed(p, c) \in Parsers
<1>. DEFINE Q == {<<>>} \cup {<<d>> : d \in Characters}
            E == {<<>>, <<Backslash>>}
            A == Seq(Seq(Characters))
            W == Seq(Characters)
<1>1. PICK a, w, q : a = p.argv /\ w = p.word /\ q = p.quote
  OBVIOUS
<1>2. a \in A /\ w \in W /\ q \in Q
  BY <1>1 DEF Parsers
<1>3. Append(w, c) \in W /\ Append(Append(w, Backslash), c) \in W /\ Append(a, w) \in A
  BY <1>2, AppendProperties
<1>4. \A x \in A, y \in W, z \in Q, e \in E : Parser(x, y, z, e) \in Parsers
  BY DEF Parser, Parsers
<1>5. <<>> \in Q /\ <<c>> \in Q /\ <<>> \in W /\ <<>> \in E /\ <<Backslash>> \in E
  BY EmptySeq
<1>6. p = Parser(a, w, q, <<Backslash>>) \/ p = Parser(a, w, q, <<>>)
  BY <1>1 DEF Parsers, Parser
<1>. HIDE DEF A, W, Q, E
<1>7. CASE p = Parser(a, w, q, <<Backslash>>)
  <2>1. /\ Parser(a, Append(Append(w, Backslash), c), q, <<>>) \in Parsers
        /\ Parser(a, Append(w, c), q, <<>>) \in Parsers
    BY <1>2, <1>3, <1>4, <1>5
  <2>. QED
    BY <1>7, <2>1, ParsedEscaped
<1>8. CASE p = Parser(a, w, q, <<>>)
  <2>1. /\ Parser(a, w, <<>>, <<>>) \in Parsers
        /\ Parser(a, w, q, <<Backslash>>) \in Parsers
        /\ Parser(a, Append(w, c), q, <<>>) \in Parsers
        /\ Parser(a, w, <<c>>, <<>>) \in Parsers
    BY <1>2, <1>3, <1>4, <1>5
  <2>2. Parser(IF w = <<>> THEN a ELSE Append(a, w), <<>>, q, <<>>) \in Parsers
    BY <1>2, <1>3, <1>4, <1>5
  <2>3. AfterPlain(a, w, q, c) \in Parsers
    BY <2>1, <2>2 DEF AfterPlain
  <2>. QED
    BY <1>8, <2>3, ParsedPlain
<1>. QED
  BY <1>6, <1>7, <1>8

\* The parser R after each number of characters of t.
ReadBy(R, t) ==
  /\ R[0] = Parser(<<>>, <<>>, <<>>, <<>>)
  /\ \A n \in 1..Len(t) : R[n] = Parsed(R[n - 1], t[n])

\* The recursive definition of Reading has a solution.
LEMMA ReadingFacts ==
  \A t \in Seq(Characters) : Backslash \in Characters => ReadBy(Reading(t), t)
<1>0. SUFFICES ASSUME NEW t, t \in Seq(Characters), Backslash \in Characters
               PROVE  ReadBy(Reading(t), t)
  OBVIOUS
<1>. DEFINE m == Len(t)
            v == Parser(<<>>, <<>>, <<>>, <<>>)
            G == [n \in 1..m |-> [p \in Parsers |-> Parsed(p, t[n])]]
            Solves(f) == f = [n \in 0..m |-> IF n = 0 THEN v ELSE Parsed(f[n - 1], t[n])]
<1>1. m \in Nat /\ \A n \in 1..m : t[n] \in Characters
  BY <1>0, LenProperties, ElementOfSeq
<1>2. v \in Parsers
  BY EmptySeq DEF Parser, Parsers
<1>. HIDE DEF m, v
<1>3. \A n \in 1..m, p \in Parsers : Parsed(p, t[n]) \in Parsers
  BY <1>0, <1>1, ParsedType
<1>4. G \in [1..m -> [Parsers -> Parsers]]
  BY <1>3
<1>5. PICK f \in [0..m -> Parsers] : f[0] = v /\ \A n \in 1..m : f[n] = G[n][f[n - 1]]
  <2>. HIDE DEF G
  <2>1. PICK V, H, a, k : V = Parsers /\ H = G /\ a = v /\ k = m
    OBVIOUS
  <2>2. k \in Nat /\ a \in V /\ H \in [1..k -> [V -> V]]
    BY <1>1, <1>2, <1>4, <2>1, Zenon
  <2>3. \E h \in [0..k -> V] : h[0] = a /\ \A n \in 1..k : h[n] = H[n][h[n - 1]]
    BY <2>2, Recursion
  <2>. QED
    BY <2>1, <2>3, Zenon
<1>6. \A n \in 1..m : n - 1 \in 0..m /\ f[n - 1] \in Parsers
  BY <1>1
<1>7. \A n \in 1..m : f[n] = Parsed(f[n - 1], t[n])
  BY <1>5, <1>6
<1>8. Solves(f)
  <2>1. \A n \in 0..m : f[n] = IF n = 0 THEN v ELSE Parsed(f[n - 1], t[n])
    BY <1>1, <1>5, <1>7
  <2>. QED
    BY <1>5, <2>1
<1>9. PICK R : R = Reading(t)
  OBVIOUS
<1>10. Solves(R)
  <2>1. R = CHOOSE g : Solves(g)
    BY <1>9 DEF Reading, m, v, Parser
  <2>. HIDE DEF Solves
  <2>. QED
    BY <1>8, <2>1
<1>11. R[0] = v
  BY <1>1, <1>10
<1>12. \A n \in 1..m : R[n] = Parsed(R[n - 1], t[n])
  <2>1. SUFFICES ASSUME NEW n \in 1..m
                 PROVE  R[n] = Parsed(R[n - 1], t[n])
    OBVIOUS
  <2>2. n \in 0..m /\ n # 0
    BY <1>1
  <2>. QED
    BY <1>10, <2>2
<1>. QED
  BY <1>9, <1>11, <1>12 DEF ReadBy, m, v

\* The arguments that arrive as they are.
Arguments == {w \in Seq(Characters) : Plain(w)}

\* What Plain says of the characters.
LEMMA ArgumentFacts ==
  ASSUME NEW w \in Arguments
  PROVE  /\ w \in Seq(Characters) /\ w # <<>> /\ Len(w) \in Nat
         /\ \A j \in 1..Len(w) : w[j] # Quote /\ w[j] # Backslash /\ w[j] \in Characters
<1>1. w \in Seq(Characters) /\ w # <<>> /\ ToSet(w) \cap {Quote, Backslash} = {}
  BY DEF Arguments, Plain
<1>2. Len(w) \in Nat /\ DOMAIN w = 1..Len(w)
  BY <1>1, LenProperties
<1>3. \A j \in 1..Len(w) : w[j] \in ToSet(w) /\ w[j] \in Characters
  BY <1>1, <1>2, ElementOfSeq DEF ToSet
<1>. QED
  BY <1>1, <1>2, <1>3

\* The characters that an argument in double quotes and the space after it are made of.
LEMMA ParsedQuoted ==
  ASSUME ArgumentAssumption, NEW v, NEW w
  PROVE  /\ Parsed(Parser(v, <<>>, <<>>, <<>>), Quote) = Parser(v, <<>>, <<Quote>>, <<>>)
         /\ \A c : c # Quote /\ c # Backslash =>
              Parsed(Parser(v, w, <<Quote>>, <<>>), c) = Parser(v, Append(w, c), <<Quote>>, <<>>)
         /\ Parsed(Parser(v, w, <<Quote>>, <<>>), Quote) = Parser(v, w, <<>>, <<>>)
         /\ w # <<>> => Parsed(Parser(v, w, <<>>, <<>>), Space) = Parser(Append(v, w), <<>>, <<>>, <<>>)
<1>1. Quote # Backslash /\ Quote # Space /\ Space # Backslash
  BY DEF ArgumentAssumption
<1>2. \A c : <<c>> # <<>> /\ (<<c>> = <<Quote>> => c = Quote)
  OBVIOUS
<1>3. Parsed(Parser(v, <<>>, <<>>, <<>>), Quote) = Parser(v, <<>>, <<Quote>>, <<>>)
  <2>1. PICK e, c : e = <<>> /\ c = Quote
    OBVIOUS
  <2>2. <<c>> # e /\ c # Backslash /\ c # Space /\ c \in {Quote, Apostrophe}
    BY <1>1, <1>2, <2>1
  <2>3. AfterPlain(v, e, e, c) = Parser(v, e, <<c>>, <<>>)
    BY <2>1, <2>2 DEF AfterPlain
  <2>4. Parsed(Parser(v, e, e, <<>>), c) = Parser(v, e, <<c>>, <<>>)
    BY <2>3, ParsedPlain
  <2>. QED
    BY <2>1, <2>4
<1>4. ASSUME NEW c, c # Quote, c # Backslash
      PROVE  Parsed(Parser(v, w, <<Quote>>, <<>>), c) = Parser(v, Append(w, c), <<Quote>>, <<>>)
  <2>1. PICK q : q = <<Quote>>
    OBVIOUS
  <2>2. <<c>> # q /\ q # <<>>
    BY <1>2, <1>4, <2>1
  <2>3. AfterPlain(v, w, q, c) = Parser(v, Append(w, c), q, <<>>)
    BY <1>4, <2>2 DEF AfterPlain
  <2>4. Parsed(Parser(v, w, q, <<>>), c) = Parser(v, Append(w, c), q, <<>>)
    BY <2>3, ParsedPlain
  <2>. QED
    BY <2>1, <2>4
<1>5. Parsed(Parser(v, w, <<Quote>>, <<>>), Quote) = Parser(v, w, <<>>, <<>>)
  <2>1. PICK q : q = <<Quote>>
    OBVIOUS
  <2>2. AfterPlain(v, w, q, Quote) = Parser(v, w, <<>>, <<>>)
    BY <2>1 DEF AfterPlain
  <2>3. Parsed(Parser(v, w, q, <<>>), Quote) = Parser(v, w, <<>>, <<>>)
    BY <2>2, ParsedPlain
  <2>. QED
    BY <2>1, <2>3
<1>6. ASSUME w # <<>>
      PROVE  Parsed(Parser(v, w, <<>>, <<>>), Space) = Parser(Append(v, w), <<>>, <<>>, <<>>)
  <2>1. PICK e, c : e = <<>> /\ c = Space
    OBVIOUS
  <2>2. <<c>> # e /\ c # Backslash
    BY <1>1, <1>2, <2>1
  <2>3. AfterPlain(v, w, e, c) = Parser(Append(v, w), <<>>, e, <<>>)
    BY <1>6, <2>1, <2>2 DEF AfterPlain
  <2>4. Parsed(Parser(v, w, e, <<>>), c) = Parser(Append(v, w), <<>>, e, <<>>)
    BY <2>3, ParsedPlain
  <2>. QED
    BY <2>1, <2>4
<1>. QED
  BY <1>3, <1>4, <1>5, <1>6

\* After its first a characters t has the argument w in double quotes.
QuotedAt(t, a, w) ==
  /\ a + Len(w) + 2 <= Len(t) /\ t[a + 1] = Quote /\ t[a + Len(w) + 2] = Quote
  /\ \A j \in 1..Len(w) : t[a + 1 + j] = w[j]

\* An argument in double quotes becomes the parser's word.
LEMMA ReadsQuoted ==
  ASSUME ArgumentAssumption,
         NEW t \in Seq(Characters), NEW R, ReadBy(R, t), NEW v, NEW w \in Arguments,
         NEW a \in Nat, QuotedAt(t, a, w), R[a] = Parser(v, <<>>, <<>>, <<>>)
  PROVE  R[a + Len(w) + 2] = Parser(v, w, <<>>, <<>>)
<1>. DEFINE m == Len(w)
            Read(k) == R[a + 1 + k] = Parser(v, SubSeq(w, 1, k), <<Quote>>, <<>>)
            I == {k \in 0..m : Read(k)}
<1>0. t[a + 1] = Quote /\ t[a + m + 2] = Quote /\ \A j \in 1..m : t[a + 1 + j] = w[j]
  BY DEF QuotedAt
<1>1. Len(t) \in Nat /\ m \in Nat /\ w \in Seq(Characters) /\ a + m + 2 <= Len(t)
  BY LenProperties, ArgumentFacts DEF QuotedAt
<1>2. Quote # Backslash /\ Quote # Space /\ <<Quote>> # <<>>
  BY DEF ArgumentAssumption
<1>3. \A c : <<c>> = <<Quote>> <=> c = Quote
  OBVIOUS
<1>4. 0 \in I
  <2>1. a + 1 \in 1..Len(t) /\ (a + 1) - 1 = a /\ a + 1 + 0 = a + 1
    BY <1>1
  <2>2. R[a + 1] = Parsed(R[a], Quote)
    BY <1>0, <2>1 DEF ReadBy
  <2>3. R[a + 1] = Parser(v, <<>>, <<Quote>>, <<>>)
    BY <2>2, ParsedQuoted
  <2>4. SubSeq(w, 1, 0) = <<>>
    BY <1>1
  <2>5. Read(0)
    BY <2>1, <2>3, <2>4
  <2>. HIDE DEF Read
  <2>. QED
    BY <1>1, <2>5
<1>5. \A k \in 0..m : k # m /\ k \in I => k + 1 \in I
  <2>1. SUFFICES ASSUME NEW k \in 0..m, k # m, Read(k)
                 PROVE  k + 1 \in 0..m /\ Read(k + 1)
    OBVIOUS
  <2>2. PICK n, u : n = a + 1 + (k + 1) /\ u = SubSeq(w, 1, k)
    OBVIOUS
  <2>3. n \in 1..Len(t) /\ n - 1 = a + 1 + k /\ k + 1 \in 1..m
    BY <1>1, <2>1, <2>2
  <2>4. PICK c : c = w[k + 1]
    OBVIOUS
  <2>5. t[n] = c /\ c # Quote /\ c # Backslash
    BY <1>0, <2>2, <2>3, <2>4, ArgumentFacts
  <2>6. R[n] = Parsed(Parser(v, u, <<Quote>>, <<>>), c)
    BY <2>1, <2>2, <2>3, <2>5 DEF ReadBy
  <2>7. R[n] = Parser(v, Append(u, c), <<Quote>>, <<>>)
    BY <2>5, <2>6, ParsedQuoted
  <2>8. Append(u, c) = SubSeq(w, 1, k + 1)
    BY <1>1, <2>2, <2>3, <2>4
  <2>9. Read(k + 1)
    BY <2>2, <2>7, <2>8
  <2>. QED
    BY <1>1, <2>3, <2>9
<1>. HIDE DEF I
<1>6. m \in I
  <2>. HIDE DEF m
  <2>1. 0..m \subseteq I
    BY <1>1, <1>4, <1>5, BoundedInduction
  <2>2. m \in 0..m
    BY <1>1
  <2>. QED
    BY <2>1, <2>2
<1>7. PICK n : n = a + m + 2
  OBVIOUS
<1>8. n \in 1..Len(t) /\ n - 1 = a + 1 + m /\ t[n] = Quote
  BY <1>0, <1>1, <1>7
<1>9. R[n - 1] = Parser(v, w, <<Quote>>, <<>>)
  <2>1. SubSeq(w, 1, m) = w
    BY <1>1
  <2>. QED
    BY <1>6, <1>8, <2>1 DEF I
<1>10. R[n] = Parsed(Parser(v, w, <<Quote>>, <<>>), Quote)
  BY <1>8, <1>9 DEF ReadBy
<1>11. R[n] = Parser(v, w, <<>>, <<>>)
  BY <1>10, ParsedQuoted
<1>. QED
  BY <1>7, <1>11

-----------------------------------------------------------------------------
(* The message.                                                            *)

\* The characters of an argument between its double quotes.
LEMMA QuotedFacts ==
  ASSUME ArgumentAssumption, NEW w \in Arguments
  PROVE  /\ Quoted(w) \in Seq(Characters) /\ Len(Quoted(w)) = Len(w) + 3
         /\ Quoted(w)[1] = Quote /\ \A j \in 1..Len(w) : Quoted(w)[1 + j] = w[j]
         /\ Quoted(w)[Len(w) + 2] = Quote /\ Quoted(w)[Len(w) + 3] = Space
<1>1. w \in Seq(Characters) /\ Len(w) \in Nat /\ Quote \in Characters /\ Space \in Characters
  BY ArgumentFacts DEF ArgumentAssumption
<1>2. PICK x, y, p : x = <<Quote>> /\ y = <<Quote, Space>> /\ p = x \o w
  OBVIOUS
<1>3. x \in Seq(Characters) /\ Len(x) = 1 /\ x[1] = Quote
  BY <1>1, <1>2
<1>4. y \in Seq(Characters) /\ Len(y) = 2 /\ y[1] = Quote /\ y[2] = Space
  BY <1>1, <1>2
<1>5. p \in Seq(Characters) /\ Len(p) = Len(w) + 1 /\ p[1] = Quote
      /\ \A j \in 1..Len(w) : p[1 + j] = w[j]
  <2>1. p \in Seq(Characters) /\ Len(p) = Len(x) + Len(w)
        /\ (\A i \in 1..Len(x) : p[i] = x[i]) /\ \A i \in 1..Len(w) : p[Len(x) + i] = w[i]
    <3>1. ConcatOf(x, w, p, Characters)
      BY <1>1, <1>2, <1>3, ConcatParts
    <3>. QED
      BY <3>1 DEF ConcatOf
  <2>. QED
    BY <1>1, <1>3, <2>1
<1>6. PICK r : r = p \o y
  OBVIOUS
<1>7. /\ r \in Seq(Characters) /\ Len(r) = Len(p) + Len(y)
      /\ \A i \in 1..Len(p) : r[i] = p[i]
      /\ \A i \in 1..Len(y) : r[Len(p) + i] = y[i]
  <2>1. ConcatOf(p, y, r, Characters)
    BY <1>4, <1>5, <1>6, ConcatParts
  <2>. QED
    BY <2>1 DEF ConcatOf
<1>8. Quoted(w) = r
  BY <1>2, <1>6 DEF Quoted
<1>9. \A j \in 1..Len(w) : 1 + j \in 1..Len(p)
  BY <1>1, <1>5
<1>10. r[Len(w) + 2] = Quote /\ r[Len(w) + 3] = Space /\ r[1] = Quote
  BY <1>1, <1>4, <1>5, <1>7
<1>11. r \in Seq(Characters) /\ Len(r) = Len(w) + 3
  BY <1>1, <1>4, <1>5, <1>7
<1>12. \A j \in 1..Len(w) : r[1 + j] = w[j]
  BY <1>5, <1>7, <1>9
<1>. QED
  BY <1>8, <1>10, <1>11, <1>12

\* The argument w, in quotes and with the space after it, is what u has after its first a
\* and up to its first b characters.
PlaceIn(u, a, b, w) ==
  /\ a \in Nat /\ Len(w) \in Nat /\ b = a + Len(w) + 3 /\ b <= Len(u)
  /\ u[a + 1] = Quote /\ \A j \in 1..Len(w) : u[a + 1 + j] = w[j]
  /\ u[a + Len(w) + 2] = Quote /\ u[a + Len(w) + 3] = Space

\* The n-th argument, in quotes, starts in t after the first l[n - 1] characters.
PlaceOf(t, l, list, n) ==
  /\ l[n] = l[n - 1] + Len(list[n]) + 3
  /\ t[l[n - 1] + 1] = Quote
  /\ \A j \in 1..Len(list[n]) : t[l[n - 1] + 1 + j] = list[n][j]
  /\ t[l[n - 1] + Len(list[n]) + 2] = Quote

LaidOut(t, l, list) ==
  /\ t \in Seq(Characters) /\ l \in [0..Len(list) -> Nat] /\ l[0] = 0
  /\ Len(t) = l[Len(list)] - 1
  /\ \A n \in 1..Len(list) : PlaceOf(t, l, list, n) /\ l[n] <= l[Len(list)]
  /\ \A n \in 1..Len(list) - 1 : l[n] < l[Len(list)] /\ t[l[n]] = Space

\* The characters of one argument among those of the pieces that are put together.
LEMMA PiecePlace ==
  ASSUME ArgumentAssumption, NEW list \in Seq(Arguments), NEW ss \in Seq(Seq(Characters)),
         Len(ss) = Len(list), \A i \in 1..Len(list) : ss[i] = Quoted(list[i]),
         NEW f, PiecesOf(f, ss, Characters), NEW n \in 1..Len(list), NEW u, u = f[Len(list)]
  PROVE  PlaceIn(u, Len(f[n - 1]), Len(f[n]), list[n])
<1>1. PICK p, q, r, w : p = f[n - 1] /\ q = f[n] /\ r = ss[n] /\ w = list[n]
  OBVIOUS
<1>2. Len(list) \in Nat /\ n - 1 \in 0..Len(list) /\ n \in 0..Len(list) /\ Len(list) \in n..Len(list)
  BY LenProperties
<1>3. w \in Arguments /\ r = Quoted(w)
  BY <1>1, <1>2, ElementOfSeq
<1>4. p \in Seq(Characters) /\ q \in Seq(Characters) /\ q = p \o r
  BY <1>1, <1>2 DEF PiecesOf
<1>5. Len(p) \in Nat /\ Len(w) \in Nat
  BY <1>3, <1>4, LenProperties, ArgumentFacts
<1>6. /\ r \in Seq(Characters) /\ Len(r) = Len(w) + 3
      /\ r[1] = Quote /\ \A j \in 1..Len(w) : r[1 + j] = w[j]
      /\ r[Len(w) + 2] = Quote /\ r[Len(w) + 3] = Space
  BY <1>3, QuotedFacts, Zenon
<1>7. Len(q) = Len(p) + Len(r) /\ \A i \in 1..Len(r) : q[Len(p) + i] = r[i]
  <2>1. r \in Seq(Characters)
    BY <1>6
  <2>2. ConcatOf(p, r, q, Characters)
    BY <1>4, <2>1, ConcatParts
  <2>. QED
    BY <2>2 DEF ConcatOf
<1>8. Len(q) <= Len(u) /\ \A j \in 1..Len(q) : u[j] = q[j]
  <2>1. PICK m : m = Len(list)
    OBVIOUS
  <2>2. n \in 0..Len(ss) /\ m \in n..Len(ss)
    BY <1>2, <2>1
  <2>3. Len(f[n]) <= Len(f[m]) /\ \A j \in 1..Len(f[n]) : f[m][j] = f[n][j]
    BY <2>2, PiecesFacts
  <2>. QED
    BY <1>1, <2>1, <2>3
<1>9. \A i \in 1..Len(w) + 3 : u[Len(p) + i] = r[i]
  <2>1. PICK a, b, c : a = Len(p) /\ b = Len(w) /\ c = Len(q)
    OBVIOUS
  <2>2. a \in Nat /\ b \in Nat /\ c = a + b + 3 /\ Len(r) = b + 3
    BY <1>5, <1>6, <1>7, <2>1
  <2>3. \A i \in 1..b + 3 : a + i \in 1..c
    BY <2>2
  <2>. QED
    BY <1>7, <1>8, <2>1, <2>2, <2>3
<1>10. \A j \in 1..Len(w) : u[Len(p) + 1 + j] = w[j]
  <2>1. SUFFICES ASSUME NEW j \in 1..Len(w)
                 PROVE  u[Len(p) + 1 + j] = w[j]
    OBVIOUS
  <2>2. 1 + j \in 1..Len(w) + 3 /\ Len(p) + (1 + j) = Len(p) + 1 + j
    BY <1>5
  <2>. QED
    BY <1>6, <1>9, <2>2
<1>11. u[Len(p) + 1] = Quote /\ u[Len(p) + Len(w) + 2] = Quote /\ u[Len(p) + Len(w) + 3] = Space
  <2>1. \A i \in {1, Len(w) + 2, Len(w) + 3} : i \in 1..Len(w) + 3
    BY <1>5
  <2>2. Len(p) + (Len(w) + 2) = Len(p) + Len(w) + 2 /\ Len(p) + (Len(w) + 3) = Len(p) + Len(w) + 3
    BY <1>5
  <2>. QED
    BY <1>6, <1>9, <2>1, <2>2
<1>12. Len(q) = Len(p) + Len(w) + 3
  BY <1>5, <1>6, <1>7
<1>. QED
  BY <1>1, <1>5, <1>8, <1>10, <1>11, <1>12 DEF PlaceIn

\* The text has each argument in its place; the last space has been taken off.
LEMMA FlattenedLaid ==
  ASSUME ArgumentAssumption, NEW list \in Seq(Arguments), list # <<>>
  PROVE  \E l : LaidOut(Flattened(list), l, list)
<1>. DEFINE m == Len(list)
            R == ToSet(list) \ {<<>>}
            ss == [n \in DOMAIN list |-> Quoted(list[n])]
<1>1. m \in Nat \ {0} /\ DOMAIN list = 1..m /\ \A n \in 1..m : list[n] \in Arguments
  BY LenProperties, ElementOfSeq, EmptySeq
<1>2. Selected(list, R) = list
  <2>1. \A n \in 1..m : list[n] \in R
    BY <1>1 DEF ToSet, Arguments, Plain
  <2>. QED
    BY <2>1, SelectedAll
<1>3. ss \in Seq(Seq(Characters)) /\ Len(ss) = m /\ \A n \in 1..m : ss[n] = Quoted(list[n])
  <2>1. \A n \in 1..m : Quoted(list[n]) \in Seq(Characters)
    BY <1>1, QuotedFacts
  <2>. QED
    BY <1>1, <2>1
<1>4. PICK f : PiecesOf(f, ss, Characters) /\ FlattenSeq(ss) = f[m]
  <2>1. \E f : PiecesOf(f, ss, Characters) /\ FlattenSeq(ss) = f[Len(ss)]
    BY <1>3, FlattenFacts
  <2>. QED
    BY <1>3, <2>1
<1>5. PICK u, t : u = f[m] /\ t = SubSeq(u, 1, Len(u) - 1)
  OBVIOUS
<1>6. Flattened(list) = t
  <2>. HIDE DEF R
  <2>1. Flattened(list) = Front(FlattenSeq(ss))
    BY <1>2 DEF Flattened, R
  <2>. QED
    BY <1>4, <1>5, <2>1 DEF Front
<1>. HIDE DEF ss, R
<1>7. u \in Seq(Characters) /\ Len(u) \in Nat /\ \A n \in 0..m : Len(f[n]) \in Nat
  <2>1. \A n \in 0..m : f[n] \in Seq(Characters)
    BY <1>3, <1>4 DEF PiecesOf
  <2>2. m \in 0..m
    BY <1>1
  <2>. QED
    BY <1>5, <2>1, <2>2, LenProperties
<1>8. PICK l : l = [n \in 0..m |-> Len(f[n])]
  OBVIOUS
<1>9. l \in [0..m -> Nat] /\ l[0] = 0 /\ l[m] = Len(u)
  <2>1. Len(f[0]) = 0
    BY <1>4 DEF PiecesOf
  <2>2. 0 \in 0..m /\ m \in 0..m
    BY <1>1
  <2>. QED
    BY <1>5, <1>7, <1>8, <2>1, <2>2
<1>10. ASSUME NEW n \in 1..m
       PROVE  PlaceIn(u, l[n - 1], l[n], list[n])
  <2>1. n - 1 \in 0..m /\ n \in 0..m
    BY <1>1
  <2>2. l[n - 1] = Len(f[n - 1]) /\ l[n] = Len(f[n])
    BY <1>8, <2>1
  <2>3. PlaceIn(u, Len(f[n - 1]), Len(f[n]), list[n])
    BY <1>3, <1>4, <1>5, PiecePlace
  <2>. QED
    BY <2>2, <2>3
<1>11. t \in Seq(Characters) /\ Len(t) = Len(u) - 1 /\ \A j \in 1..Len(u) - 1 : t[j] = u[j]
  <2>1. Len(u) - 1 \in Nat
    <3>1. PICK n : n = m
      OBVIOUS
    <3>2. n \in 1..m /\ PlaceIn(u, l[n - 1], l[n], list[n])
      BY <1>1, <1>10, <3>1
    <3>. QED
      BY <1>7, <3>2 DEF PlaceIn
  <2>. QED
    BY <1>5, <1>7, <2>1
<1>12. ASSUME NEW n \in 1..m
       PROVE  PlaceOf(t, l, list, n) /\ l[n] <= l[m] /\ (l[n] < l[m] => t[l[n]] = Space)
  <2>1. PICK a, b, w, k : a = l[n - 1] /\ b = l[n] /\ w = list[n] /\ k = Len(w)
    OBVIOUS
  <2>2. PlaceIn(u, a, b, w)
    BY <1>10, <2>1
  <2>3. a \in Nat /\ k \in Nat /\ b = a + k + 3 /\ b <= Len(u)
    BY <2>1, <2>2 DEF PlaceIn
  <2>4. a + 1 \in 1..Len(u) - 1 /\ a + k + 2 \in 1..Len(u) - 1
        /\ (b < Len(u) => b \in 1..Len(u) - 1) /\ \A j \in 1..k : a + 1 + j \in 1..Len(u) - 1
    BY <1>7, <2>3
  <2>5. t[a + 1] = Quote /\ (\A j \in 1..k : t[a + 1 + j] = w[j]) /\ t[a + k + 2] = Quote
    BY <1>11, <2>1, <2>2, <2>4 DEF PlaceIn
  <2>6. b < Len(u) => t[b] = Space
    BY <1>11, <2>1, <2>2, <2>3, <2>4 DEF PlaceIn
  <2>. QED
    BY <1>9, <2>1, <2>3, <2>5, <2>6 DEF PlaceOf
<1>13. \A n \in 1..m - 1 : l[n] < l[m]
  <2>1. SUFFICES ASSUME NEW n \in 1..m - 1
                 PROVE  l[n] < l[m]
    OBVIOUS
  <2>2. PICK k, w : k = n + 1 /\ w = list[k]
    OBVIOUS
  <2>3. k \in 1..m /\ k - 1 = n
    BY <1>1, <2>2
  <2>4. PlaceIn(u, l[n], l[k], w)
    BY <1>10, <2>2, <2>3
  <2>. QED
    BY <1>7, <1>9, <2>4 DEF PlaceIn
<1>14. \A n \in 1..m - 1 : n \in 1..m
  BY <1>1
<1>15. LaidOut(t, l, list)
  <2>1. \A n \in 1..m : PlaceOf(t, l, list, n) /\ l[n] <= l[m]
    BY <1>12
  <2>2. \A n \in 1..m - 1 : l[n] < l[m] /\ t[l[n]] = Space
    BY <1>12, <1>13, <1>14
  <2>. QED
    BY <1>9, <1>11, <2>1, <2>2 DEF LaidOut
<1>. QED
  BY <1>6, <1>15

\* One argument more is read.
LEMMA ReadsArgument ==
  ASSUME ArgumentAssumption, NEW list \in Seq(Arguments), NEW t, NEW l, LaidOut(t, l, list),
         NEW R, ReadBy(R, t), NEW n \in 1..Len(list), NEW v,
         R[l[n - 1]] = Parser(v, <<>>, <<>>, <<>>)
  PROVE  /\ R[l[n] - 1] = Parser(v, list[n], <<>>, <<>>)
         /\ n # Len(list) => R[l[n]] = Parser(Append(v, list[n]), <<>>, <<>>, <<>>)
<1>1. PICK a, b, w, k : a = l[n - 1] /\ b = l[n] /\ w = list[n] /\ k = Len(w)
  OBVIOUS
<1>2. Len(list) \in Nat /\ w \in Arguments /\ k \in Nat /\ w # <<>> /\ a \in Nat /\ l[Len(list)] \in Nat
  <2>1. Len(list) \in Nat
    BY LenProperties
  <2>2. n - 1 \in 0..Len(list) /\ Len(list) \in 0..Len(list)
    BY <2>1
  <2>3. w \in Arguments
    BY <1>1, <2>1, ElementOfSeq
  <2>. QED
    BY <1>1, <2>1, <2>2, <2>3, ArgumentFacts DEF LaidOut
<1>3. /\ b = a + k + 3 /\ t[a + 1] = Quote /\ t[a + k + 2] = Quote
      /\ \A j \in 1..k : t[a + 1 + j] = w[j]
  BY <1>1 DEF LaidOut, PlaceOf
<1>4. t \in Seq(Characters) /\ Len(t) = l[Len(list)] - 1 /\ b <= l[Len(list)]
  BY <1>1 DEF LaidOut
<1>5. a + k + 2 <= Len(t) /\ b - 1 = a + k + 2
  BY <1>2, <1>3, <1>4
<1>6. R[a + k + 2] = Parser(v, w, <<>>, <<>>)
  <2>1. QuotedAt(t, a, w) /\ R[a] = Parser(v, <<>>, <<>>, <<>>)
    BY <1>1, <1>3, <1>5 DEF QuotedAt
  <2>2. R[a + Len(w) + 2] = Parser(v, w, <<>>, <<>>)
    BY <1>2, <1>4, <2>1, ReadsQuoted
  <2>. QED
    BY <1>1, <2>2
<1>7. ASSUME n # Len(list)
      PROVE  R[b] = Parser(Append(v, w), <<>>, <<>>, <<>>)
  <2>1. n \in 1..Len(list) - 1
    BY <1>2, <1>7
  <2>2. b < l[Len(list)] /\ t[b] = Space
    BY <1>1, <2>1 DEF LaidOut
  <2>3. b \in 1..Len(t)
    <3>1. PICK c, d : c = Len(t) /\ d = l[Len(list)]
      OBVIOUS
    <3>2. a \in Nat /\ k \in Nat /\ d \in Nat /\ b = a + k + 3 /\ c = d - 1 /\ b < d
      BY <1>2, <1>3, <1>4, <2>2, <3>1
    <3>3. b \in 1..c
      BY <3>2
    <3>. QED
      BY <3>1, <3>3
  <2>4. R[b] = Parsed(Parser(v, w, <<>>, <<>>), Space)
    BY <1>5, <1>6, <2>2, <2>3 DEF ReadBy
  <2>. QED
    BY <1>2, <2>4, ParsedQuoted
<1>. QED
  BY <1>1, <1>5, <1>6, <1>7

\* What was put together is taken apart again.
LEMMA ParsedAgain ==
  ASSUME ArgumentAssumption, NEW list \in Seq(Arguments), list # <<>>
  PROVE  Parse(Flattened(list)) = list
<1>1. PICK t, l, m : t = Flattened(list) /\ LaidOut(t, l, list) /\ m = Len(list)
  BY FlattenedLaid
<1>2. PICK R : R = Reading(t)
  OBVIOUS
<1>3. ReadBy(R, t)
  BY <1>1, <1>2, ReadingFacts DEF LaidOut, ArgumentAssumption
<1>4. m \in Nat \ {0}
  BY <1>1, LenProperties, EmptySeq
<1>. DEFINE Done(n) == R[l[n]] = Parser(SubSeq(list, 1, n), <<>>, <<>>, <<>>)
            I == {n \in 0..m - 1 : Done(n)}
<1>5. 0 \in I
  <2>1. SubSeq(list, 1, 0) = <<>> /\ l[0] = 0
    BY <1>1 DEF LaidOut
  <2>2. Done(0)
    BY <1>3, <2>1 DEF ReadBy
  <2>. HIDE DEF Done
  <2>. QED
    BY <1>4, <2>2
<1>6. \A n \in 0..m - 1 : n # m - 1 /\ n \in I => n + 1 \in I
  <2>1. SUFFICES ASSUME NEW n \in 0..m - 1, n # m - 1, Done(n)
                 PROVE  n + 1 \in 0..m - 1 /\ Done(n + 1)
    OBVIOUS
  <2>2. PICK k, v : k = n + 1 /\ v = SubSeq(list, 1, n)
    OBVIOUS
  <2>3. k \in 1..Len(list) /\ k - 1 = n /\ k # Len(list) /\ n + 1 \in 0..m - 1
    BY <1>1, <1>4, <2>1, <2>2
  <2>4. R[l[k]] = Parser(Append(v, list[k]), <<>>, <<>>, <<>>)
    <3>1. R[l[k - 1]] = Parser(v, <<>>, <<>>, <<>>)
      BY <2>1, <2>2, <2>3
    <3>2. LaidOut(t, l, list) /\ k \in 1..Len(list) /\ k # Len(list)
      BY <1>1, <2>3
    <3>. HIDE DEF Done
    <3>3. k # Len(list) => R[l[k]] = Parser(Append(v, list[k]), <<>>, <<>>, <<>>)
      BY <1>3, <3>1, <3>2, ReadsArgument
    <3>. QED
      BY <3>2, <3>3
  <2>5. Append(v, list[k]) = SubSeq(list, 1, k)
    BY <1>1, <1>4, <2>2, <2>3
  <2>. QED
    BY <2>2, <2>3, <2>4, <2>5
<1>. HIDE DEF I
<1>7. m - 1 \in I
  <2>1. PICK k : k = m - 1
    OBVIOUS
  <2>2. k \in Nat /\ k \in 0..k
    BY <1>4, <2>1
  <2>3. 0..k \subseteq I
    BY <1>5, <1>6, <2>1, <2>2, BoundedInduction
  <2>. QED
    BY <2>1, <2>2, <2>3
<1>8. PICK v, w : v = SubSeq(list, 1, m - 1) /\ w = list[m]
  OBVIOUS
<1>9. R[l[m] - 1] = Parser(v, w, <<>>, <<>>)
  <2>1. m \in 1..Len(list)
    BY <1>1, <1>4
  <2>2. R[l[m - 1]] = Parser(v, <<>>, <<>>, <<>>)
    BY <1>7, <1>8 DEF I
  <2>3. R[l[m] - 1] = Parser(v, list[m], <<>>, <<>>)
    <3>1. LaidOut(t, l, list)
      BY <1>1
    <3>. QED
      BY <1>3, <2>1, <2>2, <3>1, ReadsArgument
  <2>. QED
    BY <1>8, <2>3
<1>10. l[m] - 1 = Len(t)
  BY <1>1 DEF LaidOut
<1>11. w # <<>>
  BY <1>1, <1>4, <1>8, ElementOfSeq, ArgumentFacts
<1>12. Append(v, w) = list
  BY <1>1, <1>4, <1>8
<1>13. Parse(t) = Append(v, w)
  <2>1. PICK p : p = R[Len(t)]
    OBVIOUS
  <2>2. p = Parser(v, w, <<>>, <<>>)
    BY <1>9, <1>10, <2>1
  <2>3. p.word = w /\ p.argv = v
    BY <2>2 DEF Parser
  <2>4. Parse(t) = IF p.word = <<>> THEN p.argv ELSE Append(p.argv, p.word)
    BY <1>2, <2>1 DEF Parse
  <2>. QED
    BY <1>11, <2>3, <2>4
<1>. QED
  BY <1>1, <1>12, <1>13

\* A list without a pipe option stays as it is.
LEMMA FilteredNone ==
  ASSUME NEW S, NEW x \in Seq(S), NEW s \in Seq(S),
         \A n \in 1..Len(x) : ~IsPipeOption(x[n]), \A n \in 1..Len(s) : ~IsPipeOption(s[n])
  PROVE  Filtered(x \o s) = x \o s
<1>1. PICK list : list = x \o s
  OBVIOUS
<1>2. ConcatOf(x, s, list, S)
  BY <1>1, ConcatParts
<1>3. \A n \in 1..Len(list) : ~IsPipeOption(list[n])
  <2>1. SUFFICES ASSUME NEW n \in 1..Len(list)
                 PROVE  ~IsPipeOption(list[n])
    OBVIOUS
  <2>2. Len(x) \in Nat /\ Len(s) \in Nat /\ Len(list) = Len(x) + Len(s)
    BY <1>2, LenProperties DEF ConcatOf
  <2>3. CASE n \in 1..Len(x)
    BY <1>2, <2>3 DEF ConcatOf
  <2>4. CASE n \notin 1..Len(x)
    <3>1. PICK i : i = n - Len(x)
      OBVIOUS
    <3>2. i \in 1..Len(s) /\ n = Len(x) + i
      BY <2>2, <2>4, <3>1
    <3>. QED
      BY <1>2, <3>2 DEF ConcatOf
  <2>. QED
    BY <2>3, <2>4
<1>4. ~ \E n \in 1..Len(list) : IsPipeOption(list[n])
  BY <1>3
<1>5. Filtered(list) = list
  BY <1>4 DEF Filtered, RemoveFirstMatch
<1>. QED
  BY <1>1, <1>5

\* A pipe option that is the first is taken out.
LEMMA FilteredOne ==
  ASSUME NEW S, NEW x \in Seq(S), NEW s \in Seq(S), NEW p \in S, IsPipeOption(p),
         \A n \in 1..Len(x) : ~IsPipeOption(x[n])
  PROVE  Filtered(x \o (<<p>> \o s)) = x \o s
<1>1. PICK t, list, k : t = <<p>> \o s /\ list = x \o t /\ k = Len(x) + 1
  OBVIOUS
<1>2. t \in Seq(S) /\ Len(t) = Len(s) + 1 /\ t[1] = p /\ \A i \in 1..Len(s) : t[i + 1] = s[i]
  <2>1. <<p>> \in Seq(S) /\ Len(<<p>>) = 1 /\ <<p>>[1] = p
    OBVIOUS
  <2>2. ConcatOf(<<p>>, s, t, S)
    BY <1>1, <2>1, ConcatParts
  <2>3. Len(s) \in Nat
    BY LenProperties
  <2>4. \A i \in 1..Len(s) : 1 + i = i + 1
    BY <2>3
  <2>. QED
    BY <2>1, <2>2, <2>3, <2>4 DEF ConcatOf
<1>3. ConcatOf(x, t, list, S)
  BY <1>1, <1>2, ConcatParts
<1>4. Len(x) \in Nat /\ Len(s) \in Nat /\ k \in Nat /\ Len(list) = k + Len(s)
  BY <1>1, <1>2, <1>3, LenProperties DEF ConcatOf
<1>5. list[k] = p /\ k \in 1..Len(list) /\ \A n \in 1..Len(x) : list[n] = x[n]
  <2>1. 1 \in 1..Len(t) /\ list[Len(x) + 1] = t[1]
    BY <1>2, <1>3, <1>4 DEF ConcatOf
  <2>. QED
    BY <1>1, <1>2, <1>3, <1>4, <2>1 DEF ConcatOf
<1>. DEFINE I == {n \in 1..Len(list) : IsPipeOption(list[n])}
<1>6. Min(I) = k /\ I # {}
  <2>1. k \in I /\ I \subseteq Nat
    BY <1>4, <1>5
  <2>2. \A n \in I : k <= n
    <3>1. SUFFICES ASSUME NEW n \in 1..Len(list), IsPipeOption(list[n]), n < k
                   PROVE  FALSE
      BY <1>4
    <3>2. n \in 1..Len(x)
      BY <1>1, <1>4, <3>1
    <3>. QED
      BY <1>5, <3>1, <3>2
  <2>. HIDE DEF I
  <2>. QED
    BY <2>1, <2>2, LeastIs
<1>7. SelectInSeq(list, IsPipeOption) = k
  BY <1>6 DEF SelectInSeq
<1>8. Filtered(list) = RemoveAt(list, k)
  <2>1. \E n \in 1..Len(list) : IsPipeOption(list[n])
    BY <1>6
  <2>. QED
    BY <1>7, <2>1 DEF Filtered, RemoveFirstMatch
<1>9. RemoveAt(list, k) = x \o s
  <2>1. SubSeq(list, 1, k - 1) = x
    BY <1>1, <1>3, <1>4, <1>5 DEF ConcatOf
  <2>2. SubSeq(list, k + 1, Len(list)) = s
    <3>1. \A i \in 1..Len(s) : list[k + i] = s[i]
      <4>1. SUFFICES ASSUME NEW i \in 1..Len(s)
                     PROVE  list[k + i] = s[i]
        OBVIOUS
      <4>2. i + 1 \in 1..Len(t) /\ Len(x) + (i + 1) = k + i
        BY <1>1, <1>2, <1>4
      <4>. QED
        BY <1>2, <1>3, <4>2 DEF ConcatOf
    <3>2. list \in Seq(S)
      BY <1>3 DEF ConcatOf
    <3>. QED
      BY <1>4, <3>1, <3>2
  <2>. QED
    BY <2>1, <2>2 DEF RemoveAt
<1>. QED
  BY <1>1, <1>8, <1>9

\* What is put is the option, the socket and the arguments, if no pipe option is among them but the own one.
LEMMA FilteredArguments ==
  ASSUME ArgumentAssumption, NEW invocation \in [args : Seq(Seq(Characters)), java : BOOLEAN],
         NEW x, x = <<Extended, Socket>>,
         \A n \in DOMAIN invocation.args : IsPipeOption(invocation.args[n]) => invocation.java
  PROVE  Filtered(x \o Argv(invocation)) = x \o invocation.args
<1>1. PICK S, s, p, java :
        S = Seq(Characters) /\ s = invocation.args /\ p = Pipe \o Socket /\ java = invocation.java
  OBVIOUS
<1>2. s \in Seq(S) /\ java \in BOOLEAN
  BY <1>1
<1>3. x \in Seq(S) /\ \A n \in 1..Len(x) : ~IsPipeOption(x[n])
  <2>1. Len(x) = 2 /\ x[1] = Extended /\ x[2] = Socket
    OBVIOUS
  <2>2. ~IsPipeOption(Extended) /\ ~IsPipeOption(Socket) /\ Extended \in S /\ Socket \in S
    BY <1>1 DEF ArgumentAssumption
  <2>3. \A n \in 1..Len(x) : n = 1 \/ n = 2
    BY <2>1
  <2>. QED
    BY <2>1, <2>2, <2>3
<1>4. p \in S /\ IsPipeOption(p)
  <2>1. Pipe \in Seq(Characters) /\ Socket \in Seq(Characters) /\ Pipe \in PipeSpellings
    BY DEF ArgumentAssumption
  <2>2. ConcatOf(Pipe, Socket, p, Characters)
    BY <1>1, <2>1, ConcatParts
  <2>3. Len(Pipe) \in Nat /\ Len(Socket) \in Nat /\ Len(Pipe) <= Len(p)
    BY <2>1, <2>2, LenProperties DEF ConcatOf
  <2>4. SubSeq(Pipe, 1, Len(Pipe)) = SubSeq(p, 1, Len(Pipe))
    BY <2>1, <2>2, <2>3 DEF ConcatOf
  <2>. QED
    BY <1>1, <2>1, <2>2, <2>3, <2>4 DEF IsPipeOption, IsPrefix, ConcatOf
<1>5. CASE java
  <2>1. Argv(invocation) = <<p>> \o s
    BY <1>1, <1>5 DEF Argv
  <2>2. Filtered(x \o (<<p>> \o s)) = x \o s
    BY ONLY <1>2, <1>3, <1>4, FilteredOne
  <2>. QED
    BY <1>1, <2>1, <2>2
<1>6. CASE ~java
  <2>1. Argv(invocation) = <<>> \o s
    BY <1>1, <1>6 DEF Argv
  <2>2. <<>> \o s = s
    BY <1>2
  <2>3. \A n \in 1..Len(s) : ~IsPipeOption(s[n])
    <3>1. DOMAIN s = 1..Len(s)
      BY <1>2, LenProperties
    <3>. QED
      BY <1>1, <1>6, <3>1
  <2>4. Filtered(x \o s) = x \o s
    BY <1>2, <1>3, <2>3, FilteredNone
  <2>. QED
    BY <1>1, <2>1, <2>2, <2>4
<1>. QED
  BY <1>2, <1>5, <1>6

\* The message is what the client put, and the arguments are what the message says.
ArgumentsInvariant ==
  /\ sent \in [args : Seq(Seq(Characters)), java : BOOLEAN]
  /\ message # <<>> => message = Flattened(Filtered(<<Extended, Socket>> \o Argv(sent)))
  /\ args # <<>> => message # <<>> /\ args = Parse(message)

LEMMA ArgumentsStart == ArgumentAssumption /\ ArgumentsInit => ArgumentsInvariant
BY DEF ArgumentAssumption, ArgumentsInit, ArgumentsInvariant

LEMMA ArgumentsStep == ArgumentsInvariant /\ [ArgumentsNext]_argumentVars => ArgumentsInvariant'
<1>. SUFFICES ASSUME ArgumentsInvariant, [ArgumentsNext]_argumentVars
              PROVE  ArgumentsInvariant'
  OBVIOUS
<1>1. CASE Send
  <2>1. PICK text, s : text = Flattened(Filtered(<<Extended, Socket>> \o Argv(s))) /\ s = sent
    OBVIOUS
  <2>2. message' = text /\ sent' = s /\ args' = args /\ message = <<>>
    BY <1>1, <2>1 DEF Send
  <2>3. args' = <<>> /\ sent' \in [args : Seq(Seq(Characters)), java : BOOLEAN]
    BY <2>1, <2>2 DEF ArgumentsInvariant
  <2>. QED
    BY <2>1, <2>2, <2>3 DEF ArgumentsInvariant
<1>2. CASE Dispatch
  <2>1. PICK list, s, text : list = Parse(message) /\ s = sent /\ text = message
    OBVIOUS
  <2>2. message' = text /\ sent' = s /\ args' = list /\ message # <<>>
    BY <1>2, <2>1 DEF Dispatch
  <2>. QED
    BY <2>1, <2>2 DEF ArgumentsInvariant
<1>3. CASE UNCHANGED argumentVars
  BY <1>3 DEF ArgumentsInvariant, argumentVars
<1>. QED
  BY <1>1, <1>2, <1>3 DEF ArgumentsNext

LEMMA ArgumentsRead == ArgumentAssumption /\ ArgumentsInvariant => ArgumentsArrive
<1>. SUFFICES ASSUME ArgumentAssumption, ArgumentsInvariant,
                     args # <<>>, \A n \in DOMAIN sent.args : Plain(sent.args[n]),
                     \A n \in DOMAIN sent.args : IsPipeOption(sent.args[n]) => sent.java
              PROVE  args = <<Extended, Socket>> \o sent.args
  BY DEF ArgumentsArrive
<1>1. PICK x, s, list, from :
        x = <<Extended, Socket>> /\ s = sent.args /\ list = x \o s /\ from = sent
  OBVIOUS
<1>2. s \in Seq(Arguments)
  <2>1. s \in Seq(Seq(Characters)) /\ DOMAIN s = 1..Len(s) /\ Len(s) \in Nat
    BY <1>1, LenProperties DEF ArgumentsInvariant
  <2>2. \A n \in 1..Len(s) : s[n] \in Arguments
    BY <1>1, <2>1, ElementOfSeq DEF Arguments
  <2>. QED
    BY <2>1, <2>2
<1>3. x \in Seq(Arguments) /\ Len(x) = 2
  BY <1>1 DEF ArgumentAssumption, Arguments
<1>4. list \in Seq(Arguments) /\ Len(list) = 2 + Len(s)
  <2>1. ConcatOf(x, s, list, Arguments)
    BY <1>1, <1>2, <1>3, ConcatParts
  <2>. QED
    BY <1>3, <2>1 DEF ConcatOf
<1>5. list # <<>>
  BY <1>2, <1>4, LenProperties
<1>6. Parse(Flattened(list)) = list
  BY <1>4, <1>5, ParsedAgain
<1>7. args = Parse(Flattened(list))
  <2>1. args = Parse(Flattened(Filtered(x \o Argv(from))))
    BY <1>1 DEF ArgumentsInvariant
  <2>2. from \in [args : Seq(Seq(Characters)), java : BOOLEAN]
    BY <1>1 DEF ArgumentsInvariant
  <2>3. \A n \in DOMAIN from.args : IsPipeOption(from.args[n]) => from.java
    BY <1>1
  <2>4. Filtered(x \o Argv(from)) = x \o from.args
    BY <1>1, <2>2, <2>3, FilteredArguments
  <2>. QED
    BY <1>1, <2>1, <2>4
<1>. QED
  BY <1>1, <1>6, <1>7

(***************************************************************************)
(* From arguments that are not empty, hold neither a double quote nor a    *)
(* backslash and, on the command line, do not begin with -pipe=, the       *)
(* process that takes the message reads the list the invoker gave.         *)
(***************************************************************************)
THEOREM ArgumentsAsSent == ArgumentsSpec => []ArgumentsArrive
<1>1. ArgumentsInit => ArgumentsInvariant
  BY ArgumentAssumption, ArgumentsStart
<1>2. ArgumentsInvariant => ArgumentsArrive
  BY ArgumentAssumption, ArgumentsRead
<1>. QED
  BY <1>1, <1>2, ArgumentsStep, PTL DEF ArgumentsSpec
===============================================================================
