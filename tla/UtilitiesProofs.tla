---------------------------- MODULE UtilitiesProofs ----------------------------
(***************************************************************************)
(* Proofs about the walk of a file tree and the reader of lines.           *)
(***************************************************************************)
EXTENDS FileTree, ReadLine, SequenceFacts

-----------------------------------------------------------------------------
(* Paths.                                                                  *)

Under(p, q) == Len(p) < Len(q) /\ \A i \in 1..Len(p) : p[i] = q[i]

\* A path under another is longer, and has the other as a prefix.
LEMMA UnderFacts ==
  ASSUME NEW S, NEW p, NEW q, p \in Seq(S), q \in Seq(S), Under(p, q)
  PROVE  IsPrefix(p, q) /\ p # q
<1>1. Len(p) \in Nat /\ Len(q) \in Nat
  BY LenProperties
<1>2. Len(p) <= Len(q) /\ p # q
  BY <1>1 DEF Under
<1>3. SubSeq(p, 1, Len(p)) = SubSeq(q, 1, Len(p))
  BY <1>1 DEF Under
<1>. QED
  BY <1>2, <1>3 DEF IsPrefix

\* What is under a path, and what an entry of a directory is called.
LEMMA PathFacts ==
  ASSUME NEW S, NEW q, NEW x, q \in Seq(S), x \in S
  PROVE  /\ Append(q, x) \in Seq(S) /\ Append(q, x) # <<>> /\ Len(Append(q, x)) = Len(q) + 1
         /\ Front(Append(q, x)) = q
         /\ Under(q, Append(q, x))
         /\ \A p \in Seq(S) : Under(p, q) => Under(p, Append(q, x))
<1>1. /\ Append(q, x) \in Seq(S) /\ Len(Append(q, x)) = Len(q) + 1 /\ Len(q) \in Nat
      /\ \A i \in 1..Len(q) : Append(q, x)[i] = q[i]
  BY AppendProperties, LenProperties
<1>2. Append(q, x) # <<>>
  BY <1>1
<1>3. Front(Append(q, x)) = q
  BY <1>1 DEF Front
<1>4. Under(q, Append(q, x))
  BY <1>1 DEF Under
<1>5. \A p \in Seq(S) : Under(p, q) => Under(p, Append(q, x))
  BY <1>1, LenProperties DEF Under
<1>. QED
  BY <1>1, <1>2, <1>3, <1>4, <1>5

-----------------------------------------------------------------------------
(* The invariant of the walk.                                              *)

Entries == UNION {UNION {w.kids[d] : d \in DOMAIN w.kids} : w \in Walks}
Names == {e.name : e \in Entries}
Paths == Seq(Names)

Frame == [path : Paths, left : SUBSET Entries, skip : BOOLEAN]
CallBack == [kind : {"pre", "file", "post"}, path : Paths, dir : {e.dir : e \in Entries} \cup {"root", ""},
             answer : {"CONTINUE", "TERMINATE", "SKIP_SUBTREE", "SKIP_SIBLINGS", Unreadable}]

TypesInv ==
  /\ walk \in Walks
  /\ open \in Seq(Frame)
  /\ stop \in BOOLEAN
  /\ state \in {"walking", "done", "failed"}
  /\ state = "walking" <=> open # <<>>
  /\ calls \in Seq(CallBack)

\* The open directories lie within each other; only the first has no name.
ChainInv ==
  /\ \A n \in 1..Len(open) : Len(open[n].path) = n - 1
  /\ \A m, n \in 1..Len(open) : m < n => Under(open[m].path, open[n].path)
  /\ \A i \in Indices : calls[i].path = <<>> => calls[i].kind = "pre"
  /\ \A i \in Indices : calls[i].kind = "pre" => calls[i].dir \in DOMAIN walk.kids

\* All that has been told since an open directory was entered is of what is in it.
Since(n, i) ==
  /\ Into(i) /\ calls[i].path = open[n].path
  /\ \A k \in (i + 1)..Len(calls) : Under(open[n].path, calls[k].path)
EnteredInv == \A n \in 2..Len(open) : \E i \in Indices : Since(n, i)

\* A directory that was entered is open or has been left.
OpenOrLeft(i) == (\E j \in Indices : LeavesOf(i, j)) \/ (\E n \in 2..Len(open) : open[n].path = calls[i].path)

Brackets(i, j) ==
  /\ Into(i) /\ LeavesOf(i, j)
  /\ \A k \in (i + 1)..(j - 1) : Under(calls[i].path, calls[k].path)
LeftInv ==
  /\ \A j \in Indices : calls[j].kind = "post" => \E i \in 1..(j - 1) : Brackets(i, j)
  /\ state # "failed" => \A i \in Indices : Into(i) => OpenOrLeft(i)
  /\ \A i \in Indices : 1 < i /\ calls[i].answer = "TERMINATE" => stop
  /\ \A i, j \in Indices : 1 < i /\ i < j /\ calls[i].answer = "TERMINATE" => calls[j].kind = "post"

OrderInv == TypesInv /\ ChainInv /\ EnteredInv /\ LeftInv

\* The entries of a directory that was entered: told of, rightly passed over, or still to come.
ToldOf(p, e) == \E j \in Indices : calls[j].path = Append(p, e.name)
Unwanted(p, e) == (Seen(e) = "dir" /\ Len(p) + 1 >= walk.maxDepth) \/ (Stated(e) /\ Seen(e) = "other")
SkippedIn(p) ==
  \E j \in Indices : /\ calls[j].kind # "post" /\ calls[j].answer = "SKIP_SIBLINGS"
                     /\ calls[j].path # <<>> /\ Front(calls[j].path) = p
ToCome(p, e) == \E n \in 1..Len(open) : open[n].path = p /\ e \in open[n].left

\* What is known of the directory p whose entries are those of d.
Covered(p, d) ==
  ~SkippedIn(p) => \A e \in walk.kids[d] : ToldOf(p, e) \/ Unwanted(p, e) \/ ToCome(p, e)

WasListed(i) == Into(i) \/ calls[i].path = <<>>
SkipInv == \A n \in 1..Len(open) : open[n].skip => SkippedIn(open[n].path)
ListedInv == \A i \in Indices : WasListed(i) => Covered(calls[i].path, calls[i].dir)
CoveredInv == ~stop /\ state # "failed" => SkipInv /\ ListedInv

WalkInv == OrderInv /\ CoveredInv
-----------------------------------------------------------------------------
(* The directory that is walked, its entries, and what a step does to both. *)

LEMMA TopFacts ==
  ASSUME TypesInv, ChainInv, state = "walking"
  PROVE  /\ Depth \in Nat \ {0} /\ Top = open[Depth] /\ Top \in Frame
         /\ Top.path \in Paths /\ Top.left \subseteq Entries /\ Len(Top.path) = Depth - 1
         /\ \A n \in 1..Depth : open[n] \in Frame /\ open[n].path \in Paths
         /\ \A n \in 1..Depth : n # Depth => Under(open[n].path, Top.path)
<1>1. open \in Seq(Frame) /\ open # <<>>
  BY DEF TypesInv
<1>2. Depth \in Nat \ {0} /\ \A n \in 1..Depth : open[n] \in Frame
  BY <1>1, SeqFacts, ElementOfSeq DEF Depth
<1>3. Top = open[Depth] /\ Depth \in 1..Depth
  BY <1>2 DEF Top, Last, Depth
<1>4. Top \in Frame
  BY <1>2, <1>3
<1>5. \A f \in Frame : f.path \in Paths /\ f.left \subseteq Entries
  BY DEF Frame
<1>6. Len(Top.path) = Depth - 1
  BY <1>3 DEF ChainInv, Depth
<1>7. \A n \in 1..Depth : n # Depth => Under(open[n].path, Top.path)
  BY <1>2, <1>3 DEF ChainInv, Depth
<1>. QED
  BY <1>2, <1>3, <1>4, <1>5, <1>6, <1>7

LEMMA EntryFacts ==
  ASSUME TypesInv, ChainInv, NEW e, AtEntry(e)
  PROVE  LET p == Append(Top.path, e.name)
         IN /\ e \in Entries
            /\ p \in Paths /\ p # <<>> /\ Len(p) = Depth /\ Front(p) = Top.path
            /\ \A n \in 1..Depth : Under(open[n].path, p)
<1>. DEFINE p == Append(Top.path, e.name)
<1>1. state = "walking" /\ e \in Top.left
  BY DEF AtEntry
<1>2. /\ Depth \in Nat \ {0} /\ Top = open[Depth] /\ Top.path \in Paths
      /\ Top.left \subseteq Entries /\ Len(Top.path) = Depth - 1
      /\ \A n \in 1..Depth : open[n].path \in Paths
      /\ \A n \in 1..Depth : n # Depth => Under(open[n].path, Top.path)
  BY <1>1, TopFacts
<1>3. e \in Entries /\ e.name \in Names
  BY <1>1, <1>2 DEF Names
<1>4. PICK q, x : q = Top.path /\ x = e.name
  OBVIOUS
<1>5. q \in Seq(Names) /\ x \in Names
  BY <1>2, <1>3, <1>4 DEF Paths
<1>6. /\ Append(q, x) \in Seq(Names) /\ Append(q, x) # <<>> /\ Len(Append(q, x)) = Len(q) + 1
      /\ Front(Append(q, x)) = q /\ Under(q, Append(q, x))
      /\ \A r \in Seq(Names) : Under(r, q) => Under(r, Append(q, x))
  BY <1>5, PathFacts
<1>7. p = Append(q, x)
  BY <1>4
<1>. HIDE DEF p
<1>8. p \in Paths /\ p # <<>> /\ Len(p) = Depth /\ Front(p) = Top.path
  BY <1>2, <1>4, <1>6, <1>7 DEF Paths
<1>9. \A n \in 1..Depth : Under(open[n].path, p)
  BY <1>2, <1>4, <1>6, <1>7 DEF Paths
<1>. QED
  BY <1>3, <1>8, <1>9 DEF p

\* An entry that is done with is gone; the paths stay.
PastOf(o, e, a) ==
  /\ o \in Seq(Frame) /\ Len(o) = Depth
  /\ \A n \in 1..Depth : o[n].path = open[n].path
  /\ \A n \in 1..Depth : n # Depth => o[n] = open[n]
  /\ o[Depth].left = open[Depth].left \ {e}
  /\ o[Depth].skip = (open[Depth].skip \/ a = "SKIP_SIBLINGS")

LEMMA PastFacts ==
  ASSUME TypesInv, ChainInv, state = "walking", NEW e, NEW a
  PROVE  PastOf(Past(e, a), e, a)
<1>1. /\ Depth \in Nat \ {0} /\ open \in Seq(Frame)
      /\ \A n \in 1..Depth : open[n] \in Frame
  BY TopFacts DEF TypesInv
<1>. DEFINE f == [open[Depth] EXCEPT !.left = @ \ {e}, !.skip = @ \/ a = "SKIP_SIBLINGS"]
<1>2. Past(e, a) = [open EXCEPT ![Depth] = f]
  BY DEF Past
<1>3. /\ f \in Frame /\ f.path = open[Depth].path /\ f.left = open[Depth].left \ {e}
      /\ f.skip = (open[Depth].skip \/ a = "SKIP_SIBLINGS")
  <2>1. PICK g \in Frame : g = open[Depth]
    BY <1>1
  <2>2. PICK b \in BOOLEAN : b = (g.skip \/ a = "SKIP_SIBLINGS")
    BY Zenon
  <2>3. PICK l : l = g.left \ {e} /\ l \in SUBSET Entries
    BY DEF Frame
  <2>4. f = [g EXCEPT !.left = l, !.skip = b]
    BY <2>1, <2>2, <2>3, Zenon
  <2>. HIDE DEF f
  <2>5. f = [path |-> g.path, left |-> l, skip |-> b]
    BY <2>4 DEF Frame
  <2>6. f \in Frame /\ f.path = g.path /\ f.left = l /\ f.skip = b
    BY <2>3, <2>5 DEF Frame
  <2>. QED
    BY <2>1, <2>2, <2>3, <2>6, Zenon
<1>. HIDE DEF f
<1>4. /\ Past(e, a) \in Seq(Frame) /\ Len(Past(e, a)) = Depth
      /\ \A n \in 1..Depth : Past(e, a)[n] = IF n = Depth THEN f ELSE open[n]
  BY <1>1, <1>2, <1>3, ExceptSeq DEF Depth
<1>. QED
  BY <1>1, <1>3, <1>4 DEF PastOf

\* What the visitor is told is put after what it has been told.
Grown(x) ==
  /\ x \in CallBack /\ calls' \in Seq(CallBack) /\ Len(calls) \in Nat /\ Len(calls') = Len(calls) + 1
  /\ calls'[Len(calls) + 1] = x
  /\ \A i \in 1..Len(calls) : calls'[i] = calls[i]

LEMMA Grows ==
  ASSUME TypesInv, NEW x, x \in CallBack, calls' = Append(calls, x)
  PROVE  Grown(x)
BY AppendProperties, LenProperties DEF TypesInv, Grown

LEMMA IndicesFacts ==
  TypesInv => Len(calls) \in Nat /\ Indices = 1..Len(calls) /\ \A i \in Indices : calls[i] \in CallBack
BY LenProperties, ElementOfSeq DEF TypesInv, Indices

-----------------------------------------------------------------------------
(* The steps.                                                              *)

CallOf(kind, path, dir, a) == [kind |-> kind, path |-> path, dir |-> dir, answer |-> a]

Passes(e) == PastOf(open', e, "CONTINUE") /\ UNCHANGED <<walk, stop, state, calls>>
             /\ (Top.skip \/ Unwanted(Top.path, e))
GoesOn(e, x) == PastOf(open', e, x.answer) /\ state' = state /\ ~(x.kind = "pre" /\ x.answer = "CONTINUE")
GoesInto(e, x) ==
  /\ x.kind = "pre" /\ x.answer = "CONTINUE" /\ state' = state
  /\ \E o : PastOf(o, e, x.answer) /\ open' = Append(o, Entered(x.path, x.dir))
Fails == open' = <<>> /\ state' = "failed"
Visits(e, x) ==
  /\ Grown(x) /\ x.kind # "post" /\ x.path = Append(Top.path, e.name)
  /\ x.kind = "pre" => x.dir \in DOMAIN walk.kids
  /\ ~stop /\ stop' = (x.answer = "TERMINATE") /\ walk' = walk
  /\ GoesOn(e, x) \/ GoesInto(e, x) \/ Fails
Leaves(x) ==
  /\ Grown(x) /\ x.kind = "post" /\ x.path = Top.path
  /\ Depth > 1 /\ (stop \/ Top.left = {}) /\ stop' = (stop \/ x.answer = "TERMINATE")
  /\ open' = Front(open) /\ UNCHANGED <<walk, state>>

LEMMA PassOverEffect ==
  ASSUME TypesInv, ChainInv, NEW e, PassOver(e)
  PROVE  Passes(e)
<1>1. state = "walking"
  BY DEF PassOver, AtEntry
<1>2. PastOf(open', e, "CONTINUE")
  BY <1>1, PastFacts DEF PassOver
<1>3. Len(Top.path) = Depth - 1 /\ Depth \in Nat
  BY <1>1, TopFacts
<1>4. Top.skip \/ Unwanted(Top.path, e)
  BY <1>3 DEF PassOver, Unwanted
<1>. QED
  BY <1>2, <1>4 DEF PassOver, Passes

LEMMA VisitDirEffect ==
  ASSUME TypesInv, ChainInv, NEW d \in DOMAIN walk.kids, NEW e \in walk.kids[d], VisitDir(e)
  PROVE  \E x : Visits(e, x)
<1>. DEFINE p == Append(Top.path, e.name)
<1>1. state = "walking" /\ AtEntry(e) /\ ~stop
  BY DEF VisitDir, AtEntry
<1>2. e \in Entries /\ p \in Paths
  BY <1>1, EntryFacts
<1>. HIDE DEF p
<1>3. e.dir \in DOMAIN walk.kids
  BY WalksAssumption DEF TypesInv, VisitDir, Seen, Stated
<1>4. PICK a \in Answers("dir") :
        /\ Tells("pre", p, e.dir, a)
        /\ stop' = (a = "TERMINATE")
        /\ IF a = "CONTINUE"
           THEN \/ open' = Append(Past(e, a), Entered(p, e.dir)) /\ state' = state
                \/ open' = <<>> /\ state' = "failed"
           ELSE open' = Past(e, a) /\ state' = state
  BY DEF VisitDir, p
<1>5. a \in {"CONTINUE", "TERMINATE", "SKIP_SUBTREE", "SKIP_SIBLINGS"}
  BY <1>4 DEF Answers
<1>. DEFINE x == CallOf("pre", p, e.dir, a)
<1>6. x \in CallBack /\ x.kind = "pre" /\ x.path = p /\ x.dir = e.dir /\ x.answer = a
  BY <1>2, <1>5 DEF CallBack, CallOf
<1>7. calls' = Append(calls, x)
  BY <1>4 DEF Tells, CallOf
<1>. HIDE DEF x
<1>8. Grown(x)
  BY <1>6, <1>7, Grows
<1>9. PastOf(Past(e, a), e, a)
  BY <1>1, PastFacts
<1>10. GoesOn(e, x) \/ GoesInto(e, x) \/ Fails
  BY <1>4, <1>6, <1>9 DEF GoesOn, GoesInto, Fails
<1>11. walk' = walk
  BY DEF VisitDir
<1>12. Visits(e, x)
  BY <1>1, <1>3, <1>4, <1>6, <1>8, <1>10, <1>11 DEF Visits, p
<1>. QED
  BY <1>12

LEMMA VisitFileEffect ==
  ASSUME TypesInv, ChainInv, NEW e, VisitFile(e)
  PROVE  \E x : Visits(e, x)
<1>. DEFINE p == Append(Top.path, e.name)
<1>1. state = "walking" /\ AtEntry(e) /\ ~stop
  BY DEF VisitFile, AtEntry
<1>2. e \in Entries /\ p \in Paths
  BY <1>1, EntryFacts
<1>. HIDE DEF p
<1>3. PICK a \in Answers(ToldType(e)) :
        /\ Tells("file", p, e.dir, a)
        /\ stop' = (a = "TERMINATE")
        /\ IF a = Unreadable THEN open' = <<>> /\ state' = "failed"
           ELSE open' = Past(e, a) /\ state' = state
  BY DEF VisitFile, p
<1>4. a \in {"CONTINUE", "TERMINATE", "SKIP_SUBTREE", "SKIP_SIBLINGS", Unreadable}
  BY <1>3 DEF Answers
<1>. DEFINE x == CallOf("file", p, e.dir, a)
<1>5. x \in CallBack /\ x.kind = "file" /\ x.path = p /\ x.dir = e.dir /\ x.answer = a
  BY <1>2, <1>4 DEF CallBack, CallOf
<1>6. calls' = Append(calls, x)
  BY <1>3 DEF Tells, CallOf
<1>. HIDE DEF x
<1>7. Grown(x)
  BY <1>5, <1>6, Grows
<1>8. PastOf(Past(e, a), e, a)
  BY <1>1, PastFacts
<1>9. GoesOn(e, x) \/ Fails
  BY <1>3, <1>5, <1>8 DEF GoesOn, Fails
<1>10. walk' = walk
  BY DEF VisitFile
<1>11. Visits(e, x)
  BY <1>1, <1>3, <1>5, <1>7, <1>9, <1>10 DEF Visits, p
<1>. QED
  BY <1>11

LEMMA LeaveDirEffect ==
  ASSUME TypesInv, ChainInv, LeaveDir
  PROVE  \E x : Leaves(x)
<1>1. state = "walking"
  BY DEF LeaveDir
<1>2. PICK a \in Answers("dir") : Tells("post", Top.path, "", a) /\ stop' = (stop \/ a = "TERMINATE")
  BY DEF LeaveDir
<1>3. Top.path \in Paths
  BY <1>1, TopFacts
<1>. DEFINE x == CallOf("post", Top.path, "", a)
<1>4. x \in CallBack /\ x.kind = "post" /\ x.path = Top.path /\ x.answer = a
  BY <1>2, <1>3 DEF Answers, CallBack, CallOf
<1>5. calls' = Append(calls, x)
  BY <1>2 DEF Tells, CallOf
<1>. HIDE DEF x
<1>6. Grown(x)
  BY <1>4, <1>5, Grows
<1>7. Leaves(x)
  BY <1>2, <1>4, <1>6 DEF Leaves, LeaveDir, Outer
<1>. QED
  BY <1>7

WalkStep ==
  \/ \E e : AtEntry(e) /\ Passes(e)
  \/ \E e, x : AtEntry(e) /\ Visits(e, x)
  \/ \E x : state = "walking" /\ Leaves(x)
  \/ WalkDone
  \/ UNCHANGED walkVars

LEMMA StepEffect ==
  ASSUME TypesInv, ChainInv, [WalkNext]_walkVars
  PROVE  WalkStep
<1>1. CASE WalkNext
  <2>1. CASE \E e \in UNION {walk.kids[d] : d \in DOMAIN walk.kids} : PassOver(e) \/ VisitDir(e) \/ VisitFile(e)
    <3>0. PICK d \in DOMAIN walk.kids : \E e \in walk.kids[d] : PassOver(e) \/ VisitDir(e) \/ VisitFile(e)
      BY <2>1
    <3>1. PICK e \in walk.kids[d] : PassOver(e) \/ VisitDir(e) \/ VisitFile(e)
      BY <3>0
    <3>2. AtEntry(e)
      BY <3>1 DEF PassOver, VisitDir, VisitFile
    <3>3. Passes(e) \/ \E x : Visits(e, x)
      BY <3>1, PassOverEffect, VisitDirEffect, VisitFileEffect
    <3>. QED
      BY <3>2, <3>3 DEF WalkStep
  <2>2. CASE LeaveDir
    <3>1. state = "walking"
      BY <2>2 DEF LeaveDir
    <3>. QED
      BY <2>2, <3>1, LeaveDirEffect DEF WalkStep
  <2>3. CASE WalkDone
    BY <2>3 DEF WalkStep
  <2>. QED
    BY <1>1, <2>1, <2>2, <2>3 DEF WalkNext
<1>2. CASE UNCHANGED walkVars
  BY <1>2 DEF WalkStep
<1>. QED
  BY <1>1, <1>2

-----------------------------------------------------------------------------
(* What a step leaves open.                                                *)

EntersFrom(o, e, x) ==
  /\ o \in Seq(Frame) /\ Len(o) = Depth + 1
  /\ \A n \in 1..Depth : o[n].path = open[n].path /\ o[n].skip = open[n].skip
  /\ \A n \in 1..Depth : n # Depth => o[n].left = open[n].left
  /\ o[Depth].left = open[Depth].left \ {e}
  /\ o[Depth + 1].path = x.path /\ o[Depth + 1].left = walk.kids[x.dir] /\ o[Depth + 1].skip = FALSE

LEMMA IntoFacts ==
  ASSUME TypesInv, ChainInv, NEW e, NEW x, AtEntry(e), Visits(e, x), GoesInto(e, x)
  PROVE  EntersFrom(open', e, x)
<1>1. state = "walking"
  BY DEF AtEntry
<1>2. Depth \in Nat \ {0} /\ \A n \in 1..Depth : open[n] \in Frame
  BY <1>1, TopFacts
<1>3. PICK o : PastOf(o, e, x.answer) /\ open' = Append(o, Entered(x.path, x.dir))
  BY DEF GoesInto
<1>. DEFINE f == Entered(x.path, x.dir)
<1>4. x.path \in Paths /\ walk.kids[x.dir] \subseteq Entries
  <2>1. x \in CallBack /\ x.dir \in DOMAIN walk.kids /\ walk \in Walks
    BY DEF Visits, Grown, GoesInto, TypesInv
  <2>2. x.path \in Paths
    BY <2>1 DEF CallBack
  <2>3. walk.kids[x.dir] \subseteq Entries
    BY <2>1 DEF Entries
  <2>. QED
    BY <2>2, <2>3
<1>5. f \in Frame /\ f.path = x.path /\ f.left = walk.kids[x.dir] /\ f.skip = FALSE
  BY <1>4 DEF Entered, Frame
<1>. HIDE DEF f
<1>6. o \in Seq(Frame) /\ Len(o) = Depth
  BY <1>3 DEF PastOf
<1>7. /\ open' \in Seq(Frame) /\ Len(open') = Depth + 1 /\ open'[Depth + 1] = f
      /\ \A n \in 1..Depth : open'[n] = o[n]
  <2>1. open' = Append(o, f)
    BY <1>3 DEF f
  <2>. QED
    BY <1>5, <1>6, <2>1, AppendProperties
<1>8. \A n \in 1..Depth : o[n].skip = open[n].skip
  <2>1. \A n \in 1..Depth : n # Depth => o[n] = open[n]
    BY <1>3 DEF PastOf
  <2>2. o[Depth].skip = (open[Depth].skip \/ x.answer = "SKIP_SIBLINGS")
    BY <1>3 DEF PastOf
  <2>3. x.answer # "SKIP_SIBLINGS"
    BY DEF GoesInto
  <2>4. open[Depth].skip \in BOOLEAN
    BY <1>2 DEF Frame
  <2>5. o[Depth].skip = open[Depth].skip
    <3>1. PICK b \in BOOLEAN : b = open[Depth].skip
      BY <2>4
    <3>. QED
      BY <2>2, <2>3, <3>1, Zenon
  <2>. QED
    BY <2>1, <2>5
<1>9. /\ \A n \in 1..Depth : o[n].path = open[n].path
      /\ \A n \in 1..Depth : n # Depth => o[n].left = open[n].left
      /\ o[Depth].left = open[Depth].left \ {e}
  BY <1>3 DEF PastOf
<1>. QED
  BY <1>2, <1>5, <1>7, <1>8, <1>9 DEF EntersFrom

LEMMA FrontFacts ==
  ASSUME NEW S, NEW s, s \in Seq(S), s # <<>>
  PROVE  /\ Front(s) \in Seq(S) /\ Len(s) \in Nat \ {0} /\ Len(Front(s)) = Len(s) - 1
         /\ \A i \in 1..(Len(s) - 1) : Front(s)[i] = s[i]
<1>1. Len(s) \in Nat \ {0} /\ \A i \in 1..Len(s) : s[i] \in S
  BY SeqFacts, ElementOfSeq
<1>2. PICK m \in Nat : m = Len(s) - 1
  BY <1>1
<1>3. /\ SubSeq(s, 1, m) \in Seq(S) /\ Len(SubSeq(s, 1, m)) = m
      /\ \A i \in 1..m : SubSeq(s, 1, m)[i] = s[i]
  <2>1. \A i \in 1..m : s[i] \in S
    BY <1>1, <1>2
  <2>. QED
    BY <1>2, <2>1
<1>. QED
  BY <1>1, <1>2, <1>3 DEF Front

LeavesOpen(o) ==
  /\ o \in Seq(Frame) /\ Len(o) = Depth - 1
  /\ \A n \in 1..(Depth - 1) : o[n] = open[n]

LEMMA LeaveFacts ==
  ASSUME TypesInv, NEW x, Leaves(x)
  PROVE  LeavesOpen(open') /\ Depth \in Nat \ {0, 1}
<1>1. open \in Seq(Frame) /\ Depth > 1 /\ Depth \in Nat
  BY LenProperties DEF TypesInv, Leaves, Depth
<1>2. open # <<>>
  BY <1>1 DEF Depth
<1>3. open' = Front(open)
  BY DEF Leaves
<1>. QED
  BY <1>1, <1>2, <1>3, FrontFacts DEF LeavesOpen, Depth

LEMMA TypesStep ==
  ASSUME TypesInv, ChainInv, WalkStep
  PROVE  TypesInv'
<1>1. CASE \E e : AtEntry(e) /\ Passes(e)
  <2>1. PICK e : AtEntry(e) /\ Passes(e)
    BY <1>1
  <2>2. state = "walking" /\ Depth \in Nat \ {0}
    BY <2>1, TopFacts DEF AtEntry
  <2>3. open' \in Seq(Frame) /\ Len(open') # 0
    BY <2>1, <2>2 DEF Passes, PastOf
  <2>. QED
    BY <2>1, <2>2, <2>3 DEF TypesInv, Passes
<1>2. CASE \E e, x : AtEntry(e) /\ Visits(e, x)
  <2>1. PICK e, x : AtEntry(e) /\ Visits(e, x)
    BY <1>2
  <2>2. state = "walking" /\ Depth \in Nat \ {0}
    BY <2>1, TopFacts DEF AtEntry
  <2>3. walk' = walk /\ stop' \in BOOLEAN /\ calls' \in Seq(CallBack)
    BY <2>1 DEF Visits, Grown
  <2>4. CASE GoesOn(e, x)
    <3>1. open' \in Seq(Frame) /\ Len(open') # 0 /\ state' = "walking"
      BY <2>2, <2>4 DEF GoesOn, PastOf
    <3>. QED
      BY <2>3, <3>1 DEF TypesInv
  <2>5. CASE GoesInto(e, x)
    <3>1. open' \in Seq(Frame) /\ Len(open') # 0 /\ state' = "walking"
      <4>1. EntersFrom(open', e, x)
        BY <2>1, <2>5, IntoFacts
      <4>. QED
        BY <2>2, <2>5, <4>1 DEF GoesInto, EntersFrom
    <3>. QED
      BY <2>3, <3>1 DEF TypesInv
  <2>6. CASE Fails
    BY <2>3, <2>6, EmptySeq DEF TypesInv, Fails
  <2>. QED
    BY <2>1, <2>4, <2>5, <2>6 DEF Visits
<1>3. CASE \E x : state = "walking" /\ Leaves(x)
  <2>1. PICK x : state = "walking" /\ Leaves(x)
    BY <1>3
  <2>2. open' \in Seq(Frame) /\ Len(open') # 0
    BY <2>1, LeaveFacts DEF LeavesOpen
  <2>3. calls' \in Seq(CallBack) /\ stop' \in BOOLEAN
    BY <2>1 DEF Leaves, Grown
  <2>. QED
    BY <2>1, <2>2, <2>3 DEF TypesInv, Leaves
<1>4. CASE WalkDone
  BY <1>4, EmptySeq DEF TypesInv, WalkDone
<1>5. CASE UNCHANGED walkVars
  BY <1>5 DEF TypesInv, walkVars
<1>. QED
  BY <1>1, <1>2, <1>3, <1>4, <1>5 DEF WalkStep

LEMMA LaterIndices ==
  TypesInv' => Len(calls') \in Nat /\ Indices' = 1..Len(calls') /\ \A i \in Indices' : calls'[i] \in CallBack
<1>1. (TypesInv => Len(calls) \in Nat /\ Indices = 1..Len(calls) /\ \A i \in Indices : calls[i] \in CallBack)'
  BY IndicesFacts, PTL
<1>. QED
  BY <1>1

\* The directories that stay open keep their paths; one may be added.
KeepsPaths == Len(open') \in 0..Depth /\ \A n \in 1..Len(open') : open'[n].path = open[n].path
AddsPath(x) ==
  /\ Len(open') = Depth + 1 /\ \A n \in 1..Depth : open'[n].path = open[n].path
  /\ open'[Depth + 1].path = x.path

LEMMA ChainStep ==
  ASSUME TypesInv, ChainInv, WalkStep
  PROVE  ChainInv'
<1>. DEFINE Lengths == \A n \in 1..Len(open) : Len(open[n].path) = n - 1
            Nested == \A m, n \in 1..Len(open) : m < n => Under(open[m].path, open[n].path)
            Lists(x) == (x.path = <<>> => x.kind = "pre") /\ (x.kind = "pre" => x.dir \in DOMAIN walk.kids)
            Calls == \A i \in 1..Len(calls) : Lists(calls[i])
<1>1. Indices = 1..Len(calls) /\ Indices' = 1..Len(calls') /\ Len(calls) \in Nat
  <2>1. TypesInv'
    BY TypesStep
  <2>. QED
    BY <2>1, IndicesFacts, LaterIndices
<1>2. Lengths /\ Nested /\ Calls
  BY <1>1 DEF ChainInv
<1>3. ASSUME KeepsPaths, Depth \in Nat
      PROVE  Lengths' /\ Nested'
  <2>1. \A n \in 1..Len(open') : n \in 1..Len(open) /\ open'[n].path = open[n].path
    BY <1>3 DEF KeepsPaths, Depth
  <2>2. Lengths'
    BY <1>2, <2>1
  <2>3. Nested'
    <3>1. SUFFICES ASSUME NEW m \in 1..Len(open'), NEW n \in 1..Len(open'), m < n
                   PROVE  Under(open'[m].path, open'[n].path)
      OBVIOUS
    <3>2. m \in 1..Len(open) /\ n \in 1..Len(open) /\ open'[m].path = open[m].path /\ open'[n].path = open[n].path
      BY <2>1
    <3>3. Under(open[m].path, open[n].path)
      BY <1>2, <3>1, <3>2, Zenon
    <3>. QED
      BY <3>2, <3>3, Zenon
  <2>. QED
    BY <2>2, <2>3
<1>4. ASSUME NEW x, AddsPath(x), Depth \in Nat, Len(x.path) = Depth, \A n \in 1..Depth : Under(open[n].path, x.path)
      PROVE  Lengths' /\ Nested'
  <2>1. \A n \in 1..Len(open') : n \in 1..Depth \/ n = Depth + 1
    BY <1>4 DEF AddsPath
  <2>2. Lengths'
    <3>1. Lengths /\ Depth = Len(open)
      BY <1>2 DEF Depth
    <3>2. \A n \in 1..Depth : Len(open'[n].path) = n - 1
      BY <1>4, <3>1 DEF AddsPath
    <3>3. Len(open'[Depth + 1].path) = (Depth + 1) - 1
      BY <1>4 DEF AddsPath
    <3>. QED
      BY <2>1, <3>2, <3>3
  <2>3. Nested'
    <3>1. SUFFICES ASSUME NEW m \in 1..Len(open'), NEW n \in 1..Len(open'), m < n
                   PROVE  Under(open'[m].path, open'[n].path)
      OBVIOUS
    <3>2. m \in 1..Depth /\ m \in 1..Len(open) /\ open'[m].path = open[m].path
      BY <1>4, <2>1, <3>1 DEF AddsPath, Depth
    <3>3. CASE n = Depth + 1
      BY <1>4, <3>2, <3>3 DEF AddsPath
    <3>4. CASE n \in 1..Depth
      <4>1. n \in 1..Len(open) /\ open'[n].path = open[n].path
        BY <1>4, <3>4 DEF AddsPath, Depth
      <4>. QED
        BY <1>2, <3>1, <3>2, <4>1
    <3>. QED
      BY <2>1, <3>3, <3>4
  <2>. QED
    BY <2>2, <2>3
<1>5. ASSUME NEW x, Grown(x), walk' = walk, Lists(x)
      PROVE  Calls'
  <2>1. \A i \in 1..Len(calls') : i \in 1..Len(calls) \/ i = Len(calls) + 1
    BY <1>5 DEF Grown
  <2>. QED
    BY <1>2, <1>5, <2>1 DEF Grown
<1>6. Calls' /\ Lengths' /\ Nested' => ChainInv'
  BY <1>1 DEF ChainInv
<1>. HIDE DEF Lengths, Nested, Calls
<1>7. CASE \E e : AtEntry(e) /\ Passes(e)
  <2>1. PICK e : AtEntry(e) /\ Passes(e)
    BY <1>7
  <2>2. Depth \in Nat \ {0}
    BY <2>1, TopFacts DEF AtEntry
  <2>3. KeepsPaths
    BY <2>1, <2>2 DEF Passes, PastOf, KeepsPaths
  <2>4. Calls'
    BY <1>2, <2>1 DEF Passes, Calls
  <2>. QED
    BY <1>3, <1>6, <2>2, <2>3, <2>4
<1>8. CASE \E e, x : AtEntry(e) /\ Visits(e, x)
  <2>1. PICK e, x : AtEntry(e) /\ Visits(e, x)
    BY <1>8
  <2>2. Depth \in Nat \ {0}
    BY <2>1, TopFacts DEF AtEntry
  <2>3. x.path # <<>> /\ Len(x.path) = Depth /\ \A n \in 1..Depth : Under(open[n].path, x.path)
    BY <2>1, EntryFacts DEF Visits
  <2>4. Calls'
    BY <1>5, <2>1, <2>3 DEF Visits
  <2>5. CASE GoesOn(e, x)
    <3>1. KeepsPaths
      BY <2>2, <2>5 DEF GoesOn, PastOf, KeepsPaths
    <3>. QED
      BY <1>3, <1>6, <2>2, <2>4, <3>1
  <2>6. CASE GoesInto(e, x)
    <3>1. AddsPath(x)
      BY <2>1, <2>6, IntoFacts DEF EntersFrom, AddsPath
    <3>. QED
      BY <1>4, <1>6, <2>2, <2>3, <2>4, <3>1
  <2>7. CASE Fails
    <3>1. KeepsPaths
      BY <2>2, <2>7 DEF Fails, KeepsPaths
    <3>. QED
      BY <1>3, <1>6, <2>2, <2>4, <3>1
  <2>. QED
    BY <2>1, <2>5, <2>6, <2>7 DEF Visits
<1>9. CASE \E x : state = "walking" /\ Leaves(x)
  <2>1. PICK x : state = "walking" /\ Leaves(x)
    BY <1>9
  <2>2. LeavesOpen(open') /\ Depth \in Nat \ {0, 1}
    BY <2>1, LeaveFacts
  <2>3. KeepsPaths
    BY <2>2 DEF LeavesOpen, KeepsPaths
  <2>4. Len(x.path) # 0
    BY <2>1, <2>2, TopFacts DEF Leaves
  <2>5. Calls'
    BY <1>5, <2>1, <2>4 DEF Leaves
  <2>. QED
    BY <1>3, <1>6, <2>2, <2>3, <2>5
<1>10. CASE WalkDone
  <2>1. KeepsPaths /\ Depth \in Nat
    BY <1>10 DEF WalkDone, KeepsPaths
  <2>2. Calls'
    BY <1>2, <1>10 DEF WalkDone, Calls
  <2>. QED
    BY <1>3, <1>6, <2>1, <2>2
<1>11. CASE UNCHANGED walkVars
  BY <1>11 DEF ChainInv, walkVars, Indices
<1>. QED
  BY <1>7, <1>8, <1>9, <1>10, <1>11 DEF WalkStep

-----------------------------------------------------------------------------
(* Directories are left in the reverse order in which they were entered.   *)

LEMMA EnteredStep ==
  ASSUME TypesInv, ChainInv, EnteredInv, WalkStep
  PROVE  EnteredInv'
<1>1. /\ Indices = 1..Len(calls) /\ Indices' = 1..Len(calls') /\ Len(calls) \in Nat /\ Depth = Len(open)
      /\ TypesInv'
  BY TypesStep, IndicesFacts, LaterIndices DEF Depth
<1>2. ASSUME NEW n \in 2..Len(open'), n <= Depth, Depth \in Nat, open'[n].path = open[n].path,
             calls' = calls \/ \E x : Grown(x) /\ Under(open[n].path, x.path)
      PROVE  \E i \in Indices' : Since(n, i)'
  <2>1. n \in 2..Len(open)
    BY <1>1, <1>2
  <2>2. PICK i \in Indices : Since(n, i)
    BY <2>1 DEF EnteredInv
  <2>3. CASE calls' = calls
    <3>1. Since(n, i)'
      BY <1>2, <2>2, <2>3 DEF Since, Into
    <3>. QED
      BY <1>1, <2>3, <3>1
  <2>4. CASE \E x : Grown(x) /\ Under(open[n].path, x.path)
    <3>1. PICK x : Grown(x) /\ Under(open[n].path, x.path)
      BY <2>4
    <3>2. i \in 1..Len(calls) /\ i \in Indices' /\ calls'[i] = calls[i]
      BY <1>1, <3>1 DEF Grown
    <3>3. \A k \in (i + 1)..Len(calls') : (k \in (i + 1)..Len(calls) /\ calls'[k] = calls[k]) \/ calls'[k] = x
      BY <3>1, <3>2 DEF Grown
    <3>4. \A k \in (i + 1)..Len(calls') : Under(open[n].path, calls'[k].path)
      BY <2>2, <3>1, <3>3 DEF Since
    <3>5. Since(n, i)'
      BY <1>2, <2>2, <3>2, <3>4 DEF Since, Into
    <3>. QED
      BY <3>2, <3>5
  <2>. QED
    BY <1>2, <2>3, <2>4
<1>3. ASSUME NEW x, Grown(x), AddsPath(x), NEW n, n = Depth + 1, x.kind = "pre", x.answer = "CONTINUE", x.path # <<>>
      PROVE  \E i \in Indices' : Since(n, i)'
  <2>1. PICK i : i \in Indices' /\ calls'[i] = x /\ i = Len(calls')
    BY <1>1, <1>3 DEF Grown
  <2>2. open'[n].path = x.path
    BY <1>3 DEF AddsPath
  <2>3. ~(\E k \in (i + 1)..Len(calls') : TRUE)
    BY <1>1, <2>1
  <2>4. Since(n, i)'
    BY <1>3, <2>1, <2>2, <2>3 DEF Since, Into
  <2>. QED
    BY <2>1, <2>4
<1>4. ASSUME KeepsPaths, Depth \in Nat,
             calls' = calls \/ \E x : Grown(x) /\ \A n \in 1..Len(open') : Under(open[n].path, x.path)
      PROVE  EnteredInv'
  <2>1. SUFFICES ASSUME NEW n \in 2..Len(open')
                 PROVE  \E i \in Indices' : Since(n, i)'
    BY DEF EnteredInv
  <2>2. n <= Depth /\ n \in 1..Len(open') /\ open'[n].path = open[n].path
    BY <1>4 DEF KeepsPaths
  <2>3. calls' = calls \/ \E x : Grown(x) /\ Under(open[n].path, x.path)
    BY <1>4, <2>2
  <2>. QED
    BY <1>2, <1>4, <2>2, <2>3
<1>5. CASE \E e : AtEntry(e) /\ Passes(e)
  <2>1. PICK e : AtEntry(e) /\ Passes(e)
    BY <1>5
  <2>2. Depth \in Nat \ {0}
    BY <2>1, TopFacts DEF AtEntry
  <2>3. KeepsPaths
    BY <2>1, <2>2 DEF Passes, PastOf, KeepsPaths
  <2>. QED
    BY <1>4, <2>1, <2>2, <2>3 DEF Passes
<1>6. CASE \E e, x : AtEntry(e) /\ Visits(e, x)
  <2>1. PICK e, x : AtEntry(e) /\ Visits(e, x)
    BY <1>6
  <2>2. Depth \in Nat \ {0}
    BY <2>1, TopFacts DEF AtEntry
  <2>3. x.path # <<>> /\ Grown(x) /\ \A n \in 1..Depth : Under(open[n].path, x.path)
    BY <2>1, EntryFacts DEF Visits
  <2>4. ASSUME KeepsPaths
        PROVE  EnteredInv'
    <3>1. \A n \in 1..Len(open') : n \in 1..Depth
      BY <2>2, <2>4 DEF KeepsPaths
    <3>. QED
      BY <1>4, <2>2, <2>3, <2>4, <3>1
  <2>5. CASE GoesOn(e, x)
    <3>1. KeepsPaths
      BY <2>2, <2>5 DEF GoesOn, PastOf, KeepsPaths
    <3>. QED
      BY <2>4, <3>1
  <2>6. CASE GoesInto(e, x)
    <3>1. EntersFrom(open', e, x)
      BY <2>1, <2>6, IntoFacts
    <3>2. AddsPath(x)
      BY <3>1 DEF EntersFrom, AddsPath
    <3>3. SUFFICES ASSUME NEW n \in 2..Len(open')
                   PROVE  \E i \in Indices' : Since(n, i)'
      BY DEF EnteredInv
    <3>4. n = Depth + 1 \/ (n \in 1..Depth /\ n <= Depth)
      BY <2>2, <3>2 DEF AddsPath
    <3>5. CASE n = Depth + 1
      BY <1>3, <2>3, <2>6, <3>2, <3>5 DEF GoesInto
    <3>6. CASE n \in 1..Depth /\ n <= Depth
      <4>1. open'[n].path = open[n].path /\ Under(open[n].path, x.path)
        BY <2>3, <3>2, <3>6 DEF AddsPath
      <4>. QED
        BY <1>2, <2>2, <2>3, <3>6, <4>1
    <3>. QED
      BY <3>4, <3>5, <3>6
  <2>7. CASE Fails
    <3>1. KeepsPaths
      BY <2>2, <2>7 DEF Fails, KeepsPaths
    <3>. QED
      BY <2>4, <3>1
  <2>. QED
    BY <2>1, <2>5, <2>6, <2>7 DEF Visits
<1>7. CASE \E x : state = "walking" /\ Leaves(x)
  <2>1. PICK x : state = "walking" /\ Leaves(x)
    BY <1>7
  <2>2. LeavesOpen(open') /\ Depth \in Nat \ {0, 1}
    BY <2>1, LeaveFacts
  <2>3. KeepsPaths /\ \A n \in 1..Len(open') : n \in 1..Depth /\ n # Depth
    BY <2>2 DEF LeavesOpen, KeepsPaths
  <2>4. \A n \in 1..Depth : n # Depth => Under(open[n].path, x.path)
    BY <2>1, TopFacts DEF Leaves
  <2>5. Grown(x)
    BY <2>1 DEF Leaves
  <2>. QED
    BY <1>4, <2>2, <2>3, <2>4, <2>5
<1>8. CASE WalkDone
  <2>1. KeepsPaths /\ Depth \in Nat
    BY <1>8 DEF WalkDone, KeepsPaths
  <2>. QED
    BY <1>4, <1>8, <2>1 DEF WalkDone
<1>9. CASE UNCHANGED walkVars
  BY <1>9 DEF EnteredInv, Since, Into, Indices, walkVars
<1>. QED
  BY <1>5, <1>6, <1>7, <1>8, <1>9 DEF WalkStep

\* The parts of LeftInv.
PostsInv == \A j \in Indices : calls[j].kind = "post" => \E i \in 1..(j - 1) : Brackets(i, j)
IntoInv == state # "failed" => \A i \in Indices : Into(i) => OpenOrLeft(i)
EndInv ==
  /\ \A i \in Indices : 1 < i /\ calls[i].answer = "TERMINATE" => stop
  /\ \A i, j \in Indices : 1 < i /\ i < j /\ calls[i].answer = "TERMINATE" => calls[j].kind = "post"

\* What has been told is told for ever.
LEMMA CallsKept ==
  ASSUME TypesInv, TypesInv', NEW x, Grown(x)
  PROVE  /\ Indices = 1..Len(calls) /\ Indices' = 1..(Len(calls) + 1) /\ Len(calls) \in Nat
         /\ Len(calls) + 1 \in Indices' /\ calls'[Len(calls) + 1] = x
         /\ \A i \in Indices : i \in Indices' /\ calls'[i] = calls[i] /\ Into(i)' = Into(i)
         /\ \A i, j \in Indices : LeavesOf(i, j)' = LeavesOf(i, j)
         /\ \A i \in Indices' : i \in Indices \/ i = Len(calls) + 1
<1>1. /\ Indices = 1..Len(calls) /\ Indices' = 1..Len(calls') /\ Len(calls) \in Nat
      /\ Len(calls') = Len(calls) + 1
  BY IndicesFacts, LaterIndices DEF Grown
<1>2. \A i \in Indices : i \in Indices' /\ calls'[i] = calls[i]
  BY <1>1 DEF Grown
<1>3. \A i \in Indices : Into(i)' = Into(i)
  BY <1>2, Zenon DEF Into
<1>4. \A i, j \in Indices : LeavesOf(i, j)' = LeavesOf(i, j)
  BY <1>2, Zenon DEF LeavesOf
<1>5. calls'[Len(calls) + 1] = x
  BY DEF Grown
<1>. QED
  BY <1>1, <1>2, <1>3, <1>4, <1>5

LEMMA PostsStep ==
  ASSUME TypesInv, ChainInv, EnteredInv, PostsInv, WalkStep
  PROVE  PostsInv'
<1>1. TypesInv'
  BY TypesStep
<1>2. ASSUME NEW x, Grown(x), NEW m, m = Len(calls) + 1, x.kind # "post" \/ \E i \in 1..Len(calls) : Brackets(i, m)'
      PROVE  PostsInv'
  <2>1. /\ Indices = 1..Len(calls) /\ Len(calls) \in Nat /\ calls'[Len(calls) + 1] = x
        /\ \A i \in Indices : i \in Indices' /\ calls'[i] = calls[i] /\ Into(i)' = Into(i)
        /\ \A i, j \in Indices : LeavesOf(i, j)' = LeavesOf(i, j)
        /\ \A i \in Indices' : i \in Indices \/ i = Len(calls) + 1
    BY <1>1, <1>2, CallsKept
  <2>2. SUFFICES ASSUME NEW j \in Indices', calls'[j].kind = "post"
                 PROVE  \E i \in 1..(j - 1) : Brackets(i, j)'
    BY DEF PostsInv
  <2>3. CASE j \in Indices
    <3>1. PICK i \in 1..(j - 1) : Brackets(i, j)
      BY <2>1, <2>2, <2>3 DEF PostsInv
    <3>2. i \in Indices /\ j \in 1..Len(calls)
      BY <2>1, <2>3
    <3>3. \A k \in (i + 1)..(j - 1) : k \in Indices
      BY <2>1, <3>2
    <3>4. Brackets(i, j)'
      BY <2>1, <2>3, <3>1, <3>2, <3>3 DEF Brackets
    <3>. QED
      BY <3>4
  <2>4. CASE j = Len(calls) + 1
    <3>1. PICK i \in 1..Len(calls) : Brackets(i, j)'
      BY <1>2, <2>1, <2>2, <2>4
    <3>. QED
      BY <2>1, <2>4, <3>1
  <2>. QED
    BY <2>1, <2>3, <2>4
<1>3. CASE \E e : AtEntry(e) /\ Passes(e)
  BY <1>3 DEF Passes, PostsInv, Brackets, LeavesOf, Into, Indices
<1>4. CASE \E e, x : AtEntry(e) /\ Visits(e, x)
  BY <1>2, <1>4 DEF Visits
<1>5. CASE \E x : state = "walking" /\ Leaves(x)
  <2>1. PICK x : state = "walking" /\ Leaves(x)
    BY <1>5
  <2>2. PICK d : d = Depth /\ d \in Nat \ {0, 1} /\ d = Len(open)
    BY <2>1, LeaveFacts DEF Depth
  <2>3. Top.path = open[d].path
    BY <2>1, <2>2, TopFacts
  <2>4. PICK i \in Indices : Since(d, i)
    BY <2>2 DEF EnteredInv
  <2>5. Grown(x) /\ x.kind = "post" /\ x.path = open[d].path
    BY <2>1, <2>3 DEF Leaves
  <2>6. PICK m : m = Len(calls) + 1
    OBVIOUS
  <2>7. /\ Indices = 1..Len(calls) /\ Len(calls) \in Nat /\ calls'[m] = x
        /\ \A k \in Indices : calls'[k] = calls[k] /\ Into(k)' = Into(k)
    BY <1>1, <2>5, <2>6, CallsKept
  <2>8. Into(i)' /\ calls'[i].path = open[d].path /\ i < m
    BY <2>4, <2>6, <2>7 DEF Since
  <2>9. LeavesOf(i, m)'
    BY <2>5, <2>7, <2>8 DEF LeavesOf
  <2>10. \A k \in (i + 1)..(m - 1) : Under(calls'[i].path, calls'[k].path)
    <3>1. \A k \in (i + 1)..(m - 1) : k \in (i + 1)..Len(calls) /\ k \in Indices
      BY <2>4, <2>6, <2>7
    <3>. QED
      BY <2>4, <2>7, <2>8, <3>1 DEF Since
  <2>11. Brackets(i, m)'
    BY <2>8, <2>9, <2>10 DEF Brackets
  <2>. QED
    BY <1>2, <2>4, <2>5, <2>6, <2>7, <2>11
<1>6. CASE WalkDone
  BY <1>6 DEF WalkDone, PostsInv, Brackets, LeavesOf, Into, Indices
<1>7. CASE UNCHANGED walkVars
  BY <1>7 DEF walkVars, PostsInv, Brackets, LeavesOf, Into, Indices
<1>. QED
  BY <1>3, <1>4, <1>5, <1>6, <1>7 DEF WalkStep

LEMMA EndStep ==
  ASSUME TypesInv, ChainInv, EndInv, WalkStep
  PROVE  EndInv'
<1>1. TypesInv'
  BY TypesStep
<1>2. ASSUME NEW x, Grown(x), x.kind = "post" \/ ~stop, stop' = (stop \/ x.answer = "TERMINATE")
      PROVE  EndInv'
  <2>1. /\ Indices = 1..Len(calls) /\ Len(calls) \in Nat /\ calls'[Len(calls) + 1] = x
        /\ \A i \in Indices : i \in Indices' /\ calls'[i] = calls[i]
        /\ \A i \in Indices' : i \in Indices \/ i = Len(calls) + 1
    BY <1>1, <1>2, CallsKept
  <2>2. \A i \in Indices' : 1 < i /\ calls'[i].answer = "TERMINATE" => stop'
    BY <1>2, <2>1 DEF EndInv
  <2>3. \A i, j \in Indices' : 1 < i /\ i < j /\ calls'[i].answer = "TERMINATE" => calls'[j].kind = "post"
    <3>1. SUFFICES ASSUME NEW i \in Indices', NEW j \in Indices', 1 < i, i < j, calls'[i].answer = "TERMINATE"
                   PROVE  calls'[j].kind = "post"
      OBVIOUS
    <3>2. i \in Indices
      BY <2>1, <3>1
    <3>3. CASE j \in Indices
      BY <2>1, <3>1, <3>2, <3>3 DEF EndInv
    <3>4. CASE j = Len(calls) + 1
      BY <1>2, <2>1, <3>1, <3>2, <3>4 DEF EndInv
    <3>. QED
      BY <2>1, <3>3, <3>4
  <2>. QED
    BY <2>2, <2>3 DEF EndInv
<1>3. CASE \E e : AtEntry(e) /\ Passes(e)
  BY <1>3 DEF Passes, EndInv, Indices
<1>4. CASE \E e, x : AtEntry(e) /\ Visits(e, x)
  <2>1. PICK e, x : AtEntry(e) /\ Visits(e, x)
    BY <1>4
  <2>2. Grown(x) /\ ~stop /\ stop' = (stop \/ x.answer = "TERMINATE")
    BY <2>1 DEF Visits
  <2>. QED
    BY <1>2, <2>2
<1>5. CASE \E x : state = "walking" /\ Leaves(x)
  BY <1>2, <1>5 DEF Leaves
<1>6. CASE WalkDone
  BY <1>6 DEF WalkDone, EndInv, Indices
<1>7. CASE UNCHANGED walkVars
  BY <1>7 DEF walkVars, EndInv, Indices
<1>. QED
  BY <1>3, <1>4, <1>5, <1>6, <1>7 DEF WalkStep

LEMMA IntoStep ==
  ASSUME TypesInv, ChainInv, IntoInv, WalkStep
  PROVE  IntoInv'
<1>1. TypesInv' /\ Depth = Len(open)
  BY TypesStep DEF Depth
<1>2. ASSUME state # "failed", calls' = calls, KeepsPaths, Len(open') = Depth, Depth \in Nat
      PROVE  IntoInv'
  <2>1. \A i \in Indices : Into(i) => OpenOrLeft(i)
    BY <1>2 DEF IntoInv
  <2>2. \A n \in 2..Len(open) : n \in 2..Len(open') /\ open'[n].path = open[n].path
    BY <1>1, <1>2 DEF KeepsPaths
  <2>. QED
    BY <1>2, <2>1, <2>2 DEF IntoInv, OpenOrLeft, LeavesOf, Into, Indices
<1>3. ASSUME NEW x, Grown(x), state # "failed",
             \A n \in 2..Len(open) : (n \in 2..Len(open') /\ open'[n].path = open[n].path)
                                        \/ (x.kind = "post" /\ x.path = open[n].path),
             ~(x.kind = "pre" /\ x.answer = "CONTINUE") \/ (\E n \in 2..Len(open') : open'[n].path = x.path)
      PROVE  IntoInv'
  <2>1. /\ Indices = 1..Len(calls) /\ Len(calls) \in Nat /\ calls'[Len(calls) + 1] = x
        /\ Len(calls) + 1 \in Indices'
        /\ \A i \in Indices : i \in Indices' /\ calls'[i] = calls[i] /\ Into(i)' = Into(i)
        /\ \A i, j \in Indices : LeavesOf(i, j)' = LeavesOf(i, j)
        /\ \A i \in Indices' : i \in Indices \/ i = Len(calls) + 1
    BY <1>1, <1>3, CallsKept
  <2>2. SUFFICES ASSUME NEW i \in Indices', Into(i)'
                 PROVE  OpenOrLeft(i)'
    BY DEF IntoInv
  <2>3. CASE i \in Indices
    <3>1. OpenOrLeft(i)
      BY <1>3, <2>1, <2>2, <2>3 DEF IntoInv
    <3>2. CASE \E j \in Indices : LeavesOf(i, j)
      BY <2>1, <2>3, <3>2 DEF OpenOrLeft
    <3>3. CASE \E n \in 2..Len(open) : open[n].path = calls[i].path
      <4>1. PICK n \in 2..Len(open) : open[n].path = calls[i].path
        BY <3>3
      <4>2. CASE n \in 2..Len(open') /\ open'[n].path = open[n].path
        BY <2>1, <2>3, <4>1, <4>2 DEF OpenOrLeft
      <4>3. CASE x.kind = "post" /\ x.path = open[n].path
        <5>1. PICK m : m = Len(calls) + 1 /\ m \in Indices' /\ i < m /\ calls'[m] = x
          BY <2>1, <2>3
        <5>2. LeavesOf(i, m)'
          BY <2>1, <2>3, <4>1, <4>3, <5>1 DEF LeavesOf
        <5>. QED
          BY <5>1, <5>2 DEF OpenOrLeft
      <4>. QED
        BY <1>3, <4>1, <4>2, <4>3
    <3>. QED
      BY <3>1, <3>2, <3>3 DEF OpenOrLeft
  <2>4. CASE i = Len(calls) + 1
    <3>1. calls'[i] = x /\ x.kind = "pre" /\ x.answer = "CONTINUE"
      BY <2>1, <2>2, <2>4 DEF Into
    <3>. QED
      BY <1>3, <3>1 DEF OpenOrLeft
  <2>. QED
    BY <2>1, <2>3, <2>4
<1>4. CASE \E e : AtEntry(e) /\ Passes(e)
  <2>1. PICK e : AtEntry(e) /\ Passes(e)
    BY <1>4
  <2>2. Depth \in Nat \ {0} /\ state = "walking"
    BY <2>1, TopFacts DEF AtEntry
  <2>3. KeepsPaths /\ Len(open') = Depth
    BY <2>1, <2>2 DEF Passes, PastOf, KeepsPaths
  <2>. QED
    BY <1>2, <2>1, <2>2, <2>3 DEF Passes
<1>5. CASE \E e, x : AtEntry(e) /\ Visits(e, x)
  <2>1. PICK e, x : AtEntry(e) /\ Visits(e, x)
    BY <1>5
  <2>2. Depth \in Nat \ {0} /\ state = "walking" /\ Grown(x) /\ x.kind # "post"
    BY <2>1, TopFacts DEF AtEntry, Visits
  <2>3. CASE GoesOn(e, x)
    <3>1. \A n \in 2..Len(open) : n \in 2..Len(open') /\ open'[n].path = open[n].path
      BY <1>1, <2>2, <2>3 DEF GoesOn, PastOf
    <3>. QED
      BY <1>3, <2>2, <2>3, <3>1 DEF GoesOn
  <2>4. CASE GoesInto(e, x)
    <3>1. EntersFrom(open', e, x)
      BY <2>1, <2>4, IntoFacts
    <3>2. \A n \in 2..Len(open) : n \in 2..Len(open') /\ open'[n].path = open[n].path
      BY <1>1, <2>2, <3>1 DEF EntersFrom
    <3>3. Depth + 1 \in 2..Len(open') /\ open'[Depth + 1].path = x.path
      BY <2>2, <3>1 DEF EntersFrom
    <3>. QED
      BY <1>3, <2>2, <3>2, <3>3
  <2>5. CASE Fails
    BY <2>5 DEF Fails, IntoInv
  <2>. QED
    BY <2>1, <2>3, <2>4, <2>5 DEF Visits
<1>6. CASE \E x : state = "walking" /\ Leaves(x)
  <2>1. PICK x : state = "walking" /\ Leaves(x)
    BY <1>6
  <2>2. LeavesOpen(open') /\ Depth \in Nat \ {0, 1} /\ x.path = open[Depth].path
    BY <2>1, LeaveFacts, TopFacts DEF Leaves
  <2>3. \A n \in 2..Len(open) : (n \in 2..Len(open') /\ open'[n] = open[n]) \/ n = Depth
    BY <1>1, <2>2 DEF LeavesOpen
  <2>4. Grown(x) /\ x.kind = "post"
    BY <2>1 DEF Leaves
  <2>. QED
    BY <1>3, <2>1, <2>2, <2>3, <2>4
<1>7. CASE WalkDone
  <2>1. \A i \in Indices : Into(i) => \E j \in Indices : LeavesOf(i, j)
    BY <1>1, <1>7 DEF IntoInv, OpenOrLeft, WalkDone
  <2>. QED
    BY <1>7, <2>1 DEF WalkDone, IntoInv, OpenOrLeft, LeavesOf, Into, Indices
<1>8. CASE UNCHANGED walkVars
  BY <1>8 DEF walkVars, IntoInv, OpenOrLeft, LeavesOf, Into, Indices
<1>. QED
  BY <1>4, <1>5, <1>6, <1>7, <1>8 DEF WalkStep

-----------------------------------------------------------------------------
(* No entry is forgotten.                                                  *)

\* What was told, and what was to be skipped, remains so.
LEMMA ToldKept ==
  ASSUME TypesInv, TypesInv', walk' = walk, calls' = calls \/ \E x : Grown(x), NEW p
  PROVE  /\ \A e : ToldOf(p, e) => ToldOf(p, e)'
         /\ \A e : Unwanted(p, e) = Unwanted(p, e)'
         /\ SkippedIn(p) => SkippedIn(p)'
<1>1. \A i \in Indices : i \in Indices' /\ calls'[i] = calls[i]
  <2>1. CASE calls' = calls
    BY <2>1 DEF Indices
  <2>2. CASE \E x : Grown(x)
    BY <2>2, CallsKept
  <2>. QED
    BY <2>1, <2>2
<1>2. \A e : ToldOf(p, e) => ToldOf(p, e)'
  BY <1>1 DEF ToldOf
<1>3. SkippedIn(p) => SkippedIn(p)'
  BY <1>1 DEF SkippedIn
<1>4. \A e : Unwanted(p, e) = Unwanted(p, e)'
  BY Zenon DEF Unwanted, Seen, Stated
<1>. QED
  BY <1>2, <1>3, <1>4

\* What was still to come still is, or has come.
LEMMA CoveredKept ==
  ASSUME TypesInv, TypesInv', walk' = walk, calls' = calls \/ \E x : Grown(x), NEW p, NEW d, Covered(p, d),
         \A e : ToCome(p, e) => ToCome(p, e)' \/ ToldOf(p, e)' \/ Unwanted(p, e) \/ SkippedIn(p)
  PROVE  Covered(p, d)'
<1>1. /\ \A e : ToldOf(p, e) => ToldOf(p, e)'
      /\ \A e : Unwanted(p, e) = Unwanted(p, e)'
      /\ SkippedIn(p) => SkippedIn(p)'
  BY ToldKept
<1>2. SUFFICES ASSUME ~SkippedIn(p)', NEW e \in walk.kids[d]
               PROVE  ToldOf(p, e)' \/ Unwanted(p, e)' \/ ToCome(p, e)'
  BY DEF Covered
<1>3. ~SkippedIn(p)
  BY <1>1, <1>2, Zenon
<1>4. ToldOf(p, e) \/ Unwanted(p, e) \/ ToCome(p, e)
  BY <1>3, Zenon DEF Covered
<1>. QED
  BY <1>1, <1>3, <1>4, Zenon

LEMMA ListedKept ==
  ASSUME TypesInv, TypesInv', ListedInv, walk' = walk,
         \/ calls' = calls
         \/ \E x : Grown(x) /\ x.path # <<>> /\ (x.kind = "pre" /\ x.answer = "CONTINUE" => Covered(x.path, x.dir)'),
         \A p, e : ToCome(p, e) => ToCome(p, e)' \/ ToldOf(p, e)' \/ Unwanted(p, e) \/ SkippedIn(p)
  PROVE  ListedInv'
<1>1. \A p, d : Covered(p, d) => Covered(p, d)'
  <2>1. calls' = calls \/ \E x : Grown(x)
    OBVIOUS
  <2>. QED
    BY <2>1, CoveredKept
<1>2. CASE calls' = calls
  <2>1. SUFFICES ASSUME NEW i \in Indices, WasListed(i)'
                 PROVE  Covered(calls[i].path, calls[i].dir)'
    BY <1>2 DEF ListedInv, Indices
  <2>2. WasListed(i)
    BY <1>2, <2>1 DEF WasListed, Into
  <2>3. PICK p, d : p = calls[i].path /\ d = calls[i].dir
    OBVIOUS
  <2>4. Covered(p, d)
    BY <2>1, <2>2, <2>3 DEF ListedInv
  <2>5. Covered(p, d)'
    BY <1>1, <2>4
  <2>. QED
    BY <1>2, <2>3, <2>5
<1>3. CASE \E x : Grown(x) /\ x.path # <<>> /\ (x.kind = "pre" /\ x.answer = "CONTINUE" => Covered(x.path, x.dir)')
  <2>1. PICK x : Grown(x) /\ x.path # <<>> /\ (x.kind = "pre" /\ x.answer = "CONTINUE" => Covered(x.path, x.dir)')
    BY <1>3
  <2>2. /\ calls'[Len(calls) + 1] = x
        /\ \A i \in Indices : i \in Indices' /\ calls'[i] = calls[i] /\ Into(i)' = Into(i)
        /\ \A i \in Indices' : i \in Indices \/ i = Len(calls) + 1
    BY <2>1, CallsKept
  <2>3. SUFFICES ASSUME NEW i \in Indices', WasListed(i)'
                 PROVE  Covered(calls[i].path, calls[i].dir)'
    BY DEF ListedInv
  <2>4. PICK p, d : p = calls'[i].path /\ d = calls'[i].dir
    OBVIOUS
  <2>5. CASE i \in Indices
    <3>1. WasListed(i) /\ calls[i].path = p /\ calls[i].dir = d
      BY <2>2, <2>3, <2>4, <2>5 DEF WasListed
    <3>2. Covered(p, d)
      BY <2>5, <3>1 DEF ListedInv
    <3>3. Covered(p, d)'
      BY <1>1, <3>2
    <3>. QED
      BY <2>4, <3>3
  <2>6. CASE i = Len(calls) + 1
    <3>1. x.kind = "pre" /\ x.answer = "CONTINUE" /\ x.path = p /\ x.dir = d
      BY <2>1, <2>2, <2>3, <2>4, <2>6 DEF WasListed, Into
    <3>2. Covered(p, d)'
      BY <2>1, <3>1
    <3>. QED
      BY <2>4, <3>2
  <2>. QED
    BY <2>2, <2>5, <2>6
<1>. QED
  BY <1>2, <1>3

LEMMA CoveredStep ==
  ASSUME TypesInv, ChainInv, CoveredInv, WalkStep
  PROVE  CoveredInv'
<1>1. TypesInv' /\ Depth = Len(open)
  BY TypesStep DEF Depth
<1>2. CASE \E e : AtEntry(e) /\ Passes(e)
  <2>1. PICK f : AtEntry(f) /\ Passes(f)
    BY <1>2
  <2>2. /\ Depth \in Nat \ {0} /\ state = "walking" /\ ~stop /\ Top = open[Depth]
        /\ \A n \in 1..Depth : open[n] \in Frame
    BY <2>1, TopFacts DEF AtEntry
  <2>3. SkipInv /\ ListedInv
    BY <2>2 DEF CoveredInv
  <2>4. PastOf(open', f, "CONTINUE") /\ walk' = walk /\ calls' = calls
    BY <2>1 DEF Passes
  <2>5. SkipInv'
    <3>1. SUFFICES ASSUME NEW n \in 1..Len(open'), open'[n].skip
                   PROVE  SkippedIn(open[n].path)'
      BY DEF SkipInv
    <3>2. n \in 1..Depth /\ open'[n].path = open[n].path
      BY <2>4, <3>1 DEF PastOf
    <3>3. open[n].skip
      <4>1. n # Depth => open'[n] = open[n]
        BY <2>4, <3>2 DEF PastOf
      <4>2. open'[Depth].skip = (open[Depth].skip \/ "CONTINUE" = "SKIP_SIBLINGS")
        BY <2>4 DEF PastOf
      <4>3. open[Depth].skip \in BOOLEAN
        BY <2>2 DEF Frame
      <4>4. PICK b \in BOOLEAN : b = open[Depth].skip
        BY <4>3
      <4>5. "CONTINUE" # "SKIP_SIBLINGS"
        OBVIOUS
      <4>. QED
        BY <3>1, <4>1, <4>2, <4>4, <4>5, Zenon
    <3>4. SkippedIn(open[n].path)
      BY <1>1, <2>3, <3>2, <3>3 DEF SkipInv
    <3>. QED
      BY <2>4, <3>2, <3>4 DEF SkippedIn, Indices
  <2>6. ASSUME NEW p, NEW e, ToCome(p, e)
        PROVE  ToCome(p, e)' \/ ToldOf(p, e)' \/ Unwanted(p, e) \/ SkippedIn(p)
    <3>1. PICK n \in 1..Len(open) : open[n].path = p /\ e \in open[n].left
      BY <2>6 DEF ToCome
    <3>2. n \in 1..Len(open') /\ open'[n].path = p
      BY <1>1, <2>4, <3>1 DEF PastOf
    <3>3. CASE n = Depth /\ e = f
      <4>1. Top.skip \/ Unwanted(p, e)
        BY <2>1, <2>2, <3>1, <3>3 DEF Passes
      <4>2. Top.skip => SkippedIn(p)
        BY <2>2, <2>3, <3>1, <3>3 DEF SkipInv
      <4>. QED
        BY <4>1, <4>2
    <3>4. CASE ~(n = Depth /\ e = f)
      <4>1. e \in open'[n].left
        BY <1>1, <2>4, <3>1, <3>4 DEF PastOf
      <4>. QED
        BY <3>2, <4>1 DEF ToCome
    <3>. QED
      BY <3>3, <3>4
  <2>7. ListedInv'
    BY <1>1, <2>3, <2>4, <2>6, ListedKept
  <2>. QED
    BY <2>5, <2>7 DEF CoveredInv
<1>3. CASE \E e, x : AtEntry(e) /\ Visits(e, x)
  <2>1. PICK f, x : AtEntry(f) /\ Visits(f, x)
    BY <1>3
  <2>2. /\ Depth \in Nat \ {0} /\ state = "walking" /\ ~stop /\ Top = open[Depth]
        /\ \A n \in 1..Depth : open[n] \in Frame
    BY <2>1, TopFacts DEF AtEntry
  <2>3. SkipInv /\ ListedInv
    BY <2>2 DEF CoveredInv
  <2>4. Grown(x) /\ x.kind # "post" /\ x.path # <<>> /\ Front(x.path) = Top.path /\ walk' = walk
    BY <2>1, EntryFacts DEF Visits
  <2>5. x.path = Append(open[Depth].path, f.name)
    BY <2>1, <2>2 DEF Visits
  <2>6. PICK m : m \in Indices' /\ calls'[m] = x
    BY <1>1, <2>4, CallsKept
  <2>7. \A p : SkippedIn(p) => SkippedIn(p)'
    BY <1>1, <2>4, ToldKept
  <2>8. CASE GoesOn(f, x)
    <3>1. PastOf(open', f, x.answer) /\ ~(x.kind = "pre" /\ x.answer = "CONTINUE")
      BY <2>8 DEF GoesOn
    <3>2. SkipInv'
      <4>1. SUFFICES ASSUME NEW n \in 1..Len(open'), open'[n].skip
                     PROVE  SkippedIn(open[n].path)'
        BY DEF SkipInv
      <4>2. n \in 1..Depth /\ open'[n].path = open[n].path
        BY <3>1, <4>1 DEF PastOf
      <4>3. open[n].skip \/ (n = Depth /\ x.answer = "SKIP_SIBLINGS")
        <5>1. n # Depth => open'[n] = open[n]
          BY <3>1, <4>2 DEF PastOf
        <5>2. open'[Depth].skip = (open[Depth].skip \/ x.answer = "SKIP_SIBLINGS")
          BY <3>1 DEF PastOf
        <5>3. open[Depth].skip \in BOOLEAN
          BY <2>2 DEF Frame
        <5>4. PICK b \in BOOLEAN : b = open[Depth].skip
          BY <5>3
        <5>. QED
          BY <4>1, <5>1, <5>2, <5>4, Zenon
      <4>4. PICK p : p = open[n].path
        OBVIOUS
      <4>5. CASE open[n].skip
        <5>1. SkippedIn(p)
          BY <1>1, <2>3, <4>2, <4>4, <4>5 DEF SkipInv
        <5>. QED
          BY <2>7, <4>2, <4>4, <5>1
      <4>6. CASE n = Depth /\ x.answer = "SKIP_SIBLINGS"
        <5>1. SkippedIn(p)'
          BY <2>2, <2>4, <2>6, <4>4, <4>6 DEF SkippedIn
        <5>. QED
          BY <4>2, <4>4, <5>1
      <4>. QED
        BY <4>3, <4>5, <4>6
    <3>3. ASSUME NEW p, NEW e, ToCome(p, e)
          PROVE  ToCome(p, e)' \/ ToldOf(p, e)'
      <4>1. PICK n \in 1..Len(open) : open[n].path = p /\ e \in open[n].left
        BY <3>3 DEF ToCome
      <4>2. n \in 1..Len(open') /\ open'[n].path = p
        BY <1>1, <3>1, <4>1 DEF PastOf
      <4>3. CASE n = Depth /\ e = f
        BY <2>5, <2>6, <4>1, <4>3 DEF ToldOf
      <4>4. CASE ~(n = Depth /\ e = f)
        <5>1. e \in open'[n].left
          BY <1>1, <3>1, <4>1, <4>4 DEF PastOf
        <5>. QED
          BY <4>2, <5>1 DEF ToCome
      <4>. QED
        BY <4>3, <4>4
    <3>4. ListedInv'
      BY <1>1, <2>3, <2>4, <3>1, <3>3, ListedKept
    <3>. QED
      BY <3>2, <3>4 DEF CoveredInv
  <2>9. CASE GoesInto(f, x)
    <3>1. EntersFrom(open', f, x)
      BY <2>1, <2>9, IntoFacts
    <3>2. SkipInv'
      <4>1. SUFFICES ASSUME NEW n \in 1..Len(open'), open'[n].skip
                     PROVE  SkippedIn(open[n].path)'
        BY DEF SkipInv
      <4>2. n \in 1..Depth
        BY <2>2, <3>1, <4>1 DEF EntersFrom
      <4>3. PICK p : p = open[n].path /\ open'[n].path = p /\ open[n].skip
        BY <3>1, <4>1, <4>2 DEF EntersFrom
      <4>4. SkippedIn(p)
        BY <1>1, <2>3, <4>2, <4>3 DEF SkipInv
      <4>. QED
        BY <2>7, <4>3, <4>4
    <3>3. ASSUME NEW p, NEW e, ToCome(p, e)
          PROVE  ToCome(p, e)' \/ ToldOf(p, e)'
      <4>1. PICK n \in 1..Len(open) : open[n].path = p /\ e \in open[n].left
        BY <3>3 DEF ToCome
      <4>2. n \in 1..Len(open') /\ n \in 1..Depth /\ open'[n].path = p
        BY <1>1, <2>2, <3>1, <4>1 DEF EntersFrom
      <4>3. CASE n = Depth /\ e = f
        BY <2>5, <2>6, <4>1, <4>3 DEF ToldOf
      <4>4. CASE ~(n = Depth /\ e = f)
        <5>1. e \in open'[n].left
          BY <3>1, <4>1, <4>2, <4>4 DEF EntersFrom
        <5>. QED
          BY <4>2, <5>1 DEF ToCome
      <4>. QED
        BY <4>3, <4>4
    <3>4. Covered(x.path, x.dir)'
      <4>1. PICK n : n = Depth + 1 /\ n \in 1..Len(open')
        BY <2>2, <3>1 DEF EntersFrom
      <4>2. open'[n].path = x.path /\ open'[n].left = walk'.kids[x.dir]
        BY <2>4, <3>1, <4>1 DEF EntersFrom
      <4>3. \A e \in walk'.kids[x.dir] : ToCome(x.path, e)'
        BY <4>1, <4>2 DEF ToCome
      <4>. QED
        BY <4>3, Zenon DEF Covered
    <3>5. ListedInv'
      BY <1>1, <2>3, <2>4, <3>3, <3>4, ListedKept
    <3>. QED
      BY <3>2, <3>5 DEF CoveredInv
  <2>10. CASE Fails
    BY <2>10 DEF Fails, CoveredInv
  <2>. QED
    BY <2>1, <2>8, <2>9, <2>10 DEF Visits
<1>4. CASE \E x : state = "walking" /\ Leaves(x)
  <2>1. PICK x : state = "walking" /\ Leaves(x)
    BY <1>4
  <2>2. SUFFICES ASSUME ~stop'
                 PROVE  SkipInv' /\ ListedInv'
    BY DEF CoveredInv
  <2>3. ~stop /\ Top.left = {}
    BY <2>1, <2>2 DEF Leaves
  <2>4. SkipInv /\ ListedInv
    BY <2>1, <2>3 DEF CoveredInv
  <2>5. LeavesOpen(open') /\ Depth \in Nat \ {0, 1} /\ Top = open[Depth] /\ Len(Top.path) = Depth - 1
    BY <2>1, LeaveFacts, TopFacts
  <2>6. Grown(x) /\ walk' = walk /\ x.kind = "post" /\ x.path = Top.path
    BY <2>1 DEF Leaves
  <2>7. \A p : SkippedIn(p) => SkippedIn(p)'
    BY <1>1, <2>6, ToldKept
  <2>8. SkipInv'
    <3>1. SUFFICES ASSUME NEW n \in 1..Len(open'), open'[n].skip
                   PROVE  SkippedIn(open[n].path)'
      BY DEF SkipInv
    <3>2. n \in 1..Len(open) /\ open'[n] = open[n]
      BY <1>1, <2>5, <3>1 DEF LeavesOpen
    <3>3. PICK p : p = open[n].path /\ open'[n].path = p
      BY <3>2
    <3>4. SkippedIn(p)
      BY <2>4, <3>1, <3>2, <3>3 DEF SkipInv
    <3>. QED
      BY <2>7, <3>3, <3>4
  <2>9. ASSUME NEW p, NEW e, ToCome(p, e)
        PROVE  ToCome(p, e)'
    <3>1. PICK n \in 1..Len(open) : open[n].path = p /\ e \in open[n].left
      BY <2>9 DEF ToCome
    <3>2. n # Depth
      BY <2>3, <2>5, <3>1
    <3>3. n \in 1..Len(open') /\ open'[n] = open[n]
      BY <1>1, <2>5, <3>1, <3>2 DEF LeavesOpen
    <3>. QED
      BY <3>1, <3>3 DEF ToCome
  <2>10. x.path # <<>>
    BY <2>5, <2>6
  <2>11. ListedInv'
    BY <1>1, <2>4, <2>6, <2>9, <2>10, ListedKept
  <2>. QED
    BY <2>8, <2>11
<1>5. CASE WalkDone
  <2>1. SUFFICES ASSUME ~stop
                 PROVE  SkipInv' /\ ListedInv'
    BY <1>5 DEF WalkDone, CoveredInv
  <2>2. /\ Depth = 1 /\ Top.left = {} /\ state = "walking" /\ walk' = walk /\ calls' = calls
        /\ open' = <<>>
    BY <1>5, <2>1 DEF WalkDone
  <2>3. SkipInv /\ ListedInv /\ Top = open[1]
    BY <2>1, <2>2, TopFacts DEF CoveredInv
  <2>4. SkipInv'
    BY <2>2 DEF SkipInv
  <2>5. \A p, e : ~ToCome(p, e)
    BY <1>1, <2>2, <2>3 DEF ToCome
  <2>6. ListedInv'
    BY <1>1, <2>2, <2>3, <2>5, ListedKept
  <2>. QED
    BY <2>4, <2>6
<1>6. CASE UNCHANGED walkVars
  <2>1. SUFFICES ASSUME ~stop, state # "failed"
                 PROVE  SkipInv' /\ ListedInv'
    BY <1>6 DEF walkVars, CoveredInv
  <2>2. SkipInv /\ ListedInv /\ walk' = walk /\ calls' = calls /\ open' = open
    BY <1>6, <2>1 DEF walkVars, CoveredInv
  <2>3. SkipInv'
    BY <2>2 DEF SkipInv, SkippedIn, Indices
  <2>4. \A p, e : ToCome(p, e) => ToCome(p, e)'
    BY <2>2 DEF ToCome
  <2>5. ListedInv'
    BY <1>1, <2>2, <2>4, ListedKept
  <2>. QED
    BY <2>3, <2>5
<1>. QED
  BY <1>2, <1>3, <1>4, <1>5, <1>6 DEF WalkStep

-----------------------------------------------------------------------------
(* The theorems.                                                           *)

LEMMA WalkInitInv ==
  ASSUME WalkInit
  PROVE  WalkInv
<1>1. walk \in Walks /\ stop = FALSE /\ "root" \in DOMAIN walk.kids
  BY WalksAssumption DEF WalkInit
<1>2. PICK a \in Answers("dir") : calls = <<CallOf("pre", <<>>, "root", a)>>
  BY DEF WalkInit, CallOf
<1>3. a \in {"CONTINUE", "TERMINATE", "SKIP_SUBTREE", "SKIP_SIBLINGS"}
  BY DEF Answers
<1>4. <<>> \in Paths
  BY EmptySeq DEF Paths
<1>. DEFINE x == CallOf("pre", <<>>, "root", a)
<1>5. x \in CallBack /\ x.kind = "pre" /\ x.path = <<>> /\ x.dir = "root"
  BY <1>3, <1>4 DEF CallBack, CallOf
<1>. HIDE DEF x
<1>6. calls \in Seq(CallBack) /\ Len(calls) = 1 /\ Indices = {1} /\ calls[1] = x
  BY <1>2, <1>5 DEF Indices, x
<1>. DEFINE f == Entered(<<>>, "root")
<1>7. f \in Frame /\ f.path = <<>> /\ f.left = walk.kids["root"] /\ f.skip = FALSE
  <2>1. walk.kids["root"] \subseteq Entries
    BY <1>1 DEF Entries
  <2>. QED
    BY <1>4, <2>1 DEF Entered, Frame
<1>8. (open = <<f>> /\ state = "walking") \/ (open = <<>> /\ state = "failed")
  BY DEF WalkInit
<1>. HIDE DEF f
<1>9. \/ open \in Seq(Frame) /\ Len(open) = 1 /\ open[1] = f /\ open # <<>> /\ state = "walking"
      \/ open \in Seq(Frame) /\ Len(open) = 0 /\ open = <<>> /\ state = "failed"
  <2>1. PICK g \in Frame : g = f
    BY <1>7
  <2>2. <<g>> \in Seq(Frame) /\ Len(<<g>>) = 1 /\ <<g>>[1] = g /\ <<g>> # <<>>
    OBVIOUS
  <2>3. <<>> \in Seq(Frame) /\ Len(<<>>) = 0
    BY EmptySeq
  <2>. QED
    BY <1>8, <2>1, <2>2, <2>3, Zenon
<1>10. TypesInv
  BY <1>1, <1>6, <1>9 DEF TypesInv
<1>11. ChainInv
  BY <1>1, <1>5, <1>6, <1>7, <1>9 DEF ChainInv
<1>12. EnteredInv
  BY <1>9 DEF EnteredInv
<1>13. ~Into(1)
  BY <1>5, <1>6 DEF Into
<1>14. LeftInv
  BY <1>5, <1>6, <1>13 DEF LeftInv
<1>15. CoveredInv
  <2>1. SUFFICES ASSUME state = "walking"
                 PROVE  SkipInv /\ ListedInv
    BY <1>9 DEF CoveredInv
  <2>2. SkipInv
    <3>1. Len(open) = 1 /\ open[1] = f
      BY <1>9, <2>1
    <3>2. ~open[1].skip
      BY <1>7, <3>1, Zenon
    <3>. QED
      BY <3>1, <3>2 DEF SkipInv
  <2>3. \A e \in walk.kids["root"] : ToCome(<<>>, e)
    BY <1>7, <1>9, <2>1 DEF ToCome
  <2>4. ListedInv
    BY <1>5, <1>6, <2>3 DEF ListedInv, Covered
  <2>. QED
    BY <2>2, <2>4
<1>. QED
  BY <1>10, <1>11, <1>12, <1>14, <1>15 DEF WalkInv, OrderInv

LEMMA WalkStepInv ==
  ASSUME WalkInv, [WalkNext]_walkVars
  PROVE  WalkInv'
<1>1. TypesInv /\ ChainInv /\ EnteredInv /\ PostsInv /\ IntoInv /\ EndInv /\ CoveredInv
  BY DEF WalkInv, OrderInv, LeftInv, PostsInv, IntoInv, EndInv
<1>2. WalkStep
  BY <1>1, StepEffect
<1>3. TypesInv' /\ ChainInv' /\ EnteredInv' /\ PostsInv' /\ IntoInv' /\ EndInv' /\ CoveredInv'
  BY <1>1, <1>2, TypesStep, ChainStep, EnteredStep, PostsStep, IntoStep, EndStep, CoveredStep
<1>. QED
  BY <1>3 DEF WalkInv, OrderInv, LeftInv, PostsInv, IntoInv, EndInv

(***************************************************************************)
(* The invariant: the open directories lie within each other, all that was *)
(* told since one of them was entered lies in it, and every entry of a     *)
(* directory that was entered has been told of, is not wanted or is still  *)
(* to come.                                                                *)
(***************************************************************************)
THEOREM WalkInvariant == WalkSpec => []WalkInv
<1>1. WalkInit => WalkInv
  BY WalkInitInv
<1>2. WalkInv /\ [WalkNext]_walkVars => WalkInv'
  BY WalkStepInv
<1>. QED
  BY <1>1, <1>2, PTL DEF WalkSpec

LEMMA InOrder ==
  ASSUME WalkInv
  PROVE  LeftInOrder
<1>1. TypesInv /\ PostsInv /\ IntoInv /\ EndInv
  BY DEF WalkInv, OrderInv, LeftInv, PostsInv, IntoInv, EndInv
<1>2. Indices = 1..Len(calls) /\ Len(calls) \in Nat /\ \A i \in Indices : calls[i].path \in Paths
  <2>1. \A c \in CallBack : c.path \in Paths
    BY DEF CallBack
  <2>. QED
    BY <1>1, <2>1, IndicesFacts
<1>3. ASSUME NEW j \in Indices, calls[j].kind = "post"
      PROVE  \E i \in 1..(j - 1) :
               /\ Into(i) /\ LeavesOf(i, j)
               /\ \A k \in (i + 1)..(j - 1) :
                    calls[k].path # calls[i].path /\ IsPrefix(calls[i].path, calls[k].path)
  <2>1. PICK i \in 1..(j - 1) : Brackets(i, j)
    BY <1>1, <1>3 DEF PostsInv
  <2>2. ASSUME NEW k \in (i + 1)..(j - 1)
        PROVE  calls[k].path # calls[i].path /\ IsPrefix(calls[i].path, calls[k].path)
    <3>1. PICK p, q : p = calls[i].path /\ q = calls[k].path
      OBVIOUS
    <3>2. p \in Seq(Names) /\ q \in Seq(Names)
      BY <1>2, <2>1, <2>2, <3>1 DEF Paths
    <3>3. Under(p, q)
      BY <2>1, <2>2, <3>1 DEF Brackets
    <3>4. IsPrefix(p, q) /\ p # q
      BY <3>2, <3>3, UnderFacts
    <3>. QED
      BY <3>1, <3>4
  <2>3. Into(i) /\ LeavesOf(i, j)
    BY <2>1 DEF Brackets
  <2>. QED
    BY <2>2, <2>3
<1>4. state = "done" => \A i \in Indices : Into(i) => \E j \in Indices : LeavesOf(i, j)
  <2>1. state = "done" => Len(open) = 0
    BY <1>1 DEF TypesInv
  <2>. QED
    BY <1>1, <2>1 DEF IntoInv, OpenOrLeft
<1>. QED
  BY <1>1, <1>3, <1>4 DEF LeftInOrder, EndInv

(***************************************************************************)
(* visit_dir(): in every walk directories are left in the reverse order in *)
(* which they were entered, each with all that was told of it in between,  *)
(* and whoever ends the walk hears of nothing but what is left.            *)
(***************************************************************************)
THEOREM DirectoriesLeftInOrder == WalkSpec => []LeftInOrder
<1>1. WalkInv => LeftInOrder
  BY InOrder
<1>. QED
  BY <1>1, WalkInvariant, PTL

LEMMA AllCovered ==
  ASSUME WalkInv
  PROVE  NothingForgotten
<1>1. SUFFICES ASSUME state = "done", ~stop, NEW i \in Indices, WasListed(i), ~SkippedIn(calls[i].path),
                      NEW e \in walk.kids[calls[i].dir]
               PROVE  ToldOf(calls[i].path, e) \/ Unwanted(calls[i].path, e)
  BY DEF NothingForgotten, WasListed, SkippedIn, ToldOf, Unwanted
<1>2. ListedInv /\ Len(open) = 0
  BY <1>1 DEF WalkInv, OrderInv, TypesInv, CoveredInv
<1>3. PICK p, d : p = calls[i].path /\ d = calls[i].dir
  OBVIOUS
<1>4. Covered(p, d)
  BY <1>1, <1>2, <1>3 DEF ListedInv
<1>5. ~ToCome(p, e)
  BY <1>2 DEF ToCome
<1>. QED
  BY <1>1, <1>3, <1>4, <1>5 DEF Covered

(***************************************************************************)
(* walk_file_tree(): a walk that nobody ends tells of every entry of the   *)
(* directories it has entered, but of those it is right to pass over.      *)
(***************************************************************************)
THEOREM NoEntryForgotten == WalkSpec => []NothingForgotten
<1>1. WalkInv => NothingForgotten
  BY AllCovered
<1>. QED
  BY <1>1, WalkInvariant, PTL

-----------------------------------------------------------------------------
(* The reference that lines of text are compared with.                     *)

Strings == Seq(Chars)
Part == [lines : Seq(Strings), from : Nat \ {0}]

PartedBy(f) ==
  /\ f[0] = [lines |-> <<>>, from |-> 1]
  /\ \A n \in 1..Len(content) :
       f[n] = IF content[n] = LF
              THEN [lines |-> Append(f[n - 1].lines, LineUpto(f[n - 1].from, n)), from |-> n + 1]
              ELSE f[n - 1]
  /\ \A n \in 0..Len(content) : f[n] \in Part

LEMMA SubText ==
  ASSUME NEW S, NEW s \in Seq(S), NEW i \in Nat \ {0}, NEW j \in Int, j <= Len(s)
  PROVE  SubSeq(s, i, j) \in Seq(S)
<1>1. Len(s) \in Nat /\ \A k \in 1..Len(s) : s[k] \in S
  BY LenProperties, ElementOfSeq
<1>2. \A k \in i..j : s[k] \in S
  BY <1>1
<1>. QED
  BY <1>2, SubSeqProperties

LEMMA LineUptoType ==
  ASSUME content \in Seq(Chars), NEW i \in Nat \ {0}, NEW n \in 1..Len(content)
  PROVE  LineUpto(i, n) \in Strings
<1>1. PICK j : j = IF n > i /\ content[n - 1] = CR THEN n - 2 ELSE n - 1
  OBVIOUS
<1>2. j \in Int /\ j <= Len(content) /\ LineUpto(i, n) = SubSeq(content, i, j)
  BY <1>1, LenProperties DEF LineUpto
<1>. QED
  BY <1>2, SubText DEF Strings

\* The recursive definition of Parted has a solution.
LEMMA PartedFacts ==
  ASSUME content \in Seq(Chars)
  PROVE  PartedBy(Parted)
<1>. DEFINE m == Len(content)
            v == [lines |-> <<>>, from |-> 1]
            After(n, w) == IF content[n] = LF
                           THEN [lines |-> Append(w.lines, LineUpto(w.from, n)), from |-> n + 1]
                           ELSE w
            G == [n \in 1..m |-> [w \in Part |-> After(n, w)]]
            Solves(f) == f = [n \in 0..m |-> IF n = 0 THEN v ELSE After(n, f[n - 1])]
<1>1. m \in Nat
  BY LenProperties
<1>2. v \in Part
  BY EmptySeq DEF Part
<1>3. \A n \in 1..m, w \in Part : After(n, w) \in Part
  <2>1. SUFFICES ASSUME NEW n \in 1..m, NEW w \in Part
                 PROVE  After(n, w) \in Part
    OBVIOUS
  <2>2. w.lines \in Seq(Strings) /\ w.from \in Nat \ {0}
    BY DEF Part
  <2>3. LineUpto(w.from, n) \in Strings
    BY <2>2, LineUptoType
  <2>4. Append(w.lines, LineUpto(w.from, n)) \in Seq(Strings)
    BY <2>2, <2>3, AppendProperties
  <2>. QED
    BY <2>4 DEF Part
<1>. HIDE DEF After, v, m
<1>4. G \in [1..m -> [Part -> Part]]
  BY <1>3
<1>5. PICK f \in [0..m -> Part] : f[0] = v /\ \A n \in 1..m : f[n] = G[n][f[n - 1]]
  <2>. HIDE DEF G
  <2>1. PICK V, H, a, k : V = Part /\ H = G /\ a = v /\ k = m
    OBVIOUS
  <2>2. k \in Nat /\ a \in V /\ H \in [1..k -> [V -> V]]
    BY <1>1, <1>2, <1>4, <2>1, Zenon
  <2>3. \E h \in [0..k -> V] : h[0] = a /\ \A n \in 1..k : h[n] = H[n][h[n - 1]]
    BY <2>2, Recursion
  <2>. QED
    BY <2>1, <2>3, Zenon
<1>6. \A n \in 1..m : n - 1 \in 0..m /\ f[n - 1] \in Part
  BY <1>1
<1>7. \A n \in 1..m : f[n] = After(n, f[n - 1])
  BY <1>5, <1>6
<1>8. f = [n \in 0..m |-> IF n = 0 THEN v ELSE After(n, f[n - 1])]
  BY <1>1, <1>5, <1>7
<1>9. Parted = CHOOSE g : Solves(g)
  BY DEF Parted, v, After, m
<1>10. Solves(Parted)
  <2>1. Solves(f)
    BY <1>8
  <2>. HIDE DEF Solves
  <2>. QED
    BY <1>9, <2>1
<1>11. Parted[0] = v /\ \A n \in 1..m : Parted[n] = After(n, Parted[n - 1])
  <2>1. PICK p : p = Parted
    OBVIOUS
  <2>2. p = [n \in 0..m |-> IF n = 0 THEN v ELSE After(n, p[n - 1])]
    BY <1>10, <2>1
  <2>3. p[0] = v /\ \A n \in 1..m : p[n] = After(n, p[n - 1])
    BY <1>1, <2>2
  <2>. QED
    BY <2>1, <2>3
<1>12. \A n \in 0..m : Parted[n] \in Part
  <2>. DEFINE I == {n \in 0..m : Parted[n] \in Part}
  <2>1. 0 \in I
    BY <1>1, <1>2, <1>11
  <2>2. \A n \in 0..m : n # m /\ n \in I => n + 1 \in I
    <3>1. SUFFICES ASSUME NEW n \in 0..m, n # m, Parted[n] \in Part
                   PROVE  n + 1 \in 0..m /\ Parted[n + 1] \in Part
      OBVIOUS
    <3>2. n + 1 \in 1..m /\ n + 1 - 1 = n
      BY <1>1, <3>1
    <3>. QED
      BY <1>3, <1>11, <3>1, <3>2
  <2>. HIDE DEF I
  <2>3. 0..m \subseteq I
    BY <1>1, <2>1, <2>2, BoundedInduction
  <2>. QED
    BY <2>3 DEF I
<1>. QED
  BY <1>11, <1>12 DEF PartedBy, v, After, m

Begins(p, q) == Len(p) <= Len(q) /\ \A i \in 1..Len(p) : p[i] = q[i]

LEMMA BeginsFacts ==
  ASSUME NEW S, NEW p, NEW q, p \in Seq(S), q \in Seq(S), Begins(p, q)
  PROVE  IsPrefix(p, q)
<1>1. Len(p) \in Nat /\ Len(q) \in Nat
  BY LenProperties
<1>2. SubSeq(p, 1, Len(p)) = SubSeq(q, 1, Len(p))
  BY <1>1 DEF Begins
<1>. QED
  BY <1>2 DEF IsPrefix, Begins

\* Characters that end no line change nothing; the lines so far stay.
LEMMA PartedSteady ==
  ASSUME content \in Seq(Chars), NEW m \in 0..Len(content), NEW n \in m..Len(content),
         \A i \in (m + 1)..n : content[i] # LF
  PROVE  Parted[n] = Parted[m]
<1>1. Len(content) \in Nat /\ PartedBy(Parted)
  BY LenProperties, PartedFacts
<1>. DEFINE I == {k \in 0..(n - m) : Parted[m + k] = Parted[m]}
<1>2. 0 \in I
  BY <1>1
<1>3. \A k \in 0..(n - m) : k # n - m /\ k \in I => k + 1 \in I
  <2>1. SUFFICES ASSUME NEW k \in 0..(n - m), k # n - m, Parted[m + k] = Parted[m]
                 PROVE  Parted[m + (k + 1)] = Parted[m] /\ k + 1 \in 0..(n - m)
    OBVIOUS
  <2>2. PICK i : i = m + (k + 1)
    OBVIOUS
  <2>3. i \in 1..Len(content) /\ i - 1 = m + k /\ i \in (m + 1)..n
    BY <1>1, <2>1, <2>2
  <2>4. Parted[i] = Parted[i - 1]
    BY <1>1, <2>3 DEF PartedBy
  <2>. QED
    BY <1>1, <2>1, <2>2, <2>3, <2>4
<1>. HIDE DEF I
<1>4. 0..(n - m) \subseteq I
  <2>1. n - m \in Nat
    BY <1>1
  <2>. QED
    BY <1>2, <1>3, <2>1, BoundedInduction
<1>5. n - m \in I
  BY <1>1, <1>4
<1>. QED
  BY <1>1, <1>5 DEF I

LEMMA PartedGrows ==
  ASSUME content \in Seq(Chars), NEW m \in 0..Len(content)
  PROVE  \A n \in m..Len(content) : Begins(Parted[m].lines, Parted[n].lines)
<1>1. Len(content) \in Nat /\ PartedBy(Parted)
  BY LenProperties, PartedFacts
<1>2. \A k \in 0..Len(content) : Parted[k].lines \in Seq(Strings) /\ Len(Parted[k].lines) \in Nat
  BY <1>1, LenProperties DEF PartedBy, Part
<1>. DEFINE top == Len(content) - m
            I == {k \in 0..top : Begins(Parted[m].lines, Parted[m + k].lines)}
<1>3. 0 \in I
  <2>1. Begins(Parted[m].lines, Parted[m].lines)
    BY <1>2 DEF Begins
  <2>2. 0 \in 0..top /\ m + 0 = m
    BY <1>1
  <2>. QED
    BY <2>1, <2>2
<1>4. \A k \in 0..top : k # top /\ k \in I => k + 1 \in I
  <2>1. SUFFICES ASSUME NEW k \in 0..top, k # top, Begins(Parted[m].lines, Parted[m + k].lines)
                 PROVE  Begins(Parted[m].lines, Parted[m + (k + 1)].lines) /\ k + 1 \in 0..top
    OBVIOUS
  <2>2. PICK i : i = m + (k + 1)
    OBVIOUS
  <2>3. i \in 1..Len(content) /\ i - 1 = m + k /\ i - 1 \in 0..Len(content) /\ k + 1 \in 0..top
    BY <1>1, <2>1, <2>2
  <2>4. PICK p, q, r : p = Parted[m].lines /\ q = Parted[i - 1].lines /\ r = Parted[i].lines
    OBVIOUS
  <2>5. q \in Seq(Strings) /\ p \in Seq(Strings) /\ Parted[i - 1].from \in Nat \ {0}
    BY <1>1, <1>2, <2>3, <2>4 DEF PartedBy, Part
  <2>6. r = q \/ \E x \in Strings : r = Append(q, x)
    <3>1. LineUpto(Parted[i - 1].from, i) \in Strings
      BY <2>3, <2>5, LineUptoType
    <3>2. Parted[i] = IF content[i] = LF
                      THEN [lines |-> Append(Parted[i - 1].lines, LineUpto(Parted[i - 1].from, i)), from |-> i + 1]
                      ELSE Parted[i - 1]
      BY <1>1, <2>3 DEF PartedBy
    <3>. QED
      BY <2>4, <3>1, <3>2
  <2>7. Begins(p, q)
    BY <2>1, <2>3, <2>4
  <2>8. Begins(p, r)
    <3>1. CASE r = q
      BY <2>7, <3>1
    <3>2. CASE \E x \in Strings : r = Append(q, x)
      <4>1. Len(r) = Len(q) + 1 /\ \A j \in 1..Len(q) : r[j] = q[j]
        BY <2>5, <3>2, AppendProperties
      <4>2. Len(p) \in Nat /\ Len(q) \in Nat
        BY <2>5, LenProperties
      <4>. QED
        BY <2>7, <4>1, <4>2 DEF Begins
    <3>. QED
      BY <2>6, <3>1, <3>2
  <2>. QED
    BY <2>2, <2>3, <2>4, <2>8
<1>. HIDE DEF I
<1>5. 0..top \subseteq I
  <2>1. top \in Nat
    BY <1>1
  <2>. HIDE DEF top
  <2>. QED
    BY <1>3, <1>4, <2>1, BoundedInduction
<1>6. \A n \in m..Len(content) : n - m \in I /\ m + (n - m) = n
  BY <1>1, <1>5
<1>. QED
  BY <1>6 DEF I

\* The lines of a beginning of the text are the first lines of the text.
LEMMA SplitFollows ==
  ASSUME content \in Seq(Chars), NEW m \in 0..Len(content)
  PROVE  /\ Parted[m].lines \in Seq(Strings) /\ Split \in Seq(Strings)
         /\ Begins(Parted[m].lines, Split)
<1>1. Len(content) \in Nat /\ PartedBy(Parted)
  BY LenProperties, PartedFacts
<1>2. PICK p, q, i : p = Parted[m].lines /\ q = Parted[Len(content)].lines /\ i = Parted[Len(content)].from
  OBVIOUS
<1>3. p \in Seq(Strings) /\ q \in Seq(Strings) /\ i \in Nat \ {0}
  BY <1>1, <1>2 DEF PartedBy, Part
<1>4. Begins(p, q)
  BY <1>1, <1>2, PartedGrows
<1>5. SubSeq(content, i, Len(content)) \in Strings
  BY <1>1, <1>3, SubText DEF Strings
<1>6. Split = IF i > Len(content) THEN q ELSE Append(q, SubSeq(content, i, Len(content)))
  BY <1>2 DEF Split
<1>7. Split \in Seq(Strings) /\ Len(q) \in Nat /\ Len(p) \in Nat
  BY <1>3, <1>5, <1>6, AppendProperties, LenProperties
<1>8. Begins(p, Split)
  <2>1. CASE Split = q
    BY <1>4, <2>1
  <2>2. CASE Split = Append(q, SubSeq(content, i, Len(content)))
    <3>1. PICK x \in Strings : x = SubSeq(content, i, Len(content))
      BY <1>5
    <3>2. Len(Append(q, x)) = Len(q) + 1 /\ \A j \in 1..Len(q) : Append(q, x)[j] = q[j]
      BY <1>3, AppendProperties
    <3>. QED
      BY <1>4, <1>7, <2>2, <3>1, <3>2 DEF Begins
  <2>. QED
    BY <1>6, <2>1, <2>2
<1>. QED
  BY <1>2, <1>3, <1>7, <1>8

-----------------------------------------------------------------------------
(* The buffer.                                                             *)

Buffer == [chars : Strings, position : Nat, limit : Nat]
InOrderBuffer(b) == b \in Buffer /\ b.position <= b.limit /\ b.limit <= Len(b.chars) /\ Len(b.chars) > 0

\* There is room behind what has not been looked at yet, which is now in front.
LEMMA RoomFacts ==
  ASSUME NEW b, InOrderBuffer(b)
  PROVE  /\ InOrderBuffer(Room(b)) /\ Room(b).limit = Len(Room(b).chars)
         /\ Room(b).position = Remaining(b) /\ Remaining(b) \in Nat /\ Room(b).position < Room(b).limit
         /\ \A i \in 1..Remaining(b) : Room(b).chars[i] = b.chars[b.position + i]
<1>1. /\ b.chars \in Seq(Chars) /\ b.position \in Nat /\ b.limit \in Nat /\ Len(b.chars) \in Nat \ {0}
      /\ b.position <= b.limit /\ b.limit <= Len(b.chars) /\ \A i \in 1..Len(b.chars) : b.chars[i] \in Chars
  BY LenProperties, ElementOfSeq DEF InOrderBuffer, Buffer, Strings
<1>2. PICK c, p, l, n : c = b.chars /\ p = b.position /\ l = b.limit /\ n = Len(b.chars)
  OBVIOUS
<1>3. b = [chars |-> c, position |-> p, limit |-> l]
  BY <1>2 DEF InOrderBuffer, Buffer
<1>4. Remaining(b) = l - p /\ Capacity(b) = n /\ l - p \in 0..n
  BY <1>1, <1>2 DEF Remaining, Capacity
<1>5. CASE Remaining(b) = 0
  <2>1. Room(b) = [chars |-> c, position |-> 0, limit |-> n]
    BY <1>3, <1>4, <1>5 DEF Room, Cleared
  <2>. QED
    BY <1>1, <1>2, <1>4, <1>5, <2>1 DEF InOrderBuffer, Buffer, Strings
<1>6. CASE Remaining(b) # 0 /\ Remaining(b) < n
  <2>. DEFINE d == [i \in 1..n |-> IF i <= l - p THEN c[p + i] ELSE c[i]]
  <2>1. Room(b) = [chars |-> d, position |-> l - p, limit |-> n]
    BY <1>2, <1>4, <1>6 DEF Room, Compacted
  <2>2. \A i \in 1..n : (i <= l - p => p + i \in 1..n)
    BY <1>1, <1>2, <1>4
  <2>3. d \in Seq(Chars) /\ Len(d) = n /\ \A i \in 1..(l - p) : d[i] = c[p + i]
    BY <1>1, <1>2, <1>4, <2>2
  <2>. HIDE DEF d
  <2>. QED
    BY <1>1, <1>2, <1>4, <1>6, <2>1, <2>3 DEF InOrderBuffer, Buffer, Strings
<1>7. CASE Remaining(b) = n
  <2>. DEFINE d == c \o Blanks(n)
  <2>1. Room(b) = [chars |-> d, position |-> n, limit |-> 2 * n]
    BY <1>1, <1>2, <1>4, <1>7 DEF Room, Doubled
  <2>2. Blanks(n) \in Seq(Chars) /\ Len(Blanks(n)) = n
    BY <1>1, <1>2 DEF Blanks, Chars
  <2>3. d \in Seq(Chars) /\ Len(d) = 2 * n /\ \A i \in 1..n : d[i] = c[i]
    <3>1. PICK e, x : e = Blanks(n) /\ x = c \o e
      OBVIOUS
    <3>2. c \in Seq(Chars) /\ e \in Seq(Chars) /\ Len(c) = n /\ Len(e) = n /\ n \in Nat
      BY <1>1, <1>2, <2>2, <3>1
    <3>3. x \in Seq(Chars) /\ Len(x) = Len(c) + Len(e)
      BY <3>1, <3>2, ConcatProperties, Zenon
    <3>4. \A i \in 1..(Len(c) + Len(e)) : x[i] = IF i <= Len(c) THEN c[i] ELSE e[i - Len(c)]
      <4>1. \A i \in 1..(Len(c) + Len(e)) : (c \o e)[i] = IF i <= Len(c) THEN c[i] ELSE e[i - Len(c)]
        BY <3>2, ConcatProperties, SMT
      <4>. QED
        BY <3>1, <4>1, Zenon
    <3>5. d = x
      BY <3>1
    <3>. HIDE DEF d
    <3>6. \A i \in 1..n : i \in 1..(Len(c) + Len(e)) /\ i <= Len(c)
      BY <3>2
    <3>. QED
      BY <3>2, <3>3, <3>4, <3>5, <3>6
  <2>4. p = 0
    BY <1>1, <1>2, <1>4, <1>7
  <2>. HIDE DEF d
  <2>. QED
    BY <1>1, <1>2, <1>4, <1>7, <2>1, <2>3, <2>4 DEF InOrderBuffer, Buffer, Strings
<1>. QED
  BY <1>1, <1>2, <1>4, <1>5, <1>6, <1>7

LEMMA PutFacts ==
  ASSUME NEW b, InOrderBuffer(b), unread \in Seq(Chars), NEW n \in 1..Len(unread), b.position + n <= Len(b.chars)
  PROVE  /\ InOrderBuffer(Put(b, n)) /\ Put(b, n).position = 0 /\ Put(b, n).limit = b.position + n
         /\ \A i \in 1..b.position : Put(b, n).chars[i] = b.chars[i]
         /\ \A i \in 1..n : Put(b, n).chars[b.position + i] = unread[i]
<1>1. /\ b.chars \in Seq(Chars) /\ b.position \in Nat /\ Len(b.chars) \in Nat \ {0}
      /\ \A i \in 1..Len(b.chars) : b.chars[i] \in Chars
      /\ Len(unread) \in Nat /\ \A i \in 1..Len(unread) : unread[i] \in Chars
  BY LenProperties, ElementOfSeq DEF InOrderBuffer, Buffer, Strings
<1>2. PICK c, p, m : c = b.chars /\ p = b.position /\ m = Len(b.chars)
  OBVIOUS
<1>. DEFINE d == [i \in 1..m |-> IF i \in (p + 1)..(p + n) THEN unread[i - p] ELSE c[i]]
<1>3. Put(b, n) = [chars |-> d, position |-> 0, limit |-> p + n]
  BY <1>2 DEF Put, Capacity
<1>4. \A i \in 1..m : d[i] \in Chars
  BY <1>1, <1>2
<1>5. d \in Seq(Chars) /\ Len(d) = m
  BY <1>1, <1>2, <1>4
<1>6. \A i \in 1..p : d[i] = c[i]
  <2>1. \A i \in 1..p : i \in 1..m /\ i \notin (p + 1)..(p + n)
    BY <1>1, <1>2
  <2>. QED
    BY <2>1
<1>7. \A i \in 1..n : d[p + i] = unread[i]
  <2>1. SUFFICES ASSUME NEW i \in 1..n
                 PROVE  d[p + i] = unread[i]
    OBVIOUS
  <2>2. PICK j : j = p + i
    OBVIOUS
  <2>3. j \in 1..m /\ j \in (p + 1)..(p + n) /\ j - p = i
    BY <1>1, <1>2, <2>2
  <2>. QED
    BY <2>2, <2>3
<1>. HIDE DEF d
<1>. QED
  BY <1>1, <1>2, <1>3, <1>5, <1>6, <1>7 DEF InOrderBuffer, Buffer, Strings

FoundAt(b, from, m) ==
  /\ m \in [from : Nat, to : Nat]
  /\ from <= m.from /\ m.from < m.to /\ m.to <= b.limit
  /\ b.chars[m.to] = LF
  /\ \A i \in (from + 1)..(m.to - 1) : b.chars[i] # LF
  /\ m.from = IF m.to > from + 1 /\ b.chars[m.to - 1] = CR THEN m.to - 2 ELSE m.to - 1

SearchedFrom(b, from, m) ==
  IF m = NoLine THEN \A i \in (from + 1)..b.limit : b.chars[i] # LF ELSE FoundAt(b, from, m)

LEMMA FoundFacts ==
  ASSUME NEW b, b.limit \in Nat, NEW from \in 0..b.limit
  PROVE  SearchedFrom(b, from, Found(b, from, b.limit))
<1>. DEFINE feeds == {i \in from..(b.limit - 1) : b.chars[i + 1] = LF}
            at == CHOOSE i \in feeds : \A j \in feeds : i <= j
<1>1. CASE feeds = {}
  <2>1. Found(b, from, b.limit) = NoLine
    BY <1>1 DEF Found
  <2>2. \A i \in (from + 1)..b.limit : b.chars[i] # LF
    <3>1. \A i \in (from + 1)..b.limit : i - 1 \in from..(b.limit - 1) /\ (i - 1) + 1 = i
      OBVIOUS
    <3>. QED
      BY <1>1, <3>1
  <2>. QED
    BY <2>1, <2>2 DEF SearchedFrom
<1>2. CASE feeds # {}
  <2>1. feeds \subseteq Nat
    OBVIOUS
  <2>. HIDE DEF feeds
  <2>2. \E i \in feeds : \A j \in feeds : i <= j
    BY <1>2, <2>1, LeastNumber
  <2>3. at \in feeds /\ \A j \in feeds : at <= j
    BY <2>2
  <2>4. PICK a : a = at
    OBVIOUS
  <2>5. a \in from..(b.limit - 1) /\ b.chars[a + 1] = LF
    BY <2>3, <2>4 DEF feeds
  <2>6. PICK m : m = [from |-> IF a > from /\ b.chars[a] = CR THEN a - 1 ELSE a, to |-> a + 1]
    OBVIOUS
  <2>7. Found(b, from, b.limit) = m
    BY <1>2, <2>4, <2>6 DEF Found, feeds
  <2>8. \A i \in (from + 1)..(m.to - 1) : b.chars[i] # LF
    <3>1. SUFFICES ASSUME NEW i \in (from + 1)..(m.to - 1), b.chars[i] = LF
                   PROVE  FALSE
      OBVIOUS
    <3>2. i <= a
      BY <2>5, <2>6, <3>1
    <3>3. i - 1 \in from..(b.limit - 1) /\ (i - 1) + 1 = i
      BY <2>5, <3>1, <3>2
    <3>4. i - 1 \in feeds
      BY <3>1, <3>3 DEF feeds
    <3>5. a <= i - 1
      BY <2>3, <2>4, <3>4
    <3>. QED
      BY <2>5, <3>1, <3>2, <3>5
  <2>9. /\ m \in [from : Nat, to : Nat] /\ from <= m.from /\ m.from < m.to /\ m.to <= b.limit
        /\ b.chars[m.to] = LF
        /\ m.from = IF m.to > from + 1 /\ b.chars[m.to - 1] = CR THEN m.to - 2 ELSE m.to - 1
    BY <2>5, <2>6
  <2>10. m # NoLine
    BY <2>9, ReadAssumption
  <2>. QED
    BY <2>7, <2>8, <2>9, <2>10 DEF SearchedFrom, FoundAt
<1>. QED
  BY <1>1, <1>2

-----------------------------------------------------------------------------
(* The reader.                                                             *)

Live == step \in {"idle", "read"}
Gap == buf.limit - start
Consumed == Len(content) - Len(unread) - Gap

\* rest ends text; the n characters of a buffer behind position "from" are those of text behind k.
Closes(text, rest) == \A i \in 1..Len(rest) : rest[i] = text[Len(text) - Len(rest) + i]
Shows(chars, from, text, n, k) == \A i \in 1..n : chars[from + i] = text[k + i]

TextInv ==
  /\ content \in Seq(Chars) /\ unread \in Seq(Chars) /\ Len(unread) <= Len(content)
  /\ Closes(content, unread)
  /\ step \in {"init", "idle", "read", "gone"}
  /\ last \in Strings \cup {NoLine} /\ lines \in Seq(Strings)

FreshInv ==
  step = "init" =>
    /\ unread = content /\ InOrderBuffer(buf) /\ buf.position = 0 /\ buf.limit = Len(buf.chars)
    /\ start = 0 /\ eof = FALSE /\ match = NoLine /\ last = NoLine /\ lines = <<>>

\* What has been read and no line has taken is in the buffer, from nextStartPos to the limit.
WindowInv ==
  Live =>
    /\ InOrderBuffer(buf) /\ start \in 0..buf.limit
    /\ Consumed \in Nat
    /\ Shows(buf.chars, start, content, Gap, Consumed)
    /\ eof \in BOOLEAN /\ (eof => unread = <<>>)

MatchInv == Live => SearchedFrom(buf, start, match)

AllRead == lines = Split /\ eof /\ Gap = 0 /\ match = NoLine

\* The lines so far are those of the text before the window, which begins a line.
LinesInv == Live => Parted[Consumed] = [lines |-> lines, from |-> Consumed + 1] \/ AllRead

NullInv == step = "idle" /\ eof /\ last = NoLine => AllRead

PrefixInv == Begins(lines, Split)

ReadInv == TextInv /\ FreshInv /\ WindowInv /\ MatchInv /\ LinesInv /\ NullInv /\ PrefixInv

LEMMA ReadInitially == ReadInit => ReadInv
<1>1. SUFFICES ASSUME ReadInit
               PROVE  ReadInv
  OBVIOUS
<1>2. content \in Seq(Chars) /\ unread = content /\ step = "init" /\ last = NoLine /\ lines = <<>>
  BY <1>1, ReadAssumption DEF ReadInit
<1>3. Len(content) \in Nat /\ lines \in Seq(Strings) /\ Len(lines) = 0
  BY <1>2, LenProperties, EmptySeq
<1>4. TextInv
  BY <1>2, <1>3 DEF TextInv, Closes
<1>5. FreshInv
  <2>1. PICK n \in Capacities : buf = [chars |-> Blanks(n), position |-> 0, limit |-> n]
    BY <1>1 DEF ReadInit
  <2>2. n \in Nat \ {0}
    BY ReadAssumption
  <2>3. Blanks(n) \in Strings /\ Len(Blanks(n)) = n
    BY <2>2 DEF Blanks, Chars, Strings
  <2>4. InOrderBuffer(buf) /\ buf.position = 0 /\ buf.limit = Len(buf.chars)
    BY <2>1, <2>2, <2>3 DEF InOrderBuffer, Buffer
  <2>. QED
    BY <1>1, <2>4 DEF ReadInit, FreshInv
<1>6. PrefixInv
  <2>1. 0 \in 0..Len(content) /\ Parted[0].lines = <<>>
    BY <1>2, <1>3, PartedFacts DEF PartedBy
  <2>. QED
    BY <1>2, <2>1, SplitFollows DEF PrefixInv
<1>. QED
  BY <1>2, <1>4, <1>5, <1>6 DEF ReadInv, WindowInv, MatchInv, LinesInv, NullInv, Live

LEMMA BegunByWindow ==
  TextInv /\ WindowInv /\ LinesInv /\ Live => PrefixInv
<1>1. SUFFICES ASSUME TextInv, WindowInv, LinesInv, Live
               PROVE  PrefixInv
  OBVIOUS
<1>2. PICK k : k = Consumed
  OBVIOUS
<1>3. content \in Seq(Chars) /\ Len(content) \in Nat /\ Len(unread) \in Nat /\ Gap \in Nat
  BY <1>1, LenProperties DEF TextInv, WindowInv, Gap, InOrderBuffer, Buffer
<1>4. k \in 0..Len(content)
  BY <1>1, <1>2, <1>3 DEF WindowInv, Consumed
<1>5. CASE Parted[k] = [lines |-> lines, from |-> k + 1]
  <2>1. lines = Parted[k].lines
    BY <1>5
  <2>. QED
    BY <1>3, <1>4, <2>1, SplitFollows DEF PrefixInv
<1>6. CASE AllRead
  <2>1. Len(lines) \in Nat
    BY <1>1, LenProperties DEF TextInv
  <2>2. lines = Split
    BY <1>6 DEF AllRead
  <2>. QED
    BY <2>1, <2>2 DEF PrefixInv, Begins
<1>. QED
  BY <1>1, <1>2, <1>5, <1>6 DEF LinesInv

LEMMA SameSlices ==
  ASSUME NEW s, NEW t, s \in Seq(Chars), t \in Seq(Chars), NEW a \in Nat, NEW b \in Nat, NEW n \in Nat,
         a + n <= Len(s), b + n <= Len(t), Shows(s, a, t, n, b)
  PROVE  SubSeq(s, a + 1, a + n) = SubSeq(t, b + 1, b + n)
<1>1. Len(s) \in Nat /\ Len(t) \in Nat
  BY LenProperties
<1>2. PICK p, q : p = SubSeq(s, a + 1, a + n) /\ q = SubSeq(t, b + 1, b + n)
  OBVIOUS
<1>3. p = [i \in 1..n |-> s[a + i]] /\ q = [i \in 1..n |-> t[b + i]]
  BY <1>1, <1>2
<1>. QED
  BY <1>2, <1>3 DEF Shows

\* When the text has been read to its end, the lines are complete.
LEMMA SplitAtEnd ==
  ASSUME content \in Seq(Chars), NEW k \in 0..Len(content),
         \A i \in (k + 1)..Len(content) : content[i] # LF,
         NEW l, Parted[k] = [lines |-> l, from |-> k + 1]
  PROVE  Split = IF k = Len(content) THEN l ELSE Append(l, SubSeq(content, k + 1, Len(content)))
<1>1. Len(content) \in Nat
  BY LenProperties
<1>2. Parted[Len(content)] = Parted[k]
  BY <1>1, PartedSteady
<1>. QED
  BY <1>1, <1>2 DEF Split

ReadsInto(b, n) ==
  /\ unread' = SubSeq(unread, n + 1, Len(unread))
  /\ buf' = Put(b, n) /\ start' = 0
  /\ content' = content

LEMMA ClosesLess ==
  ASSUME NEW text, NEW rest, text \in Seq(Chars), rest \in Seq(Chars), Closes(text, rest),
         NEW n \in 0..Len(rest), NEW u, u = SubSeq(rest, n + 1, Len(rest))
  PROVE  u \in Seq(Chars) /\ Len(u) = Len(rest) - n /\ Closes(text, u)
<1>1. Len(text) \in Nat /\ Len(rest) \in Nat
  BY LenProperties
<1>2. u = [i \in 1..(Len(rest) - n) |-> rest[n + i]]
  BY <1>1
<1>3. Len(u) = Len(rest) - n /\ u \in Seq(Chars) /\ \A i \in 1..Len(u) : u[i] = rest[n + i]
  <2>1. \A i \in 1..(Len(rest) - n) : rest[n + i] \in Chars
    BY <1>1, ElementOfSeq
  <2>. QED
    BY <1>1, <1>2, <2>1
<1>4. SUFFICES ASSUME NEW i \in 1..Len(u)
               PROVE  u[i] = text[Len(text) - Len(u) + i]
  BY <1>3 DEF Closes
<1>5. PICK j, lt, lr : j = n + i /\ lt = Len(text) /\ lr = Len(rest)
  OBVIOUS
<1>6. lt \in Nat /\ lr \in Nat /\ n \in 0..lr /\ i \in 1..(lr - n)
  BY <1>1, <1>3, <1>5
<1>7. j \in 1..lr /\ lt - lr + j = lt - (lr - n) + i
  BY <1>5, <1>6
<1>8. u[i] = rest[j]
  BY <1>3, <1>5
<1>9. rest[j] = text[lt - lr + j]
  BY <1>5, <1>7 DEF Closes
<1>. QED
  BY <1>3, <1>5, <1>7, <1>8, <1>9

LEMMA ShowsMore ==
  ASSUME NEW text, NEW rest, text \in Seq(Chars), rest \in Seq(Chars), Closes(text, rest),
         NEW c, NEW d, NEW g \in Nat, NEW k \in Nat, NEW n \in 0..Len(rest),
         k + g + Len(rest) = Len(text), Shows(c, 0, text, g, k),
         \A i \in 1..g : d[i] = c[i], \A i \in 1..n : d[g + i] = rest[i]
  PROVE  Shows(d, 0, text, g + n, k)
<1>1. PICK lt, lr : lt = Len(text) /\ lr = Len(rest) /\ lt \in Nat /\ lr \in Nat
  BY LenProperties
<1>2. SUFFICES ASSUME NEW i \in 1..(g + n)
               PROVE  d[i] = text[k + i]
  BY DEF Shows
<1>3. CASE i \in 1..g
  BY <1>3 DEF Shows
<1>4. CASE i \notin 1..g
  <2>1. PICK j : j = i - g
    OBVIOUS
  <2>2. j \in 1..n
    BY <1>4, <2>1
  <2>3. g + j = i
    BY <2>1
  <2>4. rest[j] = text[lt - lr + j]
    BY <1>1, <2>2 DEF Closes
  <2>5. lt - lr + j = k + i
    BY <1>1, <2>2, <2>3
  <2>. QED
    BY <2>2, <2>3, <2>4, <2>5
<1>. QED
  BY <1>3, <1>4

\* What is in front of b stays there, and n more characters are read behind it.
LEMMA Refilled ==
  ASSUME TextInv, NEW b, InOrderBuffer(b), NEW k \in Nat, k + b.position + Len(unread) = Len(content),
         Shows(b.chars, 0, content, b.position, k),
         NEW n \in 1..Len(unread), n <= Remaining(b), b.limit = Len(b.chars), ReadsInto(b, n)
  PROVE  /\ unread' \in Seq(Chars) /\ Len(unread') <= Len(content') /\ Closes(content, unread)'
         /\ InOrderBuffer(buf)' /\ Consumed' = k /\ Gap' \in Nat /\ start' \in 0..buf'.limit
         /\ Shows(buf.chars, start, content, Gap, Consumed)'
<1>1. content \in Seq(Chars) /\ unread \in Seq(Chars) /\ Closes(content, unread)
  BY DEF TextInv
<1>2. Len(content) \in Nat /\ Len(unread) \in Nat
  BY <1>1, LenProperties
<1>3. PICK g, u, p : g = b.position /\ u = unread' /\ p = Put(b, n)
  OBVIOUS
<1>4. buf' = p /\ start' = 0 /\ content' = content /\ u = SubSeq(unread, n + 1, Len(unread))
  BY <1>3 DEF ReadsInto
<1>5. g \in Nat /\ g + n <= Len(b.chars)
  BY <1>3 DEF InOrderBuffer, Buffer, Remaining
<1>6. /\ InOrderBuffer(p) /\ p.position = 0 /\ p.limit = g + n
      /\ \A i \in 1..g : p.chars[i] = b.chars[i]
      /\ \A i \in 1..n : p.chars[g + i] = unread[i]
  BY <1>1, <1>3, <1>5, PutFacts
<1>0. n \in 0..Len(unread)
  BY <1>2
<1>7. u \in Seq(Chars) /\ Len(u) = Len(unread) - n /\ Closes(content, u)
  BY <1>0, <1>1, <1>4, ClosesLess
<1>8. Shows(p.chars, 0, content, g + n, k)
  <2>1. PICK c, d : c = b.chars /\ d = p.chars
    OBVIOUS
  <2>2. Shows(c, 0, content, g, k) /\ k + g + Len(unread) = Len(content)
    BY <1>3, <2>1
  <2>3. (\A i \in 1..g : d[i] = c[i]) /\ (\A i \in 1..n : d[g + i] = unread[i])
    BY <1>6, <2>1
  <2>4. Shows(d, 0, content, g + n, k)
    BY <1>0, <1>1, <1>5, <2>2, <2>3, ShowsMore
  <2>. QED
    BY <2>1, <2>4
<1>9. Gap' = g + n
  BY <1>4, <1>5, <1>6 DEF Gap
<1>10. Consumed' = k
  <2>1. Len(unread)' = Len(unread) - n /\ Len(content)' = Len(content)
    BY <1>3, <1>4, <1>7
  <2>2. k + g + Len(unread) = Len(content)
    BY <1>3
  <2>3. Consumed' = Len(content)' - Len(unread)' - Gap'
    BY DEF Consumed
  <2>. QED
    BY <1>2, <1>5, <1>9, <2>1, <2>2, <2>3
<1>11. unread' \in Seq(Chars) /\ Len(unread') <= Len(content') /\ Closes(content, unread)'
  <2>1. unread' \in Seq(Chars) /\ Len(unread') = Len(unread) - n /\ Len(content') = Len(content)
    BY <1>3, <1>4, <1>7
  <2>2. Closes(content, unread)'
    <3>1. content' = content /\ unread' = u /\ Closes(content, u)
      BY <1>3, <1>4, <1>7
    <3>2. PICK l, m : l = Len(content) /\ m = Len(u)
      OBVIOUS
    <3>3. Len(content)' = l /\ Len(unread)' = m
      BY <3>1, <3>2, Zenon
    <3>4. \A i \in 1..m : u[i] = content[l - m + i]
      BY <3>1, <3>2, Zenon DEF Closes
    <3>5. \A i \in 1..m : unread'[i] = content'[l - m + i]
      BY <3>1, <3>4, Zenon
    <3>. QED
      BY <3>3, <3>5, Zenon DEF Closes
  <2>3. k + g + Len(unread) = Len(content)
    BY <1>3
  <2>. QED
    BY <1>2, <1>5, <2>1, <2>2, <2>3
<1>12. start' \in 0..buf'.limit
  BY <1>4, <1>5, <1>6
<1>13. InOrderBuffer(buf)'
  BY <1>4, <1>6 DEF InOrderBuffer
<1>14. Shows(buf.chars, start, content, Gap, Consumed)'
  <2>1. PICK h : h = Gap'
    OBVIOUS
  <2>. QED
    BY <1>4, <1>8, <1>9, <1>10, <2>1 DEF Shows
<1>. QED
  BY <1>5, <1>9, <1>10, <1>11, <1>12, <1>13, <1>14

LEMMA SameText ==
  ASSUME content' = content
  PROVE  Parted' = Parted /\ Split' = Split
<1>1. Parted' = Parted
  BY DEF Parted, LineUpto
<1>. QED
  BY <1>1 DEF Split

LEMMA LiveFacts ==
  ASSUME ReadInv, Live
  PROVE  /\ content \in Seq(Chars) /\ Len(content) \in Nat /\ Len(unread) \in Nat
         /\ Gap \in Nat /\ Consumed \in 0..Len(content) /\ Consumed + Gap + Len(unread) = Len(content)
         /\ buf.chars \in Strings /\ Len(buf.chars) \in Nat /\ buf.position \in Nat /\ buf.limit \in 0..Len(buf.chars)
         /\ start \in 0..buf.limit /\ Gap = buf.limit - start
         /\ InOrderBuffer(buf) /\ Shows(buf.chars, start, content, Gap, Consumed)
<1>1. content \in Seq(Chars) /\ unread \in Seq(Chars)
  BY DEF ReadInv, TextInv
<1>2. Len(content) \in Nat /\ Len(unread) \in Nat
  BY <1>1, LenProperties
<1>3. InOrderBuffer(buf) /\ start \in 0..buf.limit /\ Consumed \in Nat /\ Shows(buf.chars, start, content, Gap, Consumed)
  BY DEF ReadInv, WindowInv
<1>4. /\ buf.chars \in Strings /\ buf.position \in Nat /\ buf.limit \in Nat
      /\ buf.limit <= Len(buf.chars)
  BY <1>3 DEF InOrderBuffer, Buffer
<1>5. Len(buf.chars) \in Nat
  BY <1>4, LenProperties DEF Strings
<1>6. Gap \in Nat
  BY <1>3, <1>4 DEF Gap
<1>7. Consumed + Gap + Len(unread) = Len(content)
  BY <1>2, <1>6 DEF Consumed
<1>. QED
  BY <1>1, <1>2, <1>3, <1>4, <1>5, <1>6, <1>7 DEF Gap

\* A step that leaves the reader's window alone, and stays within readLine or outside it.
LEMMA WindowKept ==
  ASSUME ReadInv, Live, Live', UNCHANGED <<unread, buf, start, eof, match, content, lines, last>>,
         step' = "idle" => step = "idle" \/ ~eof \/ last # NoLine
  PROVE  ReadInv'
<1>1. Split' = Split /\ Parted' = Parted
  BY SameText
<1>2. Gap' = Gap /\ Consumed' = Consumed
  BY DEF Gap, Consumed
<1>3. TextInv'
  BY DEF ReadInv, TextInv, Closes, Live
<1>4. FreshInv'
  BY DEF FreshInv, Live
<1>5. WindowInv'
  BY <1>2 DEF ReadInv, WindowInv, Shows, InOrderBuffer
<1>6. MatchInv'
  BY DEF ReadInv, MatchInv, SearchedFrom, FoundAt
<1>7. LinesInv' /\ NullInv' /\ PrefixInv'
  BY <1>1, <1>2 DEF ReadInv, LinesInv, NullInv, AllRead, PrefixInv, Begins
<1>. QED
  BY <1>3, <1>4, <1>5, <1>6, <1>7 DEF ReadInv

LEMMA WasLineLookAheadKeeps ==
  ASSUME ReadInv, WasLineLookAhead
  PROVE  ReadInv'
<1>1. Live /\ Live' /\ step = "idle" /\ UNCHANGED <<unread, buf, start, eof, match, content, lines, last>>
  BY DEF WasLineLookAhead, Live
<1>. QED
  BY <1>1, WindowKept

LEMMA CallKeeps ==
  ASSUME ReadInv, Call
  PROVE  ReadInv'
<1>1. Live /\ Live' /\ step = "idle" /\ UNCHANGED <<unread, buf, start, eof, match, content, lines, last>>
  BY DEF Call, Live
<1>. QED
  BY <1>1, WindowKept

LEMMA ReadFailsKeeps ==
  ASSUME ReadInv, ReadFails
  PROVE  ReadInv'
<1>1. step' = "gone" /\ ~Live' /\ UNCHANGED <<unread, content, last, lines>>
  BY DEF ReadFails, Live
<1>2. Split' = Split
  BY <1>1, SameText
<1>3. TextInv'
  BY <1>1 DEF ReadInv, TextInv, Closes
<1>4. PrefixInv'
  BY <1>1, <1>2 DEF ReadInv, PrefixInv, Begins
<1>. QED
  BY <1>1, <1>3, <1>4 DEF ReadInv, FreshInv, WindowInv, MatchInv, LinesInv, NullInv

LEMMA InitializeKeeps ==
  ASSUME ReadInv, Initialize
  PROVE  ReadInv'
<1>1. /\ unread = content /\ InOrderBuffer(buf) /\ buf.position = 0 /\ buf.limit = Len(buf.chars)
      /\ start = 0 /\ eof = FALSE /\ match = NoLine /\ last = NoLine /\ lines = <<>>
      /\ step' = "idle" /\ UNCHANGED <<last, content, lines>>
  BY DEF ReadInv, FreshInv, Initialize
<1>2. Live' /\ Split' = Split /\ Parted' = Parted
  BY <1>1, SameText DEF Live
<1>3. content \in Seq(Chars) /\ Len(content) \in Nat /\ TextInv
  BY LenProperties DEF ReadInv, TextInv
<1>4. Parted[0] = [lines |-> lines, from |-> 0 + 1]
  BY <1>1, <1>3, PartedFacts DEF PartedBy
<1>5. CASE unread = <<>> /\ eof' = TRUE /\ buf' = [buf EXCEPT !.limit = 0] /\ UNCHANGED <<unread, start, match>>
  <2>1. Len(content) = 0
    BY <1>1, <1>5
  <2>2. InOrderBuffer(buf)' /\ buf'.limit = 0
    BY <1>1, <1>5 DEF InOrderBuffer, Buffer
  <2>3. Gap' = 0 /\ Consumed' = 0
    BY <1>1, <1>5, <2>1, <2>2 DEF Gap, Consumed
  <2>4. Split = lines
    BY <1>4, <2>1 DEF Split
  <2>5. TextInv'
    BY <1>1, <1>3, <1>5 DEF TextInv, Closes
  <2>6. WindowInv'
    BY <1>1, <1>5, <2>2, <2>3 DEF WindowInv, Shows
  <2>7. MatchInv'
    BY <1>1, <1>5, <2>2 DEF MatchInv, SearchedFrom
  <2>8. AllRead'
    BY <1>1, <1>2, <1>5, <2>3, <2>4 DEF AllRead
  <2>9. LinesInv' /\ NullInv'
    BY <2>8 DEF LinesInv, NullInv
  <2>10. PrefixInv'
    <3>1. (TextInv /\ WindowInv /\ LinesInv /\ Live => PrefixInv)'
      BY BegunByWindow, PTL
    <3>. QED
      BY <1>2, <2>5, <2>6, <2>9, <3>1
  <2>. QED
    BY <1>1, <2>5, <2>6, <2>7, <2>9, <2>10 DEF ReadInv, FreshInv
<1>6. CASE \E n \in 1..Len(unread) :
             /\ n <= Remaining(buf)
             /\ unread' = SubSeq(unread, n + 1, Len(unread))
             /\ buf' = Put(buf, n)
             /\ match' = Found(buf', 0, buf'.limit)
             /\ UNCHANGED <<eof, start>>
  <2>1. PICK n \in 1..Len(unread) : n <= Remaining(buf) /\ ReadsInto(buf, n)
    BY <1>1, <1>6 DEF ReadsInto
  <2>2. Shows(buf.chars, 0, content, buf.position, 0) /\ 0 + buf.position + Len(unread) = Len(content)
    BY <1>1, <1>3 DEF Shows
  <2>3. /\ unread' \in Seq(Chars) /\ Len(unread') <= Len(content') /\ Closes(content, unread)'
        /\ InOrderBuffer(buf)' /\ Consumed' = 0 /\ Gap' \in Nat /\ start' \in 0..buf'.limit
        /\ Shows(buf.chars, start, content, Gap, Consumed)'
    BY <1>1, <1>3, <2>1, <2>2, Refilled
  <2>4. TextInv'
    BY <1>1, <1>3, <2>3 DEF TextInv
  <2>5. WindowInv'
    BY <1>1, <1>6, <2>3 DEF WindowInv
  <2>6. MatchInv'
    <3>1. PICK b : b = buf'
      OBVIOUS
    <3>2. b.limit \in Nat /\ start' = 0 /\ match' = Found(b, 0, b.limit)
      BY <1>1, <1>6, <2>3, <3>1 DEF InOrderBuffer, Buffer
    <3>3. SearchedFrom(b, 0, match')
      BY <3>2, FoundFacts
    <3>. QED
      BY <3>1, <3>2, <3>3 DEF MatchInv, SearchedFrom, FoundAt
  <2>7. LinesInv'
    BY <1>1, <1>2, <1>4, <2>3 DEF LinesInv
  <2>8. PrefixInv'
    <3>1. (TextInv /\ WindowInv /\ LinesInv /\ Live => PrefixInv)'
      BY BegunByWindow, PTL
    <3>. QED
      BY <1>2, <2>4, <2>5, <2>7, <3>1
  <2>. QED
    BY <1>1, <1>6, <2>4, <2>5, <2>6, <2>7, <2>8 DEF ReadInv, FreshInv, NullInv
<1>. QED
  BY <1>5, <1>6 DEF Initialize

\* From a window that begins a line and a line feed in it: one more line, and the window behind it.
LEMMA OneMore ==
  ASSUME ReadInv, Live, match # NoLine
  PROVE  /\ match.to \in (start + 1)..buf.limit /\ match.from \in start..match.to
         /\ Slice(buf, start, match.from) \in Strings
         /\ Consumed + (match.to - start) \in 0..Len(content)
         /\ Parted[Consumed + (match.to - start)] =
              [lines |-> Append(lines, Slice(buf, start, match.from)), from |-> Consumed + (match.to - start) + 1]
<1>1. /\ content \in Seq(Chars) /\ Len(content) \in Nat /\ Len(unread) \in Nat
      /\ Gap \in Nat /\ Consumed \in 0..Len(content) /\ Consumed + Gap + Len(unread) = Len(content)
      /\ buf.chars \in Strings /\ Len(buf.chars) \in Nat /\ buf.limit \in 0..Len(buf.chars)
      /\ start \in 0..buf.limit /\ Gap = buf.limit - start
      /\ Shows(buf.chars, start, content, Gap, Consumed)
  BY LiveFacts
<1>2. FoundAt(buf, start, match)
  BY DEF ReadInv, MatchInv, SearchedFrom
<1>3. PICK c, s, l, k, to, from : /\ c = buf.chars /\ s = start /\ l = buf.limit /\ k = Consumed
                                  /\ to = match.to /\ from = match.from
  OBVIOUS
<1>4. /\ from \in Nat /\ to \in Nat /\ s <= from /\ from < to /\ to <= l
      /\ c[to] = LF
      /\ \A i \in (s + 1)..(to - 1) : c[i] # LF
      /\ from = IF to > s + 1 /\ c[to - 1] = CR THEN to - 2 ELSE to - 1
  BY <1>2, <1>3 DEF FoundAt
<1>5. s \in Nat /\ l \in Nat /\ k \in Nat /\ s <= l /\ l <= Len(c) /\ k + (l - s) <= Len(content)
  BY <1>1, <1>3
<1>6. \A i \in 1..(l - s) : c[s + i] = content[k + i]
  BY <1>1, <1>3 DEF Shows
<1>7. PICK e : e = k + (to - s)
  OBVIOUS
<1>0. from \in Nat /\ to \in Nat /\ s <= from /\ from < to /\ to <= l /\ Len(content) \in Nat
  BY <1>1, <1>4
<1>8. e \in (k + 1)..Len(content) /\ e - 1 \in k..Len(content) /\ to - s \in 1..(l - s) /\ s + (to - s) = to /\ k + (to - s) = e
  BY <1>0, <1>5, <1>7
<1>9. content[e] = LF
  BY <1>4, <1>6, <1>8
<1>10. \A i \in (k + 1)..(e - 1) : content[i] # LF
  <2>1. SUFFICES ASSUME NEW i \in (k + 1)..(e - 1)
                 PROVE  content[i] # LF
    OBVIOUS
  <2>2. PICK j : j = i - k
    OBVIOUS
  <2>3. j \in 1..(l - s) /\ k + j = i /\ s + j \in (s + 1)..(to - 1)
    BY <1>4, <1>5, <1>7, <2>1, <2>2
  <2>4. c[s + j] = content[i]
    BY <1>6, <2>3
  <2>. QED
    BY <1>4, <2>3, <2>4
<1>11. Parted[k] = [lines |-> lines, from |-> k + 1]
  BY <1>3 DEF ReadInv, LinesInv, AllRead
<1>12. Parted[e - 1] = [lines |-> lines, from |-> k + 1]
  BY <1>1, <1>3, <1>8, <1>10, <1>11, PartedSteady
<1>13. Parted[e] = [lines |-> Append(lines, LineUpto(k + 1, e)), from |-> e + 1]
  <2>1. e \in 1..Len(content)
    BY <1>5, <1>8
  <2>2. PartedBy(Parted)
    BY <1>1, PartedFacts
  <2>3. PICK p : p = Parted[e - 1]
    OBVIOUS
  <2>4. Parted[e] = [lines |-> Append(p.lines, LineUpto(p.from, e)), from |-> e + 1]
    BY <1>9, <2>1, <2>2, <2>3 DEF PartedBy
  <2>. QED
    BY <1>12, <2>3, <2>4
<1>14. LineUpto(k + 1, e) = Slice(buf, start, match.from)
  <2>1. PICK n : n = from - s
    OBVIOUS
  <2>2. n \in Nat /\ s + n = from /\ n <= l - s /\ k + n <= Len(content) /\ s + n <= Len(c)
    <3>1. Len(c) \in Nat
      BY <1>1, <1>3
    <3>. QED
      BY <1>0, <1>5, <2>1, <3>1
  <2>3. k + n = IF e > k + 1 /\ content[e - 1] = CR THEN e - 2 ELSE e - 1
    <3>1. CASE to = s + 1
      <4>1. from = s
        BY <1>4, <1>5, <3>1
      <4>2. n = 0 /\ e = k + 1
        BY <1>5, <1>7, <2>1, <3>1, <4>1
      <4>. QED
        BY <1>5, <4>2
    <3>2. CASE to > s + 1
      <4>1. PICK j : j = to - 1 - s
        OBVIOUS
      <4>2. j \in 1..(l - s) /\ s + j = to - 1 /\ k + j = e - 1
        BY <1>4, <1>5, <1>7, <3>2, <4>1
      <4>3. c[to - 1] = content[e - 1]
        BY <1>6, <4>2
      <4>4. e > k + 1 /\ e - 2 = k + (to - 2 - s) /\ e - 1 = k + (to - 1 - s)
        BY <1>0, <1>5, <1>7, <3>2
      <4>5. from = IF content[e - 1] = CR THEN to - 2 ELSE to - 1
        BY <1>4, <3>2, <4>3
      <4>. QED
        BY <2>1, <4>4, <4>5
    <3>3. to = s + 1 \/ to > s + 1
      BY <1>0, <1>5
    <3>. QED
      BY <3>1, <3>2, <3>3
  <2>4. \A i \in 1..n : c[s + i] = content[k + i]
    BY <1>5, <1>6, <2>2
  <2>5. c \in Seq(Chars) /\ content \in Seq(Chars)
    BY <1>1, <1>3 DEF Strings
  <2>6. SubSeq(c, s + 1, s + n) = SubSeq(content, k + 1, k + n)
    <3>1. s \in Nat /\ k \in Nat /\ n \in Nat /\ s + n <= Len(c) /\ k + n <= Len(content)
      BY <1>5, <2>2
    <3>2. PICK t : t = content
      OBVIOUS
    <3>3. k + n <= Len(t) /\ t \in Seq(Chars) /\ Shows(c, s, t, n, k)
      BY <2>4, <2>5, <3>1, <3>2 DEF Shows
    <3>4. SubSeq(c, s + 1, s + n) = SubSeq(t, k + 1, k + n)
      BY <2>5, <3>1, <3>3, SameSlices
    <3>. QED
      BY <3>2, <3>4
  <2>7. LineUpto(k + 1, e) = SubSeq(content, k + 1, k + n)
    BY <2>3 DEF LineUpto
  <2>8. Slice(buf, start, match.from) = SubSeq(c, s + 1, s + n)
    BY <1>3, <2>2 DEF Slice
  <2>. QED
    BY <2>6, <2>7, <2>8
<1>15. Slice(buf, start, match.from) \in Strings
  <2>1. e \in 1..Len(content) /\ k + 1 \in Nat \ {0}
    BY <1>5, <1>8
  <2>. QED
    BY <1>1, <1>14, <2>1, LineUptoType
<1>16. match.to \in (start + 1)..buf.limit /\ match.from \in start..match.to
  BY <1>3, <1>4, <1>5
<1>17. Consumed + (match.to - start) = e /\ e \in 0..Len(content)
  BY <1>3, <1>5, <1>7, <1>8
<1>. QED
  BY <1>13, <1>14, <1>15, <1>16, <1>17

LEMMA TakeLineKeeps ==
  ASSUME ReadInv, TakeLine
  PROVE  ReadInv'
<1>1. Live /\ match # NoLine /\ step = "read"
  BY DEF TakeLine, Live
<1>2. /\ content \in Seq(Chars) /\ Len(content) \in Nat /\ Len(unread) \in Nat
      /\ Gap \in Nat /\ Consumed \in 0..Len(content) /\ Consumed + Gap + Len(unread) = Len(content)
      /\ buf.limit \in Nat /\ start \in 0..buf.limit /\ Gap = buf.limit - start
      /\ InOrderBuffer(buf) /\ Shows(buf.chars, start, content, Gap, Consumed)
  BY <1>1, LiveFacts
<1>3. PICK line, e, to : line = Slice(buf, start, match.from) /\ to = match.to /\ e = Consumed + (to - start)
  OBVIOUS
<1>4. /\ to \in (start + 1)..buf.limit /\ line \in Strings /\ e \in 0..Len(content)
      /\ Parted[e] = [lines |-> Append(lines, line), from |-> e + 1]
  BY <1>1, <1>3, OneMore
<1>5. line # NoLine
  BY <1>4, ReadAssumption DEF Strings
<1>6. /\ last' = line /\ lines' = Append(lines, line) /\ step' = "idle" /\ start' = to
      /\ match' = SearchedOn /\ UNCHANGED <<unread, buf, eof, content>>
  BY <1>3, <1>5 DEF TakeLine, Returns
<1>7. Live' /\ Split' = Split /\ Parted' = Parted
  BY <1>6, SameText DEF Live
<1>8. Gap' = buf.limit - to /\ Consumed' = e
  <2>1. Gap' = buf.limit - to
    BY <1>6 DEF Gap
  <2>2. Len(content)' = Len(content) /\ Len(unread)' = Len(unread)
    BY <1>6
  <2>3. Consumed' = Len(content)' - Len(unread)' - Gap'
    BY DEF Consumed
  <2>4. PICK lc, lu, k, l, s : lc = Len(content) /\ lu = Len(unread) /\ k = Consumed /\ l = buf.limit /\ s = start
    OBVIOUS
  <2>5. lc \in Nat /\ lu \in Nat /\ k \in Nat /\ l \in Nat /\ s \in 0..l /\ to \in Nat /\ k + (l - s) + lu = lc
    BY <1>2, <1>4, <2>4
  <2>6. lc - lu - (l - to) = k + (to - s)
    BY <2>5
  <2>. QED
    BY <1>3, <2>1, <2>2, <2>3, <2>4, <2>6
<1>9. TextInv'
  <2>1. lines \in Seq(Strings)
    BY DEF ReadInv, TextInv
  <2>2. Append(lines, line) \in Seq(Strings)
    BY <1>4, <2>1, AppendProperties
  <2>. QED
    BY <1>4, <1>6, <2>2 DEF ReadInv, TextInv, Closes
<1>10. WindowInv'
  <2>1. \A i \in 1..(buf.limit - to) : buf.chars[to + i] = content[e + i]
    <3>1. SUFFICES ASSUME NEW i \in 1..(buf.limit - to)
                   PROVE  buf.chars[to + i] = content[e + i]
      OBVIOUS
    <3>2. PICK j : j = (to - start) + i
      OBVIOUS
    <3>3. PICK g, k, l, s : g = Gap /\ k = Consumed /\ l = buf.limit /\ s = start
      OBVIOUS
    <3>4. k \in Nat /\ l \in Nat /\ s \in 0..l /\ to \in (s + 1)..l /\ g = l - s /\ e = k + (to - s) /\ i \in 1..(l - to)
      BY <1>2, <1>3, <1>4, <3>1, <3>3
    <3>5. j \in 1..g /\ s + j = to + i /\ k + j = e + i
      BY <3>2, <3>3, <3>4
    <3>. QED
      BY <1>2, <3>3, <3>5 DEF Shows
  <2>2. Shows(buf.chars, start, content, Gap, Consumed)'
    BY <1>6, <1>8, <2>1 DEF Shows
  <2>3. InOrderBuffer(buf)' /\ start' \in 0..buf'.limit /\ Consumed' \in Nat
    BY <1>2, <1>4, <1>6, <1>8 DEF InOrderBuffer
  <2>. QED
    BY <1>1, <1>6, <2>2, <2>3 DEF ReadInv, WindowInv
<1>11. MatchInv'
  <2>1. SearchedFrom(buf, to, SearchedOn)
    <3>1. CASE to < buf.limit
      <4>1. SearchedOn = Found(buf, to, buf.limit) /\ to \in 0..buf.limit
        BY <1>2, <1>3, <1>4, <3>1 DEF SearchedOn
      <4>. QED
        BY <1>2, <4>1, FoundFacts
    <3>2. CASE ~(to < buf.limit)
      <4>1. to = buf.limit /\ SearchedOn = NoLine
        <5>1. to = buf.limit
          <6>1. PICK l, s : l = buf.limit /\ s = start
            OBVIOUS
          <6>2. l \in Nat /\ s \in 0..l /\ to \in (s + 1)..l /\ ~(to < l)
            BY <1>2, <1>4, <3>2, <6>1
          <6>3. to = l
            BY <6>2
          <6>. QED
            BY <6>1, <6>3
        <5>. QED
          BY <1>3, <3>2, <5>1 DEF SearchedOn
      <4>2. (to + 1)..buf.limit = {}
        BY <1>2, <4>1
      <4>. QED
        BY <4>1, <4>2 DEF SearchedFrom
    <3>. QED
      BY <3>1, <3>2
  <2>2. PICK m, b : m = SearchedOn /\ b = buf
    OBVIOUS
  <2>3. SearchedFrom(b, to, m) /\ match' = m /\ buf' = b /\ start' = to
    BY <1>6, <2>1, <2>2
  <2>. QED
    BY <2>3 DEF MatchInv, SearchedFrom, FoundAt
<1>12. LinesInv'
  BY <1>4, <1>6, <1>7, <1>8 DEF LinesInv
<1>13. PrefixInv'
  <2>1. (TextInv /\ WindowInv /\ LinesInv /\ Live => PrefixInv)'
    BY BegunByWindow, PTL
  <2>. QED
    BY <1>7, <1>9, <1>10, <1>12, <2>1
<1>. QED
  BY <1>5, <1>6, <1>9, <1>10, <1>11, <1>12, <1>13 DEF ReadInv, FreshInv, NullInv

\* All of the text has been read, and no line feed is left: what the window shows is the last line.
LEMMA LastOne ==
  ASSUME ReadInv, Live, match = NoLine, unread = <<>>,
         Parted[Consumed] = [lines |-> lines, from |-> Consumed + 1]
  PROVE  IF Gap = 0 THEN lines = Split
         ELSE /\ Slice(buf, start, buf.limit) \in Strings
              /\ Split = Append(lines, Slice(buf, start, buf.limit))
<1>1. /\ content \in Seq(Chars) /\ Len(content) \in Nat
      /\ Gap \in Nat /\ Consumed \in 0..Len(content) /\ Consumed + Gap + Len(unread) = Len(content)
      /\ buf.chars \in Strings /\ Len(buf.chars) \in Nat /\ buf.limit \in 0..Len(buf.chars)
      /\ start \in 0..buf.limit /\ Gap = buf.limit - start
      /\ Shows(buf.chars, start, content, Gap, Consumed)
  BY LiveFacts
<1>2. PICK c, s, l, k, t, n : /\ c = buf.chars /\ s = start /\ l = buf.limit /\ k = Consumed
                              /\ t = content /\ n = Len(content)
  OBVIOUS
<1>3. \A i \in (s + 1)..l : c[i] # LF
  BY <1>2 DEF ReadInv, MatchInv, SearchedFrom
<1>4. s \in Nat /\ l \in Nat /\ k \in Nat /\ n \in Nat /\ s <= l /\ l <= Len(c) /\ l - s \in Nat /\ k + (l - s) = n
  BY <1>1, <1>2
<1>5. t \in Seq(Chars) /\ c \in Seq(Chars) /\ Shows(c, s, t, l - s, k) /\ Gap = l - s
  BY <1>1, <1>2 DEF Strings
<1>6. \A i \in (k + 1)..n : content[i] # LF
  <2>1. SUFFICES ASSUME NEW i \in (k + 1)..n
                 PROVE  t[i] # LF
    BY <1>2
  <2>2. PICK j : j = i - k
    OBVIOUS
  <2>3. j \in 1..(l - s) /\ k + j = i /\ s + j \in (s + 1)..l
    BY <1>4, <2>1, <2>2
  <2>4. c[s + j] = t[i]
    BY <1>5, <2>3 DEF Shows
  <2>. QED
    BY <1>3, <2>3, <2>4
<1>7. Split = IF k = n THEN lines ELSE Append(lines, SubSeq(content, k + 1, n))
  <2>1. k \in 0..Len(content) /\ Parted[k] = [lines |-> lines, from |-> k + 1]
    BY <1>1, <1>2
  <2>2. \A i \in (k + 1)..Len(content) : content[i] # LF
    BY <1>2, <1>6
  <2>. QED
    BY <1>1, <1>2, <2>1, <2>2, SplitAtEnd
<1>8. CASE Gap = 0
  BY <1>4, <1>5, <1>7, <1>8
<1>9. CASE Gap # 0
  <2>1. s + (l - s) = l /\ k # n
    BY <1>4, <1>5, <1>9
  <2>2. l <= Len(c) /\ n = Len(t)
    BY <1>2, <1>4
  <2>3. SubSeq(c, s + 1, s + (l - s)) = SubSeq(t, k + 1, k + (l - s))
    <3>1. PICK g : g = l - s
      OBVIOUS
    <3>2. g \in Nat /\ s + g <= Len(c) /\ k + g <= Len(t) /\ Shows(c, s, t, g, k)
      BY <1>4, <1>5, <2>1, <2>2, <3>1
    <3>3. SubSeq(c, s + 1, s + g) = SubSeq(t, k + 1, k + g)
      BY <1>4, <1>5, <3>2, SameSlices
    <3>. QED
      BY <3>1, <3>3
  <2>4. Slice(buf, start, buf.limit) = SubSeq(t, k + 1, n)
    BY <1>2, <1>4, <2>1, <2>3 DEF Slice
  <2>5. SubSeq(t, k + 1, n) \in Strings
    BY <1>4, <1>5, <2>2, SubText DEF Strings
  <2>. QED
    BY <1>2, <1>7, <1>9, <2>1, <2>4, <2>5
<1>. QED
  BY <1>8, <1>9

LEMMA AtEndKeeps ==
  ASSUME ReadInv, AtEnd
  PROVE  ReadInv'
<1>1. Live /\ match = NoLine /\ eof /\ step = "read" /\ step' = "idle" /\ UNCHANGED <<unread, eof, match, content>>
  BY DEF AtEnd, Returns, Live
<1>2. unread = <<>> /\ InOrderBuffer(buf) /\ start \in 0..buf.limit /\ buf.limit \in Nat /\ Gap = buf.limit - start
  BY <1>1, LiveFacts DEF ReadInv, WindowInv
<1>3. /\ buf.chars \in Strings /\ buf.position \in Nat /\ buf = [chars |-> buf.chars, position |-> buf.position, limit |-> buf.limit]
  BY <1>2 DEF InOrderBuffer, Buffer
<1>4. PICK c, p, l, s : c = buf.chars /\ p = buf.position /\ l = buf.limit /\ s = start
  OBVIOUS
<1>5. Positioned = [chars |-> c, position |-> s, limit |-> l]
  BY <1>3, <1>4 DEF Positioned
<1>6. Rest(Positioned) = IF l - s > 0 THEN Slice(buf, start, buf.limit) ELSE NoLine
  BY <1>4, <1>5 DEF Rest, Remaining, Slice
<1>7. start' = l /\ InOrderBuffer(buf') /\ buf'.limit = l /\ l \in Nat /\ l - s = Gap
  <2>1. buf' = Positioned \/ buf' = [chars |-> c, position |-> l, limit |-> l]
    BY <1>3, <1>4 DEF AtEnd
  <2>2. l \in Nat /\ s \in 0..l /\ c \in Strings /\ l <= Len(c) /\ Len(c) > 0
    BY <1>2, <1>3, <1>4 DEF InOrderBuffer
  <2>. QED
    BY <1>2, <1>4, <1>5, <2>1, <2>2 DEF AtEnd, InOrderBuffer, Buffer
<1>8. Gap' = 0
  BY <1>7 DEF Gap
<1>9. Consumed' = Len(content) /\ Len(content) \in Nat
  <2>1. Len(unread)' = 0 /\ Len(content)' = Len(content) /\ Len(content) \in Nat
    BY <1>1, <1>2, LiveFacts
  <2>2. Consumed' = Len(content)' - Len(unread)' - Gap'
    BY DEF Consumed
  <2>. QED
    BY <1>8, <2>1, <2>2
<1>10. Live' /\ Split' = Split
  BY <1>1, SameText DEF Live
<1>11. lines \in Seq(Strings) /\ TextInv
  BY DEF ReadInv, TextInv
<1>12. lines' = Split /\ lines' \in Seq(Strings) /\ last' \in Strings \cup {NoLine}
  <2>1. CASE Gap = 0
    <3>1. lines' = lines /\ last' = NoLine
      BY <1>6, <1>7, <2>1 DEF AtEnd, Returns
    <3>2. lines = Split
      <4>1. CASE AllRead
        BY <4>1 DEF AllRead
      <4>2. CASE ~AllRead
        <5>1. Parted[Consumed] = [lines |-> lines, from |-> Consumed + 1]
          BY <1>1, <4>2 DEF ReadInv, LinesInv
        <5>. QED
          BY <1>1, <1>2, <2>1, <5>1, LastOne
      <4>. QED
        BY <4>1, <4>2
    <3>. QED
      BY <1>11, <3>1, <3>2
  <2>2. CASE Gap # 0
    <3>1. PICK line : line = Slice(buf, start, buf.limit)
      OBVIOUS
    <3>2. Parted[Consumed] = [lines |-> lines, from |-> Consumed + 1]
      BY <1>1, <2>2 DEF ReadInv, LinesInv, AllRead
    <3>3. line \in Strings /\ Split = Append(lines, line)
      BY <1>1, <1>2, <2>2, <3>1, <3>2, LastOne
    <3>4. Rest(Positioned) = line
      <4>1. l - s > 0
        BY <1>2, <1>4, <1>7, <2>2
      <4>. QED
        BY <1>6, <3>1, <4>1
    <3>5. line # NoLine
      BY <3>3, ReadAssumption DEF Strings
    <3>6. lines' = Append(lines, line) /\ last' = line
      BY <3>4, <3>5 DEF AtEnd, Returns
    <3>7. Append(lines, line) \in Seq(Strings)
      BY <1>11, <3>3, AppendProperties
    <3>. QED
      BY <3>3, <3>6, <3>7
  <2>. QED
    BY <2>1, <2>2
<1>13. AllRead'
  BY <1>1, <1>8, <1>10, <1>12 DEF AllRead
<1>14. TextInv'
  BY <1>1, <1>11, <1>12 DEF TextInv, Closes
<1>15. WindowInv'
  <2>1. InOrderBuffer(buf)' /\ start' \in 0..buf'.limit
    BY <1>7 DEF InOrderBuffer
  <2>2. Shows(buf.chars, start, content, Gap, Consumed)'
    BY <1>8 DEF Shows
  <2>. QED
    BY <1>1, <1>2, <1>9, <2>1, <2>2 DEF ReadInv, WindowInv
<1>16. MatchInv'
  <2>1. (l + 1)..l = {}
    BY <1>7
  <2>. QED
    BY <1>1, <1>7, <2>1 DEF MatchInv, SearchedFrom
<1>17. LinesInv' /\ NullInv'
  BY <1>13 DEF LinesInv, NullInv
<1>18. PrefixInv'
  <2>1. (TextInv /\ WindowInv /\ LinesInv /\ Live => PrefixInv)'
    BY BegunByWindow, PTL
  <2>. QED
    BY <1>10, <1>14, <1>15, <1>17, <2>1
<1>. QED
  BY <1>1, <1>14, <1>15, <1>16, <1>17, <1>18 DEF ReadInv, FreshInv

LEMMA RefillKeeps ==
  ASSUME ReadInv, Refill
  PROVE  ReadInv'
<1>1. Live /\ match = NoLine /\ eof = FALSE /\ step = "read" /\ content' = content
  BY DEF Refill, Live, ReadInv, WindowInv
<1>2. /\ content \in Seq(Chars) /\ Len(content) \in Nat /\ Len(unread) \in Nat
      /\ Gap \in Nat /\ Consumed \in 0..Len(content) /\ Consumed + Gap + Len(unread) = Len(content)
      /\ buf.limit \in Nat /\ start \in 0..buf.limit /\ Gap = buf.limit - start
      /\ InOrderBuffer(buf) /\ Shows(buf.chars, start, content, Gap, Consumed)
  BY <1>1, LiveFacts
<1>3. TextInv /\ unread \in Seq(Chars) /\ lines \in Seq(Strings)
  BY DEF ReadInv, TextInv
<1>4. Parted[Consumed] = [lines |-> lines, from |-> Consumed + 1]
  BY <1>1 DEF ReadInv, LinesInv, AllRead
<1>5. PICK r, k, g : r = Room(Positioned) /\ k = Consumed /\ g = Gap
  OBVIOUS
<1>6. /\ InOrderBuffer(r) /\ r.limit = Len(r.chars) /\ r.position = g /\ g < r.limit
      /\ Shows(r.chars, 0, content, g, k)
  <2>1. InOrderBuffer(Positioned) /\ Positioned.position = start /\ Remaining(Positioned) = g /\ Positioned.chars = buf.chars
    <3>1. Positioned = [chars |-> buf.chars, position |-> start, limit |-> buf.limit]
      <4>1. buf \in Buffer
        BY <1>2 DEF InOrderBuffer
      <4>. QED
        BY <4>1 DEF Positioned, Buffer
    <3>. QED
      BY <1>2, <1>5, <3>1 DEF InOrderBuffer, Buffer, Remaining
  <2>2. /\ InOrderBuffer(r) /\ r.limit = Len(r.chars) /\ r.position = g /\ r.position < r.limit
        /\ \A i \in 1..g : r.chars[i] = buf.chars[start + i]
    BY <1>5, <2>1, RoomFacts
  <2>3. \A i \in 1..g : 0 + i = i /\ buf.chars[start + i] = content[k + i]
    BY <1>2, <1>5 DEF Shows
  <2>. QED
    BY <2>2, <2>3 DEF Shows
<1>7. r.chars \in Strings /\ r.limit \in Nat /\ g \in Nat /\ k \in Nat
  BY <1>2, <1>5, <1>6 DEF InOrderBuffer, Buffer
<1>8. Split' = Split /\ Parted' = Parted
  BY <1>1, SameText
<1>9. CASE unread = <<>>
  <2>1. PICK f : f = [chars |-> r.chars, position |-> 0, limit |-> g]
    OBVIOUS
  <2>2. [r EXCEPT !.position = 0, !.limit = r.position] = f
    <3>1. r = [chars |-> r.chars, position |-> r.position, limit |-> r.limit] /\ r.position = g
      BY <1>6 DEF InOrderBuffer, Buffer
    <3>2. PICK c, p, l : c = r.chars /\ p = r.position /\ l = r.limit
      OBVIOUS
    <3>3. r = [chars |-> c, position |-> p, limit |-> l] /\ f = [chars |-> c, position |-> 0, limit |-> p]
      BY <2>1, <3>1, <3>2
    <3>4. PICK x : x = [r EXCEPT !.position = 0, !.limit = p]
      OBVIOUS
    <3>5. x = [chars |-> c, position |-> 0, limit |-> p]
      BY <3>3, <3>4
    <3>6. [r EXCEPT !.position = 0, !.limit = p] = f
      BY <3>3, <3>4, <3>5
    <3>. QED
      BY <3>2, <3>6
  <2>3. Remaining(f) = g /\ Remaining(r) > 0 /\ f.limit = g
    BY <1>6, <1>7, <2>1 DEF Remaining
  <2>4. /\ eof' = TRUE /\ unread' = unread /\ buf' = f /\ start' = 0
        /\ IF g > 0 THEN match' = Found(f, 0, g) /\ UNCHANGED <<last, step, lines>>
           ELSE match' = match /\ last' = NoLine /\ step' = "idle" /\ lines' = lines
    BY <1>5, <1>9, <2>2, <2>3 DEF Refill, Fill, Returns
  <2>5. InOrderBuffer(f)
    BY <1>6, <1>7, <2>1 DEF InOrderBuffer, Buffer
  <2>6. Gap' = g
    BY <1>7, <2>3, <2>4 DEF Gap
  <2>7. Consumed' = k /\ k + g = Len(content)
    <3>1. Len(unread)' = 0 /\ Len(unread) = 0 /\ Len(content)' = Len(content)
      BY <1>1, <1>9, <2>4
    <3>2. Consumed' = Len(content)' - Len(unread)' - Gap'
      BY DEF Consumed
    <3>3. PICK n : n = Len(content)
      OBVIOUS
    <3>4. n \in Nat /\ k + g = n
      BY <1>2, <1>5, <3>1, <3>3
    <3>. QED
      BY <1>7, <2>6, <3>1, <3>2, <3>3, <3>4
  <2>8. Live' /\ (step' = "read" \/ step' = "idle") /\ last' \in Strings \cup {NoLine}
    BY <1>1, <1>3, <2>4 DEF Live, TextInv
  <2>9. TextInv'
    BY <1>1, <1>3, <2>4, <2>8 DEF TextInv, Closes
  <2>10. WindowInv'
    <3>1. Shows(buf.chars, start, content, Gap, Consumed)'
      BY <1>1, <1>6, <2>1, <2>4, <2>6, <2>7 DEF Shows
    <3>. QED
      BY <1>7, <1>9, <2>3, <2>4, <2>5, <2>7, <3>1 DEF WindowInv, InOrderBuffer
  <2>11. MatchInv'
    <3>1. CASE g > 0
      <4>1. SearchedFrom(f, 0, Found(f, 0, g))
        BY <1>7, <2>3, FoundFacts
      <4>2. PICK m : m = Found(f, 0, g)
        OBVIOUS
      <4>3. SearchedFrom(f, 0, m) /\ match' = m /\ buf' = f /\ start' = 0
        BY <2>4, <3>1, <4>1, <4>2
      <4>. QED
        BY <4>3 DEF MatchInv, SearchedFrom, FoundAt
    <3>2. CASE ~(g > 0)
      <4>1. (0 + 1)..g = {} /\ match' = NoLine
        BY <1>1, <1>7, <2>4, <3>2
      <4>. QED
        BY <2>3, <2>4, <4>1 DEF MatchInv, SearchedFrom
    <3>. QED
      BY <3>1, <3>2
  <2>12. LinesInv'
    BY <1>4, <1>5, <1>8, <2>4, <2>7 DEF LinesInv
  <2>13. NullInv'
    <3>1. CASE g > 0
      BY <1>1, <2>4, <3>1 DEF NullInv
    <3>2. CASE ~(g > 0)
      <4>1. g = 0
        BY <1>7, <3>2
      <4>2. lines = Split
        BY <1>1, <1>4, <1>5, <1>9, <4>1, LastOne
      <4>. QED
        BY <1>1, <1>8, <2>4, <2>6, <4>1, <4>2 DEF NullInv, AllRead
    <3>. QED
      BY <3>1, <3>2
  <2>14. PrefixInv'
    <3>1. (TextInv /\ WindowInv /\ LinesInv /\ Live => PrefixInv)'
      BY BegunByWindow, PTL
    <3>. QED
      BY <2>8, <2>9, <2>10, <2>12, <3>1
  <2>. QED
    BY <2>8, <2>9, <2>10, <2>11, <2>12, <2>13, <2>14 DEF ReadInv, FreshInv
<1>10. CASE unread # <<>>
  <2>1. PICK n \in 1..Len(unread) :
          /\ n <= Remaining(r) /\ ReadsInto(r, n)
          /\ match' = Found(buf', 0, buf'.limit) /\ UNCHANGED <<eof, last, step, lines>>
    <3>1. Fill(r, Returns(NoLine) /\ start' = 0 /\ UNCHANGED match)
      BY <1>5, Zenon DEF Refill
    <3>2. \E n \in 1..Len(unread) :
            /\ n <= Remaining(r)
            /\ unread' = SubSeq(unread, n + 1, Len(unread))
            /\ buf' = Put(r, n)
            /\ start' = 0 /\ match' = Found(buf', 0, buf'.limit)
            /\ UNCHANGED <<eof, last, step, lines>>
      BY <1>10, <3>1, Zenon DEF Fill
    <3>. QED
      BY <1>1, <3>2, Zenon DEF ReadsInto
  <2>2. Shows(r.chars, 0, content, r.position, k) /\ k + r.position + Len(unread) = Len(content)
    BY <1>2, <1>5, <1>6
  <2>3. /\ unread' \in Seq(Chars) /\ Len(unread') <= Len(content') /\ Closes(content, unread)'
        /\ InOrderBuffer(buf)' /\ Consumed' = k /\ Gap' \in Nat /\ start' \in 0..buf'.limit
        /\ Shows(buf.chars, start, content, Gap, Consumed)'
    BY <1>3, <1>6, <1>7, <2>1, <2>2, Refilled
  <2>4. start' = 0 /\ Live' /\ step' = "read"
    BY <1>1, <2>1 DEF Live, ReadsInto
  <2>5. TextInv'
    BY <1>1, <1>3, <2>1, <2>3 DEF TextInv
  <2>6. WindowInv'
    BY <1>1, <1>7, <2>1, <2>3 DEF WindowInv
  <2>7. MatchInv'
    <3>1. PICK b : b = buf'
      OBVIOUS
    <3>2. b.limit \in Nat /\ start' = 0 /\ match' = Found(b, 0, b.limit)
      BY <2>1, <2>3, <2>4, <3>1 DEF InOrderBuffer, Buffer
    <3>3. SearchedFrom(b, 0, match')
      BY <3>2, FoundFacts
    <3>. QED
      BY <3>1, <3>2, <3>3 DEF MatchInv, SearchedFrom, FoundAt
  <2>8. LinesInv'
    BY <1>4, <1>5, <1>8, <2>1, <2>3 DEF LinesInv
  <2>9. PrefixInv'
    <3>1. (TextInv /\ WindowInv /\ LinesInv /\ Live => PrefixInv)'
      BY BegunByWindow, PTL
    <3>. QED
      BY <2>4, <2>5, <2>6, <2>8, <3>1
  <2>. QED
    BY <2>4, <2>5, <2>6, <2>7, <2>8, <2>9 DEF ReadInv, FreshInv, NullInv
<1>. QED
  BY <1>9, <1>10

LEMMA ReadStep == ReadInv /\ [ReadNext]_readVars => ReadInv'
<1>1. SUFFICES ASSUME ReadInv, [ReadNext]_readVars
               PROVE  ReadInv'
  OBVIOUS
<1>2. CASE Initialize
  BY <1>1, <1>2, InitializeKeeps
<1>3. CASE WasLineLookAhead
  BY <1>1, <1>3, WasLineLookAheadKeeps
<1>4. CASE Call
  BY <1>1, <1>4, CallKeeps
<1>5. CASE TakeLine
  BY <1>1, <1>5, TakeLineKeeps
<1>6. CASE AtEnd
  BY <1>1, <1>6, AtEndKeeps
<1>7. CASE Refill
  BY <1>1, <1>7, RefillKeeps
<1>8. CASE ReadFails
  BY <1>1, <1>8, ReadFailsKeeps
<1>9. CASE UNCHANGED readVars
  <2>1. UNCHANGED <<unread, buf, start, eof, match, last, step, content, lines>>
    BY <1>9 DEF readVars
  <2>2. Split' = Split /\ Parted' = Parted
    BY <2>1, SameText
  <2>3. Gap' = Gap /\ Consumed' = Consumed /\ (Live' <=> Live)
    BY <2>1 DEF Gap, Consumed, Live
  <2>4. TextInv' /\ FreshInv'
    BY <1>1, <2>1 DEF ReadInv, TextInv, Closes, FreshInv, InOrderBuffer
  <2>5. WindowInv' /\ MatchInv'
    BY <1>1, <2>1, <2>3 DEF ReadInv, WindowInv, Shows, InOrderBuffer, MatchInv, SearchedFrom, FoundAt
  <2>6. LinesInv' /\ NullInv' /\ PrefixInv'
    BY <1>1, <2>1, <2>2, <2>3 DEF ReadInv, LinesInv, NullInv, AllRead, PrefixInv, Begins
  <2>. QED
    BY <2>4, <2>5, <2>6 DEF ReadInv
<1>. QED
  BY <1>1, <1>2, <1>3, <1>4, <1>5, <1>6, <1>7, <1>8, <1>9 DEF ReadNext

\* The reader's buffer, and the lines it has returned, stay in step with the text.
THEOREM ReadInvariant == ReadSpec => []ReadInv
<1>. QED
  BY ReadInitially, ReadStep, PTL DEF ReadSpec

(***************************************************************************)
(* readLine() returns the lines of the text, in order, and null only when  *)
(* there is none left: whatever the text, the size of the buffer and the   *)
(* pieces that arrive.                                                     *)
(***************************************************************************)
THEOREM LinesRead == ReadSpec => []LinesOfText
<1>1. ReadInv => LinesOfText
  <2>1. SUFFICES ASSUME ReadInv
                 PROVE  LinesOfText
    OBVIOUS
  <2>2. lines \in Seq(Strings) /\ content \in Seq(Chars) /\ Begins(lines, Split)
    BY <2>1 DEF ReadInv, TextInv, PrefixInv
  <2>3. Split \in Seq(Strings)
    <3>1. 0 \in 0..Len(content)
      BY <2>2, LenProperties
    <3>. QED
      BY <2>2, <3>1, SplitFollows
  <2>4. IsPrefix(lines, Split)
    BY <2>2, <2>3, BeginsFacts
  <2>. QED
    BY <2>1, <2>4 DEF ReadInv, NullInv, AllRead, LinesOfText
<1>. QED
  BY ReadInvariant, <1>1, PTL
=============================================================================
