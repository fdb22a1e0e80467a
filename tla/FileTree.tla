-------------------------------- MODULE FileTree --------------------------------
(***************************************************************************)
(* find_files::walk_file_tree() and its two users: walkFileTree() of       *)
(* spartan.util.io.Files, whose visitor may answer anything, and           *)
(* findfiles(), which looks for one file.                                  *)
(*                                                                         *)
(* An entry of a directory has a name, the type readdir() tells and what   *)
(* stat() finds behind it: "dir", "reg", "other" or "none", a broken link. *)
(* The recursion is the stack of the directories that are open.            *)
(***************************************************************************)
EXTENDS Naturals, Sequences, SequencesExt

CONSTANTS Walks   \* [kids, follow, maxDepth, finds]: what is walked, and by whom

\* What is a directory can be listed.
ASSUME WalksAssumption ==
  \A w \in Walks :
    /\ "root" \in DOMAIN w.kids
    /\ \A d \in DOMAIN w.kids : \A e \in w.kids[d] : "dir" \in {e.type, e.stat} => e.dir \in DOMAIN w.kids

VARIABLES
  walk,    \* the walk
  open,    \* per open directory: [path, left, skip], the innermost last
  stop,    \* somebody has answered TERMINATE
  state,   \* "walking", "done", "failed": a findfiles_exception
  calls    \* what the visitor has been told and has answered, in order (history)

walkVars == <<walk, open, stop, state, calls>>

-----------------------------------------------------------------------------
Top == Last(open)
Depth == Len(open)

\* stat() where readdir() does not know the type, and for a link that is followed.
Stated(e) == e.type = "unknown" \/ (e.type = "lnk" /\ walk.follow)
Seen(e) == IF Stated(e) THEN e.stat ELSE e.type

\* The visitor is told the type that was seen, or that of the entry if stat() failed.
ToldType(e) == IF Seen(e) = "none" THEN e.type ELSE Seen(e)

Unreadable == "unexpected type"

\* findfiles() takes directories as they come, and nothing but those and files.
Answers(type) ==
  IF ~walk.finds THEN {"CONTINUE", "TERMINATE", "SKIP_SUBTREE", "SKIP_SIBLINGS"}
  ELSE IF type = "dir" THEN {"CONTINUE"}
  ELSE IF type = "reg" THEN {"CONTINUE", "TERMINATE"} ELSE {Unreadable}

\* The entry is done with; its siblings may be skipped.
Past(e, answer) ==
  [open EXCEPT ![Depth].left = @ \ {e}, ![Depth].skip = @ \/ answer = "SKIP_SIBLINGS"]

Entered(path, dir) == [path |-> path, left |-> walk.kids[dir], skip |-> FALSE]

Tells(kind, path, dir, answer) ==
  calls' = Append(calls, [kind |-> kind, path |-> path, dir |-> dir, answer |-> answer])

AtEntry(e) == state = "walking" /\ ~stop /\ e \in Top.left

-----------------------------------------------------------------------------
\* What the visitor answers to the first directory is not looked at; it may not open.
WalkInit ==
  /\ walk \in Walks
  /\ \/ open = <<Entered(<<>>, "root")>> /\ state = "walking"
     \/ open = <<>> /\ state = "failed"
  /\ \E a \in Answers("dir") : calls = <<[kind |-> "pre", path |-> <<>>, dir |-> "root", answer |-> a]>>
  /\ stop = FALSE

\* Siblings to be skipped, directories too deep, and what stat() says is neither.
PassOver(e) ==
  /\ AtEntry(e)
  /\ Top.skip \/ (Seen(e) = "dir" /\ Depth >= walk.maxDepth) \/ (Stated(e) /\ Seen(e) = "other")
  /\ open' = Past(e, "CONTINUE")
  /\ UNCHANGED <<walk, stop, state, calls>>

\* visit_dir(), up to where the directory has been opened; it may have gone in between.
VisitDir(e) ==
  /\ AtEntry(e) /\ ~Top.skip
  /\ Seen(e) = "dir" /\ Depth < walk.maxDepth
  /\ \E a \in Answers("dir") :
       /\ Tells("pre", Append(Top.path, e.name), e.dir, a)
       /\ stop' = (a = "TERMINATE")
       /\ IF a = "CONTINUE"
          THEN \/ /\ open' = Append(Past(e, a), Entered(Append(Top.path, e.name), e.dir))
                  /\ UNCHANGED state
               \/ open' = <<>> /\ state' = "failed"
          ELSE open' = Past(e, a) /\ UNCHANGED state
  /\ UNCHANGED walk

\* visit_file(), and VISIT_FILE_FAILED, which the Java visitor is told as any other file.
VisitFile(e) ==
  /\ AtEntry(e) /\ ~Top.skip
  /\ Seen(e) # "dir" /\ ~(Stated(e) /\ Seen(e) = "other")
  /\ \E a \in Answers(ToldType(e)) :
       /\ Tells("file", Append(Top.path, e.name), e.dir, a)
       /\ stop' = (a = "TERMINATE")
       /\ IF a = Unreadable THEN open' = <<>> /\ state' = "failed"
          ELSE open' = Past(e, a) /\ UNCHANGED state
  /\ UNCHANGED walk

\* Variant: the skipping of siblings goes on in the directory above.
OuterSkips == [Front(open) EXCEPT ![Depth - 1].skip = Top.skip]

\* What remains open when a directory has been left.
Outer == Front(open)

\* Variant: a walk that stops does not tell the directories it is in.
LeftUntold ==
  /\ state = "walking" /\ Depth > 1
  /\ stop \/ Top.left = {}
  /\ IF stop THEN UNCHANGED <<stop, calls>>
     ELSE \E a \in Answers("dir") : Tells("post", Top.path, "", a) /\ stop' = (a = "TERMINATE")
  /\ open' = Outer
  /\ UNCHANGED <<walk, state>>

\* visit_dir() after the walk of the directory, whether it was stopped or not.
LeaveDir ==
  /\ state = "walking" /\ Depth > 1
  /\ stop \/ Top.left = {}
  /\ \E a \in Answers("dir") :
       /\ Tells("post", Top.path, "", a)
       /\ stop' = (stop \/ a = "TERMINATE")
  /\ open' = Outer
  /\ UNCHANGED <<walk, state>>

\* The first directory is left without a word.
WalkDone ==
  /\ state = "walking" /\ Depth = 1
  /\ stop \/ Top.left = {}
  /\ state' = "done" /\ open' = <<>>
  /\ UNCHANGED <<walk, stop, calls>>

WalkNext ==
  \/ \E e \in UNION {walk.kids[d] : d \in DOMAIN walk.kids} :
       PassOver(e) \/ VisitDir(e) \/ VisitFile(e)
  \/ LeaveDir
  \/ WalkDone

WalkSpec == WalkInit /\ [][WalkNext]_walkVars

-----------------------------------------------------------------------------
(* Properties.                                                             *)

Indices == DOMAIN calls
Into(i) == calls[i].kind = "pre" /\ calls[i].answer = "CONTINUE" /\ calls[i].path # <<>>
LeavesOf(i, j) == j > i /\ calls[j].kind = "post" /\ calls[j].path = calls[i].path

(***************************************************************************)
(* Directories are left in the reverse order in which they were entered,   *)
(* each once, with all that was told of it in between: also when the       *)
(* visitor ends the walk deep in the tree, after which it hears of nothing *)
(* but the directories that are being left.                                *)
(***************************************************************************)
LeftInOrder ==
  /\ \A j \in Indices : calls[j].kind = "post" =>
       \E i \in 1..(j - 1) :
         /\ Into(i) /\ LeavesOf(i, j)
         /\ \A k \in (i + 1)..(j - 1) :
              calls[k].path # calls[i].path /\ IsPrefix(calls[i].path, calls[k].path)
  /\ state = "done" => \A i \in Indices : Into(i) => \E j \in Indices : LeavesOf(i, j)
  /\ \A i, j \in Indices : 1 < i /\ i < j /\ calls[i].answer = "TERMINATE" => calls[j].kind = "post"

(***************************************************************************)
(* A walk that nobody ends tells of every entry of the directories it has  *)
(* entered, but those that are too deep, are neither directory nor file    *)
(* behind a link, or are siblings the visitor wanted skipped; SKIP_SIBLINGS *)
(* in one directory takes nothing from any other.                          *)
(***************************************************************************)
NothingForgotten ==
  state = "done" /\ ~stop =>
    \A i \in Indices :
      LET dir == calls[i]
          Told(e) == \E j \in Indices : calls[j].path = Append(dir.path, e.name)
          skipped == \E j \in Indices : /\ calls[j].kind # "post" /\ calls[j].answer = "SKIP_SIBLINGS"
                                        /\ calls[j].path # <<>> /\ Front(calls[j].path) = dir.path
      IN (Into(i) \/ dir.path = <<>>) /\ ~skipped =>
           \A e \in walk.kids[dir.dir] :
             Told(e) \/ (Seen(e) = "dir" /\ Len(dir.path) + 1 >= walk.maxDepth)
                     \/ (Stated(e) /\ Seen(e) = "other")
===============================================================================
