------------------------------- MODULE ReadLine -------------------------------
(***************************************************************************)
(* spartan.util.io.ReadLine: lines of text out of one buffer that is       *)
(* compacted, or doubled, and refilled with what the reader happens to     *)
(* have.  The buffer is a java.nio.CharBuffer: characters behind its limit *)
(* stay where they were.  Positions count from 0, as in the code.          *)
(***************************************************************************)
EXTENDS Naturals, Sequences, SequencesExt

CONSTANTS
  Texts,       \* what the reader will deliver
  Capacities,  \* initial sizes of the buffer
  CR, LF,      \* the characters of "\r?\n"
  NoLine       \* null, and "no match"

Chars == {CR, LF} \cup UNION {{text[i] : i \in DOMAIN text} : text \in Texts}
ASSUME ReadAssumption ==
  /\ Texts \subseteq Seq(Chars) /\ CR # LF
  /\ Capacities \subseteq Nat \ {0}
  /\ NoLine \notin Seq(Chars) /\ NoLine \notin [from : Nat, to : Nat]

VARIABLES
  unread,      \* what the reader has still to deliver
  buf,         \* [chars, position, limit]: chars is as long as the capacity
  start,       \* nextStartPos
  eof,
  match,       \* [from, to] of the end-of-line that matcher.find() found, if eol_found
  lookAhead,
  last,        \* the last line
  step,        \* "init", "idle", "read": inside a call, or "gone": an IOException
  content, lines  \* what the reader delivers in all; the lines returned so far (history)

readVars == <<unread, buf, start, eof, match, lookAhead, last, step, content, lines>>

-----------------------------------------------------------------------------
Slice(b, from, to) == SubSeq(b.chars, from + 1, to)
Remaining(b) == b.limit - b.position
Capacity(b) == Len(b.chars)
Blanks(n) == [i \in 1..n |-> LF]

\* find() in the region from..to: the first line feed, with a carriage return before it.
Found(b, from, to) ==
  LET feeds == {i \in from..(to - 1) : b.chars[i + 1] = LF}
      at == CHOOSE i \in feeds : \A j \in feeds : i <= j
  IN IF feeds = {} THEN NoLine
     ELSE [from |-> IF at > from /\ b.chars[at] = CR THEN at - 1 ELSE at, to |-> at + 1]

Cleared(b) == [b EXCEPT !.position = 0, !.limit = Capacity(b)]

\* Variant: the buffer is not compacted, and read over.
NotCompacted(b) == Cleared(b)

Compacted(b) ==
  [chars |-> [i \in 1..Capacity(b) |->
                IF i <= Remaining(b) THEN b.chars[b.position + i] ELSE b.chars[i]],
   position |-> Remaining(b), limit |-> Capacity(b)]

Doubled(b) ==
  [chars |-> b.chars \o Blanks(Capacity(b)), position |-> Capacity(b), limit |-> 2 * Capacity(b)]

\* What readLineImpl() does to the buffer before it fills it.
Room(b) ==
  IF Remaining(b) = 0 THEN Cleared(b)
  ELSE IF Remaining(b) < Capacity(b) THEN Compacted(b) ELSE Doubled(b)

\* rdr.read(buffer) delivers n characters, then flip().
Put(b, n) ==
  [chars |-> [i \in 1..Capacity(b) |->
                IF i \in (b.position + 1)..(b.position + n) THEN unread[i - b.position] ELSE b.chars[i]],
   position |-> 0, limit |-> b.position + n]

\* fillBuffer() and what its callers do with the result; done: with nothing to look at.
Fill(b, done) ==
  IF unread = <<>>
  THEN LET filled == [b EXCEPT !.position = 0, !.limit = b.position]
       IN /\ eof' = TRUE /\ UNCHANGED unread
          /\ buf' = filled
          /\ IF Remaining(filled) > 0 /\ Remaining(b) > 0
             THEN start' = 0 /\ match' = Found(filled, 0, filled.limit) /\ UNCHANGED <<last, step, lines>>
             ELSE done
  ELSE \E n \in 1..Len(unread) :
         /\ n <= Remaining(b)
         /\ unread' = SubSeq(unread, n + 1, Len(unread))
         /\ buf' = Put(b, n)
         /\ start' = 0 /\ match' = Found(buf', 0, buf'.limit)
         /\ UNCHANGED <<eof, last, step, lines>>

\* A line, or null, is returned.
Returns(line) ==
  /\ last' = line
  /\ lines' = IF line = NoLine THEN lines ELSE Append(lines, line)
  /\ step' = "idle"

-----------------------------------------------------------------------------
ReadInit ==
  /\ content \in Texts
  /\ unread = content
  /\ \E n \in Capacities : buf = [chars |-> Blanks(n), position |-> 0, limit |-> n]
  /\ start = 0 /\ eof = FALSE /\ match = NoLine
  /\ lookAhead = FALSE /\ last = NoLine /\ step = "init" /\ lines = <<>>

\* The constructor fills the buffer, with what there is for the first time.
Initialize ==
  /\ step = "init"
  /\ \/ /\ unread = <<>>
        /\ eof' = TRUE /\ buf' = [buf EXCEPT !.limit = 0]
        /\ UNCHANGED <<unread, start, match>>
     \/ \E n \in 1..Len(unread) :
          /\ n <= Remaining(buf)
          /\ unread' = SubSeq(unread, n + 1, Len(unread))
          /\ buf' = Put(buf, n)
          /\ match' = Found(buf', 0, buf'.limit)
          /\ UNCHANGED <<eof, start>>
  /\ step' = "idle"
  /\ UNCHANGED <<lookAhead, last, content, lines>>

WasLineLookAhead ==
  /\ step = "idle" /\ last # NoLine
  /\ lookAhead' = TRUE
  /\ UNCHANGED <<unread, buf, start, eof, match, last, step, content, lines>>

\* After wasLineLookAhead() the last line is returned again.
Call ==
  /\ step = "idle"
  /\ IF lookAhead THEN lookAhead' = FALSE /\ UNCHANGED step ELSE step' = "read" /\ UNCHANGED lookAhead
  /\ UNCHANGED <<unread, buf, start, eof, match, last, content, lines>>

\* eol_found for the next call: is there another one in the buffer?
SearchedOn == IF match.to < buf.limit THEN Found(buf, match.to, buf.limit) ELSE NoLine

TakeLine ==
  /\ step = "read"
  /\ match # NoLine
  /\ Returns(Slice(buf, start, match.from))
  /\ start' = match.to
  /\ match' = SearchedOn
  /\ UNCHANGED <<unread, buf, eof, lookAhead, content>>

Rest(b) == IF Remaining(b) > 0 THEN Slice(b, b.position, b.limit) ELSE NoLine

Positioned == [buf EXCEPT !.position = start]

AtEnd ==
  /\ step = "read" /\ match = NoLine /\ eof
  /\ Returns(Rest(Positioned))
  /\ start' = buf.limit
  /\ buf' = IF Rest(Positioned) = NoLine THEN [buf EXCEPT !.position = buf.limit] ELSE Positioned
  /\ UNCHANGED <<unread, eof, match, lookAhead, content>>

Refill ==
  /\ step = "read" /\ match = NoLine /\ ~eof
  /\ Fill(Room(Positioned), Returns(NoLine) /\ start' = 0 /\ UNCHANGED match)
  /\ UNCHANGED <<lookAhead, content>>

\* An IOException out of rdr.read(); the buffer is ready for writing, nextStartPos is not.
ReadFails ==
  /\ step = "read" /\ match = NoLine /\ ~eof
  /\ buf' = Room(Positioned)
  /\ step' = "gone"
  /\ UNCHANGED <<unread, start, eof, match, lookAhead, last, content, lines>>

ReadNext == Initialize \/ WasLineLookAhead \/ Call \/ TakeLine \/ AtEnd \/ Refill \/ ReadFails

ReadSpec == ReadInit /\ [][ReadNext]_readVars

-----------------------------------------------------------------------------
(* Properties.                                                             *)

\* The reference: the text read one character at a time, with what follows the last end of line.
LineUpto(from, n) == SubSeq(content, from, IF n > from /\ content[n - 1] = CR THEN n - 2 ELSE n - 1)
Parted ==
  LET upTo[n \in 0..Len(content)] ==
        IF n = 0 THEN [lines |-> <<>>, from |-> 1]
        ELSE IF content[n] = LF
        THEN [lines |-> Append(upTo[n - 1].lines, LineUpto(upTo[n - 1].from, n)), from |-> n + 1]
        ELSE upTo[n - 1]
  IN upTo
Split ==
  LET all == Parted[Len(content)]
  IN IF all.from > Len(content) THEN all.lines
     ELSE Append(all.lines, SubSeq(content, all.from, Len(content)))

(***************************************************************************)
(* Whatever pieces the reader delivers and whatever size the buffer has,   *)
(* the lines returned are those of the text, in order, and null means that *)
(* there is none left.                                                     *)
(***************************************************************************)
LinesOfText ==
  /\ IsPrefix(lines, Split)
  /\ step = "idle" /\ eof /\ last = NoLine => lines = Split
===============================================================================
