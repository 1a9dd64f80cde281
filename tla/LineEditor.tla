----------------------------- MODULE LineEditor -----------------------------
(* The line being edited by linenoise() and the kill ring of                 *)
(* linenoise/src/linenoise.cpp: InputBuffer::getInputLine() one key at a      *)
(* time, KillRing, and the part of completeLine() that changes the line.     *)
(*                                                                           *)
(* A character is a letter, a mark or the blank: the classes that the word   *)
(* commands tell apart.  The commands that change the case of a word move    *)
(* over it.  What history recall and history search leave in the line is any *)
(* of Lines here; the module LineHistory has their steps.  ^L, ^Z and a      *)
(* resize redraw and change nothing.                                         *)
EXTENDS Naturals, Sequences

CONSTANTS Letters, Marks, Blank,  \* the characters
          BufLen,                 \* buflen, 8095 in the code
          Capacity,               \* KillRing::capacity, 10 in the code
          MaxEntry,               \* bound: the longest entry that kills merge into
          Lines,                  \* what a recall, a search or a preload brings
          Extensions              \* what the application completes a word with

VARIABLES buf,           \* the first len characters of buf32
          pos,           \* the cursor, 0 .. len
          open,          \* getInputLine() is running
          ring,          \* theRing, the most recent entry first
          index,         \* the entry that yank() gives, from 0
          lastAction,    \* killRing.lastAction
          lastYankSize,  \* killRing.lastYankSize while lastAction is "yank";
                         \* at other times nothing reads it, and it is 0 here
          origin         \* history: the line that the kills under way began
                         \* with, the entry that they go into put at its cursor,
                         \* or the line and the cursor that the last yank began
                         \* with; own, the entry is theirs alone, or the text
                         \* before the cursor is the yank's
lineEditor == <<buf, pos, open, ring, index, lastAction, lastYankSize, origin>>

Chars == Letters \cup Marks \cup {Blank}
Least(i, j) == IF i < j THEN i ELSE j
Cut(from, to) == SubSeq(buf, 1, from) \o SubSeq(buf, to + 1, Len(buf))
Insert(s, at, t) == SubSeq(s, 1, at) \o t \o SubSeq(s, at + 1, Len(s))

\* Right(p, S): the first position from p on that no character of S follows;
\* Left(p, S): the last position up to p that no character of S precedes.
Right(p, S) == CHOOSE q \in p..Len(buf) :
    /\ q = Len(buf) \/ buf[q + 1] \notin S
    /\ \A r \in p + 1..q : buf[r] \in S
Left(p, S) == CHOOSE q \in 0..p :
    /\ q = 0 \/ buf[q] \notin S
    /\ \A r \in q + 1..p : buf[r] \in S
WordRight == Right(Right(pos, Chars \ Letters), Letters)
WordLeft == Left(Left(pos, Chars \ Letters), Letters)
BlankLeft == Left(Left(pos, {Blank}), Chars \ {Blank})

From(s, p, own) == [line |-> s, at |-> p, own |-> own]
Into(s, p, entry) == From(Insert(s, p, entry), 0, entry = <<>>)
Init == /\ buf = <<>> /\ pos = 0 /\ open = FALSE /\ origin = From(<<>>, 0, TRUE)
        /\ ring = <<>> /\ index = 0 /\ lastAction = "other" /\ lastYankSize = 0

-----------------------------------------------------------------------------
\* A command that is neither a kill nor a yank, and leaves the line b.
Other(b, p) ==
    /\ buf' = b /\ pos' = p /\ lastAction' = "other" /\ origin' = From(b, 0, TRUE)
    /\ lastYankSize' = 0 /\ UNCHANGED <<ring, index>>

\* linenoise(): a new buffer, with the preloaded text if there is one.
Start(s) == ~open /\ open' = TRUE /\ Other(s, Len(s))
\* ^J, ^M and ^C put the cursor at the end and return; ^D returns on an empty
\* line.
Return == open' = FALSE /\ \/ Other(buf, Len(buf))
                           \/ buf = <<>> /\ Other(buf, pos)

Move == \E p \in {0, Len(buf), WordLeft, WordRight, pos + 1} \cup (IF pos = 0 THEN {} ELSE {pos - 1}) :
            p <= Len(buf) /\ Other(buf, p)

\* M-c, M-l and M-u change the case of letters up to the end of the word.
ChangeCase == Other(buf, WordRight)

\* The default: a character is inserted unless the buffer is full.
Type(c) == IF Len(buf) < BufLen THEN Other(Insert(buf, pos, <<c>>), pos + 1) ELSE Other(buf, pos)
Delete == pos < Len(buf) /\ Other(Cut(pos, pos + 1), pos)
Backspace == pos > 0 /\ Other(Cut(pos - 1, pos), pos - 1)

Transpose ==
    /\ pos > 0 /\ Len(buf) > 1
    /\ LET l == IF pos = Len(buf) THEN pos - 1 ELSE pos IN
       Other([buf EXCEPT ![l] = buf[l + 1], ![l + 1] = buf[l]], IF pos = Len(buf) THEN pos ELSE pos + 1)

\* completeLine(): the item before the cursor becomes the longest prefix the
\* completions share, cut so that the line fits.
Complete(more) ==
    /\ pos > 0
    /\ LET start == Left(pos, Letters)
           kept == Least(Len(more), BufLen - Len(buf))
       IN Other(SubSeq(buf, 1, start) \o SubSeq(buf, start + 1, pos) \o SubSeq(more, 1, kept)
                  \o SubSeq(buf, pos + 1, Len(buf)), pos + kept)

Recall(s) == Other(s, Len(s))
\* The entry that further kills go into
Entry == IF ring = <<>> THEN <<>> ELSE ring[1]
\* A search leaves lastAction as it is, and executes the key that ended it.
\* Kills before it and after it are one run, and M-y takes as many characters
\* of the line found as were yanked into the line before.
Search(s, p) ==
    /\ lastAction # "other"
    /\ buf' = s /\ pos' = p
    /\ origin' = IF lastAction = "kill" THEN Into(s, p, Entry)
                 ELSE LET from == IF lastYankSize <= p THEN p - lastYankSize ELSE p IN
                      From(SubSeq(s, 1, from) \o SubSeq(s, p + 1, Len(s)), from, FALSE)
    /\ UNCHANGED <<ring, index, lastAction, lastYankSize>>

-----------------------------------------------------------------------------
NewEntry(text) == <<text>> \o SubSeq(ring, 1, Least(Len(ring), Capacity - 1))
Merged(text, forward) == [ring EXCEPT ![1] = IF forward THEN @ \o text ELSE text \o @]

\* KillRing::kill().  Kills and searches in turn lengthen an entry for ever.
KillText(text, forward) ==
    IF text = <<>> THEN UNCHANGED <<ring, index>>
    ELSE IF lastAction = "kill" /\ ring # <<>>
    THEN /\ Len(ring[1]) + Len(text) <= MaxEntry
         /\ ring' = Merged(text, forward) /\ UNCHANGED index
    ELSE ring' = NewEntry(text) /\ index' = 0

Kill(from, to, forward) ==
    /\ KillText(SubSeq(buf, from + 1, to), forward)
    /\ buf' = Cut(from, to) /\ pos' = from /\ lastAction' = "kill"
    /\ origin' = IF lastAction = "kill" THEN origin
                 ELSE Into(buf, pos, IF from = to THEN Entry ELSE <<>>)
    /\ lastYankSize' = 0

\* ^K and M-d kill to the right; ^U, ^W and M-^H to the left.
KillRight == \E to \in {Len(buf), WordRight} : Kill(pos, to, TRUE)
KillLeft == \E from \in {0, BlankLeft, WordLeft} : Kill(from, pos, FALSE)

YankFits(text, room) == SubSeq(text, 1, Least(Len(text), room))
Yank ==
    /\ ring # <<>>
    /\ LET text == YankFits(ring[index + 1], BufLen - Len(buf)) IN
       /\ buf' = Insert(buf, pos, text) /\ pos' = pos + Len(text)
       /\ lastYankSize' = Len(text)
    /\ lastAction' = "yank" /\ origin' = From(buf, pos, TRUE)
    /\ UNCHANGED <<ring, index>>

Next_ == (index + 1) % Len(ring)
\* M-y after a search may reach before the line, where nothing is defined:
\* that key is not pressed here.
YankPop ==
    /\ lastAction = "yank" /\ lastYankSize <= pos
    /\ index' = Next_
    /\ LET text == YankFits(ring[Next_ + 1], lastYankSize + BufLen - Len(buf)) IN
       /\ buf' = Insert(Cut(pos - lastYankSize, pos), pos - lastYankSize, text)
       /\ pos' = pos - lastYankSize + Len(text)
       /\ lastYankSize' = Len(text)
    /\ origin' = [origin EXCEPT !.own = TRUE]
    /\ UNCHANGED <<ring, lastAction>>

Key == \/ Move \/ ChangeCase \/ Delete \/ Backspace \/ Transpose
       \/ \E c \in Chars : Type(c)
       \/ \E more \in Extensions : Complete(more)
       \/ \E s \in Lines : Recall(s) \/ \E p \in 0..Len(s) : Search(s, p)
       \/ KillRight \/ KillLeft \/ Yank \/ YankPop

Next == \/ \E s \in Lines : Start(s)
        \/ open /\ Return
        \/ open /\ Key /\ UNCHANGED open

-----------------------------------------------------------------------------
\* However many kills run together, in either direction, the most recent entry
\* put back at the cursor is the line they began with, with the entry they go
\* into at the cursor as it was.  That entry is none, and one yank brings the
\* line back, unless the run begins with a kill of nothing, which lets the next
\* one lengthen the entry before, or goes on in a line that a search found.
RunUndone ==
    lastAction = "kill" =>
        /\ Insert(buf, pos, Entry) = origin.line
        /\ origin.own => index = 0
\* After a yank and any number of yank-pops the cursor stands after a part of
\* the entry shown, whole unless the line is full, in the line as it was.  If a
\* search found the line in between, the first yank-pop takes the characters
\* before the cursor for the text yanked, and the line is the one found less
\* these.
YankStands ==
    lastAction = "yank" =>
        /\ lastYankSize <= pos =>
             Cut(pos - lastYankSize, pos) = origin.line /\ pos - lastYankSize = origin.at
        /\ origin.own =>
             /\ lastYankSize <= pos
             /\ SubSeq(buf, pos - lastYankSize + 1, pos) = SubSeq(ring[index + 1], 1, lastYankSize)
             /\ lastYankSize < Len(ring[index + 1]) => Len(buf) = BufLen
\* The line fits its buffer and the cursor the line, whatever was typed,
\* completed, yanked or recalled.
LineFits == Len(buf) <= BufLen /\ pos <= Len(buf) /\ index < Len(ring) + 1
=============================================================================
