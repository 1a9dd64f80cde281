----------------------------- MODULE LineHistory -----------------------------
(* The history of linenoise/src/linenoise.cpp: the calls of the application   *)
(* (linenoiseHistoryAdd, SetMaxLen, Load, Free), the entry that getInputLine() *)
(* adds for the line being edited and takes away when it returns, the recall  *)
(* of lines with the arrow and page keys, and the incremental search.  Of the *)
(* other keys, the module LineEditor's, a character typed, a backspace and a  *)
(* move to the start stand for those that change the line and the cursor.     *)
(*                                                                           *)
(* Lines are shorter than the buffer.  Once a search reads an entry with the  *)
(* length of a line edited since its recall, or the array is copied from the  *)
(* wrong end, the program works on memory of unknown content: broken, and     *)
(* nothing more happens.                                                     *)
EXTENDS Integers, Sequences

CONSTANTS Chars,
          AppLines,   \* what the application adds or preloads
          Files,      \* what a history file holds, lines in order
          DefaultMax, \* LINENOISE_DEFAULT_HISTORY_MAX_LEN, 1000 in the code
          MaxLens,    \* what SetMaxLen is called with
          MaxLine,    \* the user's lines are this long at most
          MaxText     \* and the text searched for

VARIABLES mode,      \* "app": outside linenoise(); "edit", "search": inside;
                     \* "closed": the input has ended
          hist,      \* history[0 .. historyLen - 1]
          max,       \* historyMaxLen
          idx,       \* historyIndex, from 0
          prev,      \* historyPreviousIndex
          recent,    \* historyRecallMostRecent
          buf, pos,  \* the line
          text,      \* previousSearchText; in a search, dp.searchText
          oldText,   \* previousSearchText during a search
          search,    \* the other variables of a search
          broken,
          kept,      \* history: the entries the prompt under way must leave
          astray,    \* history: idx has left the line shown, which a recall mends
          accepted   \* history: the older line accepted last that prev stands for
lineHistory == <<mode, hist, max, idx, prev, recent, buf, pos, text, oldText, search, broken, kept, astray, accepted>>

NoSearch == [dir |-> 0, again |-> FALSE, len |-> 0, at |-> 0, active |-> FALSE, from |-> <<>>]
Last(s) == s[Len(s)]
Front(s) == SubSeq(s, 1, Len(s) - 1)
Entry(i) == hist[i + 1]

-----------------------------------------------------------------------------
(* The application *)

\* linenoiseHistoryAdd(): a line equal to the last is refused, the oldest
\* makes room.
Refused(h, s) == h # <<>> /\ Last(h) = s
Full(h) == Len(h) = max
Added(h, s) == IF Refused(h, s) THEN h ELSE Append(IF Full(h) THEN Tail(h) ELSE h, s)
\* variant: the index kept for the down arrow does not move with the entries
PrevStays(h, s, p) == p
PrevAfter(h, s, p) == IF Refused(h, s) \/ ~Full(h) THEN p
                      ELSE IF p - 1 < -1 THEN -2 ELSE p - 1

Init == /\ mode = "app" /\ hist = <<>> /\ idx = 0 /\ prev = -2 /\ recent = FALSE
        /\ max = DefaultMax
        /\ buf = <<>> /\ pos = 0 /\ text = <<>> /\ oldText = <<>> /\ search = NoSearch
        /\ broken = FALSE /\ kept = <<>> /\ accepted = <<>> /\ astray = FALSE

Rest == <<mode, idx, recent, buf, pos, text, oldText, search, astray>>

Add(s) == /\ hist' = Added(hist, s) /\ kept' = hist'
          /\ prev' = PrevAfter(hist, s, prev)
          /\ UNCHANGED <<Rest, max, broken, accepted>>

\* linenoiseHistoryLoad() skips empty lines.
Load(file) ==
    LET After[i \in 0..Len(file)] ==
            IF i = 0 THEN [h |-> hist, p |-> prev]
            ELSE LET b == After[i - 1] IN
                 IF file[i] = <<>> THEN b
                 ELSE [h |-> Added(b.h, file[i]), p |-> PrevAfter(b.h, file[i], b.p)]
    IN /\ hist' = After[Len(file)].h /\ prev' = After[Len(file)].p /\ kept' = hist'
       /\ UNCHANGED <<Rest, max, broken, accepted>>

\* The entries copied are the last of the array, which a history that is not
\* full has not filled.
Copied(n) == SubSeq(hist, Len(hist) - n + 1, Len(hist))
SetMaxLen(m) ==
    /\ max' = m
    /\ IF hist = <<>> \/ Full(hist)
       THEN /\ hist' = Copied(IF m < Len(hist) THEN m ELSE Len(hist)) /\ UNCHANGED broken
       ELSE broken' = TRUE /\ UNCHANGED hist
    /\ kept' = hist' /\ accepted' = <<>>   \* prev is not moved with the entries
    /\ UNCHANGED <<Rest, prev>>

Free == hist' = <<>> /\ kept' = <<>> /\ accepted' = <<>> /\ UNCHANGED <<Rest, max, prev, broken>>

-----------------------------------------------------------------------------
(* getInputLine() *)

\* The line being edited, a preloaded one or none, becomes the last entry.
Prompt(s) ==
    /\ mode = "app" /\ mode' = "edit"
    /\ buf' = s /\ pos' = Len(s)
    /\ hist' = Added(hist, s) /\ prev' = PrevAfter(hist, s, prev)
    /\ idx' = Len(hist') - 1 /\ recent' = FALSE
    /\ kept' = Front(hist') /\ astray' = FALSE   \* a refused line takes the last entry's place
    /\ accepted' = IF Refused(hist, s) THEN <<>> ELSE accepted
    /\ UNCHANGED <<max, text, oldText, search, broken>>

Pop == hist' = Front(hist)
Leave == mode' = "app" /\ astray' = FALSE /\ UNCHANGED <<max, idx, text, oldText, search, broken, kept>>
Cleared == buf' = <<>> /\ pos' = 0   \* the buffer goes with the call

Accept == /\ prev' = IF recent THEN idx ELSE -2
          /\ accepted' = IF recent /\ ~astray /\ idx < Len(hist) - 1 THEN buf ELSE <<>>
          /\ recent' = FALSE /\ Pop /\ Cleared /\ Leave
\* ^C, and ^D on an empty line
Abort == /\ \/ recent' = FALSE
            \/ buf = <<>> /\ recent' = FALSE
         /\ Pop /\ Cleared /\ Leave /\ UNCHANGED <<prev, accepted>>

Edited(b, p) ==
    /\ buf' = b /\ pos' = p /\ recent' = FALSE
    /\ UNCHANGED <<mode, hist, max, idx, prev, text, oldText, search, broken, kept, astray, accepted>>
Type(c) == /\ Len(buf) < MaxLine
           /\ Edited(SubSeq(buf, 1, pos) \o <<c>> \o SubSeq(buf, pos + 1, Len(buf)), pos + 1)
Backspace == pos > 0 /\ Edited(SubSeq(buf, 1, pos - 1) \o SubSeq(buf, pos + 1, Len(buf)), pos - 1)
Home == pos > 0 /\ pos' = 0 /\ UNCHANGED <<mode, hist, max, idx, prev, recent, buf, text, oldText, search, broken, kept, astray, accepted>>

\* The line is stored before another is shown, unless it is itself recalled.
Stored == IF idx = Len(hist) - 1 THEN [hist EXCEPT ![Len(hist)] = buf] ELSE hist
Show(i) == /\ idx' = i /\ recent' = TRUE /\ astray' = FALSE
           /\ buf' = hist'[i + 1] /\ pos' = Len(buf')
\* The index of an arrow key, before it is put within bounds.
Wanted(up) == IF prev # -2 /\ ~up THEN prev + 1 ELSE IF up THEN idx - 1 ELSE idx + 1
Arrow(up) ==
    /\ hist' = Stored
    /\ IF Len(hist) = 1 THEN UNCHANGED <<idx, prev, recent, buf, pos, astray>>
       ELSE /\ prev' = -2
            /\ IF Wanted(up) \in 0..Len(hist) - 1 THEN Show(Wanted(up))
               ELSE /\ idx' = (IF up THEN 0 ELSE Len(hist) - 1)
                    /\ astray' = (astray \/ idx' # idx)
                    /\ UNCHANGED <<recent, buf, pos>>
    /\ UNCHANGED <<mode, max, text, oldText, search, broken, kept, accepted>>
Page(i) ==
    /\ i \in {0, Len(hist) - 1}
    /\ hist' = Stored
    /\ IF Len(hist) = 1 THEN UNCHANGED <<idx, prev, recent, buf, pos, astray>> ELSE prev' = -2 /\ Show(i)
    /\ UNCHANGED <<mode, max, text, oldText, search, broken, kept, accepted>>

-----------------------------------------------------------------------------
(* incrementalHistorySearch() *)

SearchStart(dir) ==
    /\ mode = "edit" /\ mode' = "search"
    /\ hist' = Stored /\ oldText' = text /\ text' = <<>>
    /\ search' = [NoSearch EXCEPT !.dir = dir, !.len = Len(buf), !.at = pos]
    /\ UNCHANGED <<max, idx, prev, recent, buf, pos, broken, kept, astray, accepted>>

\* The places of t: entry and position, both from 0; the nearest one from
\* position p of entry i on, in direction d, entry by entry.
In(t, i) == {p \in 0..Len(Entry(i)) - Len(t) : SubSeq(Entry(i), p + 1, p + Len(t)) = t}
Nearest(t, i, p, d) ==
    LET Ahead(j) == IF j # i THEN In(t, j) ELSE {q \in In(t, j) : IF d = 1 THEN q >= p ELSE q <= p}
        Best(S) == CHOOSE q \in S : \A r \in S : IF d = 1 THEN q <= r ELSE q >= r
        To == IF d = 1 THEN Len(hist) - 1 ELSE 0
        From[n \in 0..Len(hist) - 1] ==   \* n entries before the end
            LET j == IF d = 1 THEN To - n ELSE n IN
            IF Ahead(j) # {} THEN <<j, Best(Ahead(j))>> ELSE IF n = 0 THEN <<>> ELSE From[n - 1]
    IN From[IF d = 1 THEN To - i ELSE i]

\* One round of the loop with the text t, the direction d and the flag again.
Look(t, d, again) ==
    /\ text' = t
    /\ IF Len(Entry(idx)) # search.len
       THEN broken' = TRUE /\ UNCHANGED <<idx, search>>
       ELSE LET start == IF again THEN search.at + d ELSE search.at
                place == IF t = <<>> THEN <<>> ELSE Nearest(t, idx, start, d)
            IN /\ UNCHANGED broken
               /\ idx' = IF place = <<>> THEN idx ELSE place[1]
               /\ search' = [dir |-> d, again |-> again /\ t = <<>>, active |-> TRUE,
                             len |-> IF place = <<>> THEN search.len ELSE Len(Entry(place[1])),
                             at |-> IF place = <<>> THEN search.at ELSE place[2],
                             from |-> IF place = <<>> THEN <<>> ELSE <<idx, search.at, again>>]
    /\ UNCHANGED <<mode, hist, max, prev, recent, buf, pos, oldText, kept, astray, accepted>>

\* ^R and ^S: the same direction searches on, the other one turns.
Again(d) == LET t == IF text = <<>> THEN oldText ELSE text IN
            Look(t, d, search.again \/ search.dir = d)
MoreText(c) == Len(text) < MaxText /\ Look(Append(text, c), search.dir, search.again)
\* ^H; and any key that changes nothing, such as ^Y, searches as well.
LessText == Look(IF text = <<>> THEN text ELSE Front(text), search.dir, search.again)
Idle == Look(text, search.dir, search.again)

SearchEnds(use) ==
    /\ mode' = "edit" /\ search' = NoSearch /\ oldText' = <<>>
    /\ IF use /\ search.active
       THEN recent' = TRUE /\ buf' = Entry(idx) /\ pos' = search.at /\ astray' = FALSE
       ELSE /\ astray' = (astray \/ buf # Entry(idx))
            /\ UNCHANGED <<recent, buf, pos>>
    /\ UNCHANGED <<hist, max, idx, prev, text, broken, kept, accepted>>

\* read() fails: c == 0 returns at once from the prompt and leaves the entry.
\* The input has ended; what the application does after it is not modelled.
\* (A search only beeps, and reads again.)
Closed == mode' = "closed" /\ Cleared /\ recent' = FALSE
          /\ UNCHANGED <<hist, max, idx, prev, text, oldText, search, broken, kept, astray, accepted>>

Application == /\ mode = "app"
               /\ \/ \E s \in AppLines : Add(s)
                  \/ \E f \in Files : Load(f)
                  \/ \E m \in MaxLens : SetMaxLen(m)
                  \/ Free
Editing == /\ mode = "edit"
           /\ \/ Accept \/ Abort \/ Closed \/ Backspace \/ Home
              \/ \E c \in Chars : Type(c)
              \/ \E up \in BOOLEAN : Arrow(up)
              \/ \E i \in 0..Len(hist) - 1 : Page(i)
Searching == /\ mode = "search"
             /\ \/ \E d \in {-1, 1} : Again(d)
                \/ \E c \in Chars : MoreText(c)
                \/ LessText \/ Idle
                \/ \E use \in BOOLEAN : SearchEnds(use)

Next == /\ ~broken
        /\ \/ \E s \in AppLines \cup {<<>>} : Prompt(s)
           \/ \E d \in {-1, 1} : SearchStart(d)
           \/ Application \/ Editing \/ Searching

-----------------------------------------------------------------------------
\* While a line is edited the entries before its own stay as they were, and
\* when linenoise() returns exactly they are left.
EntriesStay == ~broken => IF mode = "app" THEN hist = kept ELSE Front(hist) = kept
\* A line taken for a recalled one is the entry that the index names.
RecallTells == mode = "edit" /\ recent /\ ~astray => buf = Entry(idx)
\* The index kept for the down arrow names the line that was accepted.
PrevTells == mode = "app" /\ ~broken /\ prev >= 0 /\ accepted # <<>> => prev < Len(hist) /\ Entry(prev) = accepted
\* A search shows the text it looks for, and between where it stood and where
\* it stands there is no other place with it.
SearchShows ==
    mode = "search" /\ search.from # <<>> /\ ~broken =>
        LET i == search.from[1]
            p == IF search.from[3] THEN search.from[2] + search.dir ELSE search.from[2]
            Before(q, j) == IF search.dir = 1 THEN q < j ELSE q > j
        IN /\ search.at \in In(text, idx)
           /\ \A j \in 0..Len(hist) - 1 : \A q \in In(text, j) :
                ~ /\ Before(i, j) \/ (i = j /\ ~Before(q, p))
                  /\ Before(j, idx) \/ (j = idx /\ Before(q, search.at))
=============================================================================
