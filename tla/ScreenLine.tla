------------------------------ MODULE ScreenLine ------------------------------
(* How linenoise/src/linenoise.cpp draws the line: the prompt, refreshLine(), *)
(* the shortcut for a character typed at the end, clearScreen(), and          *)
(* dynamicRefresh() with the search prompt; and a terminal that executes what *)
(* is written.  The editor never asks where the cursor is: it counts rows.    *)
(* A line is the sequence of the widths of its characters.  Colours, and      *)
(* writes that fail, are left out.                                            *)
EXTENDS Integers, Sequences, SequencesExt

CONSTANTS Columns,      \* promptScreenColumns
          Prompts_,     \* prompts: sequences of 1, a character, and NL
          NL,
          SearchPrompt, \* characters of "(reverse-i-search)`" and "': ", 22 or 13
          MaxText,      \* characters searched for
          Kinds,        \* of the characters typed: narrow, wide, combining
          MaxLine,      \* characters in a line
          Recalled      \* what the history brings

VARIABLES term,        \* the terminal: row, column and the cells written
          indent,      \* pi.promptIndentation
          extra,       \* pi.promptExtraLines
          rowOffset,   \* pi.promptCursorRowOffset
          line, pos,   \* the widths of buf32, and the cursor
          dp,          \* the search's DynamicPrompt, or NoSearch
          prompt,      \* pi.promptText
          base         \* history: the row of the prompt's last line, and what
                       \* stands above it
screenLine == <<term, indent, extra, rowOffset, line, pos, dp, prompt, base>>

NoSearch == [chars |-> 0, extra |-> 0, rowOffset |-> 0]

-----------------------------------------------------------------------------
(* The terminal *)
\* A character that does not fit in the row goes to the next one; a cursor
\* behind the last column waits there.
PutChar(t, w) ==
    LET r == IF t.col + w > Columns THEN t.row + 1 ELSE t.row
        c == IF t.col + w > Columns THEN 0 ELSE t.col
    IN [row |-> r, col |-> c + w, cells |-> t.cells \cup {<<r, i>> : i \in c..c + w - 1}]
Newline(t) == [t EXCEPT !.row = @ + 1, !.col = 0]
Write(t, s) == FoldLeft(LAMBDA u, w : IF w = NL THEN Newline(u) ELSE PutChar(u, w), t, s)
Up(t, n) == IF n > 0 THEN [t EXCEPT !.row = @ - n] ELSE t
ToColumn(t, c) == [t EXCEPT !.col = c]
ClearBelow(t) == [t EXCEPT !.cells = {x \in @ : x[1] < t.row \/ (x[1] = t.row /\ x[2] < t.col)}]
Ones(n) == [i \in 1..n |-> 1]

-----------------------------------------------------------------------------
\* Control characters, which have no width, are not in a line.
mk_wcwidth(kind) == CASE kind = "combining" -> 0 [] kind = "wide" -> 2 [] kind = "narrow" -> 1
mk_wcswidth(widths) == FoldLeft(LAMBDA a, b : a + b, 0, widths)
\* calculateColumnPosition() of the first n characters
Width(l, n) == mk_wcswidth(SubSeq(l, 1, n))
\* calculateScreenPosition() from column x of row y
Position(x, y, chars) == [x |-> (x + chars) % Columns, y |-> y + (x + chars) \div Columns]

\* PromptInfo: a full row or a newline starts a new one.
Measured(p) == FoldLeft(LAMBDA m, c : IF c = NL \/ m.x + 1 >= Columns THEN [x |-> 0, extra |-> m.extra + 1, indent |-> 0]
                                      ELSE [m EXCEPT !.x = @ + 1, !.indent = @ + 1],
                        [x |-> 0, extra |-> 0, indent |-> 0], p)

\* The newline that a terminal leaves out where the text ends at the edge.
AtEdge(t, end) == IF end.x = 0 /\ end.y > 0 THEN Newline(t) ELSE t

\* pi.write() and what follows it, in getInputLine() and clearScreen()
Prompted(t, p) == LET m == Measured(p) IN AtEdge(Write(t, p), [x |-> m.indent, y |-> m.extra])
Above(t) == [row |-> t.row, above |-> {x \in t.cells : x[1] < t.row}]

\* refreshLine() of line l with the cursor at p, in the row that offset says.
Refreshed(t, offset, l, p) ==
    LET end == Position(indent, 0, Width(l, Len(l)))
        cursor == Position(indent, 0, Width(l, p))
        cleared == ClearBelow(ToColumn(Up(t, offset - extra), indent))
        shown == AtEdge(Write(cleared, l), end)
    IN ToColumn(Up(shown, end.y - cursor.y), cursor.x)
RowOffset(l, p) == extra + Position(indent, 0, Width(l, p)).y

\* dynamicRefresh() of a prompt of n characters and line l.
Dynamic(t, movement, n, l, p) ==
    LET start == Position(0, 0, n)
        end == Position(start.x, start.y, Width(l, Len(l)))
        cursor == Position(start.x, start.y, Width(l, p))
        cleared == ClearBelow(ToColumn(Up(t, movement), 0))
        shown == AtEdge(Write(Write(cleared, Ones(n)), l), end)
    IN [term |-> ToColumn(Up(shown, end.y - cursor.y), cursor.x), row |-> cursor.y]

-----------------------------------------------------------------------------
Init ==
    /\ prompt \in Prompts_
    /\ LET m == Measured(prompt) IN indent = m.indent /\ extra = m.extra /\ rowOffset = m.extra
    /\ term = Prompted([row |-> 0, col |-> 0, cells |-> {}], prompt)
    /\ base = Above(term)
    /\ line = <<>> /\ pos = 0 /\ dp = NoSearch

Refresh(l, p) == /\ line' = l /\ pos' = p
                 /\ term' = Refreshed(term, rowOffset, l, p)
                 /\ rowOffset' = RowOffset(l, p)
                 /\ UNCHANGED <<indent, extra, dp, prompt, base>>

\* A character at the end of a line that stays within its first row is just
\* written.
Short(l) == indent + Width(l, Len(l)) < Columns
Type(w) ==
    /\ Len(line) < MaxLine
    /\ LET l == SubSeq(line, 1, pos) \o <<w>> \o SubSeq(line, pos + 1, Len(line)) IN
       IF pos = Len(line) /\ Short(l)
       THEN /\ line' = l /\ pos' = pos + 1 /\ term' = Write(term, <<w>>)
            /\ UNCHANGED <<indent, extra, rowOffset, dp, prompt, base>>
       ELSE Refresh(l, pos + 1)
Backspace == pos > 0 /\ Refresh(RemoveAt(line, pos), pos - 1)
Move(p) == Refresh(line, p)
Recall(l) == Refresh(l, Len(l))

ClearScreen ==
    LET t == Prompted([row |-> 0, col |-> 0, cells |-> {}], prompt) IN
    /\ term' = Refreshed(t, extra, line, pos) /\ rowOffset' = RowOffset(line, pos)
    /\ base' = Above(t)
    /\ UNCHANGED <<indent, extra, line, pos, dp, prompt>>

\* incrementalHistorySearch(): an empty line is drawn, then the search prompt
\* in the prompt's last row.
Show(t, movement, d, l, p) ==
    LET r == Dynamic(t, movement, d.chars, l, p) IN
    /\ term' = r.term /\ dp' = [d EXCEPT !.rowOffset = d.extra + r.row]
    /\ line' = l /\ pos' = p
    /\ UNCHANGED <<indent, extra, rowOffset, prompt, base>>
Search ==
    LET d == [chars |-> SearchPrompt, extra |-> Position(0, 0, SearchPrompt).y, rowOffset |-> 0]
        erased == Refreshed(term, rowOffset, <<>>, 0)
    IN Show(erased, 0 - d.extra, d, line, pos)
SearchStep(n, l, p) == Show(term, dp.rowOffset - dp.extra, [dp EXCEPT !.chars = SearchPrompt + n], l, p)
\* The prompt's last line returns, as a prompt without extra lines.
SearchEnds ==
    LET r == Dynamic(term, dp.rowOffset, indent, line, pos) IN
    /\ term' = r.term /\ rowOffset' = extra + r.row /\ dp' = NoSearch
    /\ UNCHANGED <<indent, extra, line, pos, prompt, base>>

\* A wide character that does not fit in the row: the terminal breaks the row
\* before it, the count does not.
Breaks(start, l) == \E i \in 1..Len(l) :
    LET c == (start + Width(l, i - 1)) % Columns IN c + l[i] > Columns
Start == IF dp = NoSearch THEN indent ELSE dp.chars
\* Bound: what is drawn after that, or after a search prompt that fills its
\* row alone, is not followed.
Astray == Breaks(Start, line) \/ (dp # NoSearch /\ SearchPrompt >= Columns)

Next ==
    \/ /\ dp = NoSearch /\ ~Astray
       /\ \/ \E kind \in Kinds : Type(mk_wcwidth(kind))
          \/ Backspace \/ ClearScreen \/ Search
          \/ \E p \in 0..Len(line) : Move(p)
          \/ \E l \in Recalled : Recall(l)
    \/ /\ dp # NoSearch /\ ~Astray
       /\ \/ \E n \in 0..MaxText, l \in Recalled : \E p \in 0..Len(l) : SearchStep(n, l, p)
          \/ SearchEnds

-----------------------------------------------------------------------------
Cells(n) == {<<base.row + i \div Columns, i % Columns>> : i \in 0..n - 1}
\* The count of rows is right: whatever was typed, recalled, searched for and
\* deleted before, the screen shows the prompt and the line, nothing else
\* below what stood above the prompt's last row, and the cursor at its
\* character; unless a wide character meets the edge, or the search prompt
\* alone fills a row.
ScreenTells ==
    ~Astray =>
        /\ term.cells = base.above \cup Cells(Start + Width(line, Len(line)))
        /\ LET at == Position(Start, 0, Width(line, pos)) IN
           term.row = base.row + at.y /\ term.col = at.x
=============================================================================
