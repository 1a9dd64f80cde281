----------------------------- MODULE Completions -----------------------------
(* linenoise: the list of the completions of a word, shown in columns and a   *)
(* screen at a time after a second Tab.  The first Tab is LineEditor's.       *)
(* Left out are keys that only beep; at the end of the input there is nothing *)
(* but those, and the list waits for ever.                                    *)
EXTENDS Naturals, Sequences, FiniteSetsExt

CONSTANTS Lengths,        \* set: lengths of completions
          MaxItems,       \* bound: how many there are
          Cutoff,         \* completionCountCutoff
          ScreenColumns,  \* promptScreenColumns
          ScreenRows      \* set: rows that the screen may have

VARIABLES lc,             \* the completions, by their lengths
          phase,          \* "asking" (y or n), "listing", "more" or "done"
          row, pauseRow, stopList,
          shown,          \* rows written: each a sequence of items and where they begin
          page,           \* history: rows written since the screen was last full ...
          room            \* ... and the rows that it had for them, 0 if unbounded

completions == <<lc, phase, row, pauseRow, stopList, shown, page, room>>

Largest(x, y) == IF x > y THEN x ELSE y
longestCompletion == Max({lc[j] : j \in DOMAIN lc}) + 2
columnCount == Largest(ScreenColumns \div longestCompletion, 1)
rowCount == (Len(lc) + columnCount - 1) \div columnCount

\* getScreenRows() is asked again for each screen.
NewPage(first, rows) == pauseRow' = first + (rows - 1) /\ page' = 0 /\ room' = rows - 1

Init ==
  /\ lc \in UNION {[1..n -> Lengths] : n \in 2..MaxItems}
  /\ phase = "tab" /\ row = 0 /\ pauseRow = 0 /\ stopList = FALSE
  /\ shown = <<>> /\ page = 0 /\ room = 0

Ask ==
  /\ phase = "tab" /\ Len(lc) > Cutoff /\ phase' = "asking"
  /\ UNCHANGED <<lc, row, pauseRow, stopList, shown, page, room>>
List ==
  /\ phase = "asking" \/ (phase = "tab" /\ Len(lc) <= Cutoff)
  /\ phase' = "listing" /\ \E rows \in ScreenRows : NewPage(0, rows)
  /\ UNCHANGED <<lc, row, stopList, shown>>
Refuse ==
  /\ phase = "asking" /\ phase' = "done" /\ stopList' = TRUE
  /\ UNCHANGED <<lc, row, pauseRow, shown, page, room>>

\* The items of a row are rowCount apart, and each is padded if one follows.
Item(column) == column * rowCount + row + 1
Begins[column \in 0..columnCount] ==
  IF column = 0 THEN 0
  ELSE Begins[column - 1] + (IF Item(column) \in DOMAIN lc THEN longestCompletion
                             ELSE IF Item(column - 1) \in DOMAIN lc THEN lc[Item(column - 1)] ELSE 0)
InRow == Cardinality({column \in 0..columnCount - 1 : Item(column) \in DOMAIN lc})
ShowRow ==
  /\ shown' = Append(shown, [n \in 1..InRow |-> [item |-> Item(n - 1), at |-> Begins[n - 1]]])
  /\ row' = row + 1

Show ==
  /\ phase = "listing" /\ row < rowCount /\ row # pauseRow
  /\ ShowRow /\ page' = page + 1
  /\ UNCHANGED <<lc, phase, pauseRow, stopList, room>>
More ==
  /\ phase = "listing" /\ row < rowCount /\ row = pauseRow /\ phase' = "more"
  /\ UNCHANGED <<lc, row, pauseRow, stopList, shown, page, room>>

\* Space and y: another screen.  Enter: another row.  The row is shown in any case.
Goes ==
  /\ phase = "more" /\ phase' = "listing" /\ ShowRow /\ page' = 1
  /\ \/ \E rows \in ScreenRows : pauseRow' = pauseRow + rows - 1 /\ room' = rows - 1
     \/ pauseRow' = pauseRow + 1 /\ room' = 1
  /\ UNCHANGED <<lc, stopList>>

\* n, q and ^C, or write() fails.
Stop ==
  /\ phase = "more" \/ (phase = "listing" /\ row < rowCount)
  /\ phase' = "done" /\ stopList' = TRUE
  /\ UNCHANGED <<lc, row, pauseRow, shown, page, room>>
Finish ==
  /\ phase = "listing" /\ row = rowCount /\ phase' = "done"
  /\ UNCHANGED <<lc, row, pauseRow, stopList, shown, page, room>>

Next == Ask \/ List \/ Refuse \/ Show \/ More \/ Goes \/ Stop \/ Finish

------------------------------------------------------------------------------
Places == {<<r, c>> \in (1..Len(shown)) \X (1..Len(lc)) : c \in DOMAIN shown[r]}

\* Each completion is shown once, in order down the columns, all of them unless
\* the list is stopped; those of a column begin below each other, and a list of
\* several columns fits the screen.
EachListed ==
  /\ \A p, q \in Places : shown[p[1]][p[2]].item < shown[q[1]][q[2]].item <=>
                            p[2] < q[2] \/ (p[2] = q[2] /\ p[1] < q[1])
  /\ phase = "done" /\ ~stopList => {shown[p[1]][p[2]].item : p \in Places} = DOMAIN lc
  /\ \A p \in Places : LET cell == shown[p[1]][p[2]] IN
       /\ cell.at = (p[2] - 1) * longestCompletion
       /\ columnCount > 1 => cell.at + lc[cell.item] <= ScreenColumns

\* No row has left the screen before the user goes on, but for a screen of one
\* row, which is never seen to be full again.
NoneMissed == page <= room \/ room = 0
==============================================================================
