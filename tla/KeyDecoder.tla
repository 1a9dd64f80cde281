------------------------------ MODULE KeyDecoder ------------------------------
(* How linenoise/src/linenoise.cpp reads a key: readUnicodeCharacter() puts   *)
(* the bytes of a character together, linenoiseReadChar() and the dispatch    *)
(* tables of EscapeSequenceProcessing make keys of the characters.  The user  *)
(* presses keys of a terminal, which sends the bytes of each in turn; read()  *)
(* does not fail.  The debugging mode of ^^ is left out.                      *)
EXTENDS Naturals, Sequences

CONSTANTS TypedChars,   \* characters with a code of 32 or more
          Strays        \* bytes that begin no character the terminal sends

U == INSTANCE Utf8

VARIABLES pressed,   \* the key the user pressed last
          sent,      \* the bytes of it that are still to be read
          ready,     \* history: utf8 was empty when the key was pressed
          utf8,      \* utf8String, the bytes read of a character
          place,     \* the dispatch table that waits for a character
          meta,      \* thisKeyMetaCtrl
          keys       \* what linenoiseReadChar() has returned for the key
keyDecoder == <<pressed, sent, ready, utf8, place, meta, keys>>

-----------------------------------------------------------------------------
\* The keys that are no characters, HOME_KEY and so on in the code
UP == 270532608
DOWN == 272629760
RIGHT == 274726912
LEFT == 276824064
HOME == 278921216
END == 281018368
DELETE == 283115520
PAGE_UP == 285212672
PAGE_DOWN == 287309824
BACKSPACE == 8     \* ctrlChar('H')

(* What terminals send *)
ESC == 27
Csi(s) == <<ESC, 91>> \o s     \* ESC [
Ss3(c) == <<ESC, 79, c>>       \* ESC O
Letter(k) == CASE k = UP -> 65 [] k = DOWN -> 66 [] k = RIGHT -> 67 [] k = LEFT -> 68
               [] k = HOME -> 72 [] k = END -> 70
Arrows == {UP, DOWN, RIGHT, LEFT}
Lettered == Arrows \cup {HOME, END}
Tilde(k) == CASE k = HOME -> {49, 55} [] k = END -> {52, 56} [] k = DELETE -> {51}
              [] k = PAGE_UP -> {53} [] k = PAGE_DOWN -> {54} [] OTHER -> {}
Plain(k) == (IF k \in Lettered THEN {Csi(<<Letter(k)>>), Ss3(Letter(k))} ELSE {})
              \cup {Csi(<<d, 126>>) : d \in Tilde(k)}
Named == Lettered \cup {DELETE, PAGE_UP, PAGE_DOWN}
Unicode(c) == CASE c < 128 -> <<c>>
                [] c \in 128..2047 -> <<192 + c \div 64, 128 + (c % 64)>>
                [] c \in 2048..65535 -> <<224 + c \div 4096, 128 + ((c \div 64) % 64), 128 + (c % 64)>>
                [] OTHER -> <<240 + c \div 262144, 128 + ((c \div 4096) % 64), 128 + ((c \div 64) % 64), 128 + (c % 64)>>

Key(mods, code) == <<mods, code>>
\* Each key with the bytes of it: the arrows alone, with Ctrl, with Alt, and
\* the others; Alt as a prefix of any; Backspace; the characters.
Terminal ==
    UNION {{Key({}, k)} \X Plain(k) : k \in Named}
    \cup UNION {{Key({"META"}, k)} \X {<<ESC>> \o s : s \in Plain(k)} : k \in Named}
    \cup {<<Key({"CTRL"}, k), Csi(<<49, 59, 53, Letter(k)>>)>> : k \in Arrows}
    \cup {<<Key({"CTRL"}, k), Ss3(Letter(k) + 32)>> : k \in Arrows}
    \cup {<<Key({"META"}, k), Csi(<<49, 59, 51, Letter(k)>>)>> : k \in Arrows}
    \cup {<<Key({}, BACKSPACE), <<127>> >>, <<Key({"META"}, BACKSPACE), <<ESC, 127>> >>}
    \cup {<<Key({}, c), Unicode(c)>> : c \in TypedChars}
    \cup {<<Key({"META"}, c), <<ESC>> \o Unicode(c)>> : c \in TypedChars \ {79, 91}}
\* Keys without a meaning: Insert, F1, F5, Ctrl with Delete, Alt with Home.
Unknown == {Csi(<<50, 126>>), Ss3(80), Csi(<<49, 53, 126>>), Csi(<<51, 59, 53, 126>>), Csi(<<49, 59, 51, 72>>)}

-----------------------------------------------------------------------------
(* The dispatch tables: place, character, and the next place or the key *)
Moves ==
    {<<"start", ESC, "esc">>, <<"esc", 91, "esc[">>, <<"esc", 79, "escO">>, <<"esc[1", 59, "esc[1;">>,
     <<"esc[", 49, "esc[1">>, <<"esc[", 51, "esc[3">>, <<"esc[", 52, "esc[4">>, <<"esc[", 53, "esc[5">>,
     <<"esc[", 54, "esc[6">>, <<"esc[", 55, "esc[7">>, <<"esc[", 56, "esc[8">>,
     <<"esc[1;", 51, "esc[1;3or5">>, <<"esc[1;", 53, "esc[1;3or5">>}
Found ==
    {<<"start", 127, BACKSPACE>>, <<"esc[1", 126, HOME>>, <<"esc[3", 126, DELETE>>, <<"esc[4", 126, END>>,
     <<"esc[5", 126, PAGE_UP>>, <<"esc[6", 126, PAGE_DOWN>>, <<"esc[7", 126, HOME>>, <<"esc[8", 126, END>>}
    \cup {<<p, Letter(k), k>> : p \in {"esc[", "escO"}, k \in Lettered}
    \cup {<<"escO", Letter(k) + 32, k>> : k \in Arrows}
    \cup {<<"esc[1;3or5", Letter(k), k>> : k \in Arrows}
Goes(table, c) == {t[3] : t \in {d \in table : d[1] = place /\ d[2] = c}}

Fail == <<{"fail"}, 0>>   \* escFailureRoutine() returns -1

Init == /\ pressed = Key({}, 0) /\ sent = <<>> /\ ready = TRUE
        /\ utf8 = <<>> /\ place = "start" /\ meta = {} /\ keys = <<>>

Press(k, bytes) ==
    /\ sent = <<>>
    /\ pressed' = k /\ sent' = bytes /\ keys' = <<>> /\ ready' = (utf8 = <<>>)
    /\ UNCHANGED <<utf8, place, meta>>

Goto(p, mods) == place' = p /\ meta' = mods /\ UNCHANGED keys
Return(mods, code) == place' = "start" /\ meta' = mods /\ keys' = Append(keys, Key(mods, code))

\* thisKeyMetaCtrl is cleared before the initial dispatch, and the numbers 3
\* and 5 and the small letters add to it.
Modifiers(c) == CASE place = "start" -> {}
                  [] place = "esc[1;" /\ c = 51 -> meta \cup {"META"}
                  [] place = "esc[1;" /\ c = 53 -> meta \cup {"CTRL"}
                  [] OTHER -> meta
KeyMods(c) == Modifiers(c) \cup (IF place = "escO" /\ c > 96 THEN {"CTRL"} ELSE {})

\* A character reaches the table that waits for one.
Character(c) ==
    \/ \E p \in Goes(Moves, c) : Goto(p, Modifiers(c))
    \/ \E k \in Goes(Found, c) : Return(KeyMods(c), k)
    \/ /\ Goes(Moves, c) = {} /\ Goes(Found, c) = {}
       /\ \/ place = "start" /\ Return(Modifiers(c), c)
          \* setMetaRoutine(): a second ESC stays in the table, the rest are keys.
          \/ place = "esc" /\ c = ESC /\ Goto("esc", {"META"})
          \/ place = "esc" /\ c # ESC /\ Return({"META"}, IF c = 127 THEN BACKSPACE ELSE c)
          \/ place \notin {"start", "esc"} /\ place' = "start" /\ UNCHANGED meta /\ keys' = Append(keys, Fail)

\* readUnicodeCharacter(): a byte that cannot complete a character is kept,
\* up to four; the fifth empties the string and is lost.
Whole(s) == U!ConvertUTF8toUTF32(s, 2).result = "ok"
ReadByte ==
    /\ sent # <<>>
    /\ sent' = Tail(sent)
    /\ UNCHANGED <<pressed, ready>>
    /\ LET b == Head(sent) IN
       \/ b < 128 /\ utf8' = <<>> /\ Character(b)
       \/ /\ b >= 128 /\ Len(utf8) < 4 /\ Whole(Append(utf8, b))
          /\ utf8' = <<>> /\ Character(U!ConvertUTF8toUTF32(Append(utf8, b), 2).out[1])
       \/ /\ b >= 128 /\ Len(utf8) < 4 /\ ~Whole(Append(utf8, b))
          /\ utf8' = Append(utf8, b) /\ UNCHANGED <<place, meta, keys>>
       \/ /\ b >= 128 /\ Len(utf8) = 4
          /\ utf8' = <<>> /\ UNCHANGED <<place, meta, keys>>

Next == \/ \E t \in Terminal : Press(t[1], t[2])
        \/ \E s \in Unknown : Press(Key({}, 0), s)
        \/ \E b \in Strays : Press(Key({}, 0), <<b>>)
        \/ ReadByte

-----------------------------------------------------------------------------
\* Whatever was pressed before, unknown keys included, a key with a meaning is
\* read as one key, with its modifiers and no others, and is shown with the
\* bytes that were typed, in whatever form it was kept; only a stray byte not followed by an ASCII character
\* may spoil the next.
KeysDecode ==
    sent = <<>> /\ pressed[2] # 0 =>
        /\ place = "start"
        /\ ready \/ pressed[2] \notin TypedChars \/ Len(Unicode(pressed[2])) = 1 =>
             /\ keys = <<pressed>> /\ utf8 = <<>>
             /\ pressed[2] \in TypedChars => U!FormsAgree(keys[1][2], Unicode(pressed[2]))
=============================================================================
