----------------------------- MODULE JsonReader -----------------------------
(* rapidjson's GenericReader and the document it fills (rapidjson reader.h,  *)
(* document.h, internal/stack.h): the iterative parser as a machine that     *)
(* takes a token a step, the recursive parser as operators on the text read, *)
(* and GenericDocument as the handler of both.  A document parses more than  *)
(* once.  A token stands for what the parser takes at once: a bracket, a     *)
(* string, a literal or a number, or a comment with the white space around.  *)
EXTENDS Integers, Sequences

CONSTANTS MaxTexts,   \* tokens of the text of each parse of the document
          FlagSets,   \* parse flags: sets of "comments",
                      \* "trailingCommas" and "stopWhenDone"
          StopsAt     \* calls after which a handler ends the parse; 0, never

VARIABLES flags,   \* parseFlags of this parse
          stopAt,  \* the handler returns false at this call
          text,    \* what was read, the last token included
          state,   \* IterativeParse()'s state, or Idle
          stack,   \* GenericReader::stack_: frames of a state and a count
          handler, \* the document's stack_ and the calls it got
          error,   \* parseResult_
          root,    \* the document's value
          parses
reader == <<flags, stopAt, text, state, stack, handler, error, root, parses>>

EOF == "eof"  Str == "string"  BadStr == "bad string"  Lit == "literal"  Bad == "bad"
Comment == "comment"  OpenComment == "open comment"
Tokens == {"{", "}", "[", "]", ",", ":", Str, BadStr, Lit, Bad, Comment, OpenComment}
Values == {Str, BadStr, Lit, Bad, Comment, OpenComment}  \* a '/' counts as a number
NoError == "none"

-----------------------------------------------------------------------------
(* GenericDocument as a handler *)
Node(kind, items) == [kind |-> kind, items |-> items]
Null == Node("null", <<>>)
Push(h, v) == [vals |-> Append(h.vals, v), calls |-> h.calls + 1]
\* EndObject() and EndArray() take n values off and put them in the one below.
Close(h, kind, n) ==
    LET k == Len(h.vals) - n IN
    [vals |-> Append(SubSeq(h.vals, 1, k - 1), Node(kind, SubSeq(h.vals, k + 1, Len(h.vals)))),
     calls |-> h.calls + 1]
EndObject(h, members) == Close(h, "object", 2 * members)
EndArray(h, elements) == Close(h, "array", elements)
Goes(h) == h.calls # stopAt
ErrorOf(h) == IF Goes(h) THEN NoError ELSE "Termination"
Empty == [vals |-> <<>>, calls |-> 0]
\* ParseValue() of what is not compound
Scalar(h, t) == IF t \in {Str, Lit} THEN Push(h, Node(t, <<>>)) ELSE h
ScalarError(h, t) == CASE t = BadStr -> "StringEscapeInvalid"
                       [] t \in {Str, Lit} -> ErrorOf(Push(h, Null))
                       [] OTHER -> "ValueInvalid"

-----------------------------------------------------------------------------
(* The recursive parser, from token i with handler h *)
At(i) == IF i <= Len(text) THEN text[i] ELSE EOF
Out(i, h, e) == [at |-> i, h |-> h, error |-> e]
RECURSIVE Skip(_)
\* SkipWhitespaceAndComments(): where it ends; 0, an open comment
Skip(i) == IF "comments" \notin flags THEN i
           ELSE IF At(i) = Comment THEN Skip(i + 1)
           ELSE IF At(i) = OpenComment THEN 0 ELSE i
Skipped(i, h, Then(_)) == IF Skip(i) = 0 THEN Out(i, h, "UnspecificSyntaxError") ELSE Then(Skip(i))
After(r, Then(_, _)) == IF r.error = NoError THEN Then(r.at, r.h) ELSE r
Called(i, h) == Out(i, h, ErrorOf(h))
Trailing(i, c) == "trailingCommas" \in flags /\ At(i) = c

RECURSIVE ParseValue(_, _), Members(_, _, _), Elements(_, _, _)
Member(i, h, n, Then(_, _)) ==
    IF At(i) \notin {Str, BadStr} THEN Out(i, h, "ObjectMissName")
    ELSE IF ScalarError(h, At(i)) # NoError THEN Out(i, h, ScalarError(h, At(i)))
    ELSE Skipped(i + 1, Scalar(h, At(i)), LAMBDA j :
         IF At(j) # ":" THEN Out(j, h, "ObjectMissColon")
         ELSE Skipped(j + 1, h, LAMBDA k : After(ParseValue(k, Scalar(h, At(i))), Then)))
Members(i, h, n) ==
    Member(i, h, n, LAMBDA j, g : Skipped(j, g, LAMBDA k :
        CASE At(k) = "}" -> Called(k + 1, EndObject(g, n + 1))
          [] At(k) = "," -> Skipped(k + 1, g, LAMBDA l :
                 IF Trailing(l, "}") THEN Called(l + 1, EndObject(g, n + 1)) ELSE Members(l, g, n + 1))
          [] OTHER -> Out(k, g, "ObjectMissCommaOrCurlyBracket")))
ParseObject(i, h) ==
    IF ~Goes(h) THEN Out(i, h, "Termination")
    ELSE Skipped(i, h, LAMBDA j : IF At(j) = "}" THEN Called(j + 1, EndObject(h, 0)) ELSE Members(j, h, 0))
Elements(i, h, n) ==
    After(ParseValue(i, h), LAMBDA j, g : Skipped(j, g, LAMBDA k :
        CASE At(k) = "]" -> Called(k + 1, EndArray(g, n + 1))
          [] At(k) = "," -> Skipped(k + 1, g, LAMBDA l :
                 IF Trailing(l, "]") THEN Called(l + 1, EndArray(g, n + 1)) ELSE Elements(l, g, n + 1))
          [] OTHER -> Out(k, g, "ArrayMissCommaOrSquareBracket")))
ParseArray(i, h) ==
    IF ~Goes(h) THEN Out(i, h, "Termination")
    ELSE Skipped(i, h, LAMBDA j : IF At(j) = "]" THEN Called(j + 1, EndArray(h, 0)) ELSE Elements(j, h, 0))
ParseValue(i, h) ==
    CASE At(i) = "{" -> ParseObject(i + 1, Push(h, Node("object", <<>>)))
      [] At(i) = "[" -> ParseArray(i + 1, Push(h, Node("array", <<>>)))
      [] OTHER -> Out(i + 1, Scalar(h, At(i)), ScalarError(h, At(i)))
Parse ==
    Skipped(1, Empty, LAMBDA i :
        IF At(i) = EOF THEN Out(i, Empty, "DocumentEmpty")
        ELSE After(ParseValue(i, Empty), LAMBDA j, h :
             IF "stopWhenDone" \in flags THEN Out(j, h, NoError)
             ELSE Skipped(j, h, LAMBDA k : Out(k, h, IF At(k) = EOF THEN NoError ELSE "DocumentRootNotSingular"))))

-----------------------------------------------------------------------------
(* The iterative parser *)
\* A value begins the same way at three places.
Begins(s) == (Values \X {s}) \cup {<<"[", "ArrayInitial">>, <<"{", "ObjectInitial">>}
Name == {<<"}", "ObjectFinish">>, <<Str, "MemberKey">>, <<BadStr, "MemberKey">>}
Table == [Start |-> Begins("Value"),
          ObjectInitial |-> Name, MemberDelimiter |-> Name,
          MemberKey |-> {<<":", "KeyValueDelimiter">>},
          KeyValueDelimiter |-> Begins("MemberValue"),
          MemberValue |-> {<<"}", "ObjectFinish">>, <<",", "MemberDelimiter">>},
          ArrayInitial |-> Begins("Element") \cup {<<"]", "ArrayFinish">>},
          ElementDelimiter |-> Begins("Element") \cup {<<"]", "ArrayFinish">>},
          Element |-> {<<"]", "ArrayFinish">>, <<",", "ElementDelimiter">>},
          Finish |-> {}]
Predict(s, t) == IF \E x \in Table[s] : x[1] = t THEN (CHOOSE x \in Table[s] : x[1] = t)[2] ELSE "Error"

\* HandleError(): what the state that found no transition reports.
Reports(s) == CASE s = "Start" -> "DocumentEmpty"
                [] s = "Finish" -> "DocumentRootNotSingular"
                [] s \in {"ObjectInitial", "MemberDelimiter"} -> "ObjectMissName"
                [] s = "MemberKey" -> "ObjectMissColon"
                [] s = "MemberValue" -> "ObjectMissCommaOrCurlyBracket"
                [] s \in {"KeyValueDelimiter", "ArrayInitial", "ElementDelimiter"} -> "ValueInvalid"
                [] OTHER -> "ArrayMissCommaOrSquareBracket"
\* The state to return to, pushed with a count of 0
Saved(s) == CASE s \in {"ArrayInitial", "ElementDelimiter"} -> "Element"
              [] s = "KeyValueDelimiter" -> "MemberValue"
              [] OTHER -> s
Resumed(s) == IF s = "Start" THEN "Finish" ELSE s
Top == stack[Len(stack)]
Popped == SubSeq(stack, 1, Len(stack) - 1)
Last(s) == IF s \in {"MemberValue", "Element"} THEN 1 ELSE 0

Ended(e) == /\ error' = e /\ state' = "Idle" /\ stack' = <<>>
            /\ root' = IF e = NoError THEN handler.vals[Len(handler.vals)] ELSE root
            /\ handler' = [handler EXCEPT !.vals = <<>>]
Fail(e) == Ended(e)
To(s, k, h) == IF ErrorOf(h) = NoError
               THEN /\ state' = s /\ stack' = k /\ handler' = h
                    /\ UNCHANGED <<error, root>>
               ELSE Fail("Termination")
Take(t) ==
    LET dst == Predict(state, t) IN
    CASE dst = "Error" -> Fail(Reports(state))
      [] dst \in {"ObjectInitial", "ArrayInitial"} ->
            To(dst, Append(stack, [n |-> Saved(state), count |-> 0]),
               Push(handler, Node(IF dst = "ObjectInitial" THEN "object" ELSE "array", <<>>)))
      [] dst \in {"MemberKey", "MemberValue", "Element", "Value"} ->
            IF t \in {Str, Lit} THEN To(IF dst = "Value" THEN "Finish" ELSE dst, stack, Scalar(handler, t))
            ELSE Fail(ScalarError(handler, t))
      [] dst = "KeyValueDelimiter" -> To(dst, stack, handler)
      [] dst \in {"MemberDelimiter", "ElementDelimiter"} ->
            To(dst, Append(Popped, [Top EXCEPT !.count = @ + 1]), handler)
      [] dst = "ObjectFinish" ->
            IF "trailingCommas" \notin flags /\ state = "MemberDelimiter" THEN Fail("ObjectMissName")
            ELSE To(Resumed(Top.n), Popped, EndObject(handler, Top.count + Last(state)))
      [] dst = "ArrayFinish" ->
            IF "trailingCommas" \notin flags /\ state = "ElementDelimiter" THEN Fail("ValueInvalid")
            ELSE To(Resumed(Top.n), Popped, EndArray(handler, Top.count + Last(state)))

-----------------------------------------------------------------------------
Init == /\ flags = {} /\ stopAt = 0
        /\ text = <<>> /\ state = "Idle" /\ stack = <<>> /\ handler = Empty
        /\ error = NoError /\ root = Null /\ parses = 0

\* GenericDocument::ParseStream() with a handler that may end it
Start == /\ state = "Idle" /\ parses < Len(MaxTexts)
         /\ flags' \in FlagSets /\ stopAt' \in StopsAt
         /\ text' = <<>> /\ state' = "Start" /\ stack' = <<>> /\ handler' = [handler EXCEPT !.calls = 0]
         /\ error' = NoError /\ parses' = parses + 1
         /\ UNCHANGED root
\* The loop of IterativeParse(): the next token of the text is t.
Read(t) ==
    /\ state # "Idle" /\ Len(text) < MaxTexts[parses]
    /\ text' = Append(text, t)
    /\ IF "comments" \in flags /\ t \in {Comment, OpenComment}
       THEN IF t = OpenComment THEN Fail("UnspecificSyntaxError")
            ELSE UNCHANGED <<state, stack, handler, error, root>>
       ELSE Take(t)
    /\ UNCHANGED <<flags, stopAt, parses>>
\* The end of the text, or of the root when that is enough
End == /\ state # "Idle"
       /\ Ended(IF state = "Finish" THEN NoError ELSE Reports(state))
       /\ UNCHANGED <<flags, stopAt, text, parses>>
Done == state = "Finish" /\ "stopWhenDone" \in flags

Next == \/ Start
        \/ \E t \in Tokens : ~Done /\ Read(t)
        \/ End

-----------------------------------------------------------------------------
\* The two parsers tell the same story of every text: they accept the same
\* texts, build the same document from them, with one value on the stack, and
\* report the same error; but for a text that begins with what begins no value,
\* which the iterative one calls an empty document.
ParsersAgree ==
    state = "Idle" /\ parses > 0 =>
        LET r == Parse IN
        /\ (error = NoError) = (r.error = NoError)
        /\ error = NoError => Len(r.h.vals) = 1 /\ root = r.h.vals[1]
        /\ error # r.error => error = "DocumentEmpty" /\ r.error = "ValueInvalid"
=============================================================================
