----------------------------- MODULE JsonWriter -----------------------------
(* rapidjson's Writer and PrettyWriter (writer.h, prettywriter.h) as handlers *)
(* of the calls of GenericValue::Accept() or of a program, in the order that  *)
(* their assertions ask for.  The three writers, compact, pretty and pretty   *)
(* with arrays on one line, get the same calls, and a document gets them too. *)
(* A token stands for what a call writes.                                     *)
EXTENDS Integers, Sequences

CONSTANTS MaxCalls,  \* calls for one text
          MaxTexts   \* texts before and after a Reset()

VARIABLES out,      \* what each writer wrote
          levels,   \* level_stack_, the same in each
          hasRoot,
          doc,      \* a GenericDocument as handler of the same calls
          texts
writer == <<out, levels, hasRoot, doc, texts>>

Formats == {"compact", "pretty", "single line"}
Space == "space"  NewLine == "new line"
\* The text without white space, as the reader takes it
Words == [f \in Formats |-> SelectSeq(out[f], LAMBDA t : t \notin {Space, NewLine})]

R(text) == INSTANCE JsonReader WITH
    MaxTexts <- <<>>, FlagSets <- {}, StopsAt <- {}, flags <- {}, stopAt <- 0,
    state <- "Idle", stack <- <<>>, handler <- doc, error <- "none", root <- doc, parses <- 0

-----------------------------------------------------------------------------
Top == levels[Len(levels)]
Indent(n) == [i \in 1..n |-> Space]
\* variant of Prefix: the separator of an object's parts is chosen by the parts
\* before, this one included.
PrefixLate(f) ==
    IF levels = <<>> THEN <<>>
    ELSE IF Top.count = 0 THEN <<>>
    ELSE IF Top.inArray \/ Top.count % 2 = 1 THEN <<",">> ELSE <<":">>
\* Prefix() of Writer: what comes before a value
Prefix(f) ==
    IF levels = <<>> THEN <<>>
    ELSE IF Top.count = 0 THEN <<>>
    ELSE IF Top.inArray \/ Top.count % 2 = 0 THEN <<",">> ELSE <<":">>
\* What PrettyPrefix() adds to it
Layout(f) ==
    IF levels = <<>> \/ f = "compact" THEN <<>>
    ELSE IF Top.inArray
         THEN IF f = "pretty" THEN <<NewLine>> \o Indent(Len(levels))
              ELSE IF Top.count > 0 THEN <<Space>> ELSE <<>>
         ELSE IF Top.count % 2 = 0 THEN <<NewLine>> \o Indent(Len(levels)) ELSE <<Space>>
\* What EndObject() and EndArray() put before the bracket
Outdent(f) ==
    IF f = "compact" \/ Top.count = 0 \/ (Top.inArray /\ f = "single line") THEN <<>>
    ELSE <<NewLine>> \o Indent(Len(levels) - 1)

Counted == IF levels = <<>> THEN <<>>
           ELSE [levels EXCEPT ![Len(levels)].count = @ + 1]
\* The assertions of Prefix(): one root, and a string where a name is due
Due(name) == IF levels = <<>> THEN ~hasRoot
             ELSE Top.inArray \/ Top.count % 2 = 1 \/ name
Put(t, opens, h) ==
    /\ doc.calls < MaxCalls
    /\ out' = [f \in Formats |-> out[f] \o Prefix(f) \o Layout(f) \o <<t>>]
    /\ levels' = Counted \o opens
    /\ hasRoot' = TRUE
    /\ doc' = h
    /\ UNCHANGED texts
Closed(t, h) ==
    /\ out' = [f \in Formats |-> out[f] \o Outdent(f) \o <<t>>]
    /\ levels' = SubSeq(levels, 1, Len(levels) - 1)
    /\ doc' = h
    /\ UNCHANGED <<hasRoot, texts>>

Empty == [f \in Formats |-> <<>>]
Init == /\ out = Empty /\ levels = <<>> /\ hasRoot = FALSE
        /\ doc = R(<<>>)!Empty /\ texts = 1

\* Null(), Bool(), Int(), ... and String(), which is Key() as well
Scalar(t) == Due(t = R(<<>>)!Str) /\ Put(t, <<>>, R(<<>>)!Push(doc, R(<<>>)!Node(t, <<>>)))
StartObject == Due(FALSE) /\ Put("{", <<[count |-> 0, inArray |-> FALSE]>>,
                                 R(<<>>)!Push(doc, R(<<>>)!Node("object", <<>>)))
StartArray == Due(FALSE) /\ Put("[", <<[count |-> 0, inArray |-> TRUE]>>,
                                R(<<>>)!Push(doc, R(<<>>)!Node("array", <<>>)))
\* An object may end after a name: no assertion asks for its value, and the
\* document gets the whole members.
EndObject == /\ levels # <<>> /\ ~Top.inArray
             /\ Closed("}", R(<<>>)!EndObject(doc, Top.count \div 2))
EndArray == /\ levels # <<>> /\ Top.inArray
            /\ Closed("]", R(<<>>)!EndArray(doc, Top.count))
\* A new stream, whether the text before was complete or not
Reset == /\ texts < MaxTexts /\ texts' = texts + 1
         /\ out' = Empty /\ levels' = <<>> /\ hasRoot' = FALSE /\ doc' = R(<<>>)!Empty

Next == \/ \E t \in {R(<<>>)!Str, R(<<>>)!Lit} : Scalar(t)
        \/ StartObject \/ StartArray \/ EndObject \/ EndArray \/ Reset

-----------------------------------------------------------------------------
\* What was written reads back: once IsComplete() says so, whatever was written
\* before the last Reset(), the text of each writer is the same but for white
\* space, the reader accepts it, and the document that reading builds is the
\* one that the calls build; a text that is not complete is no document.  The
\* one exception is a text in which an object was ended after a name: it is
\* complete as well, the reader misses the colon, and the calls leave the
\* document with more than its root, which Populate() asserts it has alone.
IsComplete == hasRoot /\ levels = <<>>
ReadsBack ==
    \A f \in Formats :
        LET r == R(Words[f])!Parse IN
        /\ Words[f] = out["compact"]
        /\ (r.error = "none") = (IsComplete /\ Len(doc.vals) = 1)
        /\ r.error = "none" => r.h.vals = doc.vals
        /\ IsComplete /\ Len(doc.vals) > 1 => r.error = "ObjectMissColon"
=============================================================================
