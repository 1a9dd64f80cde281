------------------------------- MODULE Prompts -------------------------------
(***************************************************************************)
(* The prompts of src/sample_test_client_moonx.cpp: prompt_modify_order()  *)
(* and the like ask for the fields of a request one after the other,       *)
(* process_modify_order() and the like show it and write it on a y.        *)
(*                                                                         *)
(* An answer is a word; a word of digits is read as a number into a field  *)
(* of 8 bytes, but cin >> input takes one character of it for a field of   *)
(* one byte, and leaves the others to be read by the prompts that follow.  *)
(***************************************************************************)
EXTENDS Naturals, Sequences, FiniteSets, Functions, SequencesExt, Messages

CONSTANTS Menu,           (* the requests the user makes                    *)
          Usual,          (* the usual answer                               *)
          Words,          (* all answers, sequences of characters           *)
          MaxOdd,         (* bound: unusual answers                         *)
          MaxRequests     (* bound: requests                                *)

VARIABLES cin,            (* its words, not yet read, and its failbit       *)
          asking,         (* the request, its fields, the prompts to come   *)
          previous,       (* last...: the objects that outlive a call       *)
          sent,           (* bytes of the last frame written                *)
          (* history, read by properties only *)
          user            (* answers to this request, the objects it began  *)
                          (* with, odd answers and requests so far          *)

prompts == <<cin, asking, previous, sent, user>>

-----------------------------------------------------------------------------
Layout == [modify |-> MODIFY_ORDER_REQUEST, cancel |-> CANCEL_ORDER_REQUEST,
           cancel_all |-> CANCEL_ALL_ORDERS_REQUEST, leverage |-> MODIFY_LEVERAGE_REQUEST,
           working |-> WORKING_ORDERS_REQUEST, fills |-> FILL_REQUEST]
MessageType == [modify |-> 4, cancel |-> 5, cancel_all |-> 7, leverage |-> 11,
                working |-> 9, fills |-> 10]

(* What process_modify_order() and the like write: the header, and the      *)
(* object with its type.                                                    *)
Framed(layout, type, object) ==
  Encode(FRAME_HDR \o layout, [f \in DOMAIN object \cup {"msg_len", "MessageType"} |->
    CASE f = "msg_len" -> SizeOf(layout) [] f = "MessageType" -> type [] OTHER -> object[f]])
process_modify_order(o)       == Framed(MODIFY_ORDER_REQUEST, 4, o)
process_cancel_order(o)       == Framed(CANCEL_ORDER_REQUEST, 5, o)
process_cancel_all_orders(o)  == Framed(CANCEL_ALL_ORDERS_REQUEST, 7, o)
process_modify_leverage(o)    == Framed(MODIFY_LEVERAGE_REQUEST, 11, o)
process_working_orders_request(o) == Framed(WORKING_ORDERS_REQUEST, 9, o)
process_fills_request(o)      == Framed(FILL_REQUEST, 10, o)
Frame(choice, o) ==
  CASE choice = "modify"     -> process_modify_order(o)
    [] choice = "cancel"     -> process_cancel_order(o)
    [] choice = "cancel_all" -> process_cancel_all_orders(o)
    [] choice = "leverage"   -> process_modify_leverage(o)
    [] choice = "working"    -> process_working_orders_request(o)
    [] choice = "fills"      -> process_fills_request(o)

(* The prompts: a field, and the field of the last object that is the       *)
(* default.  The answer to "User Tag" goes to UserID.                       *)
Same(fields) == [i \in DOMAIN fields |-> <<fields[i], fields[i]>>]
WhoAsks      == << <<"UserID", "UserID">>, <<"UserID", "UserTag">> >>
prompt_modify_order ==
  WhoAsks \o Same(<<"ExchangeOrderID", "OrderQuantityRemaining", "OrderType",
    "OrderTimeInForce", "OrderExecutionType", "OrderQuantity", "OrderDisclosedQuantity",
    "OrderPrice", "OrderTriggerPrice", "TriggerOn">>)
prompt_cancel_order          == WhoAsks \o Same(<<"ExchangeOrderID">>)
prompt_cancel_all_orders     == WhoAsks
prompt_modify_leverage       == WhoAsks \o Same(<<"InstrumentID", "Leverage">>)
prompt_working_orders_request == WhoAsks
prompt_fills_request         == WhoAsks
Asked == [modify |-> prompt_modify_order, cancel |-> prompt_cancel_order,
          cancel_all |-> prompt_cancel_all_orders, leverage |-> prompt_modify_leverage,
          working |-> prompt_working_orders_request, fills |-> prompt_fills_request]

y == 121                      (* a character is its code                    *)
Y == 89
Zero(choice) == [f \in {x[1] : x \in Range(Layout[choice])} |-> 0]
OneByte(choice, field) == WidthOf(Layout[choice], field) = 1

Init ==
  /\ cin = [words |-> <<>>, failed |-> FALSE]
  /\ asking = [choice |-> "none", fields |-> <<>>, left |-> <<>>]
  /\ previous = [c \in Menu |-> Zero(c)] /\ sent = <<>>
  /\ user = [choice |-> "none", answers |-> <<>>, before |-> <<>>, ahead |-> FALSE,
             odd |-> 0, requests |-> 0]

(* The command of the menu                                                  *)
Choose(choice) ==
  /\ asking.choice = "none" /\ user.requests < MaxRequests
  /\ asking' = [choice |-> choice, fields |-> Zero(choice), left |-> Asked[choice]]
  /\ user' = [user EXCEPT !.choice = choice, !.answers = <<>>, !.before = previous[choice],
                          !.ahead = cin.words # <<>>, !.requests = @ + 1]
  /\ UNCHANGED <<cin, previous, sent>>

IsUsual(word) == word = IF asking.left = <<>> THEN <<y>> ELSE Usual

(* The user answers when the program waits for a word.                      *)
Type(word) ==
  /\ asking.choice # "none" /\ ~cin.failed /\ cin.words = <<>>
  /\ IsUsual(word) \/ user.odd < MaxOdd
  /\ cin' = [cin EXCEPT !.words = <<word>>]
  /\ user' = [user EXCEPT !.answers = Append(@, word), !.odd = @ + (IF IsUsual(word) THEN 0 ELSE 1)]
  /\ UNCHANGED <<asking, previous, sent>>

-----------------------------------------------------------------------------
Digits == 48 .. 57
IsNumber(word) == \A i \in DOMAIN word : word[i] \in Digits
Number(word)   == FoldLeft(LAMBDA n, d : 10 * n + (d - 48), 0, word)

(* cin >> input: the value, and what is left.  A cin that has failed leaves *)
(* the input as it was; a letter where a number is due makes it fail.       *)
Rest(word) == IF Len(word) = 1 THEN <<>> ELSE <<Tail(word)>>
TakeChar   == [value |-> Head(Head(cin.words)), words |-> Rest(Head(cin.words)), failed |-> FALSE]
Take(old, one) ==
  CASE cin.failed -> [value |-> old, words |-> cin.words, failed |-> TRUE]
    [] ~cin.failed /\ one -> TakeChar
    [] ~cin.failed /\ ~one /\ IsNumber(Head(cin.words)) ->
         [value |-> Number(Head(cin.words)), words |-> <<>>, failed |-> FALSE]
    [] OTHER -> [value |-> 0, words |-> cin.words, failed |-> TRUE]

DefaultTaken(got, default) == IF got.value = 0 THEN got.value ELSE default   (* variant *)
Stored(got, default) == IF got.value = 0 THEN default ELSE got.value
Prompt ==
  /\ asking.left # <<>> /\ (cin.failed \/ cin.words # <<>>)
  /\ LET field == Head(asking.left)[1]
         got   == Take(asking.fields[field], OneByte(asking.choice, field))
     IN /\ asking' = [asking EXCEPT
             !.fields[field] = Stored(got, previous[asking.choice][Head(asking.left)[2]]),
             !.left = Tail(@)]
        /\ cin' = [words |-> got.words, failed |-> got.failed]
  /\ UNCHANGED <<previous, sent, user>>

(* The object becomes the last one whether it is confirmed or not; confirm  *)
(* is not initialised.                                                      *)
Confirm ==
  /\ asking.choice # "none" /\ asking.left = <<>> /\ (cin.failed \/ cin.words # <<>>)
  /\ LET c == asking.choice
     IN \E confirm \in IF cin.failed THEN {0, y} ELSE {TakeChar.value} :
          /\ sent' = IF confirm \in {y, Y} THEN Frame(c, asking.fields) ELSE sent
          /\ previous' = [previous EXCEPT ![c] = asking.fields]
  /\ cin' = IF cin.failed THEN cin ELSE [cin EXCEPT !.words = TakeChar.words]
  /\ asking' = [choice |-> "none", fields |-> <<>>, left |-> <<>>]
  /\ UNCHANGED user

Next == \/ \E c \in Menu : Choose(c)
        \/ \E w \in Words : Type(w)
        \/ Prompt \/ Confirm

-----------------------------------------------------------------------------
(* Each word answers the prompt it was meant for.                           *)
InStep ==
  /\ ~cin.failed /\ ~user.ahead
  /\ \A k \in DOMAIN Asked[user.choice] :
       OneByte(user.choice, Asked[user.choice][k][1]) => Len(user.answers[k]) = 1

(* What the user means by an answer: 0 repeats the last request.            *)
Meant(field, word) ==
  IF OneByte(user.choice, field) THEN Head(word)
  ELSE IF Number(word) = 0 THEN user.before[field] ELSE Number(word)

(* A request that is confirmed holds what was answered for each field, and  *)
(* what the request before it held where the answer was 0, as long as no    *)
(* answer runs over into the next prompt or makes cin fail.  UserID and     *)
(* UserTag do not: the answer to "User Tag" is the UserID, and the tag is 0.*)
AnswersKept ==
  asking.choice = "none" /\ user.requests > 0 /\ InStep =>
    LET asked  == Asked[user.choice]
        layout == FRAME_HDR \o Layout[user.choice]
        Holds(field, v) == Read(sent, layout, field) = Bytes(v, WidthOf(layout, field))
    IN Last(user.answers) = <<y>> =>
         /\ Len(user.answers) = Len(asked) + 1
         /\ Holds("msg_len", Len(sent) - 2) /\ Holds("MessageType", MessageType[user.choice])
         /\ Holds("UserID", Number(user.answers[2])) /\ Holds("UserTag", 0)
         /\ \A k \in 3 .. Len(asked) : Holds(asked[k][1], Meant(asked[k][1], user.answers[k]))
=============================================================================
