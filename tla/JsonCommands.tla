----------------------------- MODULE JsonCommands ----------------------------
(***************************************************************************)
(* The console commands of src/binary_gateway_load_test_client.cpp whose   *)
(* argument is a JSON text: M, C, A, W, F and B, which fill the fields of a*)
(* frame that the text names, and J, process_json_structures(), which      *)
(* writes the members of the text one after the other, so that a line that *)
(* process_load_tmr() has logged can be entered to send its order again.   *)
(*                                                                         *)
(* A text is an object, a sequence of members, or one that does not parse, *)
(* one that is no object, or is missing.  The value of a member is a       *)
(* "number" that an int holds, an "unsigned" that an unsigned int holds, a *)
(* "large" one that an int64_t holds, or a "string".  Negative numbers are *)
(* left out; a fraction crashes as a string does.                          *)
(***************************************************************************)
EXTENDS Naturals, Sequences, Functions, SequencesExt, Messages

CONSTANTS Members,        (* the members that texts are made of             *)
          MaxMembers,     (* bound: members of a text                       *)
          Counters, Users,(* m_counter and UserID of the orders logged      *)
          Now             (* what epoch_usecs() returns                     *)

VARIABLES logged,         (* the last line logged, and the frame it is of   *)
          entered,        (* the last command and its text                  *)
          written,        (* the bytes it wrote, none, or that it crashed   *)
          stack           (* the byte that the stack is full of             *)

json == <<logged, entered, written, stack>>

Object(members) == [kind |-> "object", members |-> members]
Other(kind)     == [kind |-> kind, members |-> <<>>]    (* missing, array or bad *)
None            == [outcome |-> "none", bytes |-> <<>>]
Crashed         == [outcome |-> "crashed", bytes |-> <<>>]
Wrote(bytes)    == [outcome |-> "wrote", bytes |-> bytes]

Init ==
  /\ logged = [text |-> Other("missing"), bytes |-> <<>>]
  /\ entered = [command |-> "none", text |-> Other("missing")]
  /\ written = None /\ stack \in {0, 255}

-----------------------------------------------------------------------------
(* The names that each command looks for, and the fields they fill          *)
Ids      == {<<"UserID", "UserID">>, <<"UserTag", "UserTag">>}
Exchange == {<<"ExchangeOrderID", "ExchangeOrderID">>}
Prices_  == {<<"OrderType", "OrderType">>, <<"TIF", "OrderTimeInForce">>,
             <<"ExType", "OrderExecutionType">>, <<"Quantity", "OrderQuantity">>,
             <<"DisclosedQuantity", "OrderDisclosedQuantity">>, <<"Price", "OrderPrice">>,
             <<"TriggerPrice", "OrderTriggerPrice">>,
             <<"MarketPriceProtectionTicks", "MarketPriceProtectionTicks">>}

ModifyOrder   == [layout |-> MODIFY_ORDER_REQUEST, type |-> 4,
                  names |-> Ids \cup Exchange \cup Prices_
                            \cup {<<"QuantityRemaining", "OrderQuantityRemaining">>}]
CancelOrder   == [layout |-> CANCEL_ORDER_REQUEST, type |-> 5, names |-> Ids \cup Exchange]
CancelAll     == [layout |-> CANCEL_ALL_ORDERS_REQUEST, type |-> 7,
                  names |-> Ids \cup {<<"CancelGTC", "cancel_gtc">>}]
WorkingOrders == [layout |-> WORKING_ORDERS_REQUEST, type |-> 9, names |-> Ids]
GetFills      == [layout |-> FILL_REQUEST, type |-> 10, names |-> Ids]
NewOrderBulk  == [layout |-> NEW_ORDER_REQUEST, type |-> 3,
                  names |-> Ids \cup Prices_ \cup {<<"InstrumentID", "OrderInstrumentID">>,
                            <<"Side", "OrderSide">>, <<"OrdTrig", "TriggerOn">>}]
Commands == [M |-> ModifyOrder, C |-> CancelOrder, A |-> CancelAll, W |-> WorkingOrders,
             F |-> GetFills, B |-> NewOrderBulk]

(* doc.HasMember(name), and doc[name].GetInt() of the first such member     *)
Given(text, name) == \E i \in DOMAIN text.members : text.members[i].name = name
First(text, name) == text.members[CHOOSE i \in DOMAIN text.members :
  /\ text.members[i].name = name
  /\ \A j \in 1 .. i - 1 : text.members[j].name # name]
IsInt(m)   == m.kind = "number"
IsUint(m)  == m.kind \in {"number", "unsigned"}
IsInt64(m) == m.kind \in {"number", "unsigned", "large"}
(* The assertion of the getter; C alone takes a tag with GetInt64().        *)
Gets(c, name, m) == IF c = "C" /\ name = "UserTag" THEN IsInt64(m) ELSE IsInt(m)

(* The bytes of one field: the write loop of B sets the tag anew            *)
Sources(cmd, field) == {name[1] : name \in {n \in cmd.names : n[2] = field}}
FieldBytes(c, text, field, w) ==
  LET cmd == Commands[c]
  IN CASE field = "msg_len"     -> Bytes(SizeOf(cmd.layout), w)
       [] field = "MessageType" -> Bytes(cmd.type, w)
       [] c = "B" /\ field = "UserTag" -> Bytes(Now, w)
       [] ~(c = "B" /\ field = "UserTag") /\ \E n \in Sources(cmd, field) : Given(text, n) ->
            Bytes(First(text, CHOOSE n \in Sources(cmd, field) : TRUE).value, w)
       [] OTHER -> [j \in 1 .. w |-> stack]

Frame(c, text) ==
  FoldLeft(LAMBDA bytes, x : bytes \o FieldBytes(c, text, x[1], x[2]), <<>>,
           FRAME_HDR \o Commands[c].layout)

Fill(c, text) ==
  CASE text.kind \in {"missing", "bad"} -> None
    [] text.kind = "array" -> Crashed                        (* HasMember() *)
    [] OTHER -> IF \E n \in Commands[c].names :
                     Given(text, n[1]) /\ ~Gets(c, n[1], First(text, n[1]))
                THEN Crashed ELSE Wrote(Frame(c, text))

-----------------------------------------------------------------------------
(* J: a member is as wide as its name says, and lands where the others end. *)
Strings  == {"Password", "PrimaryIPAddress", "SecondaryIPAddress", "PasswordDetails"}
NoTicks(name) ==                     (* variant: the ticks take 8 bytes     *)
  CASE name \in {"MessageLength", "MessageType"} -> 2
    [] name \in {"OrderType", "TIF", "Side", "ExType", "OrdTrig"} -> 1
    [] name \in Strings -> 16 [] OTHER -> 8
Wide(name) ==
  CASE name \in {"MessageLength", "MessageType", "MarketPriceProtectionTicks"} -> 2
    [] name \in {"OrderType", "TIF", "Side", "ExType", "OrdTrig"} -> 1
    [] name \in Strings -> 16 [] OTHER -> 8

(* GetString(), GetUint64() and GetUint()                                   *)
Accepts(m) ==
  CASE m.name \in Strings -> m.kind = "string"
    [] m.name \notin Strings /\ Wide(m.name) = 8 -> IsInt64(m)
    [] OTHER -> IsUint(m)

Joined(members) == FoldLeft(LAMBDA bytes, m : bytes \o Bytes(m.value, Wide(m.name)), <<>>, members)
Structure(text) ==
  CASE text.kind = "missing" -> None
    [] text.kind = "bad"     -> Wrote(<<>>)
    [] text.kind = "array"   -> Crashed                    (* MemberBegin() *)
    [] \E m \in Range(text.members) : ~Accepts(m) -> Crashed
    [] OTHER -> Wrote(Joined(text.members))

(* Nothing goes from one command to the next: the model ends with the first.*)
Do(command, text) ==
  /\ entered.command = "none"
  /\ entered' = [command |-> command, text |-> text]
  /\ written' = IF command = "J" THEN Structure(text) ELSE Fill(command, text)
  /\ UNCHANGED <<logged, stack>>

(* What the client writes without a text: the heartbeat of the idle timer,  *)
(* the logon after it has connected, with a password that fits, and L.      *)
Plain == [heartbeat |-> [layout |-> HEARTBEAT, type |-> 2],
          logon |-> [layout |-> GATEWAY_CLIENT_LOGON_REQUEST, type |-> 0],
          L |-> [layout |-> GATEWAY_CLIENT_LOGOFF_REQUEST, type |-> 1]]
Send(p, client, password) ==
  /\ entered.command = "none"
  /\ entered' = [command |-> p, text |-> Other("missing")]
  /\ written' = Wrote(Encode(FRAME_HDR \o Plain[p].layout,
       [msg_len |-> SizeOf(Plain[p].layout), MessageType |-> Plain[p].type,
        GatewayClientID |-> client, Password |-> password]))
  /\ UNCHANGED <<logged, stack>>

-----------------------------------------------------------------------------
(* process_load_tmr(): the fields of an order, and the line it logs         *)
Instruments == 1 .. 11
LowPrice(i) == CASE i = 1 -> 500100 [] i = 2 -> 400 [] i = 3 -> 10962 [] i = 4 -> 438
                 [] i = 6 -> 421 [] i = 10 -> 3927 [] i = 11 -> 2000 [] OTHER -> 0
Order(counter, user) ==
  LET instrument == (counter % 11) + 1
      type  == (counter % 9) + 1
      side  == (counter % 2) + 1
      price == LowPrice(instrument)
  IN [msg_len |-> SizeOf(NEW_ORDER_REQUEST), MessageType |-> 3, UserID |-> user,
      UserTag |-> counter, OrderInstrumentID |-> instrument, OrderType |-> type,
      OrderSide |-> side, OrderQuantity |-> 100, OrderDisclosedQuantity |-> 100, TriggerOn |-> 1,
      OrderPrice |-> IF type \in {1, 4, 7, 9} THEN 0 ELSE price,
      OrderTriggerPrice |-> price + (IF side = 2 \/ user % 3 # 0 THEN 5 ELSE 0),
      OrderTimeInForce |-> (counter % 4) + 1, MarketPriceProtectionTicks |-> 0,
      OrderExecutionType |-> 1]

Line(o) ==
  LET pairs == << <<"MessageLength", 65>>, <<"MessageType", 3>>, <<"UserID", o.UserID>>,
        <<"UserTag", o.UserTag>>, <<"InstrumentID", o.OrderInstrumentID>>,
        <<"OrderType", o.OrderType>>, <<"TIF", o.OrderTimeInForce>>, <<"Side", o.OrderSide>>,
        <<"ExType", o.OrderExecutionType>>, <<"Quantity", o.OrderQuantity>>,
        <<"DisclosedQuantity", o.OrderDisclosedQuantity>>, <<"Price", o.OrderPrice>>,
        <<"MarketPriceProtectionTicks", o.MarketPriceProtectionTicks>>,
        <<"TriggerPrice", o.OrderTriggerPrice>>, <<"OrdTrig", o.TriggerOn>> >>
  IN Object([i \in DOMAIN pairs |-> [name |-> pairs[i][1], kind |-> "number", value |-> pairs[i][2]]])

LogOrder(counter, user) ==
  /\ entered.command = "none" /\ logged.bytes = <<>>
  /\ LET o == Order(counter, user)
     IN logged' = [text |-> Line(o), bytes |-> Encode(FRAME_HDR \o NEW_ORDER_REQUEST, o)]
  /\ UNCHANGED <<entered, written, stack>>

(* The user enters a text, or the line that was logged last.                *)
Texts == {Other(k) : k \in {"missing", "array", "bad"}}
         \cup {Object(m) : m \in UNION {[1 .. n -> Members] : n \in 0 .. MaxMembers}}
Next ==
  \/ \E c \in DOMAIN Commands \cup {"J"},
        t \in IF logged.bytes = <<>> THEN Texts ELSE {logged.text} : Do(c, t)
  \/ \E n \in Counters, u \in Users : LogOrder(n, u)
  \/ \E p \in DOMAIN Plain, u \in Users : Send(p, u, 65)

-----------------------------------------------------------------------------
(* A line of the log, entered as it is, writes the frame it was logged for: *)
(* its members have the order and the widths of NEW_ORDER_REQUEST.          *)
ReplayExact ==
  entered.command = "J" /\ logged.bytes # <<>> /\ entered.text = logged.text
    => written = Wrote(logged.bytes)

(* Any other command writes one frame of the length that it says, which     *)
(* holds what the text gives, cut to the width of the field, whatever the   *)
(* order of its members and however often one comes; the bytes of fields    *)
(* that the text does not give are those of the stack.  A frame without a   *)
(* text has none of those.                                                  *)
CommandsFillFields ==
  /\ entered.command \in DOMAIN Plain =>
       LET layout == FRAME_HDR \o Plain[entered.command].layout
       IN /\ Len(written.bytes) = written.bytes[1] + 2
          /\ Read(written.bytes, layout, "MessageType")[1] = Plain[entered.command].type
  /\ entered.command \in DOMAIN Commands /\ written.outcome = "wrote" =>
       LET cmd    == Commands[entered.command]
           layout == FRAME_HDR \o cmd.layout
           frame  == written.bytes
           members == entered.text.members
           first  == {i \in DOMAIN members : \A j \in 1 .. i - 1 : members[j].name # members[i].name}
           tagged == {<<"UserTag", Now>> : x \in {c \in {"B"} : c = entered.command}}
           given  == {<<x[1][2], members[x[2]].value>> :
                        x \in {x \in cmd.names \X first : x[1][1] = members[x[2]].name}}
       IN /\ Len(frame) = frame[1] + 2 /\ frame[2] = 0 /\ frame[3] = cmd.type
          /\ \A f \in Range(cmd.layout) :
               LET all == {g \in given : g[1] = f[1] /\ <<f[1], Now>> \notin tagged}
                          \cup {g \in tagged : g[1] = f[1]}
               IN f[1] # "MessageType" => Read(frame, layout, f[1]) =
                    IF all = {} THEN [j \in 1 .. f[2] |-> stack]
                    ELSE Bytes((CHOOSE g \in all : TRUE)[2], f[2])
=============================================================================
