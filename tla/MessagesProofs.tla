--------------------------- MODULE MessagesProofs ---------------------------
(***************************************************************************)
(* What is encoded and read back as bytes, in MCUtilities: the frames that *)
(* the console of the load test client writes for a command (JsonCommands),*)
(* those the prompts of the sample client write (Prompts), and the answers *)
(* that its statistics are counted from (OrderStats).  For each of the     *)
(* three modules an invariant, and the theorem from it; what the layouts   *)
(* and folds give is in Recursions.                                        *)
(***************************************************************************)
EXTENDS MCUtilities, Recursions, FiniteSetTheorems, SequenceTheorems

-----------------------------------------------------------------------------
(* JsonCommands                                                             *)
LEMMA JsonMoves == [Next]_<<component, fields, log, config, clock, latency, stats, prompts,
                            json, hexdump, endpoint>> => [J!Next]_json
  BY DEF Next, json

(* It has the layouts and the bytes of Messages.                            *)
LEMMA JsonSame ==
  /\ \A l, f : J!Encode(l, f) = Msg!Encode(l, f)
  /\ \A b, l, f : J!Read(b, l, f) = Msg!Read(b, l, f)
  /\ \A l : J!SizeOf(l) = Msg!SizeOf(l)
  /\ \A v, w : J!Bytes(v, w) = Msg!Bytes(v, w)
  <1>1. \A v, w : J!Bytes(v, w) = Msg!Bytes(v, w)
    BY DEF J!Bytes, Msg!Bytes, J!Unit, Msg!Unit
  <1>2. \A l : J!SizeOf(l) = Msg!SizeOf(l)
    BY DEF J!SizeOf, Msg!SizeOf, J!FoldLeft, Msg!FoldLeft, J!MapThenFoldSet, Msg!MapThenFoldSet, J!Max, Msg!Max
  <1>3. \A l, f : J!Encode(l, f) = Msg!Encode(l, f)
    BY DEF J!Encode, Msg!Encode, J!FoldLeft, Msg!FoldLeft, J!MapThenFoldSet, Msg!MapThenFoldSet, J!Max, Msg!Max,
           J!Bytes, Msg!Bytes, J!Unit, Msg!Unit
  <1>4. \A b, l, f : J!Read(b, l, f) = Msg!Read(b, l, f)
    <2>1. \A l, f : J!Index(l, f) = Msg!Index(l, f)
      BY DEF J!Index, Msg!Index
    <2> QED BY <1>2, <2>1 DEF J!Read, Msg!Read, J!Offset, Msg!Offset, J!WidthOf, Msg!WidthOf
  <1> QED BY <1>1, <1>2, <1>3, <1>4

LEMMA JsonLayouts ==
  /\ J!FRAME_HDR = Msg!FRAME_HDR /\ J!HEARTBEAT = Msg!HEARTBEAT
  /\ J!GATEWAY_CLIENT_LOGON_REQUEST = Msg!GATEWAY_CLIENT_LOGON_REQUEST
  /\ J!GATEWAY_CLIENT_LOGOFF_REQUEST = Msg!GATEWAY_CLIENT_LOGOFF_REQUEST
  /\ J!NEW_ORDER_REQUEST = Msg!NEW_ORDER_REQUEST /\ J!MODIFY_ORDER_REQUEST = Msg!MODIFY_ORDER_REQUEST
  /\ J!CANCEL_ORDER_REQUEST = Msg!CANCEL_ORDER_REQUEST
  /\ J!CANCEL_ALL_ORDERS_REQUEST = Msg!CANCEL_ALL_ORDERS_REQUEST
  /\ J!WORKING_ORDERS_REQUEST = Msg!WORKING_ORDERS_REQUEST /\ J!FILL_REQUEST = Msg!FILL_REQUEST
  <1>1. J!FRAME_HDR = Msg!FRAME_HDR /\ J!Kind = Msg!Kind /\ J!Prices = Msg!Prices
    BY Zenon DEF J!FRAME_HDR, Msg!FRAME_HDR, J!Kind, Msg!Kind, J!Prices, Msg!Prices, J!Shorts, Msg!Shorts,
                 J!Longs, Msg!Longs, J!Chars, Msg!Chars
  <1>2. J!Request = Msg!Request
    BY <1>1 DEF J!Request, Msg!Request, J!User, Msg!User, J!Longs, Msg!Longs
  <1> QED
    BY <1>1, <1>2 DEF J!HEARTBEAT, Msg!HEARTBEAT, J!GATEWAY_CLIENT_LOGON_REQUEST, Msg!GATEWAY_CLIENT_LOGON_REQUEST,
       J!GATEWAY_CLIENT_LOGOFF_REQUEST, Msg!GATEWAY_CLIENT_LOGOFF_REQUEST, J!NEW_ORDER_REQUEST, Msg!NEW_ORDER_REQUEST,
       J!MODIFY_ORDER_REQUEST, Msg!MODIFY_ORDER_REQUEST, J!CANCEL_ORDER_REQUEST, Msg!CANCEL_ORDER_REQUEST,
       J!CANCEL_ALL_ORDERS_REQUEST, Msg!CANCEL_ALL_ORDERS_REQUEST, J!WORKING_ORDERS_REQUEST, Msg!WORKING_ORDERS_REQUEST,
       J!FILL_REQUEST, Msg!FILL_REQUEST, J!Longs, Msg!Longs, J!Chars, Msg!Chars

(* The command k of a text fills a frame that has so many fields and bytes. *)
CommandForm(k) == \E n, size \in Nat :
  Formed(J!Commands[k].layout, n, size) /\ n >= 1 /\ size < 254 /\ J!Commands[k].type \in 0 .. 255
LEMMA CommandForms == ASSUME NEW k \in DOMAIN J!Commands PROVE CommandForm(k)
  <1>1. k \in {"M", "C", "A", "W", "F", "B"}
    BY DEF J!Commands
  <1>2. CASE k = "M"
    <2>1. J!Commands[k].layout = Msg!MODIFY_ORDER_REQUEST /\ J!Commands[k].type = 4
      BY <1>2, JsonLayouts DEF J!Commands, J!ModifyOrder
    <2> QED BY <2>1, ModifyOrderRequestFormed DEF CommandForm
  <1>3. CASE k = "C"
    <2>1. J!Commands[k].layout = Msg!CANCEL_ORDER_REQUEST /\ J!Commands[k].type = 5
      BY <1>3, JsonLayouts DEF J!Commands, J!CancelOrder
    <2> QED BY <2>1, CancelOrderRequestFormed DEF CommandForm
  <1>4. CASE k = "A"
    <2>1. J!Commands[k].layout = Msg!CANCEL_ALL_ORDERS_REQUEST /\ J!Commands[k].type = 7
      BY <1>4, JsonLayouts DEF J!Commands, J!CancelAll
    <2> QED BY <2>1, CancelAllOrdersRequestFormed DEF CommandForm
  <1>5. CASE k = "W"
    <2>1. J!Commands[k].layout = Msg!WORKING_ORDERS_REQUEST /\ J!Commands[k].type = 9
      BY <1>5, JsonLayouts DEF J!Commands, J!WorkingOrders
    <2> QED BY <2>1, WorkingOrdersRequestFormed DEF CommandForm
  <1>6. CASE k = "F"
    <2>1. J!Commands[k].layout = Msg!FILL_REQUEST /\ J!Commands[k].type = 10
      BY <1>6, JsonLayouts DEF J!Commands, J!GetFills
    <2> QED BY <2>1, FillRequestFormed DEF CommandForm
  <1>7. CASE k = "B"
    <2>1. J!Commands[k].layout = Msg!NEW_ORDER_REQUEST /\ J!Commands[k].type = 3
      BY <1>7, JsonLayouts DEF J!Commands, J!NewOrderBulk
    <2> QED BY <2>1, NewOrderRequestFormed DEF CommandForm
  <1> QED BY <1>1, <1>2, <1>3, <1>4, <1>5, <1>6, <1>7

(* Each field of a command has one name; two fields have none.              *)
LEMMA OneName ==
  ASSUME NEW k \in DOMAIN J!Commands, NEW x \in J!Commands[k].names, NEW z \in J!Commands[k].names, x[2] = z[2]
  PROVE  x[1] = z[1] /\ x = <<x[1], x[2]>> /\ x[2] # "msg_len" /\ x[2] # "MessageType"
  <1>1. k \in {"M", "C", "A", "W", "F", "B"}
    BY DEF J!Commands
  <1> USE DEF J!Ids, J!Exchange, J!Prices_
  <1>2. CASE k = "M"
    <2>1. J!Commands[k].names = J!ModifyOrder.names
      BY <1>2 DEF J!Commands
    <2> QED BY <2>1 DEF J!ModifyOrder
  <1>3. CASE k = "C"
    <2>1. J!Commands[k].names = J!CancelOrder.names
      BY <1>3 DEF J!Commands
    <2> QED BY <2>1 DEF J!CancelOrder
  <1>4. CASE k = "A"
    <2>1. J!Commands[k].names = J!CancelAll.names
      BY <1>4 DEF J!Commands
    <2> QED BY <2>1 DEF J!CancelAll
  <1>5. CASE k = "W"
    <2>1. J!Commands[k].names = J!WorkingOrders.names
      BY <1>5 DEF J!Commands
    <2> QED BY <2>1 DEF J!WorkingOrders
  <1>6. CASE k = "F"
    <2>1. J!Commands[k].names = J!GetFills.names
      BY <1>6 DEF J!Commands
    <2> QED BY <2>1 DEF J!GetFills
  <1>7. CASE k = "B"
    <2>1. J!Commands[k].names = J!NewOrderBulk.names
      BY <1>7 DEF J!Commands
    <2> QED BY <2>1 DEF J!NewOrderBulk
  <1> QED BY <1>1, <1>2, <1>3, <1>4, <1>5, <1>6, <1>7

(* A line that is logged, and what J writes of a text.                      *)
LineOf(line, o) ==
  /\ line.kind = "object" /\ DOMAIN line.members = 1 .. 15
  /\ \A i \in 1 .. 15 : line.members[i].kind = "number"
  /\ line.members[1].name = "MessageLength" /\ line.members[1].value = 65
  /\ line.members[2].name = "MessageType" /\ line.members[2].value = 3
  /\ line.members[3].name = "UserID" /\ line.members[3].value = o.UserID
  /\ line.members[4].name = "UserTag" /\ line.members[4].value = o.UserTag
  /\ line.members[5].name = "InstrumentID" /\ line.members[5].value = o.OrderInstrumentID
  /\ line.members[6].name = "OrderType" /\ line.members[6].value = o.OrderType
  /\ line.members[7].name = "TIF" /\ line.members[7].value = o.OrderTimeInForce
  /\ line.members[8].name = "Side" /\ line.members[8].value = o.OrderSide
  /\ line.members[9].name = "ExType" /\ line.members[9].value = o.OrderExecutionType
  /\ line.members[10].name = "Quantity" /\ line.members[10].value = o.OrderQuantity
  /\ line.members[11].name = "DisclosedQuantity" /\ line.members[11].value = o.OrderDisclosedQuantity
  /\ line.members[12].name = "Price" /\ line.members[12].value = o.OrderPrice
  /\ line.members[13].name = "MarketPriceProtectionTicks" /\ line.members[13].value = o.MarketPriceProtectionTicks
  /\ line.members[14].name = "TriggerPrice" /\ line.members[14].value = o.OrderTriggerPrice
  /\ line.members[15].name = "OrdTrig" /\ line.members[15].value = o.TriggerOn
LEMMA LineIs == ASSUME NEW o PROVE LineOf(J!Line(o), o)
  <1> DEFINE line  == J!Line(o)
             pairs == << <<"MessageLength", 65>>,
                         <<"MessageType", 3>>,
                         <<"UserID", o.UserID>>,
                         <<"UserTag", o.UserTag>>,
                         <<"InstrumentID", o.OrderInstrumentID>>,
                         <<"OrderType", o.OrderType>>,
                         <<"TIF", o.OrderTimeInForce>>,
                         <<"Side", o.OrderSide>>,
                         <<"ExType", o.OrderExecutionType>>,
                         <<"Quantity", o.OrderQuantity>>,
                         <<"DisclosedQuantity", o.OrderDisclosedQuantity>>,
                         <<"Price", o.OrderPrice>>,
                         <<"MarketPriceProtectionTicks", o.MarketPriceProtectionTicks>>,
                         <<"TriggerPrice", o.OrderTriggerPrice>>,
                         <<"OrdTrig", o.TriggerOn>> >>
             member(x) == [name |-> x[1], kind |-> "number", value |-> x[2]]
  <1>1. line = [kind |-> "object", members |-> [i \in DOMAIN pairs |-> member(pairs[i])]]
    BY DEF J!Line, J!Object
  <1>2. DOMAIN pairs = 1 .. 15
    OBVIOUS
  <1>3. /\ pairs[1] = <<"MessageLength", 65>>
        /\ pairs[2] = <<"MessageType", 3>>
        /\ pairs[3] = <<"UserID", o.UserID>>
        /\ pairs[4] = <<"UserTag", o.UserTag>>
        /\ pairs[5] = <<"InstrumentID", o.OrderInstrumentID>>
        /\ pairs[6] = <<"OrderType", o.OrderType>>
        /\ pairs[7] = <<"TIF", o.OrderTimeInForce>>
        /\ pairs[8] = <<"Side", o.OrderSide>>
        /\ pairs[9] = <<"ExType", o.OrderExecutionType>>
        /\ pairs[10] = <<"Quantity", o.OrderQuantity>>
        /\ pairs[11] = <<"DisclosedQuantity", o.OrderDisclosedQuantity>>
        /\ pairs[12] = <<"Price", o.OrderPrice>>
        /\ pairs[13] = <<"MarketPriceProtectionTicks", o.MarketPriceProtectionTicks>>
        /\ pairs[14] = <<"TriggerPrice", o.OrderTriggerPrice>>
        /\ pairs[15] = <<"OrdTrig", o.TriggerOn>>
    OBVIOUS
  <1> HIDE DEF line, pairs
  <1>4. line.kind = "object" /\ line.members = [i \in 1 .. 15 |-> member(pairs[i])]
    BY <1>1, <1>2
  <1>5. DOMAIN line.members = 1 .. 15 /\ \A i \in 1 .. 15 : line.members[i] = member(pairs[i])
    BY <1>4
  <1>6. \A i \in 1 .. 15 : /\ line.members[i].kind = "number" /\ line.members[i].name = pairs[i][1]
                           /\ line.members[i].value = pairs[i][2]
    BY <1>5
  <1>7. LineOf(line, o)
    BY <1>3, <1>4, <1>5, <1>6 DEF LineOf
  <1> QED BY <1>7 DEF line

MemberPieces(text) == [i \in DOMAIN text.members |-> Msg!Bytes(text.members[i].value, J!Wide(text.members[i].name))]
LEMMA StructureIsCat ==
  ASSUME NEW n \in Nat, NEW text, DOMAIN text.members = 1 .. n, text.kind = "object",
         \A i \in 1 .. n : text.members[i].kind = "number" /\ text.members[i].name \notin J!Strings
  PROVE  J!Structure(text) = J!Wrote(CatOf(MemberPieces(text)))
  <1> DEFINE row == text.members
             p == MemberPieces(text)
             E1(iter) == [s \in SUBSET DOMAIN row |->
                            IF s = {} THEN <<>>
                            ELSE iter[s \ {J!Max(s)}] \o J!Bytes(row[J!Max(s)].value, J!Wide(row[J!Max(s)].name))]
             E2(iter) == [s \in SUBSET DOMAIN p |->
                            IF s = {} THEN <<>> ELSE iter[s \ {Msg!Max(s)}] \o p[Msg!Max(s)]]
  <1>1. DOMAIN p = DOMAIN row /\ \A i \in DOMAIN row : p[i] = J!Bytes(row[i].value, J!Wide(row[i].name))
    BY JsonSame DEF MemberPieces
  <1>2. ASSUME NEW iter PROVE E1(iter) = E2(iter)
    <2>1. ASSUME NEW s \in SUBSET DOMAIN row, s # {} PROVE Msg!Max(s) \in DOMAIN row
      <3>1. s \in SUBSET (1 .. n)
        OBVIOUS
      <3> QED BY <2>1, <3>1, MaxIs
    <2>2. \A s : J!Max(s) = Msg!Max(s)
      BY DEF J!Max, Msg!Max
    <2> HIDE DEF row, p
    <2> QED BY <2>1, <2>2, <1>1
  <1>3. J!Joined(row) = (CHOOSE iter : iter = E1(iter))[DOMAIN row]
    <2> HIDE DEF row, p
    <2> QED BY DEF J!Joined, J!FoldLeft, J!MapThenFoldSet
  <1>4. CatOf(p) = (CHOOSE iter : iter = E2(iter))[DOMAIN p]
    BY DEF CatOf, Msg!FoldLeft, Msg!MapThenFoldSet
  <1>6. J!Structure(text) = J!Wrote(J!Joined(row))
    <2>1. ~\E x \in J!Range(text.members) : ~J!Accepts(x)
      BY DEF J!Range, J!Accepts, J!IsUint, J!IsInt64
    <2> QED BY <2>1 DEF J!Structure
  <1> HIDE DEF E1, E2, p, row
  <1>5. (CHOOSE iter : iter = E1(iter)) = (CHOOSE iter : iter = E2(iter))
    BY <1>2
  <1> QED
    BY <1>1, <1>3, <1>4, <1>5, <1>6 DEF p

(* A logged line writes the bytes of its order.                             *)
LEMMA LineWrites ==
  ASSUME NEW o, o.msg_len = 65, o.MessageType = 3
  PROVE  J!Structure(J!Line(o)) = J!Wrote(J!Encode(J!FRAME_HDR \o J!NEW_ORDER_REQUEST, o))
  <1> DEFINE l    == Msg!NEW_ORDER_REQUEST
             m    == Msg!FRAME_HDR \o l
             line == J!Line(o)
             row  == line.members
             Same(i) == /\ row[i].kind = "number" /\ row[i].name \notin J!Strings
                        /\ J!Wide(row[i].name) = m[i][2] /\ row[i].value = o[m[i][1]]
  <1>1. /\ m \in Layouts /\ Len(m) = 15 /\ m[1] = <<"msg_len", 2>> /\ \A i \in 1 .. 14 : m[i + 1] = l[i]
    <2>1. Formed(l, 14, 65) /\ 14 \in Nat /\ 65 \in Nat /\ 14 + 1 = 15
      BY NewOrderRequestFormed
    <2> HIDE DEF l
    <2>2. HasHeader(m, l, 14, 65)
      BY <2>1, HeadedForms
    <2> HIDE DEF m
    <2> QED BY <2>1, <2>2 DEF HasHeader
  <1>2. DOMAIN m = 1 .. 15
    <2> HIDE DEF m
    <2> QED BY <1>1 DEF Layouts
  <1>3. /\ m[1] = <<"msg_len", 2>> /\ m[2] = <<"MessageType", 2>> /\ m[3] = <<"UserID", 8>>
        /\ m[4] = <<"UserTag", 8>> /\ m[5] = <<"OrderInstrumentID", 8>> /\ m[6] = <<"OrderType", 1>>
        /\ m[7] = <<"OrderTimeInForce", 1>> /\ m[8] = <<"OrderSide", 1>> /\ m[9] = <<"OrderExecutionType", 1>>
        /\ m[10] = <<"OrderQuantity", 8>> /\ m[11] = <<"OrderDisclosedQuantity", 8>> /\ m[12] = <<"OrderPrice", 8>>
        /\ m[13] = <<"MarketPriceProtectionTicks", 2>> /\ m[14] = <<"OrderTriggerPrice", 8>> /\ m[15] = <<"TriggerOn", 1>>
    <2> HIDE DEF m
    <2>1. /\ m[2] = l[1] /\ m[3] = l[2] /\ m[4] = l[3] /\ m[5] = l[4] /\ m[6] = l[5]
          /\ m[7] = l[6] /\ m[8] = l[7] /\ m[9] = l[8] /\ m[10] = l[9] /\ m[11] = l[10]
          /\ m[12] = l[11] /\ m[13] = l[12] /\ m[14] = l[13] /\ m[15] = l[14]
      <3>1. /\ m[1 + 1] = l[1] /\ m[2 + 1] = l[2] /\ m[3 + 1] = l[3] /\ m[4 + 1] = l[4] /\ m[5 + 1] = l[5]
            /\ m[6 + 1] = l[6] /\ m[7 + 1] = l[7] /\ m[8 + 1] = l[8] /\ m[9 + 1] = l[9] /\ m[10 + 1] = l[10]
            /\ m[11 + 1] = l[11] /\ m[12 + 1] = l[12] /\ m[13 + 1] = l[13] /\ m[14 + 1] = l[14]
        BY <1>1
      <3> HIDE DEF l
      <3> QED BY <3>1
    <2> QED BY <2>1, <1>1, NewOrderRequestFields
  <1>4. /\ line.kind = "object" /\ DOMAIN row = 1 .. 15 /\ \A i \in 1 .. 15 : row[i].kind = "number"
        /\ row[1].name = "MessageLength" /\ row[1].value = o["msg_len"]
        /\ row[2].name = "MessageType" /\ row[2].value = o["MessageType"]
        /\ row[3].name = "UserID" /\ row[3].value = o["UserID"]
        /\ row[4].name = "UserTag" /\ row[4].value = o["UserTag"]
        /\ row[5].name = "InstrumentID" /\ row[5].value = o["OrderInstrumentID"]
        /\ row[6].name = "OrderType" /\ row[6].value = o["OrderType"]
        /\ row[7].name = "TIF" /\ row[7].value = o["OrderTimeInForce"]
        /\ row[8].name = "Side" /\ row[8].value = o["OrderSide"]
        /\ row[9].name = "ExType" /\ row[9].value = o["OrderExecutionType"]
        /\ row[10].name = "Quantity" /\ row[10].value = o["OrderQuantity"]
        /\ row[11].name = "DisclosedQuantity" /\ row[11].value = o["OrderDisclosedQuantity"]
        /\ row[12].name = "Price" /\ row[12].value = o["OrderPrice"]
        /\ row[13].name = "MarketPriceProtectionTicks" /\ row[13].value = o["MarketPriceProtectionTicks"]
        /\ row[14].name = "TriggerPrice" /\ row[14].value = o["OrderTriggerPrice"]
        /\ row[15].name = "OrdTrig" /\ row[15].value = o["TriggerOn"]
    <2>1. /\ line.kind = "object" /\ DOMAIN row = 1 .. 15 /\ \A i \in 1 .. 15 : row[i].kind = "number"
          /\ row[1].name = "MessageLength" /\ row[1].value = 65
          /\ row[2].name = "MessageType" /\ row[2].value = 3
          /\ row[3].name = "UserID" /\ row[3].value = o.UserID
          /\ row[4].name = "UserTag" /\ row[4].value = o.UserTag
          /\ row[5].name = "InstrumentID" /\ row[5].value = o.OrderInstrumentID
          /\ row[6].name = "OrderType" /\ row[6].value = o.OrderType
          /\ row[7].name = "TIF" /\ row[7].value = o.OrderTimeInForce
          /\ row[8].name = "Side" /\ row[8].value = o.OrderSide
          /\ row[9].name = "ExType" /\ row[9].value = o.OrderExecutionType
          /\ row[10].name = "Quantity" /\ row[10].value = o.OrderQuantity
          /\ row[11].name = "DisclosedQuantity" /\ row[11].value = o.OrderDisclosedQuantity
          /\ row[12].name = "Price" /\ row[12].value = o.OrderPrice
          /\ row[13].name = "MarketPriceProtectionTicks" /\ row[13].value = o.MarketPriceProtectionTicks
          /\ row[14].name = "TriggerPrice" /\ row[14].value = o.OrderTriggerPrice
          /\ row[15].name = "OrdTrig" /\ row[15].value = o.TriggerOn
      <3>1. LineOf(line, o)
        BY LineIs
      <3> HIDE DEF line
      <3> QED BY <3>1 DEF LineOf
    <2> HIDE DEF line, row
    <2> QED BY <2>1
  <1> HIDE DEF m, line, row
  <1>10. Same(1)
    <2>1. m[1] = <<"msg_len", 2>>
      BY <1>3
    <2>2. J!Wide("MessageLength") = 2 /\ "MessageLength" \notin J!Strings
      BY DEF J!Wide, J!Strings
    <2> QED BY <2>1, <2>2, <1>4 DEF Same
  <1>11. Same(2)
    <2>1. m[2] = <<"MessageType", 2>>
      BY <1>3
    <2>2. J!Wide("MessageType") = 2 /\ "MessageType" \notin J!Strings
      BY DEF J!Wide, J!Strings
    <2> QED BY <2>1, <2>2, <1>4 DEF Same
  <1>12. Same(3)
    <2>1. m[3] = <<"UserID", 8>>
      BY <1>3
    <2>2. J!Wide("UserID") = 8 /\ "UserID" \notin J!Strings
      BY DEF J!Wide, J!Strings
    <2> QED BY <2>1, <2>2, <1>4 DEF Same
  <1>13. Same(4)
    <2>1. m[4] = <<"UserTag", 8>>
      BY <1>3
    <2>2. J!Wide("UserTag") = 8 /\ "UserTag" \notin J!Strings
      BY DEF J!Wide, J!Strings
    <2> QED BY <2>1, <2>2, <1>4 DEF Same
  <1>14. Same(5)
    <2>1. m[5] = <<"OrderInstrumentID", 8>>
      BY <1>3
    <2>2. J!Wide("InstrumentID") = 8 /\ "InstrumentID" \notin J!Strings
      BY DEF J!Wide, J!Strings
    <2> QED BY <2>1, <2>2, <1>4 DEF Same
  <1>15. Same(6)
    <2>1. m[6] = <<"OrderType", 1>>
      BY <1>3
    <2>2. J!Wide("OrderType") = 1 /\ "OrderType" \notin J!Strings
      BY DEF J!Wide, J!Strings
    <2> QED BY <2>1, <2>2, <1>4 DEF Same
  <1>16. Same(7)
    <2>1. m[7] = <<"OrderTimeInForce", 1>>
      BY <1>3
    <2>2. J!Wide("TIF") = 1 /\ "TIF" \notin J!Strings
      BY DEF J!Wide, J!Strings
    <2> QED BY <2>1, <2>2, <1>4 DEF Same
  <1>17. Same(8)
    <2>1. m[8] = <<"OrderSide", 1>>
      BY <1>3
    <2>2. J!Wide("Side") = 1 /\ "Side" \notin J!Strings
      BY DEF J!Wide, J!Strings
    <2> QED BY <2>1, <2>2, <1>4 DEF Same
  <1>18. Same(9)
    <2>1. m[9] = <<"OrderExecutionType", 1>>
      BY <1>3
    <2>2. J!Wide("ExType") = 1 /\ "ExType" \notin J!Strings
      BY DEF J!Wide, J!Strings
    <2> QED BY <2>1, <2>2, <1>4 DEF Same
  <1>19. Same(10)
    <2>1. m[10] = <<"OrderQuantity", 8>>
      BY <1>3
    <2>2. J!Wide("Quantity") = 8 /\ "Quantity" \notin J!Strings
      BY DEF J!Wide, J!Strings
    <2> QED BY <2>1, <2>2, <1>4 DEF Same
  <1>20. Same(11)
    <2>1. m[11] = <<"OrderDisclosedQuantity", 8>>
      BY <1>3
    <2>2. J!Wide("DisclosedQuantity") = 8 /\ "DisclosedQuantity" \notin J!Strings
      BY DEF J!Wide, J!Strings
    <2> QED BY <2>1, <2>2, <1>4 DEF Same
  <1>21. Same(12)
    <2>1. m[12] = <<"OrderPrice", 8>>
      BY <1>3
    <2>2. J!Wide("Price") = 8 /\ "Price" \notin J!Strings
      BY DEF J!Wide, J!Strings
    <2> QED BY <2>1, <2>2, <1>4 DEF Same
  <1>22. Same(13)
    <2>1. m[13] = <<"MarketPriceProtectionTicks", 2>>
      BY <1>3
    <2>2. J!Wide("MarketPriceProtectionTicks") = 2 /\ "MarketPriceProtectionTicks" \notin J!Strings
      BY DEF J!Wide, J!Strings
    <2> QED BY <2>1, <2>2, <1>4 DEF Same
  <1>23. Same(14)
    <2>1. m[14] = <<"OrderTriggerPrice", 8>>
      BY <1>3
    <2>2. J!Wide("TriggerPrice") = 8 /\ "TriggerPrice" \notin J!Strings
      BY DEF J!Wide, J!Strings
    <2> QED BY <2>1, <2>2, <1>4 DEF Same
  <1>24. Same(15)
    <2>1. m[15] = <<"TriggerOn", 1>>
      BY <1>3
    <2>2. J!Wide("OrdTrig") = 1 /\ "OrdTrig" \notin J!Strings
      BY DEF J!Wide, J!Strings
    <2> QED BY <2>1, <2>2, <1>4 DEF Same
  <1>30. \A i \in 1 .. 15 : Same(i)
    <2> HIDE DEF Same
    <2> QED BY <1>10, <1>11, <1>12, <1>13, <1>14, <1>15, <1>16, <1>17, <1>18, <1>19, <1>20, <1>21, <1>22, <1>23, <1>24
  <1>31. MemberPieces(line) = Pieces(m, o)
    BY <1>2, <1>4, <1>30, JsonSame DEF MemberPieces, Pieces, row
  <1>32. J!Structure(line) = J!Wrote(CatOf(MemberPieces(line)))
    <2>1. 15 \in Nat /\ DOMAIN line.members = 1 .. 15
          /\ \A i \in 1 .. 15 : line.members[i].kind = "number" /\ line.members[i].name \notin J!Strings
      BY <1>4, <1>30 DEF row
    <2> QED BY <2>1, <1>4, StructureIsCat
  <1>33. Msg!Encode(m, o) = CatOf(Pieces(m, o))
    <2>1. 15 \in Nat
      OBVIOUS
    <2> QED BY <2>1, <1>2, EncodeIsCat
  <1>34. J!Encode(J!FRAME_HDR \o J!NEW_ORDER_REQUEST, o) = Msg!Encode(m, o)
    BY JsonSame, JsonLayouts DEF m
  <1> QED
    BY <1>31, <1>32, <1>33, <1>34 DEF line

(* The first member of a name.                                              *)
Leads(text, name, i) == /\ i \in DOMAIN text.members /\ text.members[i].name = name
                        /\ \A j \in 1 .. i - 1 : text.members[j].name # name
LEMMA OneLeads ==
  ASSUME NEW n \in Nat, NEW text, DOMAIN text.members = 1 .. n, NEW name, J!Given(text, name)
  PROVE  \E i \in 1 .. n : /\ Leads(text, name, i) /\ J!First(text, name) = text.members[i]
                           /\ \A j : Leads(text, name, j) => j = i
  <1> DEFINE A == {i \in Nat : \A j \in 1 .. n : j <= i => text.members[j].name # name}
  <1>1. \E i \in 1 .. n : Leads(text, name, i)
    <2> SUFFICES ASSUME \A i \in 1 .. n : ~Leads(text, name, i) PROVE FALSE
      OBVIOUS
    <2>1. 0 \in A
      OBVIOUS
    <2>2. ASSUME NEW i \in Nat, i \in A PROVE i + 1 \in A
      <3> SUFFICES ASSUME NEW j \in 1 .. n, j <= i + 1, text.members[j].name = name PROVE FALSE
        OBVIOUS
      <3>1. \A m \in 1 .. j - 1 : m \in 1 .. n /\ m <= i
        OBVIOUS
      <3>2. \A m \in 1 .. j - 1 : text.members[m].name # name
        BY <3>1, <2>2
      <3> QED BY <3>2 DEF Leads
    <2>3. Nat \subseteq A
      <3> HIDE DEF A
      <3> QED BY <2>1, <2>2, Induction
    <2>4. n \in A
      BY <2>3
    <2> QED BY <2>4 DEF J!Given
  <1>2. \A i, j : Leads(text, name, i) /\ Leads(text, name, j) => i = j
    <2> SUFFICES ASSUME NEW i \in 1 .. n, NEW j \in 1 .. n, Leads(text, name, i), Leads(text, name, j) PROVE i = j
      BY DEF Leads
    <2>1. i < j => i \in 1 .. j - 1
      OBVIOUS
    <2>2. j < i => j \in 1 .. i - 1
      OBVIOUS
    <2>3. ~(i < j) /\ ~(j < i)
      BY <2>1, <2>2 DEF Leads
    <2> QED BY <2>3
  <1>3. J!First(text, name) = text.members[CHOOSE i \in DOMAIN text.members : Leads(text, name, i)]
    BY DEF J!First, Leads
  <1> QED BY <1>1, <1>2, <1>3

(* What the text gives for a field, as the property has it.                 *)
TaggedOf(k) == {<<"UserTag", Now>> : x \in {y \in {"B"} : y = k}}
FirstOf(text) ==
  {i \in DOMAIN text.members : \A j \in 1 .. i - 1 : text.members[j].name # text.members[i].name}
GivenOf(k, text) ==
  {<<x[1][2], text.members[x[2]].value>> :
     x \in {x \in J!Commands[k].names \X FirstOf(text) : x[1][1] = text.members[x[2]].name}}
AllOf(k, text, field) ==
  {g \in GivenOf(k, text) : g[1] = field /\ <<field, Now>> \notin TaggedOf(k)} \cup {g \in TaggedOf(k) : g[1] = field}
ValueOf(k, text, field, w) ==
  IF AllOf(k, text, field) = {} THEN [j \in 1 .. w |-> stack]
  ELSE J!Bytes((CHOOSE g \in AllOf(k, text, field) : TRUE)[2], w)

Row(text) == \E n \in Nat : DOMAIN text.members = 1 .. n /\ \A i \in 1 .. n : text.members[i].value \in Nat
FieldGoes(k, text, field, w) ==
  /\ J!FieldBytes(k, text, field, w) = ValueOf(k, text, field, w)
  /\ AllOf(k, text, field) = {} \/ (CHOOSE g \in AllOf(k, text, field) : TRUE)[2] \in Nat
LEMMA FieldIs ==
  ASSUME NEW k \in DOMAIN J!Commands, NEW text, Row(text),
         NEW field, field # "msg_len", field # "MessageType", NEW w \in Nat
  PROVE  FieldGoes(k, text, field, w)
  <1> PICK n \in Nat : DOMAIN text.members = 1 .. n /\ \A i \in 1 .. n : text.members[i].value \in Nat
    BY DEF Row
  <1> SUFFICES /\ J!FieldBytes(k, text, field, w) = ValueOf(k, text, field, w)
               /\ AllOf(k, text, field) = {} \/ (CHOOSE g \in AllOf(k, text, field) : TRUE)[2] \in Nat
    BY DEF FieldGoes
  <1> DEFINE Set == AllOf(k, text, field)
             Src == J!Sources(J!Commands[k], field)
  <1>1. CASE k = "B" /\ field = "UserTag"
    <2>1. TaggedOf(k) = {<<field, Now>>}
      BY <1>1 DEF TaggedOf
    <2>2. Set = {<<field, Now>>}
      BY <2>1 DEF AllOf
    <2>3. J!FieldBytes(k, text, field, w) = J!Bytes(Now, w)
      BY <1>1 DEF J!FieldBytes
    <2> HIDE DEF Set
    <2>4. (CHOOSE g \in Set : TRUE)[2] = Now /\ Set # {}
      <3> DEFINE one == CHOOSE g \in Set : TRUE
      <3>1. one = <<field, Now>> /\ Set # {}
        BY <2>2
      <3> HIDE DEF one
      <3>2. one[2] = Now
        BY <3>1
      <3> QED BY <3>1, <3>2 DEF one
    <2> QED BY <2>3, <2>4, JsonAssumption DEF ValueOf, Set
  <1>2. CASE ~(k = "B" /\ field = "UserTag")
    <2>1. \A g \in TaggedOf(k) : g[1] # field
      BY <1>2 DEF TaggedOf
    <2>2. <<field, Now>> \notin TaggedOf(k)
      BY <1>2 DEF TaggedOf
    <2>3. Set = {g \in GivenOf(k, text) : g[1] = field}
      BY <2>1, <2>2 DEF AllOf
    <2>4. ASSUME NEW g \in Set
          PROVE  \E name \in Src : \E i \in 1 .. n : Leads(text, name, i) /\ g = <<field, text.members[i].value>>
      <3>1. PICK x \in J!Commands[k].names \X FirstOf(text) :
               x[1][1] = text.members[x[2]].name /\ g = <<x[1][2], text.members[x[2]].value>>
        BY <2>3 DEF GivenOf
      <3>2. x[1] \in J!Commands[k].names /\ x[2] \in FirstOf(text) /\ x[1][2] = field
        BY <2>3, <3>1
      <3>3. x[1][1] \in Src
        BY <3>2 DEF J!Sources
      <3>4. x[2] \in 1 .. n /\ Leads(text, x[1][1], x[2])
        BY <3>1, <3>2 DEF FirstOf, Leads
      <3> QED BY <3>1, <3>2, <3>3, <3>4
    <2>5. ASSUME NEW name \in Src, NEW i \in 1 .. n, Leads(text, name, i)
          PROVE  <<field, text.members[i].value>> \in Set
      <3>1. PICK y \in J!Commands[k].names : y[2] = field /\ y[1] = name
        BY DEF J!Sources
      <3>2. i \in FirstOf(text) /\ y[1] = text.members[i].name
        BY <2>5, <3>1 DEF FirstOf, Leads
      <3>3. <<y, i>> \in J!Commands[k].names \X FirstOf(text)
        BY <3>2
      <3>4. <<y[2], text.members[i].value>> \in GivenOf(k, text)
        BY <3>2, <3>3 DEF GivenOf
      <3> QED BY <3>1, <3>4, <2>3
    <2>6. \A a1, a2 \in Src : a1 = a2
      <3> SUFFICES ASSUME NEW y \in J!Commands[k].names, NEW z \in J!Commands[k].names, y[2] = field, z[2] = field
                   PROVE  y[1] = z[1]
        BY DEF J!Sources
      <3>1. y[2] = z[2]
        OBVIOUS
      <3> QED BY <3>1, OneName
    <2> HIDE DEF Set, Src
    <2>7. CASE \E name \in Src : J!Given(text, name)
      <3> DEFINE name == CHOOSE name \in Src : TRUE
      <3>1. name \in Src /\ J!Given(text, name)
        BY <2>6, <2>7
      <3> HIDE DEF name
      <3>2. PICK i \in 1 .. n : /\ Leads(text, name, i) /\ J!First(text, name) = text.members[i]
                                /\ \A j : Leads(text, name, j) => j = i
        BY <3>1, OneLeads
      <3>3. J!FieldBytes(k, text, field, w) = J!Bytes(text.members[i].value, w)
        <4>1. J!FieldBytes(k, text, field, w) = J!Bytes(J!First(text, CHOOSE m \in Src : TRUE).value, w)
          BY <1>2, <2>7 DEF J!FieldBytes, Src
        <4> QED BY <3>2, <4>1 DEF name
      <3>4. <<field, text.members[i].value>> \in Set
        BY <3>1, <3>2, <2>5
      <3>5. \A g \in Set : g = <<field, text.members[i].value>>
        <4> SUFFICES ASSUME NEW g \in Set PROVE g = <<field, text.members[i].value>>
          OBVIOUS
        <4>1. PICK m \in Src, j \in 1 .. n : Leads(text, m, j) /\ g = <<field, text.members[j].value>>
          BY <2>4
        <4>2. m = name
          BY <2>6, <3>1
        <4> QED BY <4>1, <4>2, <3>2
      <3>6. Set # {} /\ (CHOOSE g \in Set : TRUE)[2] = text.members[i].value
        <4> DEFINE one == CHOOSE g \in Set : TRUE
        <4>1. one \in Set
          BY <3>4
        <4> HIDE DEF one
        <4>2. one = <<field, text.members[i].value>>
          BY <4>1, <3>5
        <4>3. one[2] = text.members[i].value
          BY <4>2
        <4> QED BY <3>4, <4>3 DEF one
      <3> QED BY <3>3, <3>6 DEF ValueOf, Set
    <2>8. CASE ~\E name \in Src : J!Given(text, name)
      <3>1. Set = {}
        <4> SUFFICES ASSUME NEW g \in Set PROVE FALSE
          OBVIOUS
        <4>1. PICK m \in Src, j \in 1 .. n : Leads(text, m, j)
          BY <2>4
        <4> QED BY <4>1, <2>8 DEF J!Given, Leads
      <3>2. J!FieldBytes(k, text, field, w) = [j \in 1 .. w |-> stack]
        BY <1>2, <2>8 DEF J!FieldBytes, Src
      <3> QED BY <3>1, <3>2 DEF ValueOf, Set
    <2> QED BY <2>7, <2>8 DEF Set
  <1> QED BY <1>1, <1>2

LEMMA FieldHeads ==
  ASSUME NEW k \in DOMAIN J!Commands, NEW text, NEW w
  PROVE  /\ J!FieldBytes(k, text, "msg_len", w) = Msg!Bytes(Msg!SizeOf(J!Commands[k].layout), w)
         /\ J!FieldBytes(k, text, "MessageType", w) = Msg!Bytes(J!Commands[k].type, w)
  <1>0. J!Sources(J!Commands[k], "msg_len") = {} /\ J!Sources(J!Commands[k], "MessageType") = {}
    <2>1. \A x \in J!Commands[k].names : x[2] # "msg_len" /\ x[2] # "MessageType"
      BY OneName
    <2> QED BY <2>1 DEF J!Sources
  <1>1. J!FieldBytes(k, text, "msg_len", w) = J!Bytes(J!SizeOf(J!Commands[k].layout), w)
    BY <1>0 DEF J!FieldBytes
  <1>2. J!FieldBytes(k, text, "MessageType", w) = J!Bytes(J!Commands[k].type, w)
    BY <1>0 DEF J!FieldBytes
  <1> QED BY <1>1, <1>2, JsonSame

(* A frame is the bytes of its fields.                                      *)
FramePieces(k, text) ==
  LET m == J!FRAME_HDR \o J!Commands[k].layout
  IN  [i \in DOMAIN m |-> J!FieldBytes(k, text, m[i][1], m[i][2])]
LEMMA FrameIsCat ==
  ASSUME NEW n \in Nat, NEW k, DOMAIN (J!FRAME_HDR \o J!Commands[k].layout) = 1 .. n, NEW text
  PROVE  J!Frame(k, text) = CatOf(FramePieces(k, text))
  <1> DEFINE row == J!FRAME_HDR \o J!Commands[k].layout
             p == FramePieces(k, text)
             E1(iter) == [s \in SUBSET DOMAIN row |->
                            IF s = {} THEN <<>>
                            ELSE iter[s \ {J!Max(s)}]
                                 \o J!FieldBytes(k, text, row[J!Max(s)][1], row[J!Max(s)][2])]
             E2(iter) == [s \in SUBSET DOMAIN p |->
                            IF s = {} THEN <<>> ELSE iter[s \ {Msg!Max(s)}] \o p[Msg!Max(s)]]
  <1>1. DOMAIN p = DOMAIN row /\ \A i \in DOMAIN row : p[i] = J!FieldBytes(k, text, row[i][1], row[i][2])
    BY DEF FramePieces
  <1>2. ASSUME NEW iter PROVE E1(iter) = E2(iter)
    <2>1. ASSUME NEW s \in SUBSET DOMAIN row, s # {} PROVE Msg!Max(s) \in DOMAIN row
      <3>1. s \in SUBSET (1 .. n)
        OBVIOUS
      <3> QED BY <2>1, <3>1, MaxIs
    <2>2. \A s : J!Max(s) = Msg!Max(s)
      BY DEF J!Max, Msg!Max
    <2> HIDE DEF row, p
    <2> QED BY <2>1, <2>2, <1>1
  <1>3. J!Frame(k, text) = (CHOOSE iter : iter = E1(iter))[DOMAIN row]
    BY DEF J!Frame, J!FoldLeft, J!MapThenFoldSet
  <1>4. CatOf(p) = (CHOOSE iter : iter = E2(iter))[DOMAIN p]
    BY DEF CatOf, Msg!FoldLeft, Msg!MapThenFoldSet
  <1> HIDE DEF E1, E2, p, row
  <1>5. (CHOOSE iter : iter = E1(iter)) = (CHOOSE iter : iter = E2(iter))
    BY <1>2
  <1> QED
    BY <1>1, <1>3, <1>4, <1>5 DEF p

(* A frame has the length that it says, its type, and what the text gives.  *)
Filled(k, text, frame) ==
  /\ Len(frame) = frame[1] + 2 /\ frame[2] = 0 /\ frame[3] = J!Commands[k].type
  /\ \A f \in J!Range(J!Commands[k].layout) : f[1] # "MessageType" =>
       J!Read(frame, J!FRAME_HDR \o J!Commands[k].layout, f[1]) = ValueOf(k, text, f[1], f[2])
LEMMA FramesFilled ==
  ASSUME stack \in {0, 255},
         NEW k \in DOMAIN J!Commands, NEW text, Row(text)
  PROVE  Filled(k, text, J!Frame(k, text))
  <1> DEFINE l == J!Commands[k].layout
             type == J!Commands[k].type
             m == Msg!FRAME_HDR \o l
             p == FramePieces(k, text)
             frame == J!Frame(k, text)
  <1>1. PICK count \in Nat, size \in Nat : Formed(l, count, size) /\ count >= 1 /\ size < 254 /\ type \in 0 .. 255
    BY CommandForms DEF CommandForm
  <1>2. m = J!FRAME_HDR \o J!Commands[k].layout
    BY JsonLayouts
  <1> HIDE DEF l, type
  <1>3. HasHeader(m, l, count, size)
    BY <1>1, HeadedForms
  <1> HIDE DEF m
  <1>4. /\ m \in Layouts /\ m \in Seq(FieldNames \X Nat) /\ Len(m) = count + 1 /\ DOMAIN m = 1 .. count + 1
        /\ \A i \in 1 .. count : m[i + 1] = l[i]
        /\ m[1] = <<"msg_len", 2>> /\ Msg!SizeOf(m) = size + 2
    BY <1>3 DEF HasHeader, Layouts
  <1>5. /\ count \in Nat /\ DOMAIN l = 1 .. count /\ l[1] = <<"MessageType", 2>> /\ l \in Seq(FieldNames \X Nat)
        /\ (\A i \in 1 .. count : l[i][1] # "msg_len") /\ Msg!SizeOf(l) = size
        /\ \A i, j \in 1 .. count : l[i][1] = l[j][1] => i = j
    <2>1. l \in Layouts /\ Len(l) = count /\ l[1] = <<"MessageType", 2>>
          /\ (\A i \in 1 .. count : l[i][1] # "msg_len") /\ Msg!SizeOf(l) = size
      BY <1>1 DEF Formed
    <2>2. l \in Seq(FieldNames \X Nat) /\ \A i, j \in DOMAIN l : l[i][1] = l[j][1] => i = j
      BY <2>1 DEF Layouts
    <2>3. DOMAIN l = 1 .. count
      BY <2>1, <2>2
    <2> QED BY <2>1, <2>2, <2>3
  <1>6. DOMAIN p = 1 .. count + 1 /\ \A i \in 1 .. count + 1 : p[i] = J!FieldBytes(k, text, m[i][1], m[i][2])
    BY <1>2, <1>4 DEF FramePieces
  <1>7. p[1] = Msg!Bytes(size, 2)
    <2>1. 1 \in 1 .. count + 1
      OBVIOUS
    <2>2. p[1] = J!FieldBytes(k, text, "msg_len", 2)
      BY <2>1, <1>4, <1>6
    <2>3. p[1] = Msg!Bytes(Msg!SizeOf(l), 2)
      BY <2>2, FieldHeads DEF l
    <2> QED BY <2>3, <1>5
  <1>8. count >= 1 => p[2] = Msg!Bytes(type, 2) /\ m[2] = <<"MessageType", 2>>
    <2> SUFFICES ASSUME count >= 1 PROVE p[2] = Msg!Bytes(type, 2) /\ m[2] = <<"MessageType", 2>>
      OBVIOUS
    <2>1. 2 \in 1 .. count + 1 /\ 1 \in 1 .. count /\ 1 + 1 = 2
      OBVIOUS
    <2>2. m[2] = <<"MessageType", 2>>
      BY <2>1, <1>4, <1>5
    <2>3. p[2] = J!FieldBytes(k, text, "MessageType", 2)
      BY <2>1, <2>2, <1>6
    <2>4. p[2] = Msg!Bytes(type, 2)
      BY <2>3, FieldHeads DEF type
    <2> QED BY <2>2, <2>4
  <1>9. ASSUME NEW i \in 1 .. count, l[i][1] # "MessageType"
        PROVE  /\ p[i + 1] = ValueOf(k, text, l[i][1], l[i][2]) /\ l[i][2] \in Nat
               /\ p[i + 1] \in Seq(Nat) /\ Len(p[i + 1]) = l[i][2]
    <2>1. l[i] \in FieldNames \X Nat
      BY <1>5
    <2>2. l[i][2] \in Nat /\ l[i][1] # "msg_len"
      BY <2>1, <1>5
    <2>3. i + 1 \in 1 .. count + 1 /\ p[i + 1] = J!FieldBytes(k, text, l[i][1], l[i][2])
      BY <1>4, <1>6
    <2>4. /\ J!FieldBytes(k, text, l[i][1], l[i][2]) = ValueOf(k, text, l[i][1], l[i][2])
          /\ AllOf(k, text, l[i][1]) = {} \/ (CHOOSE g \in AllOf(k, text, l[i][1]) : TRUE)[2] \in Nat
      <3> DEFINE field == l[i][1]
                 w == l[i][2]
      <3>1. field # "msg_len" /\ field # "MessageType" /\ w \in Nat
        BY <2>2, <1>9
      <3> HIDE DEF field, w
      <3>2. FieldGoes(k, text, field, w)
        BY <3>1, FieldIs
      <3> QED BY <3>2 DEF FieldGoes, field, w
    <2>5. ValueOf(k, text, l[i][1], l[i][2]) \in Seq(Nat) /\ Len(ValueOf(k, text, l[i][1], l[i][2])) = l[i][2]
      <3> DEFINE w == l[i][2]
                 all == AllOf(k, text, l[i][1])
                 v == (CHOOSE g \in all : TRUE)[2]
      <3>1. CASE all = {}
        <4>1. ValueOf(k, text, l[i][1], l[i][2]) = [j \in 1 .. w |-> stack]
          BY <3>1 DEF ValueOf
        <4>2. stack \in Nat /\ w \in Nat
          BY <2>2
        <4> HIDE DEF w
        <4>3. [j \in 1 .. w |-> stack] \in Seq(Nat) /\ Len([j \in 1 .. w |-> stack]) = w
          BY <4>2
        <4> QED BY <4>1, <4>3 DEF w
      <3>2. CASE all # {}
        <4>1. ValueOf(k, text, l[i][1], l[i][2]) = Msg!Bytes(v, w)
          BY <3>2, JsonSame DEF ValueOf
        <4>2. v \in Nat /\ w \in Nat
          BY <2>2, <2>4, <3>2
        <4> HIDE DEF v, w
        <4>3. Msg!Bytes(v, w) \in Seq(Nat) /\ Len(Msg!Bytes(v, w)) = w
          BY <4>2, BytesAre DEF Held
        <4> QED BY <4>1, <4>3 DEF w
      <3> QED BY <3>1, <3>2
    <2> QED BY <2>2, <2>3, <2>4, <2>5
  <1>10. /\ Msg!Bytes(size, 2) \in Seq(Nat) /\ Len(Msg!Bytes(size, 2)) = 2
         /\ Msg!Bytes(size, 2)[1] = size /\ Msg!Bytes(size, 2)[2] = 0
    <2>1. size \in Nat /\ 2 \in Nat
      OBVIOUS
    <2>2. Held(Msg!Bytes(size, 2), size, 2)
      BY <2>1, BytesAre
    <2> HIDE DEF p
    <2> QED BY <2>2, <1>1 DEF Held
  <1>11. Msg!Bytes(type, 2) \in Seq(Nat) /\ Len(Msg!Bytes(type, 2)) = 2 /\ Msg!Bytes(type, 2)[1] = type
    <2>1. type \in Nat /\ type < 256 /\ 2 \in Nat
      BY <1>1
    <2>2. Held(Msg!Bytes(type, 2), type, 2)
      BY <2>1, BytesAre
    <2> QED BY <2>1, <2>2 DEF Held
  <1>12. ASSUME NEW i \in 1 .. count + 1 PROVE p[i] \in Seq(Nat) /\ Len(p[i]) = m[i][2]
    <2>1. CASE i = 1
      BY <2>1, <1>4, <1>7, <1>10
    <2>2. CASE i # 1
      <3>1. i - 1 \in 1 .. count /\ (i - 1) + 1 = i /\ m[i] = l[i - 1]
        <4>1. i - 1 \in 1 .. count /\ (i - 1) + 1 = i
          BY <2>2
        <4> QED BY <4>1, <1>4
      <3>2. CASE l[i - 1][1] # "MessageType"
        BY <3>1, <3>2, <1>9
      <3>3. CASE l[i - 1][1] = "MessageType"
        <4>1. 1 \in 1 .. count
          BY <3>1
        <4>2. i - 1 = 1
          BY <3>1, <3>3, <4>1, <1>5
        <4>3. i = 2 /\ count >= 1
          BY <4>1, <4>2
        <4>4. p[2] \in Seq(Nat) /\ Len(p[2]) = m[2][2]
          <5>1. m[2][2] = 2
            BY <4>3, <1>8
          <5>2. p[2] = Msg!Bytes(type, 2)
            BY <4>3, <1>8
          <5> HIDE DEF p, m
          <5> QED BY <5>1, <5>2, <1>11
        <4> QED BY <4>3, <4>4
      <3> QED BY <3>2, <3>3
    <2> QED BY <2>1, <2>2
  <1> HIDE DEF p
  <1>13. p \in Seq(Seq(Nat)) /\ Len(p) = Len(m)
    <2>1. count + 1 \in Nat /\ p = [i \in 1 .. count + 1 |-> p[i]]
      BY <1>6 DEF p, FramePieces
    <2>2. \A i \in 1 .. count + 1 : p[i] \in Seq(Nat)
      BY <1>12
    <2>3. p \in [1 .. count + 1 -> Seq(Nat)]
      BY <2>1, <2>2
    <2> QED BY <2>1, <2>3, <1>4
  <1>14. Carries(CatOf(p), m, p)
    <2>1. \A i \in 1 .. Len(p) : Len(p[i]) = m[i][2]
      BY <1>4, <1>12, <1>13
    <2> QED BY <2>1, <1>4, <1>13, CatCarries
  <1>15. frame = CatOf(p)
    <2>1. count + 1 \in Nat /\ DOMAIN (J!FRAME_HDR \o J!Commands[k].layout) = 1 .. count + 1
      BY <1>2, <1>4
    <2> QED BY <2>1, FrameIsCat DEF p
  <1> HIDE DEF frame
  <1>16. count >= 1
    BY <1>1
  <1>17. Len(frame) = size + 2 /\ frame[1] = size /\ frame[2] = 0
    <2>1. 1 \in 1 .. 2 /\ 2 \in 1 .. 2 /\ Len(m) >= 1 /\ m[1][2] = 2
      BY <1>4
    <2>2. Len(frame) = Msg!SizeOf(m) /\ frame[1] = p[1][1] /\ frame[2] = p[1][2]
      BY <2>1, <1>14, <1>15 DEF Carries
    <2> QED BY <2>2, <1>4, <1>7, <1>10
  <1>18. frame[3] = type
    <2>1. 1 \in 1 .. 2 /\ Len(m) >= 2 /\ m[1][2] = 2 /\ m[2][2] = 2 /\ 2 + 1 = 3
      BY <1>4, <1>8, <1>16
    <2>2. frame[2 + 1] = p[2][1]
      BY <2>1, <1>14, <1>15 DEF Carries
    <2> QED BY <2>1, <2>2, <1>8, <1>11, <1>16
  <1>19. ASSUME NEW f \in J!Range(J!Commands[k].layout), f[1] # "MessageType"
         PROVE  J!Read(frame, J!FRAME_HDR \o J!Commands[k].layout, f[1]) = ValueOf(k, text, f[1], f[2])
    <2>1. PICK i \in 1 .. count : f = l[i]
      BY <1>5 DEF J!Range, l
    <2>2. i + 1 \in DOMAIN m /\ m[i + 1] = f
      BY <2>1, <1>4
    <2>3. Msg!Read(frame, m, f[1]) = p[i + 1]
      BY <2>2, <1>14, <1>15 DEF Carries
    <2>4. p[i + 1] = ValueOf(k, text, f[1], f[2])
      BY <2>1, <1>9, <1>19
    <2> QED BY <2>3, <2>4, <1>2, JsonSame
  <1> QED BY <1>17, <1>18, <1>19 DEF Filled, frame, type

(* What the client writes without a text.                                   *)
PlainFields(l, type, client, password) ==
  [msg_len |-> J!SizeOf(l), MessageType |-> type, GatewayClientID |-> client, Password |-> password]
PlainFrame(frame, l, type) == /\ Len(frame) = frame[1] + 2
                              /\ J!Read(frame, J!FRAME_HDR \o l, "MessageType")[1] = type
Named(l, n) == \A i \in 1 .. n : l[i][1] \in {"MessageType", "GatewayClientID", "Password"}
LEMMA PlainFrames ==
  ASSUME NEW l, NEW count \in Nat, NEW size \in Nat, Formed(l, count, size), count >= 1, size < 254,
         NEW type \in 0 .. 255, NEW client \in Nat, NEW password \in Nat,
         Named(l, count)
  PROVE  PlainFrame(J!Encode(J!FRAME_HDR \o l, PlainFields(l, type, client, password)), l, type)
  <1> DEFINE f == PlainFields(l, type, client, password)
             m == Msg!FRAME_HDR \o l
             p == Pieces(m, f)
             frame == J!Encode(J!FRAME_HDR \o l, f)
  <1>1. m = J!FRAME_HDR \o l
    BY JsonLayouts
  <1>2. HasHeader(m, l, count, size)
    BY HeadedForms
  <1>3. f["msg_len"] = size /\ f["MessageType"] = type /\ f["GatewayClientID"] = client /\ f["Password"] = password
    BY JsonSame DEF PlainFields, Formed
  <1> HIDE DEF m, f
  <1>4. /\ m \in Layouts /\ m \in Seq(FieldNames \X Nat) /\ Len(m) = count + 1 /\ DOMAIN m = 1 .. count + 1
        /\ \A i \in 1 .. count : m[i + 1] = l[i]
        /\ m[1] = <<"msg_len", 2>> /\ Msg!SizeOf(m) = size + 2
    BY <1>2 DEF HasHeader, Layouts
  <1>5. l[1] = <<"MessageType", 2>>
    BY DEF Formed
  <1>6. DOMAIN p = 1 .. count + 1 /\ \A i \in 1 .. count + 1 : p[i] = Msg!Bytes(f[m[i][1]], m[i][2])
    BY <1>4 DEF Pieces
  <1>7. m[2] = <<"MessageType", 2>>
    <2>1. 1 \in 1 .. count /\ 1 + 1 = 2
      OBVIOUS
    <2> QED BY <2>1, <1>4, <1>5
  <1>8. ASSUME NEW i \in 1 .. count + 1 PROVE f[m[i][1]] \in Nat /\ m[i][2] \in Nat
    <2>1. m[i] \in FieldNames \X Nat
      BY <1>4
    <2>2. CASE i = 1
      BY <2>2, <1>3, <1>4
    <2>3. CASE i # 1
      <3>1. i - 1 \in 1 .. count /\ (i - 1) + 1 = i
        BY <2>3
      <3>2. m[i] = l[i - 1]
        BY <3>1, <1>4
      <3>3. m[i][1] \in {"MessageType", "GatewayClientID", "Password"}
        BY <3>1, <3>2 DEF Named
      <3>4. m[i][2] \in Nat
        BY <2>1
      <3> HIDE DEF p
      <3>5. type \in Nat
        OBVIOUS
      <3> QED BY <3>3, <3>4, <3>5, <1>3
    <2> QED BY <2>1, <2>2, <2>3
  <1>9. ASSUME NEW i \in 1 .. count + 1 PROVE p[i] \in Seq(Nat) /\ Len(p[i]) = m[i][2]
    <2>1. Held(Msg!Bytes(f[m[i][1]], m[i][2]), f[m[i][1]], m[i][2])
      BY <1>8, BytesAre
    <2> HIDE DEF p
    <2> QED BY <2>1, <1>6 DEF Held
  <1>10. p[1] = Msg!Bytes(size, 2) /\ p[2] = Msg!Bytes(type, 2)
    <2>1. 1 \in 1 .. count + 1 /\ 2 \in 1 .. count + 1
      OBVIOUS
    <2> HIDE DEF p
    <2> QED BY <2>1, <1>3, <1>4, <1>6, <1>7
  <1>11. Msg!Bytes(size, 2)[1] = size
    <2>1. size \in Nat /\ 2 \in Nat
      OBVIOUS
    <2>2. Held(Msg!Bytes(size, 2), size, 2)
      BY <2>1, BytesAre
    <2> QED BY <2>2 DEF Held
  <1>12. Msg!Bytes(type, 2)[1] = type
    <2>1. type \in Nat /\ type < 256 /\ 2 \in Nat
      OBVIOUS
    <2>2. Held(Msg!Bytes(type, 2), type, 2)
      BY <2>1, BytesAre
    <2> QED BY <2>1, <2>2 DEF Held
  <1>13. p \in Seq(Seq(Nat)) /\ Len(p) = Len(m)
    <2>1. count + 1 \in Nat /\ p = [i \in 1 .. count + 1 |-> p[i]]
      BY <1>6 DEF Pieces
    <2> HIDE DEF p
    <2>2. \A i \in 1 .. count + 1 : p[i] \in Seq(Nat)
      BY <1>9
    <2>3. p \in [1 .. count + 1 -> Seq(Nat)]
      BY <2>1, <2>2
    <2> QED BY <2>1, <2>3, <1>4
  <1> HIDE DEF p
  <1>14. Carries(CatOf(p), m, p)
    <2>1. \A i \in 1 .. Len(p) : Len(p[i]) = m[i][2]
      BY <1>4, <1>9, <1>13
    <2> QED BY <2>1, <1>4, <1>13, CatCarries
  <1>15. frame = CatOf(p)
    <2>1. count + 1 \in Nat /\ DOMAIN m = 1 .. count + 1
      BY <1>4
    <2>2. Msg!Encode(m, f) = CatOf(p)
      BY <2>1, EncodeIsCat DEF p
    <2> QED BY <2>2, <1>1, JsonSame
  <1> HIDE DEF frame
  <1>16. Len(frame) = frame[1] + 2
    <2>1. 1 \in 1 .. 2 /\ Len(m) >= 1 /\ m[1][2] = 2
      BY <1>4
    <2>2. Len(frame) = Msg!SizeOf(m) /\ frame[1] = p[1][1]
      BY <2>1, <1>14, <1>15 DEF Carries
    <2> QED BY <2>2, <1>4, <1>10, <1>11
  <1>17. J!Read(frame, J!FRAME_HDR \o l, "MessageType")[1] = type
    <2>1. 2 \in DOMAIN m
      BY <1>4
    <2>2. Msg!Read(frame, m, m[2][1]) = p[2]
      BY <2>1, <1>14, <1>15 DEF Carries
    <2>3. J!Read(frame, J!FRAME_HDR \o l, "MessageType") = p[2]
      BY <2>2, <1>1, <1>7, JsonSame
    <2> QED BY <2>3, <1>10, <1>12
  <1> QED BY <1>16, <1>17 DEF PlainFrame, frame, f

LEMMA PlainSent ==
  ASSUME NEW k \in DOMAIN J!Plain, NEW client \in Nat
  PROVE  PlainFrame(J!Encode(J!FRAME_HDR \o J!Plain[k].layout,
                             PlainFields(J!Plain[k].layout, J!Plain[k].type, client, 65)),
                    J!Plain[k].layout, J!Plain[k].type)
  <1> DEFINE l == J!Plain[k].layout
             type == J!Plain[k].type
  <1>1. k \in {"heartbeat", "logon", "L"} /\ 1 \in Nat /\ 2 \in Nat /\ 3 \in Nat /\ 26 \in Nat /\ 65 \in Nat
    BY DEF J!Plain
  <1>2. CASE k = "heartbeat"
    <2>1. l = Msg!HEARTBEAT /\ type \in 0 .. 255
      BY <1>2, JsonLayouts DEF J!Plain
    <2>0. 1 >= 1 /\ 2 < 254
      OBVIOUS
    <2>2. Formed(l, 1, 2) /\ Named(l, 1)
      BY <2>1, HeartbeatFormed DEF Formed, Named
    <2> HIDE DEF l, type
    <2>3. PlainFrame(J!Encode(J!FRAME_HDR \o l, PlainFields(l, type, client, 65)), l, type)
      BY <2>0, <2>1, <2>2, <1>1, PlainFrames, Zenon
    <2> QED BY <2>3 DEF l, type
  <1>3. CASE k = "logon"
    <2>1. l = Msg!GATEWAY_CLIENT_LOGON_REQUEST /\ type \in 0 .. 255
      BY <1>3, JsonLayouts DEF J!Plain
    <2>0. 3 >= 1 /\ 26 < 254
      OBVIOUS
    <2>2. Formed(l, 3, 26) /\ Named(l, 3)
      BY <2>1, GatewayClientLogonRequestFormed, GatewayClientLogonRequestFields DEF Named
    <2> HIDE DEF l, type
    <2>3. PlainFrame(J!Encode(J!FRAME_HDR \o l, PlainFields(l, type, client, 65)), l, type)
      BY <2>0, <2>1, <2>2, <1>1, PlainFrames, Zenon
    <2> QED BY <2>3 DEF l, type
  <1>4. CASE k = "L"
    <2>1. l = Msg!GATEWAY_CLIENT_LOGOFF_REQUEST /\ type \in 0 .. 255
      BY <1>4, JsonLayouts DEF J!Plain
    <2>0. 1 >= 1 /\ 2 < 254
      OBVIOUS
    <2>2. Formed(l, 1, 2) /\ Named(l, 1)
      BY <2>1, GatewayClientLogoffRequestFormed DEF Formed, Named
    <2> HIDE DEF l, type
    <2>3. PlainFrame(J!Encode(J!FRAME_HDR \o l, PlainFields(l, type, client, 65)), l, type)
      BY <2>0, <2>1, <2>2, <1>1, PlainFrames, Zenon
    <2> QED BY <2>3 DEF l, type
  <1> QED BY <1>1, <1>2, <1>3, <1>4

(* The line of an order gives numbers.                                      *)
LEMMA OrderIs ==
  ASSUME NEW counter \in Nat, NEW u \in Nat
  PROVE  LET o == J!Order(counter, u)
         IN  o.msg_len = 65 /\ o.MessageType = 3 /\ Row(J!Line(o))
  <1> DEFINE o == J!Order(counter, u)
             instrument == (counter % 11) + 1
             line == J!Line(o)
  <1>1. o.msg_len = 65 /\ o.MessageType = 3
    <2>1. J!SizeOf(J!NEW_ORDER_REQUEST) = 65
      BY NewOrderRequestFormed, JsonLayouts, JsonSame DEF Formed
    <2> QED BY <2>1 DEF J!Order
  <1>2. J!LowPrice(instrument) \in Nat
    BY DEF J!LowPrice
  <1>3. /\ o.UserID \in Nat /\ o.UserTag \in Nat /\ o.OrderInstrumentID \in Nat /\ o.OrderType \in Nat
        /\ o.OrderTimeInForce \in Nat /\ o.OrderSide \in Nat /\ o.OrderExecutionType \in Nat
        /\ o.OrderQuantity \in Nat /\ o.OrderDisclosedQuantity \in Nat /\ o.TriggerOn \in Nat
        /\ o.MarketPriceProtectionTicks \in Nat
    BY DEF J!Order
  <1>4. o.OrderPrice \in Nat /\ o.OrderTriggerPrice \in Nat
    <2> DEFINE price == J!LowPrice(instrument)
    <2>1. o.OrderPrice \in {0, price}
      BY DEF J!Order
    <2>2. o.OrderTriggerPrice \in {price + 5, price + 0}
      BY DEF J!Order
    <2> HIDE DEF price, o
    <2>3. price \in Nat
      BY <1>2 DEF price
    <2> QED BY <2>1, <2>2, <2>3
  <1>5. LineOf(line, o)
    BY LineIs
  <1> HIDE DEF o, line
  <1>6. DOMAIN line.members = 1 .. 15 /\ \A i \in 1 .. 15 : line.members[i].value \in Nat
    BY <1>3, <1>4, <1>5 DEF LineOf
  <1>7. Row(line)
    <2>1. 15 \in Nat
      OBVIOUS
    <2> QED BY <2>1, <1>6 DEF Row
  <1> QED BY <1>1, <1>7 DEF o, line

(* What is logged is the line and the frame of one order; what is written is*)
(* what the command makes of its text.                                      *)
JsonInv ==
  /\ stack \in {0, 255}
  /\ logged.bytes # <<>> =>
       \E counter \in Counters, u \in Users :
         logged = [text |-> J!Line(J!Order(counter, u)),
                   bytes |-> J!Encode(J!FRAME_HDR \o J!NEW_ORDER_REQUEST, J!Order(counter, u))]
  /\ entered.command = "J" => written = J!Structure(entered.text)
  /\ entered.command \in DOMAIN J!Commands /\ written.outcome = "wrote" =>
       Filled(entered.command, entered.text, written.bytes)
  /\ entered.command \in DOMAIN J!Plain =>
       \E u \in Users : written = J!Wrote(J!Encode(J!FRAME_HDR \o J!Plain[entered.command].layout,
                          PlainFields(J!Plain[entered.command].layout, J!Plain[entered.command].type, u, 65)))

LEMMA CommandNames ==
  /\ DOMAIN J!Commands = {"M", "C", "A", "W", "F", "B"}
  /\ DOMAIN J!Plain = {"heartbeat", "logon", "L"}
  BY DEF J!Commands, J!Plain

LEMMA JsonInitially == ASSUME J!Init PROVE JsonInv
  BY CommandNames DEF J!Init, JsonInv, J!Other

LEMMA TextsAreRows ==
  ASSUME JsonInv, NEW text \in IF logged.bytes = <<>> THEN J!Texts ELSE {logged.text} PROVE Row(text)
  <1>1. CASE logged.bytes # <<>>
    <2>1. PICK counter \in Counters, u \in Users : logged.text = J!Line(J!Order(counter, u))
      BY <1>1 DEF JsonInv
    <2>2. counter \in Nat /\ u \in Nat /\ text = logged.text
      BY <1>1, JsonAssumption
    <2> QED BY <2>1, <2>2, OrderIs
  <1>2. CASE logged.bytes = <<>>
    <2>1. text \in J!Texts
      BY <1>2
    <2>2. CASE \E kind \in {"missing", "array", "bad"} : text = J!Other(kind)
      <3>1. DOMAIN text.members = 1 .. 0 /\ 0 \in Nat /\ \A i \in 1 .. 0 : text.members[i].value \in Nat
        BY <2>2 DEF J!Other
      <3> QED BY <3>1 DEF Row
    <2>3. CASE \E n \in 0 .. MaxMembers : \E m \in [1 .. n -> Members] : text = J!Object(m)
      <3>1. PICK n \in 0 .. MaxMembers : \E m \in [1 .. n -> Members] : text = J!Object(m)
        BY <2>3
      <3>2. PICK m \in [1 .. n -> Members] : text = J!Object(m)
        BY <3>1
      <3>3. text.members = m
        BY <3>2 DEF J!Object
      <3>4. \A x \in Members : x.value \in Nat
        BY JsonAssumption
      <3>5. n \in Nat /\ DOMAIN text.members = 1 .. n /\ \A i \in 1 .. n : text.members[i].value \in Nat
        BY <3>3, <3>4
      <3> QED BY <3>5 DEF Row
    <2> QED BY <2>1, <2>2, <2>3 DEF J!Texts
  <1> QED BY <1>1, <1>2

LEMMA JsonStep == ASSUME JsonInv, [J!Next]_json PROVE JsonInv'
  <1>1. ASSUME NEW k \in DOMAIN J!Commands \cup {"J"},
               NEW text \in IF logged.bytes = <<>> THEN J!Texts ELSE {logged.text}, J!Do(k, text)
        PROVE  JsonInv'
    <2>1. /\ logged' = logged /\ stack' = stack /\ entered'.command = k /\ entered'.text = text
          /\ written' = IF k = "J" THEN J!Structure(text) ELSE J!Fill(k, text)
      BY <1>1 DEF J!Do
    <2>2. Row(text)
      BY TextsAreRows
    <2>3. ASSUME k \in DOMAIN J!Commands, written'.outcome = "wrote" PROVE Filled(k, text, written'.bytes)
      <3>1. written' = J!Fill(k, text) /\ stack \in {0, 255}
        BY <2>1, <2>3, CommandNames DEF JsonInv
      <3>2. written' = J!Wrote(J!Frame(k, text))
        BY <2>3, <3>1 DEF J!Fill, J!None, J!Crashed
      <3>3. written'.bytes = J!Frame(k, text)
        BY <3>2 DEF J!Wrote
      <3> QED BY <2>2, <2>3, <3>1, <3>3, FramesFilled
    <2>4. ASSUME k \in DOMAIN J!Commands, written'.outcome = "wrote"
          PROVE  Filled(entered.command, entered.text, written.bytes)'
      BY <2>1, <2>3, <2>4 DEF Filled, ValueOf
    <2>5. entered'.command = "J" => written' = J!Structure(entered'.text)
      BY <2>1
    <2>6. entered'.command \notin DOMAIN J!Plain
      BY <2>1, CommandNames
    <2> QED BY <2>1, <2>4, <2>5, <2>6 DEF JsonInv
  <1>2. ASSUME NEW counter \in Counters, NEW u \in Users, J!LogOrder(counter, u) PROVE JsonInv'
    BY <1>2, CommandNames DEF J!LogOrder, JsonInv
  <1>3. ASSUME NEW k \in DOMAIN J!Plain, NEW u \in Users, J!Send(k, u, 65) PROVE JsonInv'
    <2>1. /\ logged' = logged /\ stack' = stack /\ entered'.command = k
          /\ written' = J!Wrote(J!Encode(J!FRAME_HDR \o J!Plain[k].layout,
                                         PlainFields(J!Plain[k].layout, J!Plain[k].type, u, 65)))
      BY <1>3 DEF J!Send, PlainFields
    <2> QED BY <2>1, CommandNames DEF JsonInv
  <1>4. CASE UNCHANGED json
    <2>1. logged' = logged /\ entered' = entered /\ written' = written /\ stack' = stack
      BY <1>4 DEF json
    <2>2. Filled(entered.command, entered.text, written.bytes)
            => Filled(entered.command, entered.text, written.bytes)'
      BY <2>1 DEF Filled, ValueOf
    <2> QED BY <2>1, <2>2 DEF JsonInv
  <1> QED BY <1>1, <1>2, <1>3, <1>4 DEF J!Next

LEMMA JsonHolds == ASSUME JsonInv PROVE ReplayExact
  <1>1. J!ReplayExact
    <2> SUFFICES ASSUME entered.command = "J", logged.bytes # <<>>, entered.text = logged.text
                 PROVE  written = J!Wrote(logged.bytes)
      BY DEF J!ReplayExact
    <2>1. PICK counter \in Counters, u \in Users :
            logged = [text |-> J!Line(J!Order(counter, u)),
                      bytes |-> J!Encode(J!FRAME_HDR \o J!NEW_ORDER_REQUEST, J!Order(counter, u))]
      BY DEF JsonInv
    <2> DEFINE o == J!Order(counter, u)
    <2>2. o.msg_len = 65 /\ o.MessageType = 3
      <3>1. counter \in Nat /\ u \in Nat
        BY JsonAssumption
      <3> QED BY <3>1, OrderIs
    <2>3. written = J!Structure(J!Line(o)) /\ logged.bytes = J!Encode(J!FRAME_HDR \o J!NEW_ORDER_REQUEST, o)
      BY <2>1 DEF JsonInv
    <2> HIDE DEF o
    <2> QED BY <2>2, <2>3, LineWrites
  <1>2. J!CommandsFillFields
    <2> DEFINE k == entered.command
               text == entered.text
               frame == written.bytes
    <2>1. ASSUME k \in DOMAIN J!Plain
          PROVE  /\ Len(frame) = frame[1] + 2
                 /\ J!Read(frame, J!FRAME_HDR \o J!Plain[k].layout, "MessageType")[1] = J!Plain[k].type
      <3>1. PICK u \in Users : written = J!Wrote(J!Encode(J!FRAME_HDR \o J!Plain[k].layout,
                                            PlainFields(J!Plain[k].layout, J!Plain[k].type, u, 65)))
        BY <2>1 DEF JsonInv
      <3>2. u \in Nat
        BY JsonAssumption
      <3>3. frame = J!Encode(J!FRAME_HDR \o J!Plain[k].layout, PlainFields(J!Plain[k].layout, J!Plain[k].type, u, 65))
        BY <3>1 DEF J!Wrote
      <3> HIDE DEF frame, k
      <3> QED BY <2>1, <3>2, <3>3, PlainSent DEF PlainFrame
    <2>2. ASSUME k \in DOMAIN J!Commands, written.outcome = "wrote" PROVE Filled(k, text, frame)
      BY <2>2 DEF JsonInv
    <2> QED BY <2>1, <2>2 DEF J!CommandsFillFields, Filled, ValueOf, AllOf, GivenOf, FirstOf, TaggedOf
  <1> QED BY <1>1, <1>2 DEF ReplayExact

(* A logged line, entered again, writes the frame it was logged for, byte   *)
(* for byte, and every other command writes one frame with what its text    *)
(* gives: process_load_tmr(), process_json_structures() and the commands of *)
(* binary_gateway_load_test_client.cpp, for all members, counters and users.*)
THEOREM ReplaysAreExact == Spec => []ReplayExact
  <1>1. Init => JsonInv
    BY JsonInitially DEF Init
  <1>2. JsonInv /\ [Next]_<<component, fields, log, config, clock, latency, stats, prompts, json,
                            hexdump, endpoint>> => JsonInv'
    BY JsonMoves, JsonStep
  <1>3. JsonInv => ReplayExact
    BY JsonHolds
  <1> QED BY <1>1, <1>2, <1>3, PTL DEF Spec

-----------------------------------------------------------------------------
(* Prompts                                                                  *)
LEMMA PromptsMove == [Next]_<<component, fields, log, config, clock, latency, stats, prompts,
                              json, hexdump, endpoint>> => [P!Next]_prompts
  BY DEF Next, prompts

LEMMA PromptsSame ==
  /\ \A l, f : P!Encode(l, f) = Msg!Encode(l, f)
  /\ \A b, l, f : P!Read(b, l, f) = Msg!Read(b, l, f)
  /\ \A l : P!SizeOf(l) = Msg!SizeOf(l)
  /\ \A v, w : P!Bytes(v, w) = Msg!Bytes(v, w)
  /\ \A l, f : P!WidthOf(l, f) = Msg!WidthOf(l, f)
  <1>1. \A v, w : P!Bytes(v, w) = Msg!Bytes(v, w)
    BY DEF P!Bytes, Msg!Bytes, P!Unit, Msg!Unit
  <1>2. \A l : P!SizeOf(l) = Msg!SizeOf(l)
    BY DEF P!SizeOf, Msg!SizeOf, P!FoldLeft, Msg!FoldLeft, P!MapThenFoldSet, Msg!MapThenFoldSet, P!Max, Msg!Max
  <1>3. \A l, f : P!Encode(l, f) = Msg!Encode(l, f)
    BY DEF P!Encode, Msg!Encode, P!FoldLeft, Msg!FoldLeft, P!MapThenFoldSet, Msg!MapThenFoldSet, P!Max, Msg!Max,
           P!Bytes, Msg!Bytes, P!Unit, Msg!Unit
  <1>4. \A l, f : P!Index(l, f) = Msg!Index(l, f)
    BY DEF P!Index, Msg!Index
  <1>5. \A l, f : P!WidthOf(l, f) = Msg!WidthOf(l, f)
    BY <1>4 DEF P!WidthOf, Msg!WidthOf
  <1>6. \A b, l, f : P!Read(b, l, f) = Msg!Read(b, l, f)
    BY <1>2, <1>4, <1>5 DEF P!Read, Msg!Read, P!Offset, Msg!Offset
  <1> QED BY <1>1, <1>2, <1>3, <1>5, <1>6

LEMMA PromptsLayouts ==
  /\ P!FRAME_HDR = Msg!FRAME_HDR
  /\ P!MODIFY_ORDER_REQUEST = Msg!MODIFY_ORDER_REQUEST /\ P!CANCEL_ORDER_REQUEST = Msg!CANCEL_ORDER_REQUEST
  /\ P!CANCEL_ALL_ORDERS_REQUEST = Msg!CANCEL_ALL_ORDERS_REQUEST
  /\ P!MODIFY_LEVERAGE_REQUEST = Msg!MODIFY_LEVERAGE_REQUEST
  /\ P!WORKING_ORDERS_REQUEST = Msg!WORKING_ORDERS_REQUEST /\ P!FILL_REQUEST = Msg!FILL_REQUEST
  <1>1. P!FRAME_HDR = Msg!FRAME_HDR /\ P!Kind = Msg!Kind /\ P!Prices = Msg!Prices
    BY Zenon DEF P!FRAME_HDR, Msg!FRAME_HDR, P!Kind, Msg!Kind, P!Prices, Msg!Prices, P!Shorts, Msg!Shorts,
                 P!Longs, Msg!Longs, P!Chars, Msg!Chars
  <1>2. P!Request = Msg!Request
    BY <1>1 DEF P!Request, Msg!Request, P!User, Msg!User, P!Longs, Msg!Longs
  <1> QED
    BY <1>1, <1>2 DEF P!MODIFY_ORDER_REQUEST, Msg!MODIFY_ORDER_REQUEST, P!CANCEL_ORDER_REQUEST, Msg!CANCEL_ORDER_REQUEST,
       P!CANCEL_ALL_ORDERS_REQUEST, Msg!CANCEL_ALL_ORDERS_REQUEST, P!MODIFY_LEVERAGE_REQUEST, Msg!MODIFY_LEVERAGE_REQUEST,
       P!WORKING_ORDERS_REQUEST, Msg!WORKING_ORDERS_REQUEST, P!FILL_REQUEST, Msg!FILL_REQUEST,
       P!Longs, Msg!Longs, P!Chars, Msg!Chars

(* What a request asks for: the UserID twice, and then fields of its layout.*)
Asks(ask, l, m, n) ==
  /\ ask \in Seq(FieldNames \X FieldNames) /\ Len(ask) = m /\ DOMAIN ask = 1 .. m
  /\ ask[1] = <<"UserID", "UserID">> /\ ask[2] = <<"UserID", "UserTag">>
  /\ \A i \in 3 .. m : ask[i] = <<ask[i][1], ask[i][1]>> /\ \E j \in 4 .. n : l[j][1] = ask[i][1]
  /\ \A i, j \in 3 .. m : ask[i][1] = ask[j][1] => i = j
Request3(l, n) == /\ \E size \in Nat : Formed(l, n, size) /\ size < 254
                  /\ l[2] = <<"UserID", 8>> /\ l[3] = <<"UserTag", 8>>
AskedForm(choice) == \E n \in Nat, m \in Nat :
  /\ n >= 3 /\ m >= 2 /\ Request3(P!Layout[choice], n) /\ Asks(P!Asked[choice], P!Layout[choice], m, n)
  /\ P!MessageType[choice] \in 0 .. 255

LEMMA SameIs ==
  ASSUME NEW names \in Seq(FieldNames) PROVE P!Same(names) \in Seq(FieldNames \X FieldNames)
  <1>1. DOMAIN names = 1 .. Len(names) /\ Len(names) \in Nat /\ \A i \in 1 .. Len(names) : names[i] \in FieldNames
    OBVIOUS
  <1>2. \A i \in 1 .. Len(names) : <<names[i], names[i]>> \in FieldNames \X FieldNames
    BY <1>1
  <1>3. [i \in DOMAIN names |-> <<names[i], names[i]>>] \in Seq(FieldNames \X FieldNames)
    BY <1>1, <1>2, IsASeq
  <1> QED BY <1>3 DEF P!Same

LEMMA AskedForms ==
  ASSUME NEW choice \in {"modify", "cancel", "leverage", "cancel_all", "working", "fills"} PROVE AskedForm(choice)
  <1> DEFINE ask == P!Asked[choice]
             l == P!Layout[choice]
  <1>0. P!WhoAsks \in Seq(FieldNames \X FieldNames)
    BY DEF P!WhoAsks, FieldNames
  <1>1. CASE choice = "modify"
    <2>1. l = Msg!MODIFY_ORDER_REQUEST
      BY <1>1, PromptsLayouts DEF P!Layout
    <2>2. Request3(l, 14)
      BY <2>1, ModifyOrderRequestFormed, ModifyOrderRequestFields DEF Request3
    <2>3. ask = P!prompt_modify_order
      BY <1>1 DEF P!Asked
    <2>3a. ask \in Seq(FieldNames \X FieldNames)
      <3> DEFINE names == <<"ExchangeOrderID", "OrderQuantityRemaining", "OrderType",
            "OrderTimeInForce", "OrderExecutionType", "OrderQuantity", "OrderDisclosedQuantity",
            "OrderPrice", "OrderTriggerPrice", "TriggerOn">>
      <3>1. names \in Seq(FieldNames)
        BY DEF FieldNames
      <3>2. ask = P!WhoAsks \o P!Same(names)
        BY <2>3 DEF P!prompt_modify_order
      <3> HIDE DEF names, ask
      <3>3. P!Same(names) \in Seq(FieldNames \X FieldNames)
        BY <3>1, SameIs
      <3> QED BY <1>0, <3>2, <3>3
    <2>4. /\ Len(ask) = 12 /\ DOMAIN ask = 1 .. 12
          /\ ask[1] = <<"UserID", "UserID">> /\ ask[2] = <<"UserID", "UserTag">>
          /\ ask[3] = <<"ExchangeOrderID", "ExchangeOrderID">> /\ ask[4] = <<"OrderQuantityRemaining", "OrderQuantityRemaining">>
          /\ ask[5] = <<"OrderType", "OrderType">> /\ ask[6] = <<"OrderTimeInForce", "OrderTimeInForce">>
          /\ ask[7] = <<"OrderExecutionType", "OrderExecutionType">> /\ ask[8] = <<"OrderQuantity", "OrderQuantity">>
          /\ ask[9] = <<"OrderDisclosedQuantity", "OrderDisclosedQuantity">> /\ ask[10] = <<"OrderPrice", "OrderPrice">>
          /\ ask[11] = <<"OrderTriggerPrice", "OrderTriggerPrice">> /\ ask[12] = <<"TriggerOn", "TriggerOn">>
      BY <2>3 DEF P!prompt_modify_order, P!WhoAsks, P!Same
    <2>5. /\ l[4][1] = "ExchangeOrderID" /\ l[5][1] = "OrderQuantityRemaining" /\ l[6][1] = "OrderType"
          /\ l[7][1] = "OrderTimeInForce" /\ l[8][1] = "OrderExecutionType" /\ l[9][1] = "OrderQuantity"
          /\ l[10][1] = "OrderDisclosedQuantity" /\ l[11][1] = "OrderPrice" /\ l[13][1] = "OrderTriggerPrice"
          /\ l[14][1] = "TriggerOn"
      BY <2>1, ModifyOrderRequestFields
    <2> HIDE DEF ask, l
    <2>6. Asks(ask, l, 12, 14)
      <3>1. \A i \in 3 .. 12 : ask[i] = <<ask[i][1], ask[i][1]>>
        BY <2>4
      <3>2. ASSUME NEW i \in 3 .. 12 PROVE \E j \in 4 .. 14 : l[j][1] = ask[i][1]
        BY <2>4, <2>5
      <3>3. ASSUME NEW i \in 3 .. 12, NEW j \in 3 .. 12, ask[i][1] = ask[j][1] PROVE i = j
        BY <2>4, <3>3
      <3> QED BY <2>3a, <2>4, <3>1, <3>2, <3>3 DEF Asks
    <2>7. P!MessageType[choice] \in 0 .. 255
      BY <1>1 DEF P!MessageType
    <2> QED BY <2>2, <2>6, <2>7 DEF AskedForm, ask, l
  <1>2. CASE choice = "cancel"
    <2>1. l = Msg!CANCEL_ORDER_REQUEST
      BY <1>2, PromptsLayouts DEF P!Layout
    <2>2. Request3(l, 4)
      BY <2>1, CancelOrderRequestFormed, CancelOrderRequestFields DEF Request3
    <2>3. ask = P!prompt_cancel_order
      BY <1>2 DEF P!Asked
    <2>3a. ask \in Seq(FieldNames \X FieldNames)
      <3> DEFINE names == <<"ExchangeOrderID">>
      <3>1. names \in Seq(FieldNames)
        BY DEF FieldNames
      <3>2. ask = P!WhoAsks \o P!Same(names)
        BY <2>3 DEF P!prompt_cancel_order
      <3> HIDE DEF names, ask
      <3>3. P!Same(names) \in Seq(FieldNames \X FieldNames)
        BY <3>1, SameIs
      <3> QED BY <1>0, <3>2, <3>3
    <2>4. /\ Len(ask) = 3 /\ DOMAIN ask = 1 .. 3
          /\ ask[1] = <<"UserID", "UserID">> /\ ask[2] = <<"UserID", "UserTag">>
          /\ ask[3] = <<"ExchangeOrderID", "ExchangeOrderID">>
      BY <2>3 DEF P!prompt_cancel_order, P!WhoAsks, P!Same
    <2>5. l[4][1] = "ExchangeOrderID"
      BY <2>1, CancelOrderRequestFields
    <2> HIDE DEF ask, l
    <2>6. Asks(ask, l, 3, 4)
      <3>1. \A i \in 3 .. 3 : ask[i] = <<ask[i][1], ask[i][1]>>
        BY <2>4
      <3>2. ASSUME NEW i \in 3 .. 3 PROVE \E j \in 4 .. 4 : l[j][1] = ask[i][1]
        BY <2>4, <2>5
      <3>3. ASSUME NEW i \in 3 .. 3, NEW j \in 3 .. 3, ask[i][1] = ask[j][1] PROVE i = j
        BY <2>4, <3>3
      <3> QED BY <2>3a, <2>4, <3>1, <3>2, <3>3 DEF Asks
    <2>7. P!MessageType[choice] \in 0 .. 255
      BY <1>2 DEF P!MessageType
    <2> QED BY <2>2, <2>6, <2>7 DEF AskedForm, ask, l
  <1>3. CASE choice = "leverage"
    <2>1. l = Msg!MODIFY_LEVERAGE_REQUEST
      BY <1>3, PromptsLayouts DEF P!Layout
    <2>2. Request3(l, 5)
      BY <2>1, ModifyLeverageRequestFormed, ModifyLeverageRequestFields DEF Request3
    <2>3. ask = P!prompt_modify_leverage
      BY <1>3 DEF P!Asked
    <2>3a. ask \in Seq(FieldNames \X FieldNames)
      <3> DEFINE names == <<"InstrumentID", "Leverage">>
      <3>1. names \in Seq(FieldNames)
        BY DEF FieldNames
      <3>2. ask = P!WhoAsks \o P!Same(names)
        BY <2>3 DEF P!prompt_modify_leverage
      <3> HIDE DEF names, ask
      <3>3. P!Same(names) \in Seq(FieldNames \X FieldNames)
        BY <3>1, SameIs
      <3> QED BY <1>0, <3>2, <3>3
    <2>4. /\ Len(ask) = 4 /\ DOMAIN ask = 1 .. 4
          /\ ask[1] = <<"UserID", "UserID">> /\ ask[2] = <<"UserID", "UserTag">>
          /\ ask[3] = <<"InstrumentID", "InstrumentID">>
          /\ ask[4] = <<"Leverage", "Leverage">>
      BY <2>3 DEF P!prompt_modify_leverage, P!WhoAsks, P!Same
    <2>5. l[4][1] = "InstrumentID" /\ l[5][1] = "Leverage"
      BY <2>1, ModifyLeverageRequestFields
    <2> HIDE DEF ask, l
    <2>6. Asks(ask, l, 4, 5)
      <3>1. \A i \in 3 .. 4 : ask[i] = <<ask[i][1], ask[i][1]>>
        BY <2>4
      <3>2. ASSUME NEW i \in 3 .. 4 PROVE \E j \in 4 .. 5 : l[j][1] = ask[i][1]
        BY <2>4, <2>5
      <3>3. ASSUME NEW i \in 3 .. 4, NEW j \in 3 .. 4, ask[i][1] = ask[j][1] PROVE i = j
        BY <2>4, <3>3
      <3> QED BY <2>3a, <2>4, <3>1, <3>2, <3>3 DEF Asks
    <2>7. P!MessageType[choice] \in 0 .. 255
      BY <1>3 DEF P!MessageType
    <2> QED BY <2>2, <2>6, <2>7 DEF AskedForm, ask, l
  <1>4. CASE choice = "cancel_all"
    <2>1. l = Msg!CANCEL_ALL_ORDERS_REQUEST
      BY <1>4, PromptsLayouts DEF P!Layout
    <2>2. Request3(l, 4)
      BY <2>1, CancelAllOrdersRequestFormed, CancelAllOrdersRequestFields DEF Request3
    <2>3. ask = P!prompt_cancel_all_orders
      BY <1>4 DEF P!Asked
    <2>3a. ask \in Seq(FieldNames \X FieldNames)
      BY <1>0, <2>3 DEF P!prompt_cancel_all_orders
    <2>4. /\ Len(ask) = 2 /\ DOMAIN ask = 1 .. 2
          /\ ask[1] = <<"UserID", "UserID">> /\ ask[2] = <<"UserID", "UserTag">>
      BY <2>3 DEF P!prompt_cancel_all_orders, P!WhoAsks
    <2> HIDE DEF ask, l
    <2>6. Asks(ask, l, 2, 4)
      BY <2>3a, <2>4 DEF Asks
    <2>7. P!MessageType[choice] \in 0 .. 255
      BY <1>4 DEF P!MessageType
    <2> QED BY <2>2, <2>6, <2>7 DEF AskedForm, ask, l
  <1>5. CASE choice = "working"
    <2>1. l = Msg!WORKING_ORDERS_REQUEST
      BY <1>5, PromptsLayouts DEF P!Layout
    <2>2. Request3(l, 3)
      BY <2>1, WorkingOrdersRequestFormed, WorkingOrdersRequestFields DEF Request3
    <2>3. ask = P!prompt_working_orders_request
      BY <1>5 DEF P!Asked
    <2>3a. ask \in Seq(FieldNames \X FieldNames)
      BY <1>0, <2>3 DEF P!prompt_working_orders_request
    <2>4. /\ Len(ask) = 2 /\ DOMAIN ask = 1 .. 2
          /\ ask[1] = <<"UserID", "UserID">> /\ ask[2] = <<"UserID", "UserTag">>
      BY <2>3 DEF P!prompt_working_orders_request, P!WhoAsks
    <2> HIDE DEF ask, l
    <2>6. Asks(ask, l, 2, 3)
      BY <2>3a, <2>4 DEF Asks
    <2>7. P!MessageType[choice] \in 0 .. 255
      BY <1>5 DEF P!MessageType
    <2> QED BY <2>2, <2>6, <2>7 DEF AskedForm, ask, l
  <1>6. CASE choice = "fills"
    <2>1. l = Msg!FILL_REQUEST
      BY <1>6, PromptsLayouts DEF P!Layout
    <2>2. Request3(l, 3)
      BY <2>1, FillRequestFormed, FillRequestFields DEF Request3
    <2>3. ask = P!prompt_fills_request
      BY <1>6 DEF P!Asked
    <2>3a. ask \in Seq(FieldNames \X FieldNames)
      BY <1>0, <2>3 DEF P!prompt_fills_request
    <2>4. /\ Len(ask) = 2 /\ DOMAIN ask = 1 .. 2
          /\ ask[1] = <<"UserID", "UserID">> /\ ask[2] = <<"UserID", "UserTag">>
      BY <2>3 DEF P!prompt_fills_request, P!WhoAsks
    <2> HIDE DEF ask, l
    <2>6. Asks(ask, l, 2, 3)
      BY <2>3a, <2>4 DEF Asks
    <2>7. P!MessageType[choice] \in 0 .. 255
      BY <1>6 DEF P!MessageType
    <2> QED BY <2>2, <2>6, <2>7 DEF AskedForm, ask, l
  <1> QED BY <1>1, <1>2, <1>3, <1>4, <1>5, <1>6

(* The number that digits say.                                              *)
LEMMA NumberIs ==
  ASSUME NEW w \in Seq(Nat), P!IsNumber(w) PROVE P!Number(w) \in Nat
  <1> DEFINE n == Len(w)
             Eq(iter) == [s \in SUBSET DOMAIN w |->
                            IF s = {} THEN 0 ELSE 10 * iter[s \ {Msg!Max(s)}] + (w[Msg!Max(s)] - 48)]
             go == [q \in (1 .. n) \X Nat |-> 10 * q[2] + (w[q[1]] - 48)]
             it == CHOOSE iter : iter = Eq(iter)
  <1>1. n \in Nat /\ DOMAIN w = 1 .. n /\ \A i \in 1 .. n : w[i] \in 48 .. 57
    BY DEF P!IsNumber, P!Digits
  <1>2. P!Number(w) = it[DOMAIN w]
    BY DEF P!Number, P!FoldLeft, P!MapThenFoldSet, P!Max, Msg!Max
  <1>3. \A i \in 1 .. n, v \in Nat : go[<<i, v>>] = 10 * v + (w[i] - 48) /\ go[<<i, v>>] \in Nat
    <2>1. ASSUME NEW i \in 1 .. n, NEW v \in Nat PROVE 10 * v + (w[i] - 48) \in Nat
      <3>1. \A x \in 48 .. 57 : 10 * v + (x - 48) \in Nat
        BY <2>1
      <3> QED BY <1>1, <3>1, Zenon
    <2> QED BY <2>1
  <1>4. go \in [(1 .. n) \X Nat -> Nat]
    BY <1>3
  <1> HIDE DEF Eq, go, it, n
  <1>6. PICK f \in [SUBSET (1 .. n) -> Nat] : \A s \in SUBSET (1 .. n) :
          f[s] = IF s = {} THEN 0 ELSE go[<<Msg!Max(s), f[s \ {Msg!Max(s)}]>>]
    <2>1. Foldable(Nat, n, 0, go)
      <3>1. 0 \in Nat
        OBVIOUS
      <3> QED BY <3>1, <1>1, <1>4, FoldExists, Zenon
    <2> QED BY <2>1 DEF Foldable
  <1>7. f = Eq(f)
    <2>1. ASSUME NEW s \in SUBSET (1 .. n), s # {} PROVE f[s] = 10 * f[s \ {Msg!Max(s)}] + (w[Msg!Max(s)] - 48)
      <3>1. Msg!Max(s) \in 1 .. n /\ f[s \ {Msg!Max(s)}] \in Nat
        BY <1>1, <2>1, MaxIs
      <3> QED BY <3>1, <2>1, <1>3, <1>6
    <2>2. \A s \in SUBSET (1 .. n) : f[s] = IF s = {} THEN 0 ELSE 10 * f[s \ {Msg!Max(s)}] + (w[Msg!Max(s)] - 48)
      BY <2>1, <1>6
    <2> QED BY <2>2, <1>1 DEF Eq
  <1>8. it = Eq(it)
    BY <1>7 DEF it
  <1>9. it[{}] = 0 /\ \A s \in SUBSET (1 .. n) : s # {} => it[s] = 10 * it[s \ {Msg!Max(s)}] + (w[Msg!Max(s)] - 48)
    BY <1>8, <1>1 DEF Eq
  <1>10. ASSUME NEW s \in SUBSET (1 .. n), NEW v \in Nat, s # {}, it[s \ {Msg!Max(s)}] = v
         PROVE  it[s] = go[<<Msg!Max(s), v>>]
    <2>1. Msg!Max(s) \in 1 .. n
      BY <1>1, <1>10, MaxIs
    <2> QED BY <2>1, <1>3, <1>9, <1>10
  <1>11. Folded(Nat, n, 0, go, it[1 .. n])
    <2>1. it[{}] = 0 /\ \A s \in SUBSET (1 .. n), v \in Nat :
            s # {} /\ it[s \ {Msg!Max(s)}] = v => it[s] = go[<<Msg!Max(s), v>>]
      BY <1>9, <1>10
    <2>2. 0 \in Nat
      OBVIOUS
    <2> QED BY <1>1, <1>4, <2>1, <2>2, FoldIs, Zenon
  <1>12. PICK g \in [0 .. n -> Nat] : it[1 .. n] = g[n]
    BY <1>11 DEF Folded
  <1> QED
    BY <1>1, <1>2, <1>12

(* A field's width is the one that its layout gives it.                     *)
LEMMA WidthIs == ASSUME NEW l \in Layouts, NEW k \in DOMAIN l PROVE Msg!WidthOf(l, l[k][1]) = l[k][2]
  <1>1. \A i \in DOMAIN l : l[i][1] = l[k][1] => i = k
    BY DEF Layouts
  <1>2. \E i \in DOMAIN l : l[i][1] = l[k][1]
    OBVIOUS
  <1>3. Msg!Index(l, l[k][1]) = k
    BY <1>1, <1>2 DEF Msg!Index
  <1> QED BY <1>3 DEF Msg!WidthOf

(* A frame of a request holds its length, its type, and the object.         *)
NamesOf(l) == {x[1] : x \in P!Range(l)}
HoldsIn(frame, l, field, v) ==
  P!Read(frame, P!FRAME_HDR \o l, field) = P!Bytes(v, P!WidthOf(P!FRAME_HDR \o l, field))
FrameOf(frame, l, type, o) ==
  /\ HoldsIn(frame, l, "msg_len", Len(frame) - 2) /\ HoldsIn(frame, l, "MessageType", type)
  /\ \A k \in 2 .. Len(l) : HoldsIn(frame, l, l[k][1], o[l[k][1]])
LEMMA FrameHolds ==
  ASSUME NEW l, NEW n \in Nat, n >= 1, NEW size \in Nat, Formed(l, n, size),
         NEW type \in Nat, NEW o \in [NamesOf(l) -> Nat]
  PROVE  FrameOf(P!Framed(l, type, o), l, type, o)
  <1> DEFINE f == [x \in DOMAIN o \cup {"msg_len", "MessageType"} |->
                     CASE x = "msg_len" -> P!SizeOf(l) [] x = "MessageType" -> type [] OTHER -> o[x]]
             m == Msg!FRAME_HDR \o l
             p == Pieces(m, f)
             frame == P!Framed(l, type, o)
  <1>1. m = P!FRAME_HDR \o l /\ P!SizeOf(l) = size
    BY PromptsLayouts, PromptsSame DEF Formed
  <1>2. HasHeader(m, l, n, size)
    BY HeadedForms
  <1>3. f["msg_len"] = size /\ f["MessageType"] = type
    BY <1>1
  <1>3a. \A x \in DOMAIN o : x # "msg_len" /\ x # "MessageType" => f[x] = o[x]
    OBVIOUS
  <1>3b. frame = P!Encode(m, f)
    BY <1>1 DEF P!Framed
  <1> HIDE DEF m, f, frame
  <1>4. /\ m \in Layouts /\ m \in Seq(FieldNames \X Nat) /\ Len(m) = n + 1 /\ DOMAIN m = 1 .. n + 1
        /\ \A i \in 1 .. n : m[i + 1] = l[i]
        /\ m[1] = <<"msg_len", 2>> /\ Msg!SizeOf(m) = size + 2
    BY <1>2 DEF HasHeader, Layouts
  <1>5. /\ l[1] = <<"MessageType", 2>> /\ l \in Layouts /\ Len(l) = n /\ DOMAIN l = 1 .. n
        /\ \A i \in 1 .. n : l[i][1] # "msg_len"
    BY DEF Formed, Layouts
  <1>6. DOMAIN p = 1 .. n + 1 /\ \A i \in 1 .. n + 1 : p[i] = Msg!Bytes(f[m[i][1]], m[i][2])
    BY <1>4 DEF Pieces
  <1>7. m[2] = <<"MessageType", 2>>
    <2>1. 1 \in 1 .. n /\ 1 + 1 = 2
      OBVIOUS
    <2> QED BY <2>1, <1>4, <1>5
  <1>8. ASSUME NEW k \in 2 .. n PROVE f[l[k][1]] = o[l[k][1]] /\ o[l[k][1]] \in Nat
    <2>1. k \in DOMAIN l /\ 1 \in DOMAIN l /\ k \in 1 .. n
      BY <1>5
    <2>2. l[k][1] # "MessageType" /\ l[k][1] # "msg_len"
      <3>1. l[k][1] = l[1][1] => k = 1
        BY <2>1, <1>5 DEF Layouts
      <3> QED BY <2>1, <3>1, <1>5
    <2>3. l[k][1] \in NamesOf(l)
      BY <2>1 DEF NamesOf, P!Range
    <2>4. DOMAIN o = NamesOf(l)
      OBVIOUS
    <2> QED BY <2>2, <2>3, <2>4, <1>3a
  <1>9. ASSUME NEW i \in 1 .. n + 1 PROVE f[m[i][1]] \in Nat /\ m[i][2] \in Nat
    <2>1. m[i] \in FieldNames \X Nat
      BY <1>4
    <2>2. CASE i = 1
      BY <2>2, <1>3, <1>4
    <2>3. CASE i = 2
      BY <2>3, <1>3, <1>7
    <2>4. CASE i > 2
      <3>1. i - 1 \in 2 .. n /\ i - 1 \in 1 .. n /\ (i - 1) + 1 = i
        BY <2>4
      <3>2. m[i] = l[i - 1]
        BY <3>1, <1>4
      <3> QED BY <2>1, <3>1, <3>2, <1>8
    <2> QED BY <2>2, <2>3, <2>4
  <1>10. ASSUME NEW i \in 1 .. n + 1 PROVE p[i] \in Seq(Nat) /\ Len(p[i]) = m[i][2]
    <2>1. Held(Msg!Bytes(f[m[i][1]], m[i][2]), f[m[i][1]], m[i][2])
      BY <1>9, BytesAre
    <2> HIDE DEF p
    <2> QED BY <2>1, <1>6 DEF Held
  <1>11. p \in Seq(Seq(Nat)) /\ Len(p) = Len(m)
    <2>1. n + 1 \in Nat /\ p = [i \in 1 .. n + 1 |-> p[i]]
      BY <1>6 DEF Pieces
    <2> HIDE DEF p
    <2>2. p \in [1 .. n + 1 -> Seq(Nat)]
      BY <2>1, <1>10
    <2> QED BY <2>1, <2>2, <1>4
  <1>12. frame = CatOf(p)
    <2>1. n + 1 \in Nat /\ DOMAIN m = 1 .. n + 1
      BY <1>4
    <2>2. Msg!Encode(m, f) = CatOf(p)
      BY <2>1, EncodeIsCat DEF p
    <2> QED BY <2>2, <1>3b, PromptsSame
  <1> HIDE DEF p
  <1>13. Carries(frame, m, p)
    <2>1. \A i \in 1 .. Len(p) : Len(p[i]) = m[i][2]
      BY <1>4, <1>10, <1>11
    <2> QED BY <2>1, <1>4, <1>11, <1>12, CatCarries
  <1>14. ASSUME NEW i \in 1 .. n + 1 PROVE HoldsIn(frame, l, m[i][1], f[m[i][1]])
    <2>1. i \in DOMAIN m
      BY <1>4
    <2>2. Msg!Read(frame, m, m[i][1]) = p[i]
      BY <2>1, <1>13 DEF Carries
    <2>3. Msg!WidthOf(m, m[i][1]) = m[i][2]
      BY <2>1, <1>4, WidthIs
    <2>4. p[i] = Msg!Bytes(f[m[i][1]], m[i][2])
      BY <1>6
    <2>5. P!Read(frame, m, m[i][1]) = P!Bytes(f[m[i][1]], P!WidthOf(m, m[i][1]))
      BY <2>2, <2>3, <2>4, PromptsSame
    <2> QED BY <2>5, <1>1 DEF HoldsIn
  <1>15. HoldsIn(frame, l, "msg_len", Len(frame) - 2)
    <2>1. Len(frame) = size + 2 /\ (size + 2) - 2 = size
      BY <1>4, <1>13 DEF Carries
    <2>2. HoldsIn(frame, l, m[1][1], f[m[1][1]])
      BY <1>14
    <2> QED BY <2>1, <2>2, <1>3, <1>4
  <1>16. HoldsIn(frame, l, "MessageType", type)
    <2>1. HoldsIn(frame, l, m[2][1], f[m[2][1]])
      BY <1>14
    <2> QED BY <2>1, <1>3, <1>7
  <1>17. ASSUME NEW k \in 2 .. n PROVE HoldsIn(frame, l, l[k][1], o[l[k][1]])
    <2>1. k + 1 \in 1 .. n + 1 /\ k \in 1 .. n
      OBVIOUS
    <2>2. HoldsIn(frame, l, m[k + 1][1], f[m[k + 1][1]])
      BY <2>1, <1>14
    <2>3. m[k + 1] = l[k]
      BY <2>1, <1>4
    <2> QED BY <2>2, <2>3, <1>8
  <1> QED BY <1>5, <1>15, <1>16, <1>17 DEF FrameOf, frame

(* The prompts of a request go to fields of its layout, each of them once   *)
(* but the UserID, and none of them to the UserTag.                         *)
AskedWell(choice) ==
  /\ P!Asked[choice] \in Seq(FieldNames \X FieldNames) /\ Len(P!Asked[choice]) >= 2
  /\ P!Asked[choice][1] = <<"UserID", "UserID">> /\ P!Asked[choice][2] = <<"UserID", "UserTag">>
  /\ \A k \in 1 .. Len(P!Asked[choice]) :
       /\ P!Asked[choice][k][1] \in NamesOf(P!Layout[choice]) /\ P!Asked[choice][k][2] \in NamesOf(P!Layout[choice])
       /\ P!Asked[choice][k][1] # "UserTag"
  /\ \A k \in 3 .. Len(P!Asked[choice]) :
       P!Asked[choice][k][2] = P!Asked[choice][k][1] /\ P!Asked[choice][k][1] # "UserID"
  /\ \A i, j \in 3 .. Len(P!Asked[choice]) : P!Asked[choice][i][1] = P!Asked[choice][j][1] => i = j
  /\ ~P!OneByte(choice, "UserID") /\ "UserTag" \in NamesOf(P!Layout[choice])
LEMMA AskedIs == ASSUME NEW choice \in Menu PROVE AskedWell(choice)
  <1> DEFINE ask == P!Asked[choice]
             l == P!Layout[choice]
             names == NamesOf(l)
  <1>1. AskedForm(choice)
    BY PromptsAssumption, AskedForms
  <1>2. PICK n \in Nat, m \in Nat : n >= 3 /\ m >= 2 /\ Request3(l, n) /\ Asks(ask, l, m, n)
    BY <1>1 DEF AskedForm
  <1> HIDE DEF ask
  <1>3. PICK size \in Nat : Formed(l, n, size)
    BY <1>2 DEF Request3
  <1>4. l \in Layouts /\ DOMAIN l = 1 .. n /\ Len(l) = n
    BY <1>3 DEF Formed, Layouts
  <1>5. l[2] = <<"UserID", 8>> /\ l[3] = <<"UserTag", 8>>
    BY <1>2 DEF Request3
  <1>6. \A i \in 1 .. n : l[i][1] \in names
    BY <1>4 DEF NamesOf, P!Range
  <1>7. \A i, j \in 1 .. n : l[i][1] = l[j][1] => i = j
    BY <1>4 DEF Layouts
  <1>8. "UserID" \in names /\ "UserTag" \in names
    <2>1. 2 \in 1 .. n /\ 3 \in 1 .. n
      BY <1>2
    <2> QED BY <2>1, <1>5, <1>6
  <1>9. ~P!OneByte(choice, "UserID")
    <2>1. 2 \in DOMAIN l
      BY <1>2, <1>4
    <2>2. Msg!WidthOf(l, l[2][1]) = l[2][2]
      BY <2>1, <1>4, WidthIs
    <2> HIDE DEF l
    <2>3. Msg!WidthOf(l, "UserID") = 8
      BY <2>2, <1>5
    <2>4. P!WidthOf(l, "UserID") = 8
      BY <2>3, PromptsSame
    <2> QED BY <2>4 DEF P!OneByte, l
  <1> HIDE DEF l, names
  <1>10. ASSUME NEW k \in 3 .. m
         PROVE  /\ ask[k][1] \in names /\ ask[k][2] = ask[k][1] /\ ask[k][1] # "UserID" /\ ask[k][1] # "UserTag"
    <2>1. PICK j \in 4 .. n : l[j][1] = ask[k][1]
      BY <1>2 DEF Asks
    <2>2. ask[k] = <<ask[k][1], ask[k][1]>>
      BY <1>2 DEF Asks
    <2>3. j \in 1 .. n /\ 2 \in 1 .. n /\ 3 \in 1 .. n /\ j # 2 /\ j # 3
      BY <1>2
    <2>4. l[j][1] # l[2][1] /\ l[j][1] # l[3][1]
      BY <2>3, <1>7
    <2>5. ask[k][2] = ask[k][1]
      BY <2>2
    <2> QED BY <2>1, <2>3, <2>4, <2>5, <1>5, <1>6
  <1>11. /\ ask \in Seq(FieldNames \X FieldNames) /\ Len(ask) = m
         /\ ask[1] = <<"UserID", "UserID">> /\ ask[2] = <<"UserID", "UserTag">>
         /\ \A i, j \in 3 .. m : ask[i][1] = ask[j][1] => i = j
    BY <1>2 DEF Asks
  <1>12. ASSUME NEW k \in 1 .. m PROVE ask[k][1] \in names /\ ask[k][2] \in names /\ ask[k][1] # "UserTag"
    <2>1. CASE k \in 3 .. m
      BY <2>1, <1>10
    <2>2. CASE k = 1
      BY <2>2, <1>8, <1>11
    <2>3. CASE k = 2
      BY <2>3, <1>8, <1>11
    <2> QED BY <2>1, <2>2, <2>3
  <1> QED
    BY <1>2, <1>8, <1>9, <1>10, <1>11, <1>12 DEF AskedWell, ask, l, names

(* The objects of a request: numbers, of which the tag is 0.                *)
Objects(choice) == {o \in [NamesOf(P!Layout[choice]) -> Nat] : o["UserTag"] = 0}
LEMMA ZeroIs == ASSUME NEW choice \in Menu PROVE P!Zero(choice) \in Objects(choice)
  <1>1. "UserTag" \in NamesOf(P!Layout[choice])
    BY AskedIs DEF AskedWell
  <1>2. P!Zero(choice) = [f \in NamesOf(P!Layout[choice]) |-> 0]
    BY DEF P!Zero, NamesOf
  <1> HIDE DEF P!Zero
  <1> QED BY <1>1, <1>2 DEF Objects

(* Words, what cin holds of them, and the prompts left after q.             *)
Word   == Seq(1 .. 255) \ {<<>>}
Queues == {<<>>} \cup {<<w>> : w \in Word}
LeftFrom(choice, todo, q) ==
  /\ todo \in Seq(FieldNames \X FieldNames) /\ Len(todo) = Len(P!Asked[choice]) - q
  /\ \A i \in 1 .. Len(todo) : todo[i] = P!Asked[choice][q + i]

(* Words that went to other prompts than those they were meant for, and     *)
(* those that went where they were meant to.                                *)
Bad(choice, answers, q) ==
  \E k \in 1 .. q : k <= Len(answers) /\ P!OneByte(choice, P!Asked[choice][k][1]) /\ Len(answers[k]) # 1
MeantBy(choice, before, field, word) ==
  IF P!OneByte(choice, field) THEN Head(word) ELSE IF P!Number(word) = 0 THEN before[field] ELSE P!Number(word)
Aligned(choice, answers, words, fields_, before, q) ==
  /\ Len(answers) = q + Len(words) /\ (words # <<>> => words[1] = answers[q + 1])
  /\ q >= 2 => fields_["UserID"] = P!Number(answers[2])
  /\ \A k \in 3 .. q : fields_[P!Asked[choice][k][1]] = MeantBy(choice, before, P!Asked[choice][k][1], answers[k])

Going ==
  /\ asking.choice \in Menu /\ user.choice = asking.choice
  /\ asking.fields \in Objects(asking.choice) /\ user.before = previous[asking.choice]
  /\ \E q \in 0 .. Len(P!Asked[asking.choice]) :
       /\ LeftFrom(asking.choice, asking.left, q)
       /\ \/ cin.failed \/ user.ahead \/ Bad(asking.choice, user.answers, q)
          \/ Aligned(asking.choice, user.answers, cin.words, asking.fields, user.before, q)

(* A word of the user is answered to the prompt it was meant for, or a word *)
(* before it was not.                                                       *)
PromptsInv ==
  /\ cin = [words |-> cin.words, failed |-> cin.failed] /\ cin.words \in Queues /\ cin.failed \in BOOLEAN
  /\ asking = [choice |-> asking.choice, fields |-> asking.fields, left |-> asking.left]
  /\ user = [choice |-> user.choice, answers |-> user.answers, before |-> user.before,
             ahead |-> user.ahead, odd |-> user.odd, requests |-> user.requests]
  /\ user.answers \in Seq(Word) /\ user.ahead \in BOOLEAN
  /\ previous \in [Menu -> UNION {Objects(choice) : choice \in Menu}]
  /\ \A choice \in Menu : previous[choice] \in Objects(choice)
  /\ asking.choice = "none" => asking.left = <<>> /\ P!AnswersKept
  /\ asking.choice # "none" => Going

LEMMA PromptsInitially == ASSUME P!Init PROVE PromptsInv
  <1>1. \A choice \in Menu : P!Zero(choice) \in Objects(choice)
    BY ZeroIs
  <1>2. previous = [choice \in Menu |-> P!Zero(choice)]
    BY DEF P!Init
  <1>3. /\ cin = [words |-> <<>>, failed |-> FALSE] /\ asking = [choice |-> "none", fields |-> <<>>, left |-> <<>>]
        /\ user = [choice |-> "none", answers |-> <<>>, before |-> <<>>, ahead |-> FALSE, odd |-> 0, requests |-> 0]
    BY DEF P!Init
  <1>4. P!AnswersKept
    BY <1>3 DEF P!AnswersKept
  <1>5. /\ previous \in [Menu -> UNION {Objects(choice) : choice \in Menu}]
        /\ \A choice \in Menu : previous[choice] \in Objects(choice)
    <2> HIDE DEF P!Zero
    <2> QED BY <1>1, <1>2
  <1>6. cin.words \in Queues /\ cin.failed \in BOOLEAN /\ user.answers \in Seq(Word) /\ user.ahead \in BOOLEAN
    BY <1>3 DEF Queues
  <1> QED BY <1>3, <1>4, <1>5, <1>6 DEF PromptsInv

LEMMA ChooseStep == ASSUME PromptsInv, NEW choice \in Menu, P!Choose(choice) PROVE PromptsInv'
  <1>1. /\ cin' = cin /\ previous' = previous
        /\ asking' = [choice |-> choice, fields |-> P!Zero(choice), left |-> P!Asked[choice]]
        /\ user' = [user EXCEPT !.choice = choice, !.answers = <<>>, !.before = previous[choice],
                                !.ahead = cin.words # <<>>, !.requests = @ + 1]
    BY DEF P!Choose
  <1>2. user' = [choice |-> choice, answers |-> <<>>, before |-> previous[choice], ahead |-> (cin.words # <<>>),
                 odd |-> user.odd, requests |-> user.requests + 1]
    BY <1>1 DEF PromptsInv
  <1>3. AskedWell(choice) /\ P!Zero(choice) \in Objects(choice)
    BY AskedIs, ZeroIs
  <1>4. choice # "none"
    BY PromptsAssumption
  <1>5. LeftFrom(choice, P!Asked[choice], 0)
    BY <1>3 DEF AskedWell, LeftFrom
  <1>6. cin.words = <<>> => Aligned(choice, <<>>, cin.words, P!Zero(choice), previous[choice], 0)
    BY DEF Aligned
  <1>7. Going'
    <2>1. 0 \in 0 .. Len(P!Asked[choice])
      BY <1>3 DEF AskedWell
    <2> HIDE DEF P!Zero, P!Asked
    <2>2. asking'.choice = choice /\ asking'.fields = P!Zero(choice) /\ asking'.left = P!Asked[choice]
      BY <1>1
    <2>3. user'.choice = choice /\ user'.answers = <<>> /\ user'.before = previous[choice]
          /\ user'.ahead = (cin.words # <<>>)
      BY <1>2
    <2>4. cin.words = <<>> \/ user'.ahead
      BY <2>3
    <2>5. cin'.failed \/ user'.ahead \/ Bad(choice, user'.answers, 0)
            \/ Aligned(choice, user'.answers, cin'.words, asking'.fields, user'.before, 0)
      BY <2>2, <2>3, <2>4, <1>1, <1>6
    <2> QED BY <2>1, <2>2, <2>3, <2>5, <1>1, <1>3, <1>5 DEF Going
  <1> HIDE DEF P!Zero, P!Asked
  <1>8. user'.answers \in Seq(Word) /\ user'.ahead \in BOOLEAN
    BY <1>2
  <1>9. /\ asking' = [choice |-> asking'.choice, fields |-> asking'.fields, left |-> asking'.left]
        /\ user' = [choice |-> user'.choice, answers |-> user'.answers, before |-> user'.before,
                    ahead |-> user'.ahead, odd |-> user'.odd, requests |-> user'.requests]
        /\ asking'.choice # "none"
    BY <1>1, <1>2, <1>4
  <1> QED BY <1>1, <1>7, <1>8, <1>9 DEF PromptsInv

LEMMA TypeStep == ASSUME PromptsInv, NEW word \in Words, P!Type(word) PROVE PromptsInv'
  <1>1. /\ asking' = asking /\ previous' = previous /\ asking.choice # "none" /\ ~cin.failed /\ cin.words = <<>>
        /\ cin' = [cin EXCEPT !.words = <<word>>]
        /\ \E n : user' = [user EXCEPT !.answers = Append(@, word), !.odd = n]
    BY DEF P!Type
  <1>2. PICK n : user' = [user EXCEPT !.answers = Append(@, word), !.odd = n]
    BY <1>1
  <1>3. user' = [choice |-> user.choice, answers |-> Append(user.answers, word), before |-> user.before,
                 ahead |-> user.ahead, odd |-> n, requests |-> user.requests]
    BY <1>2 DEF PromptsInv
  <1>4. cin' = [words |-> <<word>>, failed |-> FALSE]
    BY <1>1 DEF PromptsInv
  <1>5. word \in Word
    BY PromptsAssumption DEF Word
  <1>6. user.answers \in Seq(Word)
    BY DEF PromptsInv
  <1> DEFINE answers == user.answers
             longer == Append(answers, word)
  <1>7. /\ longer \in Seq(Word) /\ Len(longer) = Len(answers) + 1 /\ longer[Len(answers) + 1] = word
        /\ \A i \in 1 .. Len(answers) : longer[i] = answers[i]
    BY <1>5, <1>6
  <1>8. asking.choice \in Menu /\ Going
    BY <1>1 DEF PromptsInv, Going
  <1>9. PICK q \in 0 .. Len(P!Asked[asking.choice]) :
          /\ LeftFrom(asking.choice, asking.left, q)
          /\ \/ cin.failed \/ user.ahead \/ Bad(asking.choice, answers, q)
             \/ Aligned(asking.choice, answers, cin.words, asking.fields, user.before, q)
    BY <1>8 DEF Going
  <1>10. Bad(asking.choice, answers, q) => Bad(asking.choice, longer, q)
    <2>1. ASSUME NEW k \in 1 .. q, k <= Len(answers), Len(answers[k]) # 1
          PROVE  k <= Len(longer) /\ Len(longer[k]) # 1
      <3>1. Len(answers) \in Nat /\ q \in Nat
        BY <1>6
      <3>2. k \in 1 .. Len(answers)
        BY <2>1, <3>1
      <3>3. longer[k] = answers[k] /\ Len(longer) = Len(answers) + 1
        BY <3>2, <1>7
      <3> HIDE DEF longer
      <3> QED BY <2>1, <3>1, <3>3
    <2> HIDE DEF longer, answers
    <2> QED BY <2>1 DEF Bad
  <1>11. Aligned(asking.choice, answers, cin.words, asking.fields, user.before, q)
           => Aligned(asking.choice, longer, <<word>>, asking.fields, user.before, q)
    <2> HIDE DEF longer, answers
    <2> SUFFICES ASSUME Aligned(asking.choice, answers, <<>>, asking.fields, user.before, q)
                 PROVE  Aligned(asking.choice, longer, <<word>>, asking.fields, user.before, q)
      BY <1>1
    <2>1. Len(answers) = q /\ q \in Nat /\ Len(<<word>>) = 1 /\ <<word>>[1] = word
      BY <1>6 DEF Aligned, answers
    <2>2. Len(longer) = q + 1 /\ longer[q + 1] = word /\ \A i \in 1 .. q : longer[i] = answers[i]
      BY <2>1, <1>7
    <2>3. q >= 2 => longer[2] = answers[2]
      BY <2>1, <2>2
    <2>4. \A k \in 3 .. q : longer[k] = answers[k]
      BY <2>1, <2>2
    <2>5. q >= 2 => asking.fields["UserID"] = P!Number(longer[2])
      BY <2>3 DEF Aligned
    <2>6. \A k \in 3 .. q : asking.fields[P!Asked[asking.choice][k][1]]
                              = MeantBy(asking.choice, user.before, P!Asked[asking.choice][k][1], longer[k])
      BY <2>4 DEF Aligned
    <2> QED BY <2>1, <2>2, <2>5, <2>6 DEF Aligned
  <1>12. Going'
    <2> HIDE DEF longer, answers
    <2>1. user'.answers = longer /\ user'.ahead = user.ahead /\ user'.before = user.before /\ user'.choice = user.choice
      BY <1>3 DEF longer, answers
    <2>2. cin'.words = <<word>> /\ cin'.failed = FALSE /\ ~cin.failed
      BY <1>1, <1>4
    <2>3. user'.ahead \/ Bad(asking.choice, user'.answers, q)
            \/ Aligned(asking.choice, user'.answers, cin'.words, asking.fields, user'.before, q)
      BY <2>1, <2>2, <1>9, <1>10, <1>11
    <2>4. /\ asking'.choice = asking.choice /\ asking'.fields = asking.fields /\ asking'.left = asking.left
          /\ previous' = previous
      BY <1>1
    <2> QED BY <2>1, <2>3, <2>4, <1>8, <1>9 DEF Going
  <1> HIDE DEF longer, answers
  <1>13. cin'.words \in Queues /\ cin'.failed \in BOOLEAN /\ cin' = [words |-> cin'.words, failed |-> cin'.failed]
    BY <1>4, <1>5 DEF Queues
  <1>14. /\ user' = [choice |-> user'.choice, answers |-> user'.answers, before |-> user'.before,
                     ahead |-> user'.ahead, odd |-> user'.odd, requests |-> user'.requests]
         /\ user'.answers \in Seq(Word) /\ user'.ahead = user.ahead
    BY <1>3, <1>7 DEF longer, answers
  <1> QED BY <1>1, <1>12, <1>13, <1>14 DEF PromptsInv

LEMMA WordIs ==
  ASSUME NEW w \in Word
  PROVE  w \in Seq(Nat) /\ Len(w) \in Nat /\ Len(w) >= 1 /\ Head(w) \in 1 .. 255 /\ (Len(w) # 1 => Tail(w) \in Word)
  <1>1. ASSUME NEW V, NEW x \in Seq(V), x # <<>>
        PROVE  Len(x) \in Nat /\ Len(x) >= 1 /\ Head(x) \in V /\ Tail(x) \in Seq(V) /\ Len(Tail(x)) = Len(x) - 1
    BY <1>1, HeadTailProperties
  <1>2. w \in Seq(1 .. 255) /\ w # <<>>
    BY DEF Word
  <1>3. Len(w) \in Nat /\ Len(w) >= 1 /\ Head(w) \in 1 .. 255 /\ Tail(w) \in Seq(1 .. 255) /\ Len(Tail(w)) = Len(w) - 1
    BY <1>1, <1>2, Zenon
  <1>4. w \in Seq(Nat)
    <2>1. \A i \in 1 .. Len(w) : w[i] \in Nat
      <3>1. \A i \in 1 .. Len(w) : w[i] \in 1 .. 255
        BY <1>2, ElementOfSeq
      <3>2. \A x \in 1 .. 255 : x \in Nat
        OBVIOUS
      <3> QED BY <3>1, <3>2, Zenon
    <2>2. w = [i \in 1 .. Len(w) |-> w[i]]
      BY <1>2
    <2>3. [i \in 1 .. Len(w) |-> w[i]] \in Seq(Nat)
      BY <1>3, <2>1, IsASeq
    <2> QED BY <2>2, <2>3
  <1>5. Len(w) # 1 => Tail(w) # <<>>
    <2>1. Len(<<>>) = 0
      OBVIOUS
    <2>2. Len(w) # 1 => Len(Tail(w)) # 0
      BY <1>3
    <2> QED BY <2>1, <2>2, Zenon
  <1> QED BY <1>3, <1>4, <1>5 DEF Word

(* What a prompt takes from cin: a word, or a character of it.              *)
TakenFrom(taken, one) ==
  /\ taken.value \in Nat /\ taken.words \in Queues /\ taken.failed \in BOOLEAN
  /\ cin.failed => taken.failed
  /\ ~cin.failed /\ one => taken.value = Head(cin.words[1]) /\ taken.value # 0
  /\ ~cin.failed /\ one /\ Len(cin.words[1]) = 1 => taken.words = <<>>
  /\ ~cin.failed /\ ~one /\ ~taken.failed => taken.value = P!Number(cin.words[1]) /\ taken.words = <<>>
LEMMA Takes ==
  ASSUME PromptsInv, NEW old \in Nat, NEW one \in BOOLEAN, cin.failed \/ cin.words # <<>>
  PROVE  TakenFrom(P!Take(old, one), one)
  <1> DEFINE taken == P!Take(old, one)
             word == cin.words[1]
  <1> SUFFICES TakenFrom(taken, one)
    OBVIOUS
  <1> HIDE DEF taken
  <1>1. CASE cin.failed
    <2>1. taken = [value |-> old, words |-> cin.words, failed |-> TRUE]
      BY <1>1 DEF P!Take, taken
    <2> QED BY <1>1, <2>1 DEF PromptsInv, TakenFrom
  <1>2. CASE ~cin.failed
    <2>1. word \in Word /\ Head(cin.words) = word
      BY <1>2 DEF PromptsInv, Queues
    <2> HIDE DEF word
    <2>2. word \in Seq(Nat) /\ Head(word) \in 1 .. 255 /\ (Len(word) # 1 => Tail(word) \in Word)
      BY <2>1, WordIs
    <2>3. CASE one
      <3>1. taken = P!TakeChar
        BY <1>2, <2>3 DEF P!Take, taken
      <3>1a. taken = [value |-> Head(word), words |-> P!Rest(word), failed |-> FALSE]
        BY <2>1, <3>1 DEF P!TakeChar
      <3>2. P!Rest(word) \in Queues /\ (Len(word) = 1 => P!Rest(word) = <<>>)
        <4>1. CASE Len(word) = 1
          BY <4>1 DEF P!Rest, Queues
        <4>2. CASE Len(word) # 1
          BY <2>2, <4>2, Zenon DEF P!Rest, Queues
        <4> QED BY <4>1, <4>2
      <3>3. Head(word) \in Nat /\ Head(word) # 0
        <4>1. \A x \in 1 .. 255 : x \in Nat /\ x # 0
          OBVIOUS
        <4> QED BY <4>1, <2>2, Zenon
      <3>4. word = cin.words[1]
        BY DEF word
      <3>5. taken.value = Head(word) /\ taken.words = P!Rest(word) /\ taken.failed = FALSE
        BY <3>1a
      <3> QED BY <1>2, <2>3, <3>2, <3>3, <3>4, <3>5 DEF TakenFrom
    <2>4. CASE ~one /\ P!IsNumber(word)
      <3>1. taken = [value |-> P!Number(word), words |-> <<>>, failed |-> FALSE]
        BY <1>2, <2>1, <2>4 DEF P!Take, taken
      <3>2. P!Number(word) \in Nat
        BY <2>2, <2>4, NumberIs
      <3>3. word = cin.words[1]
        BY DEF word
      <3>4. taken.value = P!Number(word) /\ taken.words = <<>> /\ taken.failed = FALSE
        BY <3>1
      <3>5. taken.words \in Queues
        BY <3>4 DEF Queues
      <3> QED BY <1>2, <2>4, <3>2, <3>3, <3>4, <3>5 DEF TakenFrom
    <2>5. CASE ~one /\ ~P!IsNumber(word)
      <3>1. taken = [value |-> 0, words |-> cin.words, failed |-> TRUE]
        BY <1>2, <2>1, <2>5 DEF P!Take, taken
      <3> QED BY <1>2, <2>5, <3>1 DEF TakenFrom, PromptsInv
    <2> QED BY <2>3, <2>4, <2>5
  <1> QED BY <1>1, <1>2

LEMMA PromptStep == ASSUME PromptsInv, P!Prompt PROVE PromptsInv'
  <1> DEFINE choice == asking.choice
             ask    == P!Asked[choice]
             field  == Head(asking.left)[1]
             one    == P!OneByte(choice, field)
             taken  == P!Take(asking.fields[field], one)
             value  == P!Stored(taken, previous[choice][Head(asking.left)[2]])
             after  == [asking.fields EXCEPT ![field] = value]
             answers == user.answers
  <1>1. /\ asking.left # <<>> /\ (cin.failed \/ cin.words # <<>>)
        /\ asking' = [asking EXCEPT !.fields[field] = value, !.left = Tail(@)]
        /\ cin' = [words |-> taken.words, failed |-> taken.failed]
        /\ previous' = previous /\ user' = user
    BY DEF P!Prompt
  <1>2. asking' = [choice |-> choice, fields |-> after, left |-> Tail(asking.left)]
    <2>1. asking = [choice |-> asking.choice, fields |-> asking.fields, left |-> asking.left]
      BY DEF PromptsInv
    <2> HIDE DEF value, field
    <2> QED BY <2>1, <1>1
  <1> HIDE DEF taken, value, after, one
  <1>3. choice # "none" /\ Going /\ choice \in Menu /\ AskedWell(choice)
    <2>1. choice # "none" /\ Going
      BY <1>1 DEF PromptsInv
    <2> QED BY <2>1, AskedIs DEF Going
  <1>4. PICK q \in 0 .. Len(ask) :
          /\ LeftFrom(choice, asking.left, q)
          /\ \/ cin.failed \/ user.ahead \/ Bad(choice, answers, q)
             \/ Aligned(choice, answers, cin.words, asking.fields, user.before, q)
    BY <1>3 DEF Going
  <1> HIDE DEF choice, ask, answers
  <1>5. /\ ask \in Seq(FieldNames \X FieldNames) /\ Len(ask) \in Nat /\ q \in Nat
        /\ asking.left \in Seq(FieldNames \X FieldNames) /\ Len(asking.left) = Len(ask) - q
        /\ \A i \in 1 .. Len(asking.left) : asking.left[i] = ask[q + i]
    <2>1. ask \in Seq(FieldNames \X FieldNames)
      BY <1>3 DEF AskedWell, ask
    <2>2. /\ asking.left \in Seq(FieldNames \X FieldNames) /\ Len(asking.left) = Len(ask) - q
          /\ \A i \in 1 .. Len(asking.left) : asking.left[i] = ask[q + i]
      BY <1>4, Zenon DEF LeftFrom, ask
    <2>3. Len(ask) \in Nat /\ q \in Nat
      BY <2>1
    <2> QED BY <2>1, <2>2, <2>3
  <1>6. q + 1 \in 1 .. Len(ask) /\ Head(asking.left) = ask[q + 1]
    <2>1. Len(asking.left) >= 1
      BY <1>1, <1>5
    <2>2. 1 \in 1 .. Len(asking.left) /\ Head(asking.left) = asking.left[1]
      BY <2>1, <1>1, <1>5
    <2> QED BY <2>1, <2>2, <1>5
  <1>7. LeftFrom(choice, Tail(asking.left), q + 1)
    <2>1. /\ Tail(asking.left) \in Seq(FieldNames \X FieldNames) /\ Len(Tail(asking.left)) = Len(asking.left) - 1
          /\ \A i \in 1 .. Len(Tail(asking.left)) : Tail(asking.left)[i] = asking.left[i + 1]
      BY <1>1, <1>5, HeadTailProperties
    <2>2. \A i \in 1 .. Len(Tail(asking.left)) : Tail(asking.left)[i] = ask[(q + 1) + i]
      <3> SUFFICES ASSUME NEW i \in 1 .. Len(Tail(asking.left)) PROVE Tail(asking.left)[i] = ask[(q + 1) + i]
        OBVIOUS
      <3>1. i + 1 \in 1 .. Len(asking.left) /\ q + (i + 1) = (q + 1) + i
        BY <2>1, <1>5
      <3> QED BY <3>1, <2>1, <1>5
    <2> QED BY <2>1, <2>2, <1>5 DEF LeftFrom, ask
  <1>8. /\ asking.fields \in Objects(choice) /\ user.before = previous[choice] /\ previous[choice] \in Objects(choice)
        /\ user.choice = choice
    BY <1>3 DEF PromptsInv, Going, choice
  <1>9. /\ field = ask[q + 1][1] /\ Head(asking.left)[2] = ask[q + 1][2] /\ field \in NamesOf(P!Layout[choice])
        /\ ask[q + 1][2] \in NamesOf(P!Layout[choice]) /\ field # "UserTag"
    BY <1>3, <1>6 DEF AskedWell, ask
  <1>10. asking.fields[field] \in Nat /\ previous[choice][ask[q + 1][2]] \in Nat
    BY <1>8, <1>9 DEF Objects
  <1>11. TakenFrom(taken, one)
    <2>1. one \in BOOLEAN
      BY DEF one, P!OneByte
    <2> HIDE DEF field
    <2> QED BY <2>1, <1>1, <1>10, Takes DEF taken
  <1> HIDE DEF field
  <1>12. value \in Nat /\ (taken.value # 0 => value = taken.value)
         /\ (taken.value = 0 => value = previous[choice][ask[q + 1][2]])
    BY <1>9, <1>10, <1>11 DEF TakenFrom, value, P!Stored
  <1>13. /\ after \in Objects(choice) /\ after[field] = value
         /\ \A x \in NamesOf(P!Layout[choice]) : x # field => after[x] = asking.fields[x]
    <2> DEFINE names == NamesOf(P!Layout[choice])
    <2>1. ASSUME NEW N, NEW g \in [N -> Nat], NEW y \in N, NEW v \in Nat
          PROVE  /\ [g EXCEPT ![y] = v] \in [N -> Nat] /\ [g EXCEPT ![y] = v][y] = v
                 /\ \A x \in N : x # y => [g EXCEPT ![y] = v][x] = g[x]
      OBVIOUS
    <2>2. asking.fields \in [names -> Nat] /\ asking.fields["UserTag"] = 0
      BY <1>8 DEF Objects
    <2>3. field \in names /\ value \in Nat
      BY <1>9, <1>12
    <2>4. "UserTag" \in names /\ field # "UserTag"
      BY <1>3, <1>9 DEF AskedWell
    <2> HIDE DEF names
    <2>5. /\ after \in [names -> Nat] /\ after[field] = value
          /\ \A x \in names : x # field => after[x] = asking.fields[x]
      BY <2>1, <2>2, <2>3, Zenon DEF after
    <2>6. after["UserTag"] = 0
      BY <2>2, <2>4, <2>5
    <2> QED BY <2>5, <2>6 DEF Objects, names
  <1>14. user.ahead \/ taken.failed \/ Bad(choice, answers, q + 1)
           \/ Aligned(choice, answers, taken.words, after, user.before, q + 1)
    <2>1. CASE cin.failed
      BY <2>1, <1>11 DEF TakenFrom
    <2>2. CASE user.ahead
      BY <2>2
    <2>3. CASE Bad(choice, answers, q)
      <3>1. \A k \in 1 .. q : k \in 1 .. q + 1
        BY <1>5
      <3> QED BY <2>3, <3>1, Zenon DEF Bad
    <2>4. CASE ~cin.failed /\ ~taken.failed /\ Aligned(choice, answers, cin.words, asking.fields, user.before, q)
      <3>1. cin.words # <<>> /\ cin.words \in Queues
        BY <2>4, <1>1 DEF PromptsInv
      <3>2. Len(cin.words) = 1
        BY <3>1 DEF Queues
      <3>3. /\ Len(answers) = q + 1 /\ answers \in Seq(Word) /\ cin.words[1] = answers[q + 1]
            /\ (q >= 2 => asking.fields["UserID"] = P!Number(answers[2]))
            /\ \A k \in 3 .. q : asking.fields[P!Asked[choice][k][1]]
                                   = MeantBy(choice, user.before, P!Asked[choice][k][1], answers[k])
        BY <2>4, <3>1, <3>2 DEF Aligned, PromptsInv, answers
      <3>4. q + 1 \in 1 .. Len(answers) /\ answers[q + 1] \in Word
        BY <3>3, <1>5
      <3>5. CASE one /\ Len(answers[q + 1]) # 1
        <4>1. q + 1 \in 1 .. q + 1 /\ q + 1 <= Len(answers)
          BY <1>5, <3>3
        <4>2. P!OneByte(choice, P!Asked[choice][q + 1][1])
          BY <3>5, <1>9 DEF one, ask
        <4> QED BY <4>1, <4>2, <3>5, Zenon DEF Bad
      <3>6. CASE ~one \/ Len(answers[q + 1]) = 1
        <4>1. taken.words = <<>>
          BY <2>4, <3>3, <3>6, <1>11 DEF TakenFrom
        <4>2. one => taken.value = Head(answers[q + 1]) /\ taken.value # 0
          BY <2>4, <3>3, <3>6, <1>11 DEF TakenFrom
        <4>3. ~one => taken.value = P!Number(answers[q + 1])
          BY <2>4, <3>3, <3>6, <1>11 DEF TakenFrom
        <4>4. Len(answers) = (q + 1) + Len(taken.words)
          BY <4>1, <3>3, <1>5
        <4>5. q + 1 >= 2 => after["UserID"] = P!Number(answers[2])
          <5>1. CASE q = 1
            <6>1. ask[q + 1] = <<"UserID", "UserTag">>
              BY <5>1, <1>3 DEF AskedWell, ask
            <6>2. field = "UserID" /\ ~one /\ previous[choice][ask[q + 1][2]] = 0
              <7>1. field = "UserID" /\ ask[q + 1][2] = "UserTag"
                BY <6>1, <1>9
              <7> QED BY <7>1, <1>3, <1>8 DEF AskedWell, Objects, one
            <6>3. value = P!Number(answers[2])
              BY <5>1, <6>2, <4>3, <1>12
            <6> QED BY <6>2, <6>3, <1>13
          <5>2. CASE q >= 2
            <6>1. q + 1 \in 3 .. Len(ask)
              BY <5>2, <1>5, <1>6
            <6>2. field # "UserID"
              BY <6>1, <1>3, <1>9 DEF AskedWell, ask
            <6>3. "UserID" \in NamesOf(P!Layout[choice])
              <7>1. 1 \in 1 .. Len(ask) /\ ask[1] = <<"UserID", "UserID">>
                BY <1>3, <1>6, <5>2 DEF AskedWell, ask
              <7>2. ask[1][1] \in NamesOf(P!Layout[choice])
                BY <7>1, <1>3 DEF AskedWell, ask
              <7> QED BY <7>1, <7>2
            <6> QED BY <5>2, <6>2, <6>3, <3>3, <1>13
          <5> QED BY <5>1, <5>2, <1>5
        <4>6. ASSUME NEW k \in 3 .. q + 1
              PROVE  after[P!Asked[choice][k][1]] = MeantBy(choice, user.before, P!Asked[choice][k][1], answers[k])
          <5>1. k \in 3 .. Len(ask) /\ k \in 1 .. Len(ask)
            BY <1>5, <1>6
          <5>2. CASE k = q + 1
            <6>1. ask[k][2] = ask[k][1] /\ ask[k][1] = field
              BY <5>1, <5>2, <1>3, <1>9 DEF AskedWell, ask
            <6>2. value = MeantBy(choice, user.before, field, answers[k])
              <7>1. CASE one
                BY <7>1, <5>2, <4>2, <1>12 DEF MeantBy, one
              <7>2. CASE ~one
                BY <7>2, <5>2, <6>1, <4>3, <1>8, <1>12 DEF MeantBy, one
              <7> QED BY <7>1, <7>2
            <6> QED BY <6>1, <6>2, <1>13 DEF ask
          <5>3. CASE k # q + 1
            <6>1. k \in 3 .. q /\ q + 1 \in 3 .. Len(ask)
              BY <5>1, <5>3, <1>5, <1>6
            <6>2. ask[k][1] # field /\ ask[k][1] \in NamesOf(P!Layout[choice])
              BY <5>1, <5>3, <6>1, <1>3, <1>9 DEF AskedWell, ask
            <6> QED BY <6>1, <6>2, <3>3, <1>13 DEF ask
          <5> QED BY <5>2, <5>3
        <4> QED BY <4>1, <4>4, <4>5, <4>6 DEF Aligned
      <3> QED BY <3>5, <3>6
    <2> QED BY <2>1, <2>2, <2>3, <2>4, <1>4
  <1>15. Going'
    <2>1. /\ asking'.choice = choice /\ asking'.fields = after /\ asking'.left = Tail(asking.left)
      BY <1>2
    <2>1a. cin'.words = taken.words /\ cin'.failed = taken.failed
      <3>1. cin' = [words |-> taken.words, failed |-> taken.failed]
        BY <1>1
      <3> QED BY <3>1
    <2>2. q + 1 \in 0 .. Len(P!Asked[choice])
      BY <1>5, <1>6 DEF ask
    <2> QED BY <2>1, <2>1a, <2>2, <1>1, <1>3, <1>7, <1>8, <1>13, <1>14 DEF Going, answers
  <1>16. /\ cin' = [words |-> cin'.words, failed |-> cin'.failed] /\ cin'.words \in Queues /\ cin'.failed \in BOOLEAN
    BY <1>1, <1>11 DEF TakenFrom
  <1>17. /\ asking' = [choice |-> asking'.choice, fields |-> asking'.fields, left |-> asking'.left]
         /\ asking'.choice # "none"
    BY <1>2, <1>3
  <1> QED BY <1>1, <1>15, <1>16, <1>17 DEF PromptsInv

(* What process_modify_order() and the like write holds the object.         *)
LEMMA FramesAre ==
  ASSUME NEW choice \in Menu, NEW o \in Objects(choice)
  PROVE  FrameOf(P!Frame(choice, o), P!Layout[choice], P!MessageType[choice], o)
  <1>1. choice \in {"modify", "cancel", "leverage", "cancel_all", "working", "fills"}
    BY PromptsAssumption
  <1>2. P!Frame(choice, o) = P!Framed(P!Layout[choice], P!MessageType[choice], o)
    <2>1. CASE choice = "modify"
      BY <2>1 DEF P!Frame, P!process_modify_order, P!Layout, P!MessageType
    <2>2. CASE choice = "cancel"
      BY <2>2 DEF P!Frame, P!process_cancel_order, P!Layout, P!MessageType
    <2>3. CASE choice = "leverage"
      BY <2>3 DEF P!Frame, P!process_modify_leverage, P!Layout, P!MessageType
    <2>4. CASE choice = "cancel_all"
      BY <2>4 DEF P!Frame, P!process_cancel_all_orders, P!Layout, P!MessageType
    <2>5. CASE choice = "working"
      BY <2>5 DEF P!Frame, P!process_working_orders_request, P!Layout, P!MessageType
    <2>6. CASE choice = "fills"
      BY <2>6 DEF P!Frame, P!process_fills_request, P!Layout, P!MessageType
    <2> QED BY <1>1, <2>1, <2>2, <2>3, <2>4, <2>5, <2>6
  <1>3. AskedForm(choice)
    BY <1>1, AskedForms
  <1>4. PICK n \in Nat : n >= 3 /\ Request3(P!Layout[choice], n) /\ P!MessageType[choice] \in 0 .. 255
    BY <1>3 DEF AskedForm
  <1>5. PICK size \in Nat : Formed(P!Layout[choice], n, size)
    BY <1>4 DEF Request3
  <1>6. o \in [NamesOf(P!Layout[choice]) -> Nat]
    BY DEF Objects
  <1>7. n >= 1 /\ P!MessageType[choice] \in Nat
    BY <1>4
  <1> HIDE DEF P!Layout, P!MessageType
  <1> QED BY <1>2, <1>5, <1>6, <1>7, FrameHolds

(* The frame holds each field that was asked for, and the tag.              *)
LEMMA FrameAnswers ==
  ASSUME NEW choice \in Menu, NEW o \in Objects(choice),
         NEW frame, FrameOf(frame, P!Layout[choice], P!MessageType[choice], o)
  PROVE  /\ HoldsIn(frame, P!Layout[choice], "msg_len", Len(frame) - 2)
         /\ HoldsIn(frame, P!Layout[choice], "MessageType", P!MessageType[choice])
         /\ HoldsIn(frame, P!Layout[choice], "UserID", o["UserID"])
         /\ HoldsIn(frame, P!Layout[choice], "UserTag", 0)
         /\ \A k \in 3 .. Len(P!Asked[choice]) :
              HoldsIn(frame, P!Layout[choice], P!Asked[choice][k][1], o[P!Asked[choice][k][1]])
  <1> DEFINE l == P!Layout[choice]
             ask == P!Asked[choice]
  <1>1. AskedForm(choice)
    BY PromptsAssumption, AskedForms
  <1>2. PICK n \in Nat, m \in Nat : n >= 3 /\ m >= 2 /\ Request3(l, n) /\ Asks(ask, l, m, n)
    BY <1>1 DEF AskedForm
  <1>3. l[2] = <<"UserID", 8>> /\ l[3] = <<"UserTag", 8>> /\ Len(l) = n
    BY <1>2 DEF Request3, Formed
  <1>4. Len(ask) = m /\ \A k \in 3 .. m : \E j \in 4 .. n : l[j][1] = ask[k][1]
    BY <1>2, Zenon DEF Asks
  <1>5. o["UserTag"] = 0
    BY DEF Objects
  <1> HIDE DEF l, ask
  <1>6. \A k \in 2 .. n : HoldsIn(frame, l, l[k][1], o[l[k][1]])
    BY <1>3 DEF FrameOf, l
  <1>7. HoldsIn(frame, l, l[2][1], o[l[2][1]]) /\ HoldsIn(frame, l, l[3][1], o[l[3][1]])
    <2>1. 2 \in 2 .. n /\ 3 \in 2 .. n
      BY <1>2
    <2> QED BY <2>1, <1>6
  <1>8. HoldsIn(frame, l, "UserID", o["UserID"]) /\ HoldsIn(frame, l, "UserTag", 0)
    BY <1>3, <1>5, <1>7
  <1>9. ASSUME NEW k \in 3 .. m PROVE HoldsIn(frame, l, ask[k][1], o[ask[k][1]])
    <2>1. PICK j \in 4 .. n : l[j][1] = ask[k][1]
      BY <1>4
    <2>2. j \in 2 .. n
      OBVIOUS
    <2>3. HoldsIn(frame, l, l[j][1], o[l[j][1]])
      BY <2>2, <1>6
    <2> QED BY <2>1, <2>3
  <1>10. HoldsIn(frame, l, "msg_len", Len(frame) - 2) /\ HoldsIn(frame, l, "MessageType", P!MessageType[choice])
    BY DEF FrameOf, l
  <1> QED BY <1>4, <1>8, <1>9, <1>10 DEF l, ask

LEMMA ConfirmStep == ASSUME PromptsInv, P!Confirm PROVE PromptsInv'
  <1> DEFINE choice == asking.choice
             ask    == P!Asked[choice]
             answers == user.answers
             object == asking.fields
  <1>1. /\ choice # "none" /\ asking.left = <<>> /\ (cin.failed \/ cin.words # <<>>)
        /\ cin' = IF cin.failed THEN cin ELSE [cin EXCEPT !.words = P!TakeChar.words]
        /\ asking' = [choice |-> "none", fields |-> <<>>, left |-> <<>>]
        /\ previous' = [previous EXCEPT ![choice] = object]
        /\ user' = user
    BY DEF P!Confirm
  <1>2. ~cin.failed => sent' = IF P!TakeChar.value \in {P!y, P!Y} THEN P!Frame(choice, object) ELSE sent
    BY DEF P!Confirm
  <1>3. Going /\ choice \in Menu /\ AskedWell(choice)
    <2>1. Going
      BY <1>1 DEF PromptsInv
    <2> QED BY <2>1, AskedIs DEF Going
  <1>4. PICK q \in 0 .. Len(ask) :
          /\ LeftFrom(choice, asking.left, q)
          /\ \/ cin.failed \/ user.ahead \/ Bad(choice, answers, q)
             \/ Aligned(choice, answers, cin.words, object, user.before, q)
    BY <1>3 DEF Going
  <1>5. user.choice = choice /\ object \in Objects(choice)
    BY <1>3 DEF Going
  <1> HIDE DEF choice, ask, answers, object
  <1>6. /\ ask \in Seq(FieldNames \X FieldNames) /\ Len(ask) \in Nat /\ Len(ask) >= 2 /\ DOMAIN ask = 1 .. Len(ask)
    <2>1. ask \in Seq(FieldNames \X FieldNames) /\ Len(ask) >= 2
      BY <1>3 DEF AskedWell, ask
    <2> QED BY <2>1
  <1>7. q = Len(ask)
    <2>1. Len(asking.left) = Len(ask) - q /\ Len(asking.left) = 0
      BY <1>1, <1>4 DEF LeftFrom, ask
    <2>2. \A n \in Nat : \A x \in 0 .. n : n - x = 0 => x = n
      OBVIOUS
    <2> QED BY <2>1, <2>2, <1>6, Zenon
  <1>8. /\ cin' = [words |-> cin'.words, failed |-> cin'.failed] /\ cin'.words \in Queues
        /\ cin'.failed \in BOOLEAN /\ cin'.failed = cin.failed
    <2>1. CASE cin.failed
      BY <2>1, <1>1 DEF PromptsInv
    <2>2. CASE ~cin.failed
      <3>1. cin' = [cin EXCEPT !.words = P!TakeChar.words] /\ cin.words # <<>>
        BY <2>2, <1>1
      <3>2. P!Rest(Head(cin.words)) \in Queues
        <4>1. Head(cin.words) \in Word
          BY <3>1 DEF PromptsInv, Queues
        <4>2. CASE Len(Head(cin.words)) = 1
          BY <4>2 DEF P!Rest, Queues
        <4>3. CASE Len(Head(cin.words)) # 1
          <5>1. Tail(Head(cin.words)) \in Word
            BY <4>1, <4>3, WordIs
          <5> QED BY <5>1, <4>3, Zenon DEF P!Rest, Queues
        <4> QED BY <4>2, <4>3
      <3>3. P!TakeChar.words \in Queues
        BY <3>2 DEF P!TakeChar
      <3> HIDE DEF P!TakeChar
      <3>4. cin' = [words |-> P!TakeChar.words, failed |-> cin.failed]
        BY <3>1 DEF PromptsInv
      <3>5. cin'.words = P!TakeChar.words /\ cin'.failed = cin.failed
        BY <3>4
      <3> QED BY <3>3, <3>4, <3>5 DEF PromptsInv
    <2> QED BY <2>1, <2>2
  <1>9. /\ previous' \in [Menu -> UNION {Objects(c_) : c_ \in Menu}]
        /\ \A c_ \in Menu : previous'[c_] \in Objects(c_)
    <2>1. previous \in [Menu -> UNION {Objects(c_) : c_ \in Menu}] /\ \A c_ \in Menu : previous[c_] \in Objects(c_)
      BY DEF PromptsInv
    <2>2. object \in UNION {Objects(c_) : c_ \in Menu}
      BY <1>3, <1>5
    <2> QED BY <2>1, <2>2, <1>1, <1>3, <1>5
  <1>10. ASSUME ~cin.failed, ~user.ahead, P!Last(answers) = <<P!y>>,
                \A k \in DOMAIN ask : P!OneByte(choice, ask[k][1]) => Len(answers[k]) = 1
         PROVE  /\ Len(answers) = Len(ask) + 1
                /\ sent' = P!Frame(choice, object)
                /\ object["UserID"] = P!Number(answers[2])
                /\ \A k \in 3 .. Len(ask) : object[ask[k][1]] = MeantBy(choice, user.before, ask[k][1], answers[k])
    <2>1. ~Bad(choice, answers, q)
      BY <1>6, <1>7, <1>10, Zenon DEF Bad, ask
    <2>2. Aligned(choice, answers, cin.words, object, user.before, q)
      BY <2>1, <1>4, <1>10
    <2>3. cin.words # <<>> /\ cin.words \in Queues
      BY <1>1, <1>10 DEF PromptsInv
    <2>4. Len(cin.words) = 1 /\ Head(cin.words) = cin.words[1]
      BY <2>3 DEF Queues
    <2>5. Len(answers) = Len(ask) + 1 /\ cin.words[1] = answers[Len(ask) + 1]
      BY <2>2, <2>3, <2>4, <1>7 DEF Aligned
    <2>6. cin.words[1] = <<P!y>>
      <3>1. P!Last(answers) = answers[Len(answers)]
        BY DEF P!Last
      <3> QED BY <3>1, <2>5, <1>10
    <2>7. P!TakeChar.value = P!y
      BY <2>4, <2>6 DEF P!TakeChar
    <2>8. sent' = P!Frame(choice, object)
      BY <2>7, <1>2, <1>10
    <2>9. /\ object["UserID"] = P!Number(answers[2])
          /\ \A k \in 3 .. Len(ask) : object[ask[k][1]] = MeantBy(choice, user.before, ask[k][1], answers[k])
      BY <2>2, <1>6, <1>7 DEF Aligned, ask
    <2> QED BY <2>5, <2>8, <2>9
  <1>11. P!InStep' => /\ ~cin.failed /\ ~user.ahead
                      /\ \A k \in DOMAIN ask : P!OneByte(choice, ask[k][1]) => Len(answers[k]) = 1
    BY <1>1, <1>5, <1>8 DEF P!InStep, ask, answers
  <1>12. ASSUME ~cin.failed, ~user.ahead, P!Last(answers) = <<P!y>>,
                \A k \in DOMAIN ask : P!OneByte(choice, ask[k][1]) => Len(answers[k]) = 1
         PROVE  /\ Len(answers) = Len(ask) + 1
                /\ HoldsIn(sent', P!Layout[choice], "msg_len", Len(sent') - 2)
                /\ HoldsIn(sent', P!Layout[choice], "MessageType", P!MessageType[choice])
                /\ HoldsIn(sent', P!Layout[choice], "UserID", P!Number(answers[2]))
                /\ HoldsIn(sent', P!Layout[choice], "UserTag", 0)
                /\ \A k \in 3 .. Len(ask) : HoldsIn(sent', P!Layout[choice], ask[k][1],
                                                  MeantBy(choice, user.before, ask[k][1], answers[k]))
    <2> DEFINE frame == P!Frame(choice, object)
    <2>1. /\ Len(answers) = Len(ask) + 1 /\ sent' = frame
          /\ object["UserID"] = P!Number(answers[2])
          /\ \A k \in 3 .. Len(ask) : object[ask[k][1]] = MeantBy(choice, user.before, ask[k][1], answers[k])
      BY <1>10, <1>12
    <2>2. FrameOf(frame, P!Layout[choice], P!MessageType[choice], object)
      BY <1>3, <1>5, FramesAre
    <2> HIDE DEF frame
    <2>3. /\ HoldsIn(frame, P!Layout[choice], "msg_len", Len(frame) - 2)
          /\ HoldsIn(frame, P!Layout[choice], "MessageType", P!MessageType[choice])
          /\ HoldsIn(frame, P!Layout[choice], "UserID", object["UserID"])
          /\ HoldsIn(frame, P!Layout[choice], "UserTag", 0)
          /\ \A k \in 3 .. Len(ask) : HoldsIn(frame, P!Layout[choice], ask[k][1], object[ask[k][1]])
      BY <2>2, <1>3, <1>5, FrameAnswers, Zenon DEF ask
    <2>4. \A k \in 3 .. Len(ask) : HoldsIn(frame, P!Layout[choice], ask[k][1],
                                         MeantBy(choice, user.before, ask[k][1], answers[k]))
      BY <2>1, <2>3
    <2> QED BY <2>1, <2>3, <2>4
  <1>13. P!AnswersKept'
    <2> SUFFICES ASSUME P!InStep', P!Last(answers) = <<P!y>>
                 PROVE  /\ Len(answers) = Len(ask) + 1
                        /\ HoldsIn(sent', P!Layout[choice], "msg_len", Len(sent') - 2)
                        /\ HoldsIn(sent', P!Layout[choice], "MessageType", P!MessageType[choice])
                        /\ HoldsIn(sent', P!Layout[choice], "UserID", P!Number(answers[2]))
                        /\ HoldsIn(sent', P!Layout[choice], "UserTag", 0)
                        /\ \A k \in 3 .. Len(ask) : HoldsIn(sent', P!Layout[choice], ask[k][1],
                                                          MeantBy(choice, user.before, ask[k][1], answers[k]))
      BY <1>1, <1>5 DEF P!AnswersKept, P!Meant, MeantBy, HoldsIn, ask, answers
    <2> QED BY <1>11, <1>12
  <1>14. asking' = [choice |-> asking'.choice, fields |-> asking'.fields, left |-> asking'.left]
         /\ asking'.choice = "none" /\ asking'.left = <<>>
    BY <1>1
  <1> QED BY <1>1, <1>8, <1>9, <1>13, <1>14 DEF PromptsInv

LEMMA PromptsStill == ASSUME PromptsInv, UNCHANGED prompts PROVE PromptsInv'
  <1>1. cin' = cin /\ asking' = asking /\ previous' = previous /\ sent' = sent /\ user' = user
    BY DEF prompts
  <1>2. Going => Going'
    BY <1>1 DEF Going
  <1>3. P!AnswersKept => P!AnswersKept'
    BY <1>1 DEF P!AnswersKept, P!InStep, P!Meant
  <1> QED BY <1>1, <1>2, <1>3 DEF PromptsInv

(* What is confirmed is what was answered: prompt_modify_order() and its    *)
(* like fill the request with the words that the user meant for each field, *)
(* and process_modify_order() and its like write that, for all words, in any*)
(* number of requests.                                                      *)
THEOREM AnswersAreKept == Spec => []AnswersKept
  <1>1. Init => PromptsInv
    BY PromptsInitially DEF Init
  <1>2. PromptsInv /\ [Next]_<<component, fields, log, config, clock, latency, stats, prompts, json,
                               hexdump, endpoint>> => PromptsInv'
    <2> SUFFICES ASSUME PromptsInv, [P!Next]_prompts PROVE PromptsInv'
      BY PromptsMove
    <2> QED BY ChooseStep, TypeStep, PromptStep, ConfirmStep, PromptsStill DEF P!Next
  <1>3. PromptsInv => AnswersKept
    <2> SUFFICES ASSUME PromptsInv PROVE P!AnswersKept
      BY DEF AnswersKept
    <2>1. CASE asking.choice = "none"
      BY <2>1 DEF PromptsInv
    <2>2. CASE asking.choice # "none"
      BY <2>2 DEF P!AnswersKept
    <2> QED BY <2>1, <2>2
  <1> QED BY <1>1, <1>2, <1>3, PTL DEF Spec

-----------------------------------------------------------------------------
(* OrderStats                                                               *)
LEMMA StatsMove == [Next]_<<component, fields, log, config, clock, latency, stats, prompts,
                            json, hexdump, endpoint>> => [S!Next]_stats
  BY DEF Next, stats

LEMMA StatsSame ==
  /\ \A l, f : S!Encode(l, f) = Msg!Encode(l, f)
  /\ \A b, l, f : S!Read(b, l, f) = Msg!Read(b, l, f)
  /\ \A l : S!SizeOf(l) = Msg!SizeOf(l)
  /\ \A l, f : S!Offset(l, f) = Msg!Offset(l, f)
  <1>1. \A v, w : S!Bytes(v, w) = Msg!Bytes(v, w)
    BY DEF S!Bytes, Msg!Bytes, S!Unit, Msg!Unit
  <1>2. \A l : S!SizeOf(l) = Msg!SizeOf(l)
    BY DEF S!SizeOf, Msg!SizeOf, S!FoldLeft, Msg!FoldLeft, S!MapThenFoldSet, Msg!MapThenFoldSet, S!Max, Msg!Max
  <1>3. \A l, f : S!Encode(l, f) = Msg!Encode(l, f)
    BY DEF S!Encode, Msg!Encode, S!FoldLeft, Msg!FoldLeft, S!MapThenFoldSet, Msg!MapThenFoldSet, S!Max, Msg!Max,
           S!Bytes, Msg!Bytes, S!Unit, Msg!Unit
  <1>4. \A l, f : S!Index(l, f) = Msg!Index(l, f)
    BY DEF S!Index, Msg!Index
  <1>5. \A l, f : S!WidthOf(l, f) = Msg!WidthOf(l, f)
    BY <1>4 DEF S!WidthOf, Msg!WidthOf
  <1>6. \A l, f : S!Offset(l, f) = Msg!Offset(l, f)
    BY <1>2, <1>4 DEF S!Offset, Msg!Offset
  <1>7. \A b, l, f : S!Read(b, l, f) = Msg!Read(b, l, f)
    BY <1>5, <1>6 DEF S!Read, Msg!Read
  <1> QED BY <1>2, <1>3, <1>6, <1>7

LEMMA StatsLayouts ==
  S!NEW_ORDER_REQUEST = Msg!NEW_ORDER_REQUEST /\ S!NEW_ORDER_RESPONSE = Msg!NEW_ORDER_RESPONSE
  <1>1. S!Kind = Msg!Kind /\ S!Prices = Msg!Prices
    BY Zenon DEF S!Kind, Msg!Kind, S!Prices, Msg!Prices, S!Shorts, Msg!Shorts,
                 S!Longs, Msg!Longs, S!Chars, Msg!Chars
  <1>2. S!Request = Msg!Request
    BY <1>1 DEF S!Request, Msg!Request, S!User, Msg!User, S!Longs, Msg!Longs
  <1>3. S!Event = Msg!Event
    BY DEF S!Event, Msg!Event, S!Outcome, Msg!Outcome, S!Longs, Msg!Longs
  <1> QED
    BY <1>1, <1>2, <1>3 DEF S!NEW_ORDER_REQUEST, Msg!NEW_ORDER_REQUEST, S!NEW_ORDER_RESPONSE,
       Msg!NEW_ORDER_RESPONSE, S!Longs, Msg!Longs, S!Chars, Msg!Chars

(* The total of a function with a finite domain is the sum of its numbers.  *)
Counts(f) == IsFiniteSet(DOMAIN f) /\ \A x \in DOMAIN f : f[x] \in Nat
LEMMA TotalIs ==
  ASSUME NEW f, Counts(f) PROVE \E it : SumsTo(f, DOMAIN f, it) /\ S!Total(f) = it[DOMAIN f]
  <1>1. S!Total(f) = (CHOOSE it : EqSum(f, DOMAIN f, it))[DOMAIN f]
    BY DEF S!Total, S!FoldFunction, S!FoldFunctionOnSet, S!MapThenFoldSet, EqSum
  <1>2. SumsTo(f, DOMAIN f, CHOOSE it : EqSum(f, DOMAIN f, it))
    BY SumChosen DEF Counts
  <1> QED BY <1>1, <1>2

LEMMA NothingCounted == Counts(<<>>) /\ S!Total(<<>>) = 0
  <1>1. DOMAIN <<>> = {} /\ IsFiniteSet({})
    BY FS_EmptySet
  <1>2. Counts(<<>>)
    BY <1>1 DEF Counts
  <1>3. PICK it : SumsTo(<<>>, DOMAIN <<>>, it) /\ S!Total(<<>>) = it[DOMAIN <<>>]
    BY <1>2, TotalIs
  <1> QED BY <1>1, <1>2, <1>3 DEF SumsTo

(* A bump adds one to the total.                                            *)
LEMMA BumpAddsOne ==
  ASSUME NEW f, Counts(f), NEW k
  PROVE  Counts(S!Bump(f, k)) /\ S!Total(f) \in Nat /\ S!Total(S!Bump(f, k)) = S!Total(f) + 1
  <1> DEFINE g == S!Bump(f, k)
             r == DOMAIN f \ {k}
             was == IF k \in DOMAIN f THEN f[k] ELSE 0
  <1>1. DOMAIN g = DOMAIN f \cup {k} /\ g[k] = was + 1 /\ \A x \in r : g[x] = f[x]
    BY DEF S!Bump, S!Inserted
  <1>2. was \in Nat /\ \A x \in DOMAIN f : f[x] \in Nat
    BY DEF Counts
  <1> HIDE DEF g, was
  <1>3. Counts(g)
    <2>1. IsFiniteSet(DOMAIN g)
      BY <1>1, FS_AddElement DEF Counts
    <2>2. ASSUME NEW x \in DOMAIN g PROVE g[x] \in Nat
      <3>1. CASE x = k
        BY <3>1, <1>1, <1>2
      <3>2. CASE x # k
        BY <3>2, <1>1, <1>2
      <3> QED BY <3>1, <3>2
    <2> QED BY <2>1, <2>2 DEF Counts
  <1>4. PICK it : SumsTo(f, DOMAIN f, it) /\ S!Total(f) = it[DOMAIN f]
    BY TotalIs
  <1>5. PICK jt : SumsTo(g, DOMAIN g, jt) /\ S!Total(g) = jt[DOMAIN g]
    BY <1>3, TotalIs
  <1>6. it[r] = jt[r]
    <2>1. IsFiniteSet(DOMAIN f) /\ r \subseteq DOMAIN f /\ r \subseteq DOMAIN g /\ Agree(f, g, r)
      BY <1>1 DEF Counts, Agree
    <2> HIDE DEF r
    <2> QED BY <2>1, <1>4, <1>5, SumSame
  <1>7. jt[DOMAIN g] = jt[r] + g[k]
    <2>1. DOMAIN g \in SUBSET DOMAIN g /\ k \in DOMAIN g /\ DOMAIN g \ {k} = r
      BY <1>1
    <2> HIDE DEF r
    <2> QED BY <2>1, <1>5 DEF SumsTo
  <1>8. it[DOMAIN f] = it[r] + was /\ it[r] \in Nat
    <2>1. r \in SUBSET DOMAIN f /\ DOMAIN f \in SUBSET DOMAIN f
      OBVIOUS
    <2>2. it[r] \in Nat
      BY <2>1, <1>4 DEF SumsTo
    <2>3. CASE k \in DOMAIN f
      BY <2>1, <2>3, <1>4 DEF SumsTo, was
    <2>4. CASE k \notin DOMAIN f
      <3>1. r = DOMAIN f /\ was = 0
        BY <2>4 DEF was
      <3> QED BY <3>1, <2>2
    <2> QED BY <2>2, <2>3, <2>4
  <1>9. \A u, v \in Nat : u + v \in Nat /\ u + (v + 1) = (u + v) + 1
    OBVIOUS
  <1>10. S!Total(f) \in Nat /\ S!Total(g) = S!Total(f) + 1
    <2>1. S!Total(g) = it[r] + (was + 1)
      BY <1>1, <1>5, <1>6, <1>7
    <2>2. S!Total(f) = it[r] + was
      BY <1>4, <1>8
    <2> QED BY <2>1, <2>2, <1>2, <1>8, <1>9, Zenon
  <1> QED BY <1>3, <1>10 DEF g

(* Where the fields lie: g[k] bytes are before the field k + 1.             *)
Steps(l, g) == /\ g \in [0 .. Len(l) -> Nat] /\ g[0] = 0
               /\ \A k \in 1 .. Len(l) : g[k] = g[k - 1] + l[k][2]
LEMMA WidthsAre ==
  ASSUME NEW l \in Layouts, NEW g, Steps(l, g)
  PROVE  /\ Widths_(l) \in Seq(Nat) /\ Len(Widths_(l)) = Len(l) /\ DOMAIN l = 1 .. Len(l) /\ Len(l) \in Nat
         /\ \A i \in 1 .. Len(l) : Widths_(l)[i] = l[i][2] /\ l[i][2] \in Nat
         /\ \A k \in 0 .. Len(l) - 1 : g[k + 1] = g[k] + Widths_(l)[k + 1]
  <1> DEFINE n == Len(l)
             w == Widths_(l)
  <1>1. l \in Seq(FieldNames \X Nat) /\ DOMAIN l = 1 .. n /\ n \in Nat
    BY DEF Layouts
  <1>2. ASSUME NEW i \in 1 .. n PROVE l[i][2] \in Nat
    <2>1. l[i] \in FieldNames \X Nat
      BY <1>1
    <2> QED BY <2>1
  <1>3. w = [i \in 1 .. n |-> l[i][2]]
    BY <1>1 DEF Widths_
  <1> HIDE DEF w, n
  <1>4. w \in [1 .. n -> Nat] /\ \A i \in 1 .. n : w[i] = l[i][2]
    BY <1>2, <1>3
  <1>5. w \in Seq(Nat) /\ Len(w) = n
    <2>1. \A k \in Nat : \A u \in [1 .. k -> Nat] : u \in Seq(Nat) /\ Len(u) = k
      OBVIOUS
    <2> QED BY <2>1, <1>1, <1>4, Zenon
  <1>6. ASSUME NEW k \in 0 .. n - 1 PROVE g[k + 1] = g[k] + w[k + 1]
    <2>1. k + 1 \in 1 .. n /\ (k + 1) - 1 = k
      BY <1>1
    <2>2. g[k + 1] = g[(k + 1) - 1] + l[k + 1][2]
      BY <2>1 DEF Steps, n
    <2> QED BY <2>1, <2>2, <1>4
  <1> QED BY <1>1, <1>2, <1>4, <1>5, <1>6 DEF w, n

LEMMA OffsetIs ==
  ASSUME NEW l \in Layouts, NEW g, Steps(l, g), NEW k \in 1 .. Len(l)
  PROVE  Msg!Offset(l, l[k][1]) = g[k - 1]
  <1> DEFINE n == Len(l)
             w == Widths_(l)
             u == SubSeq(l, 1, k - 1)
  <1>1. /\ w \in Seq(Nat) /\ Len(w) = n /\ DOMAIN l = 1 .. n /\ n \in Nat
        /\ \A i \in 1 .. n : w[i] = l[i][2]
        /\ \A i \in 0 .. n - 1 : g[i + 1] = g[i] + w[i + 1]
    BY WidthsAre
  <1>2. Msg!Index(l, l[k][1]) = k
    <2>1. \A i \in DOMAIN l : l[i][1] = l[k][1] => i = k
      BY <1>1 DEF Layouts
    <2>2. \E i \in DOMAIN l : l[i][1] = l[k][1]
      BY <1>1
    <2> QED BY <2>1, <2>2 DEF Msg!Index
  <1>3. k - 1 \in Nat /\ k - 1 \in 0 .. n /\ DOMAIN u = 1 .. k - 1 /\ \A i \in 1 .. k - 1 : u[i] = l[i]
    <2>1. l \in Seq(FieldNames \X Nat)
      BY DEF Layouts
    <2> QED BY <1>1, <2>1
  <1>4. Widths_(u) = SubSeq(w, 1, k - 1)
    <2> HIDE DEF w, u
    <2>1. \A i \in 1 .. k - 1 : l[i][2] = w[i] /\ i \in 1 .. n
      BY <1>1
    <2>2. Widths_(u) = [i \in 1 .. k - 1 |-> w[i]]
      BY <1>3, <2>1 DEF Widths_
    <2>3. SubSeq(w, 1, k - 1) = [i \in 1 .. k - 1 |-> w[i]]
      BY <1>1, <1>3
    <2> QED BY <2>2, <2>3
  <1>5. Msg!SizeOf(u) = SumOf(Widths_(u))
    <2> HIDE DEF u
    <2> QED BY <1>3, SizeIsSum
  <1>6. SumOf(SubSeq(w, 1, k - 1)) = g[k - 1]
    <2>1. g \in [0 .. Len(w) -> Nat] /\ g[0] = 0
      BY <1>1 DEF Steps
    <2> HIDE DEF w, n
    <2> QED BY <2>1, <1>1, <1>3, PrefixSums
  <1> QED BY <1>2, <1>4, <1>5, <1>6 DEF Msg!Offset, u

(* A message with numbers in its fields: a small one lies in its first byte.*)
Numbers(l, o) == \A i \in 1 .. Len(l) : o[l[i][1]] \in Nat
SmallAt(b, l, o, g) ==
  /\ b \in Seq(Nat) /\ Len(b) = g[Len(l)]
  /\ \A k \in 1 .. Len(l) : o[l[k][1]] \in 0 .. 255 => \A i \in 1 .. l[k][2] :
       /\ g[k - 1] + i \in 1 .. Len(b)
       /\ b[g[k - 1] + i] = IF i = 1 THEN o[l[k][1]] ELSE 0
LEMMA SmallBytes ==
  ASSUME NEW v \in 0 .. 255, NEW w \in Nat
  PROVE  /\ Msg!Bytes(v, w) \in Seq(Nat) /\ Len(Msg!Bytes(v, w)) = w
         /\ \A i \in 1 .. w : Msg!Bytes(v, w)[i] = IF i = 1 THEN v ELSE 0
  <1>1. Held(Msg!Bytes(v, w), v, w)
    BY BytesAre
  <1>2. Msg!Bytes(v, w) = [j \in 1 .. w |-> IF j <= 4 THEN (v \div Msg!Unit[j]) % 256 ELSE 0]
    BY DEF Msg!Bytes
  <1>3. Msg!Unit[1] = 1 /\ Msg!Unit[2] = 256 /\ Msg!Unit[3] = 65536 /\ Msg!Unit[4] = 16777216
    BY DEF Msg!Unit
  <1>4. v \div 1 = v /\ v % 256 = v /\ v \div 256 = 0 /\ v \div 65536 = 0 /\ v \div 16777216 = 0 /\ 0 % 256 = 0
    OBVIOUS
  <1>5. ASSUME NEW i \in 1 .. w
        PROVE  (IF i <= 4 THEN (v \div Msg!Unit[i]) % 256 ELSE 0) = IF i = 1 THEN v ELSE 0
    <2>1. i = 1 \/ i = 2 \/ i = 3 \/ i = 4 \/ i > 4
      OBVIOUS
    <2> QED BY <2>1, <1>3, <1>4
  <1> QED BY <1>1, <1>2, <1>5 DEF Held

LEMMA SmallLies ==
  ASSUME NEW l \in Layouts, NEW g, Steps(l, g), NEW o, Numbers(l, o)
  PROVE  SmallAt(Msg!Encode(l, o), l, o, g)
  <1> DEFINE n == Len(l)
             w == Widths_(l)
             p == Pieces(l, o)
             b == Msg!Encode(l, o)
  <1>1. /\ w \in Seq(Nat) /\ Len(w) = n /\ DOMAIN l = 1 .. n /\ n \in Nat
        /\ \A i \in 1 .. n : w[i] = l[i][2] /\ l[i][2] \in Nat
        /\ \A i \in 0 .. n - 1 : g[i + 1] = g[i] + w[i + 1]
    BY WidthsAre
  <1>2. b = CatOf(p)
    BY <1>1, EncodeIsCat
  <1>3. DOMAIN p = 1 .. n /\ p = [i \in 1 .. n |-> p[i]] /\ \A i \in 1 .. n : p[i] = Msg!Bytes(o[l[i][1]], l[i][2])
    BY <1>1 DEF Pieces
  <1> HIDE DEF w, p, b
  <1>4. ASSUME NEW i \in 1 .. n
        PROVE  /\ p[i] \in Seq(Nat) /\ Len(p[i]) = w[i]
               /\ o[l[i][1]] \in 0 .. 255 => \A j \in 1 .. w[i] : p[i][j] = IF j = 1 THEN o[l[i][1]] ELSE 0
    <2>1. o[l[i][1]] \in Nat /\ l[i][2] \in Nat
      BY <1>1 DEF Numbers
    <2>2. w[i] = l[i][2] /\ p[i] = Msg!Bytes(o[l[i][1]], l[i][2])
      BY <1>1, <1>3
    <2>3. /\ Msg!Bytes(o[l[i][1]], l[i][2]) \in Seq(Nat) /\ Len(Msg!Bytes(o[l[i][1]], l[i][2])) = l[i][2]
          /\ o[l[i][1]] \in 0 .. 255 =>
               \A j \in 1 .. l[i][2] : Msg!Bytes(o[l[i][1]], l[i][2])[j] = IF j = 1 THEN o[l[i][1]] ELSE 0
      <3>1. Held(Msg!Bytes(o[l[i][1]], l[i][2]), o[l[i][1]], l[i][2])
        BY <2>1, BytesAre
      <3>2. o[l[i][1]] \in 0 .. 255 =>
               \A j \in 1 .. l[i][2] : Msg!Bytes(o[l[i][1]], l[i][2])[j] = IF j = 1 THEN o[l[i][1]] ELSE 0
        BY <2>1, SmallBytes, Zenon
      <3> QED BY <3>1, <3>2 DEF Held
    <2> QED BY <2>2, <2>3, Zenon
  <1>5. p \in Seq(Seq(Nat)) /\ Len(p) = n
    <2> HIDE DEF n
    <2>1. p \in [1 .. n -> Seq(Nat)]
      BY <1>3, <1>4
    <2>2. \A k \in Nat : \A u \in [1 .. k -> Seq(Nat)] : u \in Seq(Seq(Nat)) /\ Len(u) = k
      OBVIOUS
    <2> QED BY <2>1, <2>2, <1>1, Zenon
  <1>6. Places(w, p, b)
    BY <1>1, <1>2, <1>4, <1>5, CatPlaces
  <1>7. PICK h1 \in [0 .. n -> Nat] :
          /\ h1[0] = 0 /\ \A k \in 0 .. n - 1 : h1[k + 1] = h1[k] + w[k + 1]
          /\ b \in Seq(Nat) /\ Len(b) = h1[n]
          /\ \A k \in 1 .. n : \A i \in 1 .. w[k] : h1[k - 1] + i \in 1 .. Len(b) /\ b[h1[k - 1] + i] = p[k][i]
    <2> HIDE DEF n
    <2>1. PICK h1 \in [0 .. Len(w) -> Nat] :
          /\ h1[0] = 0 /\ \A k \in 0 .. Len(w) - 1 : h1[k + 1] = h1[k] + w[k + 1]
          /\ b \in Seq(Nat) /\ Len(b) = h1[Len(w)]
          /\ \A k \in 1 .. Len(w) : \A i \in 1 .. w[k] : h1[k - 1] + i \in 1 .. Len(b) /\ b[h1[k - 1] + i] = p[k][i]
      BY <1>6 DEF Places
    <2>2. Len(w) = n
      BY <1>1
    <2> QED BY <2>1, <2>2, Zenon
  <1>8. \A k \in 0 .. n : h1[k] = g[k]
    <2> DEFINE A == {k \in Nat : k <= n => h1[k] = g[k]}
    <2>1. 0 \in A
      BY <1>7 DEF Steps
    <2>2. ASSUME NEW k \in Nat, k \in A PROVE k + 1 \in A
      <3> SUFFICES ASSUME k + 1 <= n PROVE h1[k + 1] = g[k + 1]
        OBVIOUS
      <3>1. k \in 0 .. n - 1 /\ k <= n
        BY <1>1
      <3>2. h1[k] = g[k]
        BY <3>1, <2>2
      <3> HIDE DEF A, n
      <3> QED BY <3>1, <3>2, <1>1, <1>7
    <2>3. Nat \subseteq A
      <3> HIDE DEF A
      <3> QED BY <2>1, <2>2, Induction
    <2> QED BY <2>3, <1>1
  <1>9. Len(b) = g[n]
    BY <1>1, <1>7, <1>8
  <1>10. ASSUME NEW k \in 1 .. n, o[l[k][1]] \in 0 .. 255, NEW i \in 1 .. l[k][2]
         PROVE  g[k - 1] + i \in 1 .. Len(b) /\ b[g[k - 1] + i] = IF i = 1 THEN o[l[k][1]] ELSE 0
    <2>0. k - 1 \in 0 .. n
      <3>1. n \in Nat
        BY <1>1
      <3> HIDE DEF n
      <3> QED BY <3>1
    <2>1. k - 1 \in 0 .. n /\ i \in 1 .. w[k]
      BY <2>0, <1>1, Zenon
    <2>2. h1[k - 1] = g[k - 1]
      BY <2>1, <1>8
    <2>3. h1[k - 1] + i \in 1 .. Len(b) /\ b[h1[k - 1] + i] = p[k][i]
      BY <2>1, <1>7
    <2> QED BY <2>1, <2>2, <2>3, <1>4, <1>10
  <1> QED BY <1>7, <1>9, <1>10 DEF SmallAt, b

(* What a field reads, whatever the bytes were written as.                  *)
ReadsAt(b, l, f, w, off) ==
  /\ Msg!Read(b, l, f) \in Seq(Nat) /\ Len(Msg!Read(b, l, f)) = w
  /\ \A i \in 1 .. w : Msg!Read(b, l, f)[i] = b[off + i]
LEMMA ReadIs ==
  ASSUME NEW b \in Seq(Nat), NEW l \in Layouts, NEW g, Steps(l, g), NEW k \in 1 .. Len(l), g[k] <= Len(b)
  PROVE  ReadsAt(b, l, l[k][1], l[k][2], g[k - 1])
  <1> DEFINE off == g[k - 1]
             m == l[k][2]
             x == [i \in 1 .. m |-> b[off + i]]
  <1>1. k - 1 \in 0 .. Len(l) /\ k \in DOMAIN l /\ m \in Nat
    BY WidthsAre
  <1>2. off \in Nat /\ g[k] = off + m
    BY <1>1 DEF Steps
  <1>3. Msg!Offset(l, l[k][1]) = off /\ Msg!WidthOf(l, l[k][1]) = m
    BY <1>1, OffsetIs, WidthIs
  <1> HIDE DEF off, m
  <1>4. Len(b) \in Nat
    OBVIOUS
  <1>5. \A i \in 1 .. m : off + i \in 1 .. Len(b)
    BY <1>1, <1>2, <1>4
  <1>6. \A i \in 1 .. m : b[off + i] \in Nat
    BY <1>5
  <1>7. x \in Seq(Nat) /\ Len(x) = m /\ \A i \in 1 .. m : x[i] = b[off + i]
    <2>1. x \in [1 .. m -> Nat] /\ \A i \in 1 .. m : x[i] = b[off + i]
      BY <1>6
    <2>2. \A i \in Nat : \A u \in [1 .. i -> Nat] : u \in Seq(Nat) /\ Len(u) = i
      OBVIOUS
    <2> HIDE DEF x
    <2> QED BY <2>1, <2>2, <1>1, Zenon
  <1> HIDE DEF x
  <1>8. \A i \in 1 .. m : off + i \in 1 .. Len(b) /\ b[off + i] = x[i]
    BY <1>5, <1>7
  <1>9. SubSeq(b, off + 1, off + m) = x
    BY <1>1, <1>2, <1>7, <1>8, PieceIs
  <1>10. Msg!Read(b, l, l[k][1]) = x
    BY <1>3, <1>9 DEF Msg!Read
  <1> QED BY <1>7, <1>10 DEF ReadsAt, off, m

LEMMA RequestSteps == \E g : /\ Steps(Msg!NEW_ORDER_REQUEST, g) /\ g[2] = 10 /\ g[3] = 18 /\ g[4] = 26
                             /\ g[5] = 27 /\ g[8] = 30 /\ g[9] = 38 /\ g[10] = 46 /\ g[14] = 65
  <1> DEFINE l == Msg!NEW_ORDER_REQUEST
  <1>1. /\ Len(l) = 14 /\ l[1] = <<"MessageType", 2>> /\ l[2] = <<"UserID", 8>>
        /\ l[3] = <<"UserTag", 8>> /\ l[4] = <<"OrderInstrumentID", 8>> /\ l[5] = <<"OrderType", 1>>
        /\ l[6] = <<"OrderTimeInForce", 1>> /\ l[7] = <<"OrderSide", 1>>
        /\ l[8] = <<"OrderExecutionType", 1>> /\ l[9] = <<"OrderQuantity", 8>>
        /\ l[10] = <<"OrderDisclosedQuantity", 8>> /\ l[11] = <<"OrderPrice", 8>>
        /\ l[12] = <<"MarketPriceProtectionTicks", 2>> /\ l[13] = <<"OrderTriggerPrice", 8>>
        /\ l[14] = <<"TriggerOn", 1>>
    BY NewOrderRequestFields
  <1>2. l \in Layouts
    BY NewOrderRequestFormed DEF Formed
  <1> HIDE DEF l
  <1>3. PICK g \in [0 .. 14 -> Nat] : g[0] = 0 /\ \A i \in 1 .. 14 : g[i] = g[i - 1] + l[i][2]
    BY <1>1, <1>2, SizeGoes DEF Sized
  <1>4. g[1] = 2 /\ g[2] = 10 /\ g[3] = 18 /\ g[4] = 26 /\ g[5] = 27 /\ g[6] = 28 /\ g[7] = 29 /\ g[8] = 30 /\ g[9] = 38 /\ g[10] = 46 /\ g[11] = 54 /\ g[12] = 56 /\ g[13] = 64 /\ g[14] = 65
    BY <1>1, <1>3
  <1>5. Steps(l, g)
    BY <1>1, <1>3 DEF Steps
  <1> QED BY <1>4, <1>5 DEF l

LEMMA ResponseSteps ==
  \E g : Steps(Msg!NEW_ORDER_RESPONSE, g) /\ g[2] = 10 /\ g[3] = 18 /\ g[5] = 34 /\ g[6] = 42 /\ g[7] = 50
  <1> DEFINE l == Msg!NEW_ORDER_RESPONSE
  <1>1. /\ Len(l) = 7 /\ l[1] = <<"MessageType", 2>> /\ l[2] = <<"UserID", 8>>
        /\ l[3] = <<"UserTag", 8>> /\ l[4] = <<"ExchangeOrderID", 8>>
        /\ l[5] = <<"ExchangeEventID", 8>> /\ l[6] = <<"StatusID", 8>> /\ l[7] = <<"TimeStamp", 8>>
    BY NewOrderResponseFields
  <1>2. l \in Layouts
    BY NewOrderResponseFormed DEF Formed
  <1> HIDE DEF l
  <1>3. PICK g \in [0 .. 7 -> Nat] : g[0] = 0 /\ \A i \in 1 .. 7 : g[i] = g[i - 1] + l[i][2]
    BY <1>1, <1>2, SizeGoes DEF Sized
  <1>4. g[1] = 2 /\ g[2] = 10 /\ g[3] = 18 /\ g[4] = 26 /\ g[5] = 34 /\ g[6] = 42 /\ g[7] = 50
    BY <1>1, <1>3
  <1>5. Steps(l, g)
    BY <1>1, <1>3 DEF Steps
  <1> QED BY <1>4, <1>5 DEF l

(* An order, read as one, has its numbers; read as a response, it has its   *)
(* tag, and as its status half the disclosed quantity.                      *)
ReadsAsOrder(b, tag, instrument, type, disclosed) ==
  /\ S!Tag(b, S!NEW_ORDER_REQUEST) = tag /\ S!Tag(b, S!NEW_ORDER_RESPONSE) = tag
  /\ S!Read(b, S!NEW_ORDER_REQUEST, "OrderInstrumentID")[1] = instrument
  /\ S!Read(b, S!NEW_ORDER_REQUEST, "OrderType")[1] = type
  /\ S!IsZero(S!Read(b, S!NEW_ORDER_RESPONSE, "StatusID")) <=> disclosed = 0
Small(l, o) == \A i \in 1 .. Len(l) : o[l[i][1]] \in 0 .. 255
LEMMA OrderReads ==
  ASSUME NEW o, Small(Msg!NEW_ORDER_REQUEST, o)
  PROVE  ReadsAsOrder(S!Encode(S!NEW_ORDER_REQUEST, o), o.UserTag, o.OrderInstrumentID, o.OrderType,
                      o.OrderDisclosedQuantity)
  <1> DEFINE l == Msg!NEW_ORDER_REQUEST
             r == Msg!NEW_ORDER_RESPONSE
             b == Msg!Encode(l, o)
  <1>1. /\ Len(l) = 14 /\ l[3] = <<"UserTag", 8>> /\ l[4] = <<"OrderInstrumentID", 8>>
        /\ l[5] = <<"OrderType", 1>> /\ l[9] = <<"OrderQuantity", 8>> /\ l[10] = <<"OrderDisclosedQuantity", 8>>
    BY NewOrderRequestFields
  <1>2. Len(r) = 7 /\ r[3] = <<"UserTag", 8>> /\ r[6] = <<"StatusID", 8>>
    BY NewOrderResponseFields
  <1>3. l \in Layouts /\ r \in Layouts
    BY NewOrderRequestFormed, NewOrderResponseFormed DEF Formed
  <1> HIDE DEF l, r
  <1>4. PICK g : /\ Steps(l, g) /\ g[2] = 10 /\ g[3] = 18 /\ g[4] = 26 /\ g[5] = 27 /\ g[8] = 30 /\ g[9] = 38
                 /\ g[10] = 46 /\ g[14] = 65
    BY RequestSteps DEF l
  <1>5. PICK h1 : Steps(r, h1) /\ h1[2] = 10 /\ h1[3] = 18 /\ h1[5] = 34 /\ h1[6] = 42 /\ h1[7] = 50
    BY ResponseSteps DEF r
  <1>6. SmallAt(b, l, o, g)
    <2>1. Numbers(l, o)
      <3>1. \A x \in 0 .. 255 : x \in Nat
        OBVIOUS
      <3> QED BY <3>1, Zenon DEF Numbers, Small, l
    <2> QED BY <2>1, <1>3, <1>4, SmallLies
  <1> HIDE DEF b
  <1>7. b \in Seq(Nat) /\ Len(b) = 65
    <2>1. b \in Seq(Nat) /\ Len(b) = g[Len(l)]
      BY <1>6, Zenon DEF SmallAt
    <2> QED BY <2>1, <1>1, <1>4
  <1> DEFINE at(off, w, v) == \A i \in 1 .. w : b[off + i] = IF i = 1 THEN v ELSE 0
  <1>8. ASSUME NEW k \in 1 .. Len(l) PROVE at(g[k - 1], l[k][2], o[l[k][1]])
    BY <1>6 DEF SmallAt, Small, l
  <1>8a. ASSUME NEW k \in 1 .. Len(l), NEW f, NEW w, NEW off, l[k] = <<f, w>>, g[k - 1] = off, g[k] <= Len(b)
         PROVE  ReadsAt(b, l, f, w, off) /\ at(off, w, o[f])
    <2>1. l[k][1] = f /\ l[k][2] = w
      BY <1>8a
    <2>2. at(off, w, o[f])
      <3> HIDE DEF at
      <3>1. at(g[k - 1], l[k][2], o[l[k][1]])
        BY <1>8
      <3> QED BY <2>1, <3>1, <1>8a, Zenon
    <2>3. ReadsAt(b, l, l[k][1], l[k][2], g[k - 1])
      BY <1>3, <1>4, <1>7, <1>8a, ReadIs
    <2> QED BY <2>1, <2>2, <2>3, <1>8a
  <1>8b. ASSUME NEW k \in 1 .. Len(r), NEW f, NEW w, NEW off, r[k] = <<f, w>>, h1[k - 1] = off, h1[k] <= Len(b)
         PROVE  ReadsAt(b, r, f, w, off)
    <2>1. r[k][1] = f /\ r[k][2] = w
      BY <1>8b
    <2>2. ReadsAt(b, r, r[k][1], r[k][2], h1[k - 1])
      BY <1>3, <1>5, <1>7, <1>8b, ReadIs
    <2> QED BY <2>1, <2>2, <1>8b
  <1>8c. /\ ReadsAt(b, l, "UserTag", 8, 10) /\ at(10, 8, o.UserTag)
         /\ ReadsAt(b, l, "OrderInstrumentID", 8, 18) /\ at(18, 8, o.OrderInstrumentID)
         /\ ReadsAt(b, l, "OrderType", 1, 26) /\ at(26, 1, o.OrderType)
         /\ at(30, 8, o.OrderQuantity) /\ at(38, 8, o.OrderDisclosedQuantity)
    <2>1. 3 - 1 = 2 /\ 4 - 1 = 3 /\ 5 - 1 = 4 /\ 9 - 1 = 8 /\ 10 - 1 = 9
      OBVIOUS
    <2>2. /\ 3 \in 1 .. Len(l) /\ 4 \in 1 .. Len(l) /\ 5 \in 1 .. Len(l) /\ 9 \in 1 .. Len(l) /\ 10 \in 1 .. Len(l)
          /\ g[3] <= Len(b) /\ g[4] <= Len(b) /\ g[5] <= Len(b) /\ g[9] <= Len(b) /\ g[10] <= Len(b)
      BY <1>1, <1>4, <1>7
    <2>3. g[3 - 1] = 10 /\ g[4 - 1] = 18 /\ g[5 - 1] = 26 /\ g[9 - 1] = 30 /\ g[10 - 1] = 38
      BY <2>1, <1>4, Zenon
    <2> HIDE DEF at
    <2>4. ReadsAt(b, l, "UserTag", 8, 10) /\ at(10, 8, o["UserTag"])
      BY <2>2, <2>3, <1>1, <1>8a, Zenon
    <2>5. ReadsAt(b, l, "OrderInstrumentID", 8, 18) /\ at(18, 8, o["OrderInstrumentID"])
      BY <2>2, <2>3, <1>1, <1>8a, Zenon
    <2>6. ReadsAt(b, l, "OrderType", 1, 26) /\ at(26, 1, o["OrderType"])
      BY <2>2, <2>3, <1>1, <1>8a, Zenon
    <2>7. at(30, 8, o["OrderQuantity"])
      BY <2>2, <2>3, <1>1, <1>8a, Zenon
    <2>8. at(38, 8, o["OrderDisclosedQuantity"])
      BY <2>2, <2>3, <1>1, <1>8a, Zenon
    <2> QED BY <2>4, <2>5, <2>6, <2>7, <2>8
  <1>9. /\ Msg!Read(b, l, "UserTag")[1] = o.UserTag /\ Msg!Read(b, l, "OrderInstrumentID")[1] = o.OrderInstrumentID
        /\ Msg!Read(b, l, "OrderType")[1] = o.OrderType
    <2>1. 1 \in 1 .. 8 /\ 1 \in 1 .. 1
      OBVIOUS
    <2> QED BY <2>1, <1>8c DEF ReadsAt
  <1>10. ReadsAt(b, r, "UserTag", 8, 10) /\ ReadsAt(b, r, "StatusID", 8, 34)
    <2>1. 3 - 1 = 2 /\ 6 - 1 = 5
      OBVIOUS
    <2>2. 3 \in 1 .. Len(r) /\ 6 \in 1 .. Len(r) /\ h1[3] <= Len(b) /\ h1[6] <= Len(b)
      BY <1>2, <1>5, <1>7
    <2>3. h1[3 - 1] = 10 /\ h1[6 - 1] = 34
      BY <2>1, <1>5, Zenon
    <2>4. ReadsAt(b, r, "UserTag", 8, 10)
      BY <2>2, <2>3, <1>2, <1>8b, Zenon
    <2>5. ReadsAt(b, r, "StatusID", 8, 34)
      BY <2>2, <2>3, <1>2, <1>8b, Zenon
    <2> QED BY <2>4, <2>5
  <1>11. Msg!Read(b, r, "UserTag")[1] = o.UserTag
    <2>1. 1 \in 1 .. 8
      OBVIOUS
    <2> QED BY <2>1, <1>8c, <1>10 DEF ReadsAt
  <1>12. LET status == Msg!Read(b, r, "StatusID") IN
         DOMAIN status = 1 .. 8 /\ \A i \in 1 .. 8 : status[i] = IF i = 5 THEN o.OrderDisclosedQuantity ELSE 0
    <2> DEFINE status == Msg!Read(b, r, "StatusID")
    <2>1. status \in Seq(Nat) /\ Len(status) = 8 /\ \A i \in 1 .. 8 : status[i] = b[34 + i]
      BY <1>10 DEF ReadsAt
    <2>2. \A i \in 1 .. 8 : b[30 + i] = IF i = 1 THEN o.OrderQuantity ELSE 0
      BY <1>8c
    <2>3. \A i \in 1 .. 8 : b[38 + i] = IF i = 1 THEN o.OrderDisclosedQuantity ELSE 0
      BY <1>8c
    <2> HIDE DEF status
    <2>4. ASSUME NEW i \in 1 .. 8 PROVE b[34 + i] = IF i = 5 THEN o.OrderDisclosedQuantity ELSE 0
      <3>1. CASE i <= 4
        <4>1. i + 4 \in 1 .. 8 /\ 30 + (i + 4) = 34 + i /\ i + 4 # 1 /\ i # 5
          BY <3>1
        <4>2. b[30 + (i + 4)] = 0
          BY <4>1, <2>2
        <4> QED BY <4>1, <4>2
      <3>2. CASE i > 4
        <4>1. i - 4 \in 1 .. 8 /\ 38 + (i - 4) = 34 + i /\ (i - 4 = 1 <=> i = 5)
          BY <3>2
        <4>2. b[38 + (i - 4)] = IF i - 4 = 1 THEN o.OrderDisclosedQuantity ELSE 0
          BY <4>1, <2>3
        <4> QED BY <4>1, <4>2
      <3> QED BY <3>1, <3>2
    <2>5. DOMAIN status = 1 .. 8
      BY <2>1
    <2> QED BY <2>1, <2>4, <2>5 DEF status
  <1>13. S!IsZero(Msg!Read(b, r, "StatusID")) <=> o.OrderDisclosedQuantity = 0
    <2>1. 5 \in 1 .. 8
      OBVIOUS
    <2> QED BY <2>1, <1>12 DEF S!IsZero
  <1>14. S!Encode(S!NEW_ORDER_REQUEST, o) = b /\ S!NEW_ORDER_REQUEST = l /\ S!NEW_ORDER_RESPONSE = r
    BY StatsSame, StatsLayouts DEF b, l, r
  <1>15. \A f : S!Read(b, l, f) = Msg!Read(b, l, f) /\ S!Read(b, r, f) = Msg!Read(b, r, f)
    BY StatsSame
  <1> QED BY <1>9, <1>11, <1>13, <1>14, <1>15 DEF ReadsAsOrder, S!Tag

(* An answer, read whole, has its tag and status.                           *)
LEMMA AnswerReads ==
  ASSUME NEW tag \in 0 .. 255, NEW status \in 0 .. 1
  PROVE  /\ S!Answer(tag, status) \in Seq(Nat) /\ Len(S!Answer(tag, status)) = 50
         /\ S!Tag(S!Answer(tag, status), S!NEW_ORDER_RESPONSE) = tag
         /\ S!IsZero(S!Read(S!Answer(tag, status), S!NEW_ORDER_RESPONSE, "StatusID")) <=> status = 0
  <1> DEFINE r == Msg!NEW_ORDER_RESPONSE
             o == [MessageType |-> 503, UserID |-> 1, UserTag |-> tag, ExchangeOrderID |-> 0,
                   ExchangeEventID |-> 0, StatusID |-> status, TimeStamp |-> 0]
             b == Msg!Encode(r, o)
             at(off, w, v) == \A i \in 1 .. w : b[off + i] = IF i = 1 THEN v ELSE 0
  <1>1. /\ Len(r) = 7 /\ r[1] = <<"MessageType", 2>> /\ r[2] = <<"UserID", 8>>
        /\ r[3] = <<"UserTag", 8>> /\ r[4] = <<"ExchangeOrderID", 8>>
        /\ r[5] = <<"ExchangeEventID", 8>> /\ r[6] = <<"StatusID", 8>> /\ r[7] = <<"TimeStamp", 8>>
    BY NewOrderResponseFields
  <1>2. r \in Layouts
    BY NewOrderResponseFormed DEF Formed
  <1>3. /\ o["MessageType"] = 503 /\ o["UserID"] = 1 /\ o["UserTag"] = tag /\ o["ExchangeOrderID"] = 0
        /\ o["ExchangeEventID"] = 0 /\ o["StatusID"] = status /\ o["TimeStamp"] = 0
    OBVIOUS
  <1>3a. S!Answer(tag, status) = b /\ S!NEW_ORDER_RESPONSE = r
    BY StatsSame, StatsLayouts DEF S!Answer
  <1> HIDE DEF r, o
  <1>4. PICK g : Steps(r, g) /\ g[2] = 10 /\ g[3] = 18 /\ g[5] = 34 /\ g[6] = 42 /\ g[7] = 50
    BY ResponseSteps DEF r
  <1>5. Numbers(r, o)
    <2>1. ASSUME NEW i \in 1 .. 7 PROVE o[r[i][1]] \in Nat
      <3>1. i = 1 \/ i = 2 \/ i = 3 \/ i = 4 \/ i = 5 \/ i = 6 \/ i = 7
        OBVIOUS
      <3> QED BY <3>1, <1>1, <1>3
    <2> QED BY <2>1, <1>1 DEF Numbers
  <1>6. SmallAt(b, r, o, g)
    BY <1>2, <1>4, <1>5, SmallLies
  <1> HIDE DEF b
  <1>7. b \in Seq(Nat) /\ Len(b) = 50
    BY <1>1, <1>4, <1>6 DEF SmallAt
  <1>8. ASSUME NEW k \in 1 .. Len(r), NEW f, NEW w, NEW off, r[k] = <<f, w>>, g[k - 1] = off, g[k] <= Len(b),
               o[f] \in 0 .. 255
        PROVE  ReadsAt(b, r, f, w, off) /\ at(off, w, o[f])
    <2>1. r[k][1] = f /\ r[k][2] = w
      BY <1>8
    <2>2. at(off, w, o[f])
      <3>1. at(g[k - 1], r[k][2], o[r[k][1]])
        BY <2>1, <1>6, <1>8 DEF SmallAt
      <3> HIDE DEF at
      <3> QED BY <2>1, <3>1, <1>8, Zenon
    <2>3. ReadsAt(b, r, r[k][1], r[k][2], g[k - 1])
      BY <1>2, <1>4, <1>7, <1>8, ReadIs
    <2> QED BY <2>1, <2>2, <2>3, <1>8
  <1>9. ReadsAt(b, r, "UserTag", 8, 10) /\ at(10, 8, tag) /\ ReadsAt(b, r, "StatusID", 8, 34) /\ at(34, 8, status)
    <2>1. 3 - 1 = 2 /\ 6 - 1 = 5 /\ tag \in 0 .. 255 /\ status \in 0 .. 255
      OBVIOUS
    <2>2. 3 \in 1 .. Len(r) /\ 6 \in 1 .. Len(r) /\ g[3] <= Len(b) /\ g[6] <= Len(b)
      BY <1>1, <1>4, <1>7
    <2>3. g[3 - 1] = 10 /\ g[6 - 1] = 34
      BY <2>1, <1>4, Zenon
    <2>6. r[3] = <<"UserTag", 8>> /\ r[6] = <<"StatusID", 8>> /\ o["UserTag"] \in 0 .. 255 /\ o["StatusID"] \in 0 .. 255
      BY <2>1, <1>1, <1>3
    <2> HIDE DEF at
    <2>4. ReadsAt(b, r, "UserTag", 8, 10) /\ at(10, 8, o["UserTag"])
      BY <2>2, <2>3, <2>6, <1>8, Zenon
    <2>5. ReadsAt(b, r, "StatusID", 8, 34) /\ at(34, 8, o["StatusID"])
      BY <2>2, <2>3, <2>6, <1>8, Zenon
    <2> QED BY <2>4, <2>5, <1>3
  <1>10. Msg!Read(b, r, "UserTag")[1] = tag
    <2>1. 1 \in 1 .. 8
      OBVIOUS
    <2> QED BY <2>1, <1>9 DEF ReadsAt
  <1>11. S!IsZero(Msg!Read(b, r, "StatusID")) <=> status = 0
    <2>1. 1 \in 1 .. 8 /\ DOMAIN Msg!Read(b, r, "StatusID") = 1 .. 8
      BY <1>9 DEF ReadsAt
    <2>2. \A i \in 1 .. 8 : Msg!Read(b, r, "StatusID")[i] = IF i = 1 THEN status ELSE 0
      <3>1. \A i \in 1 .. 8 : Msg!Read(b, r, "StatusID")[i] = b[34 + i]
        BY <1>9, Zenon DEF ReadsAt
      <3>2. \A i \in 1 .. 8 : b[34 + i] = IF i = 1 THEN status ELSE 0
        BY <1>9
      <3> QED BY <3>1, <3>2
    <2> QED BY <2>1, <2>2 DEF S!IsZero
  <1> QED BY <1>3a, <1>7, <1>10, <1>11, StatsSame DEF S!Tag

-----------------------------------------------------------------------------
(* The statistics of an instrument, were they in st; and whether they fit   *)
(* the orders and answers of the past.                                      *)
CountIn(st, i) == IF i \in DOMAIN st THEN st[i] ELSE S!NoStats
Counted(c1) ==
  /\ c1 = [requests |-> c1.requests, responses |-> c1.responses, errors |-> c1.errors, types |-> c1.types]
  /\ c1.requests \in Nat /\ c1.responses \in Nat /\ c1.errors \in Nat /\ Counts(c1.types)
Right(c1, orders, answers, rejected, odd) ==
  /\ c1.requests = orders /\ S!Total(c1.types) = orders
  /\ ~odd => /\ c1.responses = orders + answers
             /\ c1.errors = rejected + (IF Disclosed = 0 THEN 0 ELSE orders)
PastIs(p) == p \in [orders : [S!Instruments -> Nat], answers : [S!Instruments -> Nat],
                    rejected : [S!Instruments -> Nat], answered : SUBSET Tags, odd : BOOLEAN]

StatsInv ==
  /\ DOMAIN rx = 1 .. 50
  /\ test = [UserTag |-> test.UserTag, counter |-> test.counter] /\ test.counter \in Nat
  /\ PastIs(past)
  /\ \A t \in DOMAIN nReq : nReq[t].instrument \in S!Instruments
  /\ \A i \in S!Instruments : /\ Counted(CountIn(nOrdStats, i))
                              /\ Right(CountIn(nOrdStats, i), past.orders[i], past.answers[i],
                                       past.rejected[i], past.odd)

LEMMA InsertedCounts ==
  ASSUME NEW st, NEW k, NEW i PROVE CountIn(S!Inserted(st, k, S!NoStats), i) = CountIn(st, i)
  BY DEF CountIn, S!Inserted
LEMMA ChangedCounts ==
  ASSUME NEW st, NEW k \in DOMAIN st, NEW v, NEW i
  PROVE  CountIn([st EXCEPT ![k] = v], i) = IF i = k THEN v ELSE CountIn(st, i)
  BY DEF CountIn
LEMMA InsertedIs ==
  ASSUME NEW st, NEW k, NEW v
  PROVE  /\ k \in DOMAIN S!Inserted(st, k, v) /\ DOMAIN S!Inserted(st, k, v) = DOMAIN st \cup {k}
         /\ S!Inserted(st, k, v)[k] = IF k \in DOMAIN st THEN st[k] ELSE v
         /\ \A x \in DOMAIN st : S!Inserted(st, k, v)[x] = st[x]
  BY DEF S!Inserted

LEMMA NoneCounted == Counted(S!NoStats) /\ Right(S!NoStats, 0, 0, 0, FALSE)
  <1>1. S!NoStats.requests = 0 /\ S!NoStats.responses = 0 /\ S!NoStats.errors = 0 /\ S!NoStats.types = <<>>
        /\ S!NoStats = [requests |-> 0, responses |-> 0, errors |-> 0, types |-> <<>>]
    BY DEF S!NoStats
  <1>2. Counts(<<>>) /\ S!Total(<<>>) = 0
    BY NothingCounted
  <1>3. Counted(S!NoStats)
    BY <1>1, <1>2, Zenon DEF Counted
  <1>4. 0 + 0 = 0
    OBVIOUS
  <1> QED BY <1>1, <1>2, <1>3, <1>4 DEF Right

(* What a request and a response do to the statistics of an instrument.     *)
LEMMA RequestCounts ==
  ASSUME NEW c1, Counted(c1), NEW type
  PROVE  LET c2 == [c1 EXCEPT !.requests = @ + 1, !.types = S!Bump(@, type)] IN
         /\ Counted(c2) /\ c2.requests = c1.requests + 1 /\ S!Total(c2.types) = S!Total(c1.types) + 1
         /\ c2.responses = c1.responses /\ c2.errors = c1.errors
  <1> DEFINE bumped == S!Bump(c1.types, type)
             c2 == [c1 EXCEPT !.requests = @ + 1, !.types = S!Bump(@, type)]
  <1>1. Counts(bumped) /\ S!Total(bumped) = S!Total(c1.types) + 1
    BY BumpAddsOne DEF Counted
  <1>2. c1 = [requests |-> c1.requests, responses |-> c1.responses, errors |-> c1.errors, types |-> c1.types]
    BY DEF Counted
  <1>3. c2 = [requests |-> c1.requests + 1, responses |-> c1.responses, errors |-> c1.errors, types |-> bumped]
    <2> DEFINE q == c1.requests
               p == c1.responses
               e == c1.errors
               t == c1.types
    <2>1. c1 = [requests |-> q, responses |-> p, errors |-> e, types |-> t]
      BY <1>2
    <2>2. c2 = [c1 EXCEPT !.requests = q + 1, !.types = bumped]
      OBVIOUS
    <2> HIDE DEF q, p, e, t, bumped, c2
    <2>3. c2 = [requests |-> q + 1, responses |-> p, errors |-> e, types |-> bumped]
      BY <2>1, <2>2
    <2> QED BY <2>3 DEF q, p, e
  <1> HIDE DEF bumped
  <1>4. c1.requests + 1 \in Nat /\ c1.responses \in Nat /\ c1.errors \in Nat
    BY DEF Counted
  <1> HIDE DEF c2
  <1>5. c2.requests = c1.requests + 1 /\ c2.responses = c1.responses /\ c2.errors = c1.errors /\ c2.types = bumped
    BY <1>3
  <1>6. Counted(c2)
    BY <1>1, <1>3, <1>4, <1>5, Zenon DEF Counted
  <1> QED BY <1>1, <1>5, <1>6 DEF c2

LEMMA ResponseCounts ==
  ASSUME NEW c1, Counted(c1), NEW bad \in 0 .. 1
  PROVE  LET c2 == [c1 EXCEPT !.responses = @ + 1, !.errors = @ + bad] IN
         /\ Counted(c2) /\ c2.requests = c1.requests /\ c2.types = c1.types
         /\ c2.responses = c1.responses + 1 /\ c2.errors = c1.errors + bad
  <1> DEFINE c2 == [c1 EXCEPT !.responses = @ + 1, !.errors = @ + bad]
  <1>1. c1 = [requests |-> c1.requests, responses |-> c1.responses, errors |-> c1.errors, types |-> c1.types]
        /\ c1.requests \in Nat /\ c1.responses + 1 \in Nat /\ c1.errors + bad \in Nat /\ Counts(c1.types)
    BY DEF Counted
  <1>2. c2 = [requests |-> c1.requests, responses |-> c1.responses + 1, errors |-> c1.errors + bad, types |-> c1.types]
    <2> DEFINE q == c1.requests
               p == c1.responses
               e == c1.errors
               t == c1.types
    <2>1. c1 = [requests |-> q, responses |-> p, errors |-> e, types |-> t]
      BY <1>1
    <2>2. c2 = [c1 EXCEPT !.responses = p + 1, !.errors = e + bad]
      OBVIOUS
    <2> HIDE DEF q, p, e, t, c2
    <2>3. c2 = [requests |-> q, responses |-> p + 1, errors |-> e + bad, types |-> t]
      BY <2>1, <2>2
    <2> QED BY <2>3 DEF q, p, e, t
  <1> HIDE DEF c2
  <1>3. c2.requests = c1.requests /\ c2.responses = c1.responses + 1 /\ c2.errors = c1.errors + bad
        /\ c2.types = c1.types
    BY <1>2
  <1>4. Counted(c2)
    BY <1>1, <1>2, <1>3, Zenon DEF Counted
  <1> QED BY <1>3, <1>4 DEF c2

(* What the case of a response does.                                        *)
Answered(st, req, bytes, at, bad, i) ==
  CountIn(nOrdStats', i) =
    IF i = at THEN [CountIn(st, i) EXCEPT !.responses = @ + 1, !.errors = @ + bad] ELSE CountIn(st, i)
LEMMA ResponseDoes ==
  ASSUME NEW st, NEW req, NEW bytes, S!Response(st, req, bytes),
         \A t \in DOMAIN req : req[t].instrument \in S!Instruments
  PROVE  \E at \in S!Instruments, bad \in 0 .. 1 :
           /\ at = LET tag == S!Tag(bytes, S!NEW_ORDER_RESPONSE)
                   IN  IF tag \in DOMAIN req THEN req[tag].instrument ELSE 0
           /\ bad = IF S!IsZero(S!Read(bytes, S!NEW_ORDER_RESPONSE, "StatusID")) THEN 0 ELSE 1
           /\ \A i : Answered(st, req, bytes, at, bad, i)
           /\ \A t \in DOMAIN nReq' : nReq'[t].instrument \in S!Instruments
  <1> DEFINE tag == S!Tag(bytes, S!NEW_ORDER_RESPONSE)
             none == [instrument |-> 0, type |-> 0]
             req1 == S!Inserted(req, tag, none)
             at == req1[tag].instrument
             st1 == S!Inserted(st, at, S!NoStats)
             bad == IF S!IsZero(S!Read(bytes, S!NEW_ORDER_RESPONSE, "StatusID")) THEN 0 ELSE 1
             new == [st1[at] EXCEPT !.responses = @ + 1, !.errors = @ + bad]
  <1>1. nOrdStats' = [st1 EXCEPT ![at].responses = @ + 1, ![at].errors = @ + bad] /\ nReq' = req1
    BY DEF S!Response
  <1>2. bad \in 0 .. 1 /\ none.instrument = 0
    OBVIOUS
  <1>3. 0 \in S!Instruments
    BY StatsAssumption DEF S!Instruments
  <1>4. at = IF tag \in DOMAIN req THEN req[tag].instrument ELSE 0
    <2> HIDE DEF tag, none
    <2> QED BY <1>2, InsertedIs
  <1>5. at \in S!Instruments
    BY <1>3, <1>4
  <1>6. \A t \in DOMAIN req1 : req1[t].instrument \in S!Instruments
    <2> HIDE DEF tag, none
    <2>1. DOMAIN req1 = DOMAIN req \cup {tag} /\ \A x \in DOMAIN req : req1[x] = req[x]
      BY InsertedIs
    <2> HIDE DEF req1
    <2>2. ASSUME NEW t \in DOMAIN req1 PROVE req1[t].instrument \in S!Instruments
      <3>1. CASE t \in DOMAIN req
        BY <3>1, <2>1
      <3>2. CASE t = tag
        BY <3>2, <1>5
      <3> QED BY <3>1, <3>2, <2>1
    <2> QED BY <2>2
  <1>7. at \in DOMAIN st1
    <2> HIDE DEF at
    <2> QED BY InsertedIs
  <1>8. nOrdStats' = [st1 EXCEPT ![at] = new]
    <2> HIDE DEF st1, at, bad
    <2> QED BY <1>1, <1>7
  <1>9. ASSUME NEW i PROVE Answered(st, req, bytes, at, bad, i)
    <2> HIDE DEF at, bad
    <2>1. CountIn(st1, i) = CountIn(st, i) /\ CountIn(st1, at) = CountIn(st, at)
      BY InsertedCounts
    <2>2. st1[at] = CountIn(st1, at)
      BY <1>7 DEF CountIn
    <2> HIDE DEF st1
    <2>3. CountIn(nOrdStats', i) = IF i = at THEN new ELSE CountIn(st1, i)
      <3> HIDE DEF new
      <3>1. CountIn([st1 EXCEPT ![at] = new], i) = IF i = at THEN new ELSE CountIn(st1, i)
        BY <1>7, ChangedCounts
      <3> QED BY <3>1, <1>8, Zenon
    <2> QED BY <2>1, <2>2, <2>3 DEF Answered
  <1> HIDE DEF at, bad
  <1>10. nReq' = req1
    BY <1>1
  <1> HIDE DEF req1
  <1> QED BY <1>2, <1>4, <1>5, <1>6, <1>9, <1>10 DEF bad

LEMMA OrderIsSmall ==
  ASSUME test.UserTag \in Tags, test.counter \in Nat
  PROVE  /\ Small(Msg!NEW_ORDER_REQUEST, S!Order) /\ S!Order.UserTag = test.UserTag
         /\ S!Order.OrderDisclosedQuantity = Disclosed /\ S!Order.OrderInstrumentID \in S!Instruments
  <1> DEFINE l == Msg!NEW_ORDER_REQUEST
             o == S!Order
  <1>1. /\ Len(l) = 14 /\ l[1] = <<"MessageType", 2>> /\ l[2] = <<"UserID", 8>>
        /\ l[3] = <<"UserTag", 8>> /\ l[4] = <<"OrderInstrumentID", 8>> /\ l[5] = <<"OrderType", 1>>
        /\ l[6] = <<"OrderTimeInForce", 1>> /\ l[7] = <<"OrderSide", 1>>
        /\ l[8] = <<"OrderExecutionType", 1>> /\ l[9] = <<"OrderQuantity", 8>>
        /\ l[10] = <<"OrderDisclosedQuantity", 8>> /\ l[11] = <<"OrderPrice", 8>>
        /\ l[12] = <<"MarketPriceProtectionTicks", 2>> /\ l[13] = <<"OrderTriggerPrice", 8>>
        /\ l[14] = <<"TriggerOn", 1>>
    BY NewOrderRequestFields
  <1>2. /\ o["MessageType"] = 3 /\ o["UserID"] = 1 /\ o["UserTag"] = test.UserTag
        /\ o["OrderInstrumentID"] = (test.counter % NInstruments) + 1
        /\ o["OrderType"] = (test.counter % NTypes) + 1 /\ o["OrderTimeInForce"] = (test.counter % 4) + 1
        /\ o["OrderSide"] = (test.counter % 2) + 1 /\ o["OrderExecutionType"] = 1
        /\ o["OrderQuantity"] = 100 /\ o["OrderDisclosedQuantity"] = Disclosed /\ o["OrderPrice"] = 0
        /\ o["MarketPriceProtectionTicks"] = 0 /\ o["OrderTriggerPrice"] = 5 /\ o["TriggerOn"] = 1
    BY DEF S!Order
  <1> HIDE DEF l, o
  <1>3. \A m, d \in Nat : d \in 1 .. 255 => (m % d) + 1 \in 1 .. d /\ (m % d) + 1 \in 0 .. 255
    OBVIOUS
  <1>4. /\ NInstruments \in 1 .. 255 /\ NTypes \in 1 .. 255 /\ NInstruments \in Nat /\ NTypes \in Nat
        /\ test.UserTag \in 0 .. 255 /\ Disclosed \in 0 .. 255
        /\ 4 \in 1 .. 255 /\ 2 \in 1 .. 255 /\ 4 \in Nat /\ 2 \in Nat
    <2>1. test.UserTag \in 0 .. 255
      BY StatsAssumption, Zenon
    <2>2. \A x \in 1 .. 255 : x \in Nat
      OBVIOUS
    <2>3. 4 \in 1 .. 255 /\ 2 \in 1 .. 255
      OBVIOUS
    <2> QED BY <2>1, <2>2, <2>3, StatsAssumption, Zenon
  <1>5. /\ (test.counter % NInstruments) + 1 \in 0 .. 255 /\ (test.counter % NTypes) + 1 \in 0 .. 255
        /\ (test.counter % 4) + 1 \in 0 .. 255 /\ (test.counter % 2) + 1 \in 0 .. 255
        /\ (test.counter % NInstruments) + 1 \in 1 .. NInstruments
    BY <1>3, <1>4, Zenon
  <1>6. o["OrderInstrumentID"] \in S!Instruments
    <2>1. 1 .. NInstruments \subseteq 0 .. NInstruments
      BY <1>4
    <2> QED BY <2>1, <1>2, <1>5 DEF S!Instruments
  <1>7. \A x \in {3, 1, 100, 0, 5} : x \in 0 .. 255
    OBVIOUS
  <1>8. ASSUME NEW i \in 1 .. 14 PROVE o[l[i][1]] \in 0 .. 255
    <2>1. \/ i = 1 \/ i = 2 \/ i = 3 \/ i = 4 \/ i = 5 \/ i = 6 \/ i = 7 \/ i = 8 \/ i = 9 \/ i = 10
          \/ i = 11 \/ i = 12 \/ i = 13 \/ i = 14
      OBVIOUS
    <2>2. /\ l[1][1] = "MessageType" /\ l[2][1] = "UserID" /\ l[3][1] = "UserTag"
          /\ l[4][1] = "OrderInstrumentID" /\ l[5][1] = "OrderType"
          /\ l[6][1] = "OrderTimeInForce" /\ l[7][1] = "OrderSide"
          /\ l[8][1] = "OrderExecutionType" /\ l[9][1] = "OrderQuantity"
          /\ l[10][1] = "OrderDisclosedQuantity" /\ l[11][1] = "OrderPrice"
          /\ l[12][1] = "MarketPriceProtectionTicks" /\ l[13][1] = "OrderTriggerPrice"
          /\ l[14][1] = "TriggerOn"
      BY <1>1
    <2>3. /\ o["MessageType"] \in 0 .. 255 /\ o["UserID"] \in 0 .. 255 /\ o["UserTag"] \in 0 .. 255
          /\ o["OrderInstrumentID"] \in 0 .. 255
          /\ o["OrderType"] \in 0 .. 255 /\ o["OrderTimeInForce"] \in 0 .. 255
          /\ o["OrderSide"] \in 0 .. 255 /\ o["OrderExecutionType"] \in 0 .. 255
          /\ o["OrderQuantity"] \in 0 .. 255 /\ o["OrderDisclosedQuantity"] \in 0 .. 255
          /\ o["OrderPrice"] \in 0 .. 255
          /\ o["MarketPriceProtectionTicks"] \in 0 .. 255 /\ o["OrderTriggerPrice"] \in 0 .. 255
          /\ o["TriggerOn"] \in 0 .. 255
      BY <1>2, <1>4, <1>5, <1>7
    <2> DEFINE fits(j) == o[l[j][1]] \in 0 .. 255
    <2>4. /\ fits(1) /\ fits(2) /\ fits(3) /\ fits(4) /\ fits(5) /\ fits(6) /\ fits(7)
          /\ fits(8) /\ fits(9) /\ fits(10) /\ fits(11) /\ fits(12) /\ fits(13) /\ fits(14)
      BY <2>2, <2>3
    <2>5. fits(i)
      <3> HIDE DEF fits
      <3> QED BY <2>1, <2>4
    <2> QED BY <2>5
  <1>9. Small(l, o)
    BY <1>1, <1>8 DEF Small
  <1> QED BY <1>2, <1>6, <1>9 DEF l, o

(* One function of the past, one higher at k.                               *)
LEMMA RaisedIs ==
  ASSUME NEW N, NEW f1 \in [N -> Nat], NEW k \in N, NEW v \in Nat
  PROVE  /\ [f1 EXCEPT ![k] = @ + v] \in [N -> Nat]
         /\ \A x \in N : [f1 EXCEPT ![k] = @ + v][x] = IF x = k THEN f1[x] + v ELSE f1[x]
  OBVIOUS

LEMMA WriteOrderStep == ASSUME StatsInv, S!WriteOrder PROVE StatsInv'
  <1> DEFINE o == S!Order
             b == S!Encode(S!NEW_ORDER_REQUEST, o)
             tag == test.UserTag
             at == o.OrderInstrumentID
             type == o.OrderType
             st == S!Inserted(nOrdStats, at, S!NoStats)
             new == [st[at] EXCEPT !.requests = @ + 1, !.types = S!Bump(@, type)]
             st2 == [st EXCEPT ![at] = new]
             row == [instrument |-> at, type |-> type]
             req == S!Inserted(nReq, tag, row)
             bad == IF Disclosed = 0 THEN 0 ELSE 1
             of == IF tag \in DOMAIN nReq THEN nReq[tag].instrument ELSE at
             strange == past.odd \/ tag \in DOMAIN nReq
  <1>1. /\ test.UserTag \in Tags /\ S!RequestCase(b)
        /\ past' = [past EXCEPT !.orders[at] = @ + 1, !.odd = @ \/ test.UserTag \in DOMAIN nReq]
        /\ rx' = rx
        /\ test' = IF test.UserTag \in tags THEN test
                   ELSE [UserTag |-> test.UserTag + 1, counter |-> test.counter + 1]
    BY DEF S!WriteOrder
  <1>2. /\ Small(Msg!NEW_ORDER_REQUEST, o) /\ o.UserTag = tag /\ o.OrderDisclosedQuantity = Disclosed
        /\ at \in S!Instruments
    BY <1>1, OrderIsSmall DEF StatsInv
  <1> HIDE DEF o
  <1>3. ReadsAsOrder(b, tag, at, type, Disclosed)
    BY <1>2, OrderReads
  <1>4. S!Response(st2, req, b)
    <2>1. S!Response([st EXCEPT ![at].requests = @ + 1, ![at].types = S!Bump(@, type)], req, b)
      BY <1>1, <1>3, Zenon DEF S!RequestCase, ReadsAsOrder
    <2>2. at \in DOMAIN st
      BY InsertedIs
    <2>3. st2 = [st EXCEPT ![at].requests = @ + 1, ![at].types = S!Bump(@, type)]
      <3> HIDE DEF st, at, type
      <3> QED BY <2>2
    <2> QED BY <2>1, <2>3, Zenon
  <1> HIDE DEF b, at, type, tag
  <1>5. /\ DOMAIN req = DOMAIN nReq \cup {tag} /\ req[tag] = (IF tag \in DOMAIN nReq THEN nReq[tag] ELSE row)
        /\ \A x \in DOMAIN nReq : req[x] = nReq[x]
    <2> HIDE DEF row
    <2> QED BY InsertedIs
  <1> HIDE DEF req
  <1>6. req[tag].instrument = of /\ of \in S!Instruments
    <2>1. row.instrument = at
      OBVIOUS
    <2> HIDE DEF row
    <2> QED BY <2>1, <1>2, <1>5 DEF StatsInv
  <1>7. \A t \in DOMAIN req : req[t].instrument \in S!Instruments
    BY <1>5, <1>6 DEF StatsInv
  <1> HIDE DEF of
  <1>8. /\ \A i : Answered(st2, req, b, of, bad, i)
        /\ \A t \in DOMAIN nReq' : nReq'[t].instrument \in S!Instruments
    <2> HIDE DEF st2
    <2>1. PICK at1 \in S!Instruments, bad1 \in 0 .. 1 :
           /\ at1 = LET t == S!Tag(b, S!NEW_ORDER_RESPONSE)
                    IN  IF t \in DOMAIN req THEN req[t].instrument ELSE 0
           /\ bad1 = IF S!IsZero(S!Read(b, S!NEW_ORDER_RESPONSE, "StatusID")) THEN 0 ELSE 1
           /\ \A i : Answered(st2, req, b, at1, bad1, i)
           /\ \A t \in DOMAIN nReq' : nReq'[t].instrument \in S!Instruments
      BY <1>4, <1>7, ResponseDoes
    <2>2. S!Tag(b, S!NEW_ORDER_RESPONSE) = tag /\ (S!IsZero(S!Read(b, S!NEW_ORDER_RESPONSE, "StatusID")) <=> Disclosed = 0)
      BY <1>3 DEF ReadsAsOrder
    <2>3. at1 = of /\ bad1 = bad
      BY <2>1, <2>2, <1>5, <1>6
    <2> QED BY <2>1, <2>3
  <1>9. \A i : CountIn(st2, i) = IF i = at THEN [CountIn(nOrdStats, i) EXCEPT !.requests = @ + 1, !.types = S!Bump(@, type)]
                                 ELSE CountIn(nOrdStats, i)
    <2>1. at \in DOMAIN st
      BY InsertedIs
    <2>2. \A i : CountIn(st, i) = CountIn(nOrdStats, i)
      BY InsertedCounts
    <2>3. st[at] = CountIn(st, at)
      BY <2>1 DEF CountIn
    <2> HIDE DEF st
    <2>4. \A i : CountIn(st2, i) = IF i = at THEN new ELSE CountIn(st, i)
      <3> HIDE DEF new
      <3> QED BY <2>1, ChangedCounts
    <2> HIDE DEF st2
    <2> QED BY <2>2, <2>3, <2>4
  <1> HIDE DEF st2, st, new
  <1>10. PastIs(past)
    BY DEF StatsInv
  <1>11. /\ PastIs(past') /\ past'.answers = past.answers /\ past'.rejected = past.rejected
         /\ past'.odd = strange
         /\ \A i \in S!Instruments : past'.orders[i] = IF i = at THEN past.orders[i] + 1 ELSE past.orders[i]
    <2> DEFINE raised == [past.orders EXCEPT ![at] = @ + 1]
    <2>1. raised \in [S!Instruments -> Nat]
          /\ \A i \in S!Instruments : raised[i] = IF i = at THEN past.orders[i] + 1 ELSE past.orders[i]
      BY <1>2, <1>10, RaisedIs DEF PastIs
    <2>2. past' = [past EXCEPT !.orders = raised, !.odd = strange]
      BY <1>1, <1>10 DEF PastIs, tag
    <2>3. strange \in BOOLEAN
      BY <1>10 DEF PastIs
    <2> HIDE DEF raised, strange
    <2> QED BY <2>1, <2>2, <2>3, <1>10 DEF PastIs
  <1>12. ASSUME NEW i \in S!Instruments
         PROVE  /\ Counted(CountIn(nOrdStats', i))
                /\ Right(CountIn(nOrdStats', i), past'.orders[i], past'.answers[i], past'.rejected[i], past'.odd)
    <2> DEFINE c0 == CountIn(nOrdStats, i)
               c1 == CountIn(st2, i)
               c2 == CountIn(nOrdStats', i)
    <2>1. Counted(c0) /\ Right(c0, past.orders[i], past.answers[i], past.rejected[i], past.odd)
      BY DEF StatsInv
    <2>2. c1 = IF i = at THEN [c0 EXCEPT !.requests = @ + 1, !.types = S!Bump(@, type)] ELSE c0
      BY <1>9
    <2>3. c2 = IF i = of THEN [c1 EXCEPT !.responses = @ + 1, !.errors = @ + bad] ELSE c1
      BY <1>8 DEF Answered
    <2>4. bad \in 0 .. 1
      OBVIOUS
    <2> HIDE DEF c0, c1, c2
    <2>5. /\ Counted(c1) /\ c1.responses = c0.responses /\ c1.errors = c0.errors
          /\ i = at => c1.requests = c0.requests + 1 /\ S!Total(c1.types) = S!Total(c0.types) + 1
          /\ i # at => c1.requests = c0.requests /\ c1.types = c0.types
      <3>1. CASE i = at
        BY <3>1, <2>1, <2>2, RequestCounts
      <3>2. CASE i # at
        BY <3>2, <2>1, <2>2
      <3> QED BY <3>1, <3>2
    <2>6. /\ Counted(c2) /\ c2.requests = c1.requests /\ c2.types = c1.types
          /\ i = of => c2.responses = c1.responses + 1 /\ c2.errors = c1.errors + bad
          /\ i # of => c2.responses = c1.responses /\ c2.errors = c1.errors
      <3>1. CASE i = of
        <4> HIDE DEF bad
        <4> QED BY <3>1, <2>3, <2>4, <2>5, ResponseCounts
      <3>2. CASE i # of
        BY <3>2, <2>3, <2>5
      <3> QED BY <3>1, <3>2
    <2>7. ~strange => of = at /\ ~past.odd
      BY DEF of
    <2>8. /\ past.orders[i] \in Nat /\ past.answers[i] \in Nat /\ past.rejected[i] \in Nat
      BY <1>10 DEF PastIs
    <2>9. Right(c2, past'.orders[i], past.answers[i], past.rejected[i], strange)
      <3>1. CASE i = at
        <4>1. past'.orders[i] = past.orders[i] + 1
          BY <3>1, <1>11
        <4>2. c2.requests = past.orders[i] + 1 /\ S!Total(c2.types) = past.orders[i] + 1
          BY <3>1, <2>1, <2>5, <2>6 DEF Right
        <4>3. ASSUME ~strange PROVE /\ c2.responses = (past.orders[i] + 1) + past.answers[i]
                                    /\ c2.errors = past.rejected[i] + (IF Disclosed = 0 THEN 0 ELSE past.orders[i] + 1)
          <5>1. c2.responses = c0.responses + 1 /\ c2.errors = c0.errors + bad
            BY <4>3, <3>1, <2>5, <2>6, <2>7
          <5>2. c0.responses = past.orders[i] + past.answers[i]
                /\ c0.errors = past.rejected[i] + (IF Disclosed = 0 THEN 0 ELSE past.orders[i])
            BY <4>3, <2>1, <2>7 DEF Right
          <5> QED BY <5>1, <5>2, <2>8
        <4> HIDE DEF strange
        <4> QED BY <4>1, <4>2, <4>3 DEF Right
      <3>2. CASE i # at
        <4>1. past'.orders[i] = past.orders[i]
          BY <3>2, <1>11
        <4>2. c2.requests = past.orders[i] /\ S!Total(c2.types) = past.orders[i]
          BY <3>2, <2>1, <2>5, <2>6 DEF Right
        <4>3. ASSUME ~strange PROVE /\ c2.responses = past.orders[i] + past.answers[i]
                                    /\ c2.errors = past.rejected[i] + (IF Disclosed = 0 THEN 0 ELSE past.orders[i])
          BY <4>3, <3>2, <2>1, <2>5, <2>6, <2>7 DEF Right
        <4> HIDE DEF strange
        <4> QED BY <4>1, <4>2, <4>3 DEF Right
      <3> QED BY <3>1, <3>2
    <2> QED BY <2>6, <2>9, <1>11 DEF c2
  <1>13. DOMAIN rx' = 1 .. 50
    BY <1>1 DEF StatsInv
  <1>14. test' = [UserTag |-> test'.UserTag, counter |-> test'.counter] /\ test'.counter \in Nat
    BY <1>1 DEF StatsInv
  <1> QED BY <1>8, <1>11, <1>12, <1>13, <1>14 DEF StatsInv

LEMMA ReadAnswerStep ==
  ASSUME StatsInv, NEW tag \in Tags, NEW status \in 0 .. 1,
         NEW len1 \in {S!Offset(S!NEW_ORDER_RESPONSE, "UserTag"), S!SizeOf(S!NEW_ORDER_RESPONSE)},
         S!ReadAnswer(tag, status, len1)
  PROVE  StatsInv'
  <1> DEFINE b == S!Answer(tag, status)
             at == IF tag \in DOMAIN nReq THEN nReq[tag].instrument ELSE 0
             one == IF status = 0 THEN 0 ELSE 1
             short_ == len1 < S!SizeOf(S!NEW_ORDER_RESPONSE)
             strange == past.odd \/ tag \notin DOMAIN nReq \/ tag \in past.answered \/ short_
  <1>1. /\ rx' = S!Landed(b, len1) /\ S!Response(nOrdStats, nReq, rx') /\ test' = test
        /\ past' = [past EXCEPT !.answers[at] = @ + 1, !.rejected[at] = @ + one,
                                !.answered = @ \cup {tag},
                                !.odd = @ \/ tag \notin DOMAIN nReq \/ tag \in past.answered \/ short_]
    BY DEF S!ReadAnswer
  <1>2. S!SizeOf(S!NEW_ORDER_RESPONSE) = 50
    BY StatsSame, StatsLayouts, NewOrderResponseFormed DEF Formed
  <1>3. tag \in 0 .. 255
    BY StatsAssumption, Zenon
  <1>4. /\ b \in Seq(Nat) /\ Len(b) = 50 /\ S!Tag(b, S!NEW_ORDER_RESPONSE) = tag
        /\ S!IsZero(S!Read(b, S!NEW_ORDER_RESPONSE, "StatusID")) <=> status = 0
    BY <1>3, AnswerReads
  <1>5. len1 = 50 \/ len1 = 10
    <2>1. PICK g : Steps(Msg!NEW_ORDER_RESPONSE, g) /\ g[2] = 10
      BY ResponseSteps
    <2>2. Msg!Offset(Msg!NEW_ORDER_RESPONSE, Msg!NEW_ORDER_RESPONSE[3][1]) = g[3 - 1]
      <3>1. 3 \in 1 .. Len(Msg!NEW_ORDER_RESPONSE) /\ Msg!NEW_ORDER_RESPONSE \in Layouts
        BY NewOrderResponseFormed DEF Formed
      <3> QED BY <2>1, <3>1, OffsetIs
    <2>3. Msg!NEW_ORDER_RESPONSE[3][1] = "UserTag" /\ 3 - 1 = 2
      BY NewOrderResponseFields
    <2>4. S!Offset(S!NEW_ORDER_RESPONSE, "UserTag") = 10
      BY <2>1, <2>2, <2>3, StatsSame, StatsLayouts, Zenon
    <2> QED BY <2>4, <1>2
  <1> HIDE DEF b
  <1>6. DOMAIN rx' = 1 .. 50 /\ (~short_ => rx' = b)
    <2>1. rx' = [j \in 1 .. 50 |-> IF j <= len1 THEN b[j] ELSE rx[j]]
      BY <1>1 DEF S!Landed, StatsInv
    <2>2. ASSUME ~short_ PROVE rx' = b
      <3>1. len1 = 50
        BY <2>2, <1>2, <1>5
      <3>2. \A j \in 1 .. 50 : rx'[j] = b[j]
        BY <2>1, <3>1
      <3>3. rx' = [j \in 1 .. 50 |-> rx'[j]] /\ b = [j \in 1 .. 50 |-> b[j]]
        BY <2>1, <1>4
      <3> QED BY <3>2, <3>3
    <2> QED BY <2>1, <2>2
  <1> HIDE DEF short_
  <1>7. PICK of \in S!Instruments, bad \in 0 .. 1 :
           /\ of = LET t == S!Tag(rx', S!NEW_ORDER_RESPONSE)
                   IN  IF t \in DOMAIN nReq THEN nReq[t].instrument ELSE 0
           /\ bad = IF S!IsZero(S!Read(rx', S!NEW_ORDER_RESPONSE, "StatusID")) THEN 0 ELSE 1
           /\ \A i : Answered(nOrdStats, nReq, rx', of, bad, i)
           /\ \A t \in DOMAIN nReq' : nReq'[t].instrument \in S!Instruments
    BY <1>1, ResponseDoes DEF StatsInv
  <1>8. at \in S!Instruments /\ one \in 0 .. 1
    BY StatsAssumption DEF StatsInv, S!Instruments
  <1>9. ~strange => of = at /\ bad = one /\ ~past.odd
    BY <1>4, <1>6, <1>7
  <1> HIDE DEF at, one
  <1>10. PastIs(past)
    BY DEF StatsInv
  <1>11. /\ PastIs(past') /\ past'.orders = past.orders /\ past'.odd = strange
         /\ \A i \in S!Instruments : past'.answers[i] = IF i = at THEN past.answers[i] + 1 ELSE past.answers[i]
         /\ \A i \in S!Instruments : past'.rejected[i] = IF i = at THEN past.rejected[i] + one ELSE past.rejected[i]
    <2> DEFINE raised == [past.answers EXCEPT ![at] = @ + 1]
               refused == [past.rejected EXCEPT ![at] = @ + one]
               all == past.answered \cup {tag}
    <2>1. raised \in [S!Instruments -> Nat]
          /\ \A i \in S!Instruments : raised[i] = IF i = at THEN past.answers[i] + 1 ELSE past.answers[i]
      BY <1>8, <1>10, RaisedIs DEF PastIs
    <2>2. refused \in [S!Instruments -> Nat]
          /\ \A i \in S!Instruments : refused[i] = IF i = at THEN past.rejected[i] + one ELSE past.rejected[i]
      BY <1>8, <1>10, RaisedIs DEF PastIs
    <2>3. past' = [past EXCEPT !.answers = raised, !.rejected = refused, !.answered = all, !.odd = strange]
      BY <1>1, <1>10 DEF PastIs
    <2>4. strange \in BOOLEAN /\ all \in SUBSET Tags
      BY <1>10 DEF PastIs
    <2> HIDE DEF raised, refused, strange, all
    <2> QED BY <2>1, <2>2, <2>3, <2>4, <1>10 DEF PastIs
  <1>12. ASSUME NEW i \in S!Instruments
         PROVE  /\ Counted(CountIn(nOrdStats', i))
                /\ Right(CountIn(nOrdStats', i), past'.orders[i], past'.answers[i], past'.rejected[i], past'.odd)
    <2> DEFINE c1 == CountIn(nOrdStats, i)
               c2 == CountIn(nOrdStats', i)
    <2>1. Counted(c1) /\ Right(c1, past.orders[i], past.answers[i], past.rejected[i], past.odd)
      BY DEF StatsInv
    <2>3. c2 = IF i = of THEN [c1 EXCEPT !.responses = @ + 1, !.errors = @ + bad] ELSE c1
      BY <1>7 DEF Answered
    <2> HIDE DEF c1, c2, strange
    <2>6. /\ Counted(c2) /\ c2.requests = c1.requests /\ c2.types = c1.types
          /\ i = of => c2.responses = c1.responses + 1 /\ c2.errors = c1.errors + bad
          /\ i # of => c2.responses = c1.responses /\ c2.errors = c1.errors
      <3>1. CASE i = of
        BY <3>1, <2>1, <2>3, ResponseCounts
      <3>2. CASE i # of
        BY <3>2, <2>1, <2>3
      <3> QED BY <3>1, <3>2
    <2>8. /\ past.orders[i] \in Nat /\ past.answers[i] \in Nat /\ past.rejected[i] \in Nat
      BY <1>10 DEF PastIs
    <2>9. c2.requests = past.orders[i] /\ S!Total(c2.types) = past.orders[i]
      BY <2>1, <2>6 DEF Right
    <2>10. ASSUME ~strange
           PROVE  /\ c2.responses = past.orders[i] + past'.answers[i]
                  /\ c2.errors = past'.rejected[i] + (IF Disclosed = 0 THEN 0 ELSE past.orders[i])
      <3>1. c1.responses = past.orders[i] + past.answers[i]
            /\ c1.errors = past.rejected[i] + (IF Disclosed = 0 THEN 0 ELSE past.orders[i])
        BY <2>1, <2>10, <1>9 DEF Right
      <3>2. CASE i = at
        <4>1. c2.responses = c1.responses + 1 /\ c2.errors = c1.errors + one
          BY <3>2, <2>6, <2>10, <1>9
        <4>2. past'.answers[i] = past.answers[i] + 1 /\ past'.rejected[i] = past.rejected[i] + one
          BY <3>2, <1>11
        <4> QED BY <3>1, <4>1, <4>2, <2>8, <1>8
      <3>3. CASE i # at
        <4>1. c2.responses = c1.responses /\ c2.errors = c1.errors
          BY <3>3, <2>6, <2>10, <1>9
        <4>2. past'.answers[i] = past.answers[i] /\ past'.rejected[i] = past.rejected[i]
          BY <3>3, <1>11
        <4> QED BY <3>1, <4>1, <4>2
      <3> QED BY <3>2, <3>3
    <2>11. Right(c2, past.orders[i], past'.answers[i], past'.rejected[i], strange)
      BY <2>9, <2>10 DEF Right
    <2> QED BY <2>6, <2>11, <1>11 DEF c2
  <1>14. test' = [UserTag |-> test'.UserTag, counter |-> test'.counter] /\ test'.counter \in Nat
    BY <1>1 DEF StatsInv
  <1> QED BY <1>6, <1>7, <1>11, <1>12, <1>14 DEF StatsInv

LEMMA StatsInitially == ASSUME S!Init PROVE StatsInv
  <1> DEFINE r == Msg!NEW_ORDER_RESPONSE
             zero == [f \in {x[1] : x \in S!Range(r)} |-> 0]
  <1>1. /\ nOrdStats = <<>> /\ nReq = <<>>
        /\ past = [orders |-> S!Nothing, answers |-> S!Nothing, rejected |-> S!Nothing, answered |-> {}, odd |-> FALSE]
        /\ \E t \in Tags : test = [UserTag |-> t, counter |-> 0]
    BY DEF S!Init
  <1>2. rx = Msg!Encode(r, zero)
    <2>1. rx = S!Encode(S!NEW_ORDER_RESPONSE, [f \in {x[1] : x \in S!Range(S!NEW_ORDER_RESPONSE)} |-> 0])
      BY DEF S!Init
    <2> QED BY <2>1, StatsSame, StatsLayouts
  <1>3. r \in Layouts /\ Len(r) = 7
    BY NewOrderResponseFormed DEF Formed
  <1>4. PICK g : Steps(r, g) /\ g[7] = 50
    BY ResponseSteps
  <1> HIDE DEF r
  <1>5. Numbers(r, zero)
    <2>1. DOMAIN r = 1 .. Len(r)
      BY <1>3, <1>4, WidthsAre
    <2>2. ASSUME NEW i \in 1 .. Len(r) PROVE zero[r[i][1]] \in Nat
      <3>1. r[i] \in S!Range(r)
        BY <2>1 DEF S!Range
      <3>2. r[i][1] \in {x[1] : x \in S!Range(r)}
        BY <3>1
      <3>3. 0 \in Nat
        OBVIOUS
      <3> QED BY <3>2, <3>3, Zenon
    <2> HIDE DEF zero
    <2> QED BY <2>2 DEF Numbers
  <1>6. SmallAt(Msg!Encode(r, zero), r, zero, g)
    <2> HIDE DEF zero
    <2> QED BY <1>3, <1>4, <1>5, SmallLies
  <1>7. rx \in Seq(Nat) /\ Len(rx) = 50
    <2> HIDE DEF zero
    <2>1. rx \in Seq(Nat) /\ Len(rx) = g[Len(r)]
      BY <1>2, <1>6, Zenon DEF SmallAt
    <2> QED BY <2>1, <1>3, <1>4
  <1>8. DOMAIN rx = 1 .. 50
    BY <1>7
  <1>9. S!Nothing \in [S!Instruments -> Nat] /\ \A i \in S!Instruments : S!Nothing[i] = 0
    BY DEF S!Nothing
  <1>10. PastIs(past)
    BY <1>1, <1>9 DEF PastIs
  <1>11. /\ past.odd = FALSE
         /\ \A i \in S!Instruments : past.orders[i] = 0 /\ past.answers[i] = 0 /\ past.rejected[i] = 0
    BY <1>1, <1>9
  <1>12. \A i : CountIn(nOrdStats, i) = S!NoStats
    BY <1>1 DEF CountIn
  <1>13. \A t \in DOMAIN nReq : nReq[t].instrument \in S!Instruments
    BY <1>1
  <1>14. test = [UserTag |-> test.UserTag, counter |-> test.counter] /\ test.counter \in Nat
    BY <1>1
  <1> QED BY <1>8, <1>10, <1>11, <1>12, <1>13, <1>14, NoneCounted DEF StatsInv

(* The other steps leave the statistics alone.                              *)
LEMMA StatsRest ==
  ASSUME StatsInv, nOrdStats' = nOrdStats, nReq' = nReq, past' = past, DOMAIN rx' = DOMAIN rx,
         test' = test \/ \E t \in Tags : test' = [UserTag |-> t, counter |-> 0]
  PROVE  StatsInv'
  <1>1. test' = [UserTag |-> test'.UserTag, counter |-> test'.counter] /\ test'.counter \in Nat
    BY DEF StatsInv
  <1> QED BY <1>1 DEF StatsInv

LEMMA StatsStep == ASSUME StatsInv, [S!Next]_stats PROVE StatsInv'
  <1>1. CASE S!WriteOrder
    BY <1>1, WriteOrderStep
  <1>2. CASE S!NewTest
    BY <1>2, StatsRest DEF S!NewTest
  <1>3. CASE S!CheckSet
    BY <1>3, StatsRest DEF S!CheckSet
  <1>4. ASSUME NEW type \in OtherTypes, S!ReadOther(type) PROVE StatsInv'
    <2>1. DOMAIN rx' = DOMAIN rx /\ test' = test /\ nOrdStats' = nOrdStats /\ nReq' = nReq /\ past' = past
      BY <1>4 DEF S!ReadOther, S!Landed
    <2> QED BY <2>1, StatsRest
  <1>5. ASSUME NEW tag \in Tags, NEW status \in {0, 1},
               NEW len1 \in {S!Offset(S!NEW_ORDER_RESPONSE, "UserTag"), S!SizeOf(S!NEW_ORDER_RESPONSE)},
               S!ReadAnswer(tag, status, len1)
        PROVE  StatsInv'
    <2>1. status \in 0 .. 1
      OBVIOUS
    <2> QED BY <1>5, <2>1, ReadAnswerStep
  <1>6. CASE UNCHANGED stats
    BY <1>6, StatsRest DEF stats
  <1> QED BY <1>1, <1>2, <1>3, <1>4, <1>5, <1>6 DEF S!Next

(* The statistics of OrderStats::Set() count every order once, for its      *)
(* instrument and its type, and, unless something odd has happened, every   *)
(* answer, and every order again, as a response and, as it discloses a      *)
(* quantity, as an error: whatever tags tests reuse, and whatever earlier   *)
(* frames leave in the buffer, for up to 255 instruments and types.         *)
THEOREM StatsAreAddedUp == Spec => []StatsAddUp
  <1>1. Init => StatsInv
    BY StatsInitially DEF Init
  <1>2. StatsInv /\ [Next]_<<component, fields, log, config, clock, latency, stats, prompts, json,
                             hexdump, endpoint>> => StatsInv'
    BY StatsMove, StatsStep
  <1>3. StatsInv => StatsAddUp
    BY DEF StatsInv, StatsAddUp, S!StatsAddUp, S!Count, CountIn, Right
  <1> QED BY <1>1, <1>2, <1>3, PTL DEF Spec

=============================================================================
