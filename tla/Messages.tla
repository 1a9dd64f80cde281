------------------------------ MODULE Messages -------------------------------
(***************************************************************************)
(* api/moonx_binary_api.hpp: the messages as they lie in memory.  A layout *)
(* is the sequence of a struct's fields, each with its width in bytes;     *)
(* nothing lies between two fields (#pragma pack(1)).  A message in memory *)
(* is a sequence of bytes, least significant first, and may be read through*)
(* a layout it was not written with: the messages share a union.           *)
(***************************************************************************)
EXTENDS Naturals, Sequences, SequencesExt

Shorts(names) == [i \in DOMAIN names |-> <<names[i], 2>>]
Longs(names)  == [i \in DOMAIN names |-> <<names[i], 8>>]
Chars(names)  == [i \in DOMAIN names |-> <<names[i], 1>>]

Kind    == Shorts(<<"MessageType">>)
User    == Kind \o Longs(<<"UserID">>)
Request == User \o Longs(<<"UserTag">>)
Outcome == Longs(<<"StatusID", "TimeStamp">>)
Event   == Longs(<<"ExchangeEventID">>) \o Outcome

FRAME_HDR                    == Shorts(<<"msg_len">>)
HEARTBEAT                    == Kind
GATEWAY_CLIENT_LOGON_REQUEST == Kind \o Longs(<<"GatewayClientID">>) \o << <<"Password", 16>> >>
GATEWAY_CLIENT_LOGON_RESPONSE      == Kind \o Outcome
GATEWAY_CLIENT_LOGOFF_REQUEST      == Kind
GATEWAY_CLIENT_LOGOFF_RESPONSE     == Kind \o Outcome
SESSION_NOTIFICATION               == Kind \o Outcome
GATEWAY_CLIENT_LOGOFF_NOTIFICATION == Kind \o Outcome

Prices == Longs(<<"OrderQuantity", "OrderDisclosedQuantity", "OrderPrice">>)
          \o Shorts(<<"MarketPriceProtectionTicks">>) \o Longs(<<"OrderTriggerPrice">>)
          \o Chars(<<"TriggerOn">>)
NEW_ORDER_REQUEST  ==
  Request \o Longs(<<"OrderInstrumentID">>)
  \o Chars(<<"OrderType", "OrderTimeInForce", "OrderSide", "OrderExecutionType">>) \o Prices
NEW_ORDER_RESPONSE == Request \o Longs(<<"ExchangeOrderID">>) \o Event
MODIFY_ORDER_REQUEST ==
  Request \o Longs(<<"ExchangeOrderID", "OrderQuantityRemaining">>)
  \o Chars(<<"OrderType", "OrderTimeInForce", "OrderExecutionType">>) \o Prices
MODIFY_ORDER_RESPONSE == NEW_ORDER_RESPONSE
MODIFY_ORDER_NOTIFICATION ==
  User \o Longs(<<"ExchangeOrderID">>)
  \o Chars(<<"OrderType", "OrderTimeInForce", "OrderExecutionType">>) \o Prices \o Event
MODIFY_LEVERAGE_REQUEST    == Request \o Longs(<<"InstrumentID", "Leverage">>)
MODIFY_LEVERAGE_RESPONSE   == Request \o Event
MODIFY_LEVERAGE_NOTIFICATION ==
  Kind \o Longs(<<"NotificationID", "UserID", "InstrumentID", "Leverage">>) \o Event
CANCEL_ORDER_REQUEST       == Request \o Longs(<<"ExchangeOrderID">>)
CANCEL_ORDER_RESPONSE      == NEW_ORDER_RESPONSE
CANCEL_ORDER_NOTIFICATION  == User \o Longs(<<"ExchangeOrderID">>) \o Event
CANCEL_ALL_ORDERS_REQUEST  == Request \o Chars(<<"cancel_gtc">>)
CANCEL_ALL_ORDERS_RESPONSE == Request \o Longs(<<"TotalOrdersCanceled">>) \o Outcome
WORKING_ORDERS_REQUEST     == Request
WORKING_ORDERS_RESPONSE    == Request \o Longs(<<"NumberOfWorkingOrders">>) \o Outcome
FILL_REQUEST               == Request
FILL_RESPONSE              == Request \o Longs(<<"NumberOfFills">>) \o Outcome
(* The two that the union of the messages leaves out                        *)
Exchanged == Longs(<<"ExchangeEventID", "ExchangeStatusID", "ExchangeTimeStamp">>)
NEW_ORDER_NOTIFICATION ==
  User \o Longs(<<"InstrumentID", "OrderSide", "OrderType", "OrderTimeInForce",
                  "OrderExecutionType", "Quantity", "DisclosedQuantity", "Price",
                  "MarketPriceProtectionTicks", "TriggerPrice", "OrderTriggerOn",
                  "ExchangeOrderID">>) \o Exchanged
CANCEL_ALL_ORDERS_NOTIFICATION ==
  User \o Longs(<<"TotalNumberOfCancelledOrders">>) \o Exchanged

FILL_NOTIFICATION ==
  User \o Longs(<<"ExchangeOrderID", "MatchID", "TradeID", "FillID", "InstrumentID",
                  "FillQuantity", "FillPrice">>)
  \o Chars(<<"OrderSide">>)
  \o Longs(<<"OrderQuantityRemaining", "OrderDisclosedQuantityRemaining">>) \o Event
STOP_TRIGGER_NOTIFICATION ==
  Request \o Longs(<<"ExchangeOrderID", "InstrumentID", "OrderTriggerPrice">>) \o Event
GATEWAY_CLIENT_NOTIFICATION == User \o Outcome
WORKING_ORDER_NOTIFICATION ==
  User \o Longs(<<"ExchangeOrderID", "OrderQuantityRemaining", "OrderInstrumentID">>)
  \o Chars(<<"OrderType", "OrderSide">>)
  \o Longs(<<"OrderQuantity", "OrderDisclosedQuantity", "OrderPrice", "OrderTriggerPrice">>)
  \o Chars(<<"OrderTimeInForce">>) \o Outcome

-----------------------------------------------------------------------------
SizeOf(layout) == FoldLeft(LAMBDA n, f : n + f[2], 0, layout)
Index(layout, field)  == CHOOSE i \in DOMAIN layout : layout[i][1] = field
WidthOf(layout, field)  == layout[Index(layout, field)][2]
Offset(layout, field) == SizeOf(SubSeq(layout, 1, Index(layout, field) - 1))

(* The bytes of a number below 2^31 in a field of w bytes                   *)
Unit == <<1, 256, 65536, 16777216>>
Bytes(v, w) == [j \in 1 .. w |-> IF j <= 4 THEN (v \div Unit[j]) % 256 ELSE 0]

(* A struct whose fields hold the numbers f                                 *)
Encode(layout, f) ==
  FoldLeft(LAMBDA bytes, x : bytes \o Bytes(f[x[1]], x[2]), <<>>, layout)

(* What a field of the union holds: the bytes at its offset                 *)
Read(bytes, layout, field) ==
  SubSeq(bytes, Offset(layout, field) + 1, Offset(layout, field) + WidthOf(layout, field))
IsZero(bytes) == \A j \in DOMAIN bytes : bytes[j] = 0
=============================================================================
