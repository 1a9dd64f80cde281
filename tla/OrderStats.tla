------------------------------ MODULE OrderStats -----------------------------
(***************************************************************************)
(* The statistics of the load test client: objStats, which counts orders   *)
(* and answers for each instrument and which the console command S prints. *)
(* OrderStats::Set() is given the union of all messages: the orders that   *)
(* process_load_tmr() writes, and the frames that process_rx_frame() takes *)
(* from the buffer of the framer, where a frame that is too short for its  *)
(* message leaves the bytes of earlier frames to be read with it.          *)
(***************************************************************************)
EXTENDS Naturals, Sequences, FiniteSets, Functions, FiniteSetsExt, Messages

CONSTANTS NInstruments,   (* 11                                              *)
          NTypes,         (* 9                                               *)
          Tags,           (* the tags of orders, with one nobody has sent    *)
          Disclosed,      (* 100, the disclosed quantity of each order       *)
          OtherTypes,     (* bound: what else is read                        *)
          MaxOrders, MaxAnswers   (* bounds                                  *)

VARIABLES test,           (* of the client: m_UserTag, m_counter             *)
          tags,           (* m_user_tags                                     *)
          nOrdStats,      (* m_nOrdStats: requests, responses, errors, types *)
          nReq,           (* m_nReq: the instrument and type of each tag     *)
          rx,             (* what the framer's buffer holds                  *)
          (* history, read by properties only *)
          past            (* orders, answers and rejections by instrument,   *)
                          (* and whether something odd has happened          *)

stats == <<test, tags, nOrdStats, nReq, rx, past>>

Instruments == 0 .. NInstruments
NoStats     == [requests |-> 0, responses |-> 0, errors |-> 0, types |-> <<>>]
Nothing     == [i \in Instruments |-> 0]

Init ==
  /\ \E t \in Tags : test = [UserTag |-> t, counter |-> 0]
  /\ tags = {} /\ nOrdStats = <<>> /\ nReq = <<>>
  /\ rx = Encode(NEW_ORDER_RESPONSE, [f \in {x[1] : x \in Range(NEW_ORDER_RESPONSE)} |-> 0])
  /\ past = [orders |-> Nothing, answers |-> Nothing, rejected |-> Nothing,
             answered |-> {}, odd |-> FALSE]

-----------------------------------------------------------------------------
(* f with key k, if it has none; what map::insert() and operator[] do       *)
Inserted(f, k, v) == [x \in DOMAIN f \cup {k} |-> IF x \in DOMAIN f THEN f[x] ELSE v]
Bump(f, k) == [Inserted(f, k, 0) EXCEPT ![k] = @ + 1]
Tag(bytes, layout) == Read(bytes, layout, "UserTag")[1]

(* The case of a response, which the case of a request runs into as well    *)
Response(st, req, bytes) ==
  LET tag  == Tag(bytes, NEW_ORDER_RESPONSE)
      req1 == Inserted(req, tag, [instrument |-> 0, type |-> 0])
      at   == req1[tag].instrument
      st1  == Inserted(st, at, NoStats)
      bad  == IF IsZero(Read(bytes, NEW_ORDER_RESPONSE, "StatusID")) THEN 0 ELSE 1
  IN /\ nOrdStats' = [st1 EXCEPT ![at].responses = @ + 1, ![at].errors = @ + bad]
     /\ nReq' = req1

RequestTypeless(bytes) ==    (* variant: the types are not counted *)
  LET at  == Read(bytes, NEW_ORDER_REQUEST, "OrderInstrumentID")[1]
      st  == Inserted(nOrdStats, at, NoStats)
  IN Response([st EXCEPT ![at].requests = @ + 1],
              Inserted(nReq, Tag(bytes, NEW_ORDER_REQUEST), [instrument |-> at, type |-> 0]),
              bytes)
RequestCase(bytes) ==
  LET at   == Read(bytes, NEW_ORDER_REQUEST, "OrderInstrumentID")[1]
      type == Read(bytes, NEW_ORDER_REQUEST, "OrderType")[1]
      st   == Inserted(nOrdStats, at, NoStats)
  IN Response([st EXCEPT ![at].requests = @ + 1, ![at].types = Bump(@, type)],
              Inserted(nReq, Tag(bytes, NEW_ORDER_REQUEST), [instrument |-> at, type |-> type]),
              bytes)

Total(f) == FoldFunction(+, 0, f)

(* An order of process_load_tmr(): the fields that anything here reads, and *)
(* the insertion of its tag, which may fail.                                *)
Order ==
  [ MessageType |-> 3, UserID |-> 1, UserTag |-> test.UserTag,
    OrderInstrumentID |-> (test.counter % NInstruments) + 1,
    OrderType |-> (test.counter % NTypes) + 1, OrderTimeInForce |-> (test.counter % 4) + 1,
    OrderSide |-> (test.counter % 2) + 1, OrderExecutionType |-> 1,
    OrderQuantity |-> 100, OrderDisclosedQuantity |-> Disclosed, OrderPrice |-> 0,
    MarketPriceProtectionTicks |-> 0, OrderTriggerPrice |-> 5, TriggerOn |-> 1 ]

WriteOrder ==
  /\ Total(past.orders) < MaxOrders /\ test.UserTag \in Tags
  /\ RequestCase(Encode(NEW_ORDER_REQUEST, Order))
  /\ past' = [past EXCEPT !.orders[Order.OrderInstrumentID] = @ + 1,
                          !.odd = @ \/ test.UserTag \in DOMAIN nReq]
  /\ tags' = tags \cup {test.UserTag}
  /\ test' = IF test.UserTag \in tags THEN test
             ELSE [UserTag |-> test.UserTag + 1, counter |-> test.counter + 1]
  /\ UNCHANGED rx

(* N starts a test with any first tag; V, check_set(), empties the set.     *)
NewTest ==
  /\ \E t \in Tags : test' = [UserTag |-> t, counter |-> 0]
  /\ UNCHANGED <<tags, nOrdStats, nReq, rx, past>>
CheckSet ==
  /\ tags # {} /\ tags' = {} /\ UNCHANGED <<test, nOrdStats, nReq, rx, past>>

-----------------------------------------------------------------------------
(* A frame lands in the framer's buffer: its len bytes and no more.         *)
Landed(bytes, len) == [j \in DOMAIN rx |-> IF j <= len THEN bytes[j] ELSE rx[j]]

Answer(tag, status) ==
  Encode(NEW_ORDER_RESPONSE, [MessageType |-> 503, UserID |-> 1, UserTag |-> tag,
    ExchangeOrderID |-> 0, ExchangeEventID |-> 0, StatusID |-> status, TimeStamp |-> 0])

(* The answer to an order, whole or cut short: the statistics, then         *)
(* process_new_order_single_response()                                      *)
ReadAnswer(tag, status, len) ==
  /\ Total(past.answers) < MaxAnswers
  /\ rx' = Landed(Answer(tag, status), len)
  /\ Response(nOrdStats, nReq, rx')
  /\ tags' = tags \ {Tag(rx', NEW_ORDER_RESPONSE)}
  /\ LET at == IF tag \in DOMAIN nReq THEN nReq[tag].instrument ELSE 0 IN
     past' = [past EXCEPT !.answers[at] = @ + 1,
                          !.rejected[at] = @ + (IF status = 0 THEN 0 ELSE 1),
                          !.answered = @ \cup {tag},
                          !.odd = \/ @ \/ tag \notin DOMAIN nReq \/ tag \in past.answered
                                  \/ len < SizeOf(NEW_ORDER_RESPONSE)]
  /\ UNCHANGED test

(* Any other frame that process_rx_frame() knows is logged; what matters is *)
(* how many of its bytes stay behind, and which.                            *)
Logged == [
  mt1_server_heartbeat                   |-> HEARTBEAT,
  mt1_gateway_client_logon_response      |-> GATEWAY_CLIENT_LOGON_RESPONSE,
  mt1_gateway_client_logoff_response     |-> GATEWAY_CLIENT_LOGOFF_RESPONSE,
  mt1_modify_order_response              |-> MODIFY_ORDER_RESPONSE,
  mt1_cancel_order_response              |-> CANCEL_ORDER_RESPONSE,
  mt1_cancel_all_orders_response         |-> CANCEL_ALL_ORDERS_RESPONSE,
  mt1_working_orders_response            |-> WORKING_ORDERS_RESPONSE,
  mt1_fill_response                      |-> FILL_RESPONSE,
  mt1_working_order_notification         |-> WORKING_ORDER_NOTIFICATION,
  mt1_modify_order_notification          |-> MODIFY_ORDER_NOTIFICATION,
  mt1_cancel_order_notification          |-> CANCEL_ORDER_NOTIFICATION,
  mt1_fill_notification                  |-> FILL_NOTIFICATION,
  mt1_session_notification               |-> SESSION_NOTIFICATION,
  mt1_gateway_client_logoff_notification |-> GATEWAY_CLIENT_LOGOFF_NOTIFICATION ]
InFrame(type) ==
  Encode(Logged[type], [f \in {x[1] : x \in Range(Logged[type])} |->
                          IF f \in {"UserID", "StatusID"} THEN 1 ELSE 0])
ReadOther(type) ==
  /\ rx' = Landed(InFrame(type), SizeOf(Logged[type])) /\ rx' # rx
  /\ UNCHANGED <<test, tags, nOrdStats, nReq, past>>

Next ==
  \/ WriteOrder \/ NewTest \/ CheckSet
  \/ \E type \in OtherTypes : ReadOther(type)
  \/ \E tag \in Tags, status \in {0, 1},
        len \in {Offset(NEW_ORDER_RESPONSE, "UserTag"), SizeOf(NEW_ORDER_RESPONSE)} :
       ReadAnswer(tag, status, len)

Spec == Init /\ [][Next]_stats

-----------------------------------------------------------------------------
Count(i) == IF i \in DOMAIN nOrdStats THEN nOrdStats[i] ELSE NoStats

(* Every order written is counted once, for its instrument and its type,    *)
(* whatever tags tests reuse.  Unless a tag is used or answered twice, an   *)
(* answer has no order or is cut short, the responses counted are the       *)
(* answers and the orders, the errors the rejections and the orders, which  *)
(* disclose a quantity.                                                     *)
StatsAddUp ==
  \A i \in Instruments :
    /\ Count(i).requests = past.orders[i] /\ Total(Count(i).types) = past.orders[i]
    /\ ~past.odd =>
         /\ Count(i).responses = past.orders[i] + past.answers[i]
         /\ Count(i).errors = past.rejected[i] + (IF Disclosed = 0 THEN 0 ELSE past.orders[i])

(* What S prints as "No of responses" is the number of answers received, as *)
(* long as every frame is whole and answers an order of its own.            *)
ResponsesAreAnswers == ~past.odd => \A i \in Instruments : Count(i).responses = past.answers[i]
=============================================================================
