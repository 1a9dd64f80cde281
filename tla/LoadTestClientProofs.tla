------------------------ MODULE LoadTestClientProofs ------------------------
(***************************************************************************)
(* The orders, the phases and the load timer of LoadTestClient, for every  *)
(* size of a test, interval and number of bulk threads.  No theorem uses   *)
(* Fairness.                                                               *)
(***************************************************************************)
EXTENDS LoadTestClient, TLAPS

(* process_idle_tmr() ends the client as soon as the count passes the limit.*)
RxBound == running = "up" => rxIdle <= IdleLimit

Typed == TypeOK /\ RxBound

(* The quotient of two numbers is one.                                      *)
LEMMA DivNat ==
  ASSUME NEW a \in Nat, NEW b \in Nat \ {0}
  PROVE  a \div b \in Nat
  OBVIOUS

(* A batch size is a number, since no interval of 0 is given.               *)
LEMMA NumberNat ==
  ASSUME NEW level \in {"low", "medium", "high"}
  PROVE  Number(level) \in Nat
  <1>1. Ops[level] \in Nat
    BY NumbersAssumption DEF Ops
  <1>2. Ops[level] * 1000 \in Nat
    BY <1>1
  <1> QED
    BY <1>2, DivNat, IntervalAssumption DEF Number

(* What the batch size and the timer states may be.                         *)
LoadSettings == [level : Levels, batch : Nat, medium : {0, 1}, high : {0, 1}]

LEMMA SetToType ==
  ASSUME TypeOK, NEW s \in LoadSettings, NEW level \in {"low", "medium", "high"}
  PROVE  /\ SetTo(s, level) \in LoadSettings /\ SetTo(s, level).level = level
         /\ SetTo(s, level).medium = s.medium /\ SetTo(s, level).high = s.high
  <1>1. Number(level) \in Nat
    BY NumberNat
  <1>2. (IF given THEN Number(level) ELSE 0) \in Nat
    BY <1>1
  <1> QED
    BY <1>2 DEF SetTo, LoadSettings, Levels

(* The batch size is that of the highest phase on.                          *)
Follows(s) == s.level \in CASE s.high = 1 -> {"high"}
                            [] s.high = 0 /\ s.medium = 1 -> {"medium"}
                            [] OTHER -> {"given", "low"}

LEMMA LowOpFollows ==
  ASSUME TypeOK, NEW s \in LoadSettings
  PROVE  LowOp(s) \in LoadSettings /\ (Follows(s) => Follows(LowOp(s)))
  BY SetToType DEF LowOp, Follows

LEMMA MediumOpFollows ==
  ASSUME TypeOK, NEW s \in LoadSettings
  PROVE  MediumOp(s) \in LoadSettings /\ (Follows(s) => Follows(MediumOp(s)))
  <1>1. CASE s.high = 1
    BY <1>1 DEF MediumOp, Follows, LoadSettings
  <1>2. CASE s.high = 0
    <2> DEFINE t == SetTo(s, IF s.medium = 0 THEN "medium" ELSE "low")
    <2>1. /\ t \in LoadSettings /\ t.level = (IF s.medium = 0 THEN "medium" ELSE "low")
          /\ t.medium = s.medium /\ t.high = s.high
      BY SetToType
    <2>2. MediumOp(s) = [t EXCEPT !.medium = 1 - @]
      BY <1>2 DEF MediumOp
    <2> HIDE DEF t
    <2>3. MediumOp(s) \in LoadSettings
      BY <2>1, <2>2 DEF LoadSettings
    <2>4. Follows(MediumOp(s))
      BY <1>2, <2>1, <2>2 DEF LoadSettings, Follows
    <2> QED
      BY <2>3, <2>4
  <1> QED
    BY <1>1, <1>2 DEF LoadSettings

LEMMA HighOpFollows ==
  ASSUME TypeOK, NEW s \in LoadSettings
  PROVE  HighOp(s) \in LoadSettings /\ Follows(HighOp(s))
  <1> DEFINE level == CASE s.high = 0 -> "high"
                        [] s.high = 1 /\ s.medium = 1 -> "medium"
                        [] OTHER -> "low"
             t == SetTo(s, level)
  <1>1. level \in {"low", "medium", "high"}
    OBVIOUS
  <1>2. t \in LoadSettings /\ t.level = level /\ t.medium = s.medium /\ t.high = s.high
    BY <1>1, SetToType
  <1>3. HighOp(s) = [t EXCEPT !.high = 1 - @]
    BY DEF HighOp
  <1> HIDE DEF t
  <1>4. HighOp(s) \in LoadSettings
    BY <1>2, <1>3 DEF LoadSettings
  <1>5. Follows(HighOp(s))
    BY <1>2, <1>3 DEF LoadSettings, Follows
  <1> QED
    BY <1>4, <1>5

(* Every variable keeps its type: the idle count stays within its limit.    *)
THEOREM TypeCorrect == Spec => []Typed
  <1>1. Init => Typed
    <2> SUFFICES ASSUME Init PROVE Typed
      OBVIOUS
    <2>1. tmr \in [TimerIds -> {"off", "on", "settings"}]
      BY DEF Init
    <2>2. ops \in [level : Levels, batch : Nat, medium : {0, 1}, high : {0, 1}]
      BY DEF Init, Levels
    <2>3. bulk \in [Threads -> 0 .. Loops] /\ commands \in 0 .. MaxCommands
          /\ rxIdle \in 0 .. IdleLimit + 1 /\ rxIdle <= IdleLimit
      BY NumbersAssumption DEF Init
    <2>4. job \in {"none", "load", "frame"}
      BY DEF Init
    <2> QED
      BY <2>1, <2>2, <2>3, <2>4 DEF Init, Typed, TypeOK, RxBound
  <1>2. Typed /\ [Next]_vars => Typed'
    <2> SUFFICES ASSUME Typed, [Next]_vars PROVE Typed'
      OBVIOUS
    <2> USE DEF Typed, TypeOK, RxBound, task, idle, orders, load, peer, hist
    <2>1. CASE FrameWritten
      BY <2>1 DEF FrameWritten, TcpWrite
    <2>2. CASE LoadRound
      BY <2>2 DEF LoadRound, InLoop, TcpWrite, Counted
    <2>3. CASE LoadCrash
      BY <2>3 DEF LoadCrash
    <2>4. CASE LoadEnds
      BY <2>4 DEF LoadEnds, MoreLoad, Arm
    <2>5. CASE Stop
      BY <2>5 DEF Stop
    <2>6. CASE IdleTimer
      BY <2>6, NumbersAssumption DEF IdleTimer, TooIdle, MoreIdle, Ready
    <2>7. CASE RandomTimer
      <3>1. ops.batch \in Nat /\ ops.batch \div 20 \in Nat /\ ops.batch - (ops.batch \div 20) \in Nat
        <4>1. ops.batch \in Nat
          OBVIOUS
        <4> QED
          BY <4>1
      <3>2. PICK b \in Nat : ops' = [ops EXCEPT !.batch = b]
        BY <2>7, <3>1 DEF RandomTimer
      <3>3. ops' \in [level : Levels, batch : Nat, medium : {0, 1}, high : {0, 1}]
        BY <3>2
      <3>4. UNCHANGED <<task, connected, idle, orders, given, bulk, commands, peer, hist>>
        BY <2>7 DEF RandomTimer
      <3> QED
        BY <3>3, <3>4
    <2> DEFINE Set(s) == s \in LoadSettings /\ \E ids \in SUBSET TimerIds : Settings(s, ids)
    <2>8. ASSUME NEW s, Set(s) PROVE Typed'
      BY <2>8 DEF Settings, Arm, LoadSettings
    <2>9. ops \in LoadSettings
      BY DEF LoadSettings
    <2>10. CASE LowTimer
      <3>1. HighOp(MediumOp(LowOp(ops))) \in LoadSettings
        BY <2>9, LowOpFollows, MediumOpFollows, HighOpFollows
      <3> QED
        BY <2>8, <2>10, <3>1 DEF LowTimer, TimerIds
    <2>11. CASE MediumTimer
      <3>1. HighOp(MediumOp(ops)) \in LoadSettings
        BY <2>9, MediumOpFollows, HighOpFollows
      <3> QED
        BY <2>8, <2>11, <3>1 DEF MediumTimer, TimerIds
    <2>12. CASE HighTimer
      BY <2>8, <2>9, <2>12, HighOpFollows DEF HighTimer, TimerIds
    <2>13. CASE SettingsTimer
      <3>1. HighOp(MediumOp(LowOp(ops))) \in LoadSettings
        BY <2>9, LowOpFollows, MediumOpFollows, HighOpFollows
      <3>2. CASE Settings(HighOp(MediumOp(LowOp(ops))), {"low", "medium", "high"})
        BY <2>8, <3>1, <3>2 DEF TimerIds
      <3>3. CASE ~Settings(HighOp(MediumOp(LowOp(ops))), {"low", "medium", "high"})
        BY <2>13, <3>3 DEF SettingsTimer
      <3> QED
        BY <3>2, <3>3
    <2>14. CASE LoadTimer
      <3>1. tmr' \in [TimerIds -> {"off", "on", "settings"}]
        BY <2>14 DEF LoadTimer
      <3>2. job' = "load" /\ count' = 0
            /\ UNCHANGED <<running, connected, idle, orders, load, bulk, commands, peer, hist>>
        BY <2>14 DEF LoadTimer
      <3> QED
        BY <3>1, <3>2
    <2>15. CASE TcpRead
      <3>1. rxIdle' \in 0 .. IdleLimit + 1 /\ rxIdle' <= rxIdle
        BY <2>15, NumbersAssumption DEF TcpRead, Answered
      <3>2. tags' \subseteq Nat /\ pending' \subseteq Nat
        BY <2>15 DEF TcpRead, Answered
      <3>3. running' \in {running, "stopping"}
        BY <2>15 DEF TcpRead, Answered
      <3>4. UNCHANGED <<job, count, tmr, connected, txIdle, toSend, tag, load, bulk, commands,
                        gateway, hist>>
        BY <2>15 DEF TcpRead, Answered
      <3>5. running' = "up" => rxIdle' <= IdleLimit
        BY <3>1, <3>3, NumbersAssumption
      <3> QED
        BY <3>1, <3>2, <3>3, <3>4, <3>5
    <2>16. ASSUME NEW n \in ToSend, NEW first \in FirstTags, NEW on \in SUBSET {"low", "medium", "high"},
                  NewOrder(n, first, on)
           PROVE  Typed'
      <3>1. ops' \in [level : Levels, batch : Nat, medium : {0, 1}, high : {0, 1}]
        BY <2>16, NumbersAssumption DEF NewOrder, Levels
      <3> QED
        BY <2>16, <3>1, NumbersAssumption DEF NewOrder, Arm, Command
    <2>17. CASE Request
      BY <2>17, NumbersAssumption DEF Request, Command
    <2>18. CASE CheckSet
      BY <2>18, NumbersAssumption DEF CheckSet, Command
    <2>19. CASE Quit
      BY <2>19, NumbersAssumption DEF Quit, Command
    <2>20. CASE Latency
      BY <2>20, NumbersAssumption DEF Latency, Command
    <2>21. ASSUME NEW t \in Threads, Bulk(t) PROVE Typed'
      BY <2>21, NumbersAssumption DEF Bulk, Command
    <2>22. ASSUME NEW t \in Threads, BulkWrite(t) PROVE Typed'
      <3>1. bulk' \in [Threads -> 0 .. Loops]
        BY <2>22, NumbersAssumption DEF BulkWrite
      <3> QED
        BY <2>22, <3>1 DEF BulkWrite, TcpWrite
    <2>23. ASSUME NEW g \in {"talking", "silent", "stalled", "gone"}, Gateway(g) PROVE Typed'
      BY <2>23 DEF Gateway
    <2>24. CASE UNCHANGED vars
      BY <2>24 DEF vars
    <2> QED
      BY <2>1, <2>2, <2>3, <2>4, <2>5, <2>6, <2>7, <2>10, <2>11, <2>12, <2>13, <2>14, <2>15,
         <2>16, <2>17, <2>18, <2>19, <2>20, <2>21, <2>22, <2>23, <2>24 DEF Next, Handler
  <1> QED
    BY <1>1, <1>2, PTL DEF Spec

-----------------------------------------------------------------------------
(* Every order asked for is written once or still to be sent, and the tags  *)
(* remembered are those not answered: the loop, the answers and the failed  *)
(* writes never lose count of one, over any number of tests.                *)
THEOREM OrdersAccountedFor == Spec => []OrdersAccounted
  <1>1. Init => OrdersAccounted
    BY DEF Init, OrdersAccounted
  <1>2. Typed /\ OrdersAccounted /\ [Next]_vars => OrdersAccounted'
    <2> SUFFICES ASSUME Typed, OrdersAccounted, [Next]_vars PROVE OrdersAccounted'
      OBVIOUS
    <2> USE DEF OrdersAccounted, task, idle, orders, load, peer, hist
    <2>1. CASE FrameWritten
      BY <2>1 DEF FrameWritten, TcpWrite
    <2>2. CASE LoadRound
      <3> SUFFICES ASSUME ~failed', ~reused'
                   PROVE  asked' = toSend' + sent' /\ (~cleared' => tags' = pending')
        OBVIOUS
      <3>1. ~failed /\ ~reused /\ tag \notin tags /\ Accepts
        BY <2>2 DEF LoadRound, TcpWrite
      <3>2. /\ toSend > 0 /\ toSend' = toSend - 1 /\ sent' = sent + 1 /\ UNCHANGED <<asked, cleared>>
            /\ tags' = tags \cup {tag} /\ pending' = pending \cup {tag}
        BY <2>2, <3>1 DEF LoadRound, InLoop, Counted
      <3>3. toSend \in Nat /\ sent \in Nat
        BY DEF Typed, TypeOK
      <3> QED
        BY <3>1, <3>2, <3>3
    <2>3. CASE LoadCrash
      BY <2>3 DEF LoadCrash
    <2>4. CASE LoadEnds
      BY <2>4 DEF LoadEnds
    <2>5. CASE Stop
      BY <2>5 DEF Stop
    <2>6. CASE IdleTimer
      BY <2>6 DEF IdleTimer
    <2>7. CASE RandomTimer
      BY <2>7 DEF RandomTimer
    <2>8. CASE LowTimer \/ MediumTimer \/ HighTimer \/ SettingsTimer
      BY <2>8 DEF LowTimer, MediumTimer, HighTimer, SettingsTimer, Settings
    <2>9. CASE LoadTimer
      BY <2>9 DEF LoadTimer
    <2>10. CASE TcpRead
      BY <2>10 DEF TcpRead, Answered
    <2>11. ASSUME NEW n \in ToSend, NEW first \in FirstTags, NEW on \in SUBSET {"low", "medium", "high"},
                  NewOrder(n, first, on)
           PROVE  OrdersAccounted'
      BY <2>11, NumbersAssumption DEF NewOrder
    <2>12. CASE Request \/ CheckSet \/ Quit \/ Latency
      BY <2>12 DEF Request, CheckSet, Quit, Latency
    <2>13. ASSUME NEW t \in Threads, Bulk(t) \/ BulkWrite(t) PROVE OrdersAccounted'
      BY <2>13 DEF Bulk, BulkWrite, TcpWrite
    <2>14. ASSUME NEW g \in {"talking", "silent", "stalled", "gone"}, Gateway(g) PROVE OrdersAccounted'
      BY <2>14 DEF Gateway
    <2>15. CASE UNCHANGED vars
      BY <2>15 DEF vars
    <2> QED
      BY <2>1, <2>2, <2>3, <2>4, <2>5, <2>6, <2>7, <2>8, <2>9, <2>10, <2>11, <2>12, <2>13, <2>14,
         <2>15 DEF Next, Handler
  <1> QED
    BY <1>1, <1>2, TypeCorrect, PTL DEF Spec

-----------------------------------------------------------------------------
(* The batch size is that of the highest phase under way, although an event *)
(* of a timer is handled as the events of those after it as well, until a   *)
(* new test starts within a phase.                                          *)
THEOREM LevelFollows == Spec => []LevelFollowsTimers
  <1>0. LevelFollowsTimers <=> (~restarted => Follows(ops))
    BY DEF LevelFollowsTimers, Follows
  <1>1. Init => LevelFollowsTimers
    BY DEF Init, LevelFollowsTimers
  <1>2. Typed /\ LevelFollowsTimers /\ [Next]_vars => LevelFollowsTimers'
    <2> SUFFICES ASSUME Typed, LevelFollowsTimers, [Next]_vars, ~restarted' PROVE Follows(ops')
      BY DEF LevelFollowsTimers, Follows
    <2>0. TypeOK /\ ops \in LoadSettings
      BY DEF Typed, TypeOK, LoadSettings
    <2>1. CASE UNCHANGED <<ops, restarted>>
      BY <1>0, <2>1
    <2>2. CASE RandomTimer
      <3>1. PICK b : ops' = [ops EXCEPT !.batch = b]
        BY <2>2 DEF RandomTimer
      <3>2. ops'.level = ops.level /\ ops'.medium = ops.medium /\ ops'.high = ops.high
        BY <2>0, <3>1 DEF LoadSettings
      <3>3. Follows(ops)
        BY <1>0, <2>2 DEF RandomTimer, hist
      <3> QED
        BY <3>2, <3>3 DEF Follows
    <2>3. CASE LowTimer
      BY <2>0, <2>3, LowOpFollows, MediumOpFollows, HighOpFollows DEF LowTimer, Settings
    <2>4. CASE MediumTimer
      BY <2>0, <2>4, MediumOpFollows, HighOpFollows DEF MediumTimer, Settings
    <2>5. CASE HighTimer
      BY <2>0, <2>5, HighOpFollows DEF HighTimer, Settings
    <2>6. CASE SettingsTimer
      <3>1. CASE ops' = HighOp(MediumOp(LowOp(ops)))
        BY <2>0, <3>1, LowOpFollows, MediumOpFollows, HighOpFollows
      <3> QED
        BY <2>1, <2>6, <3>1 DEF SettingsTimer, Settings, load, hist
    <2>7. ASSUME NEW n \in ToSend, NEW first \in FirstTags, NEW on \in SUBSET {"low", "medium", "high"},
                 NewOrder(n, first, on)
          PROVE  Follows(ops')
      <3>1. ops.medium = 0 /\ ops.high = 0
        BY <2>0, <2>7 DEF NewOrder, LoadSettings
      <3>2. ops'.level = "given" /\ ops'.medium = ops.medium /\ ops'.high = ops.high
        BY <2>0, <2>7 DEF NewOrder, LoadSettings
      <3> QED
        BY <3>1, <3>2 DEF Follows
    <2>8. CASE Handler
      BY <2>1, <2>8 DEF Handler, FrameWritten, LoadRound, LoadCrash, LoadEnds, Stop, load, hist
    <2>9. CASE IdleTimer \/ LoadTimer \/ TcpRead \/ Request \/ CheckSet \/ Quit \/ Latency
      BY <2>1, <2>9 DEF IdleTimer, LoadTimer, TcpRead, Answered, Request, CheckSet, Quit, Latency, load, hist
    <2>10. ASSUME NEW t \in Threads, Bulk(t) \/ BulkWrite(t) PROVE Follows(ops')
      BY <2>1, <2>10 DEF Bulk, BulkWrite, load, hist
    <2>11. ASSUME NEW g \in {"talking", "silent", "stalled", "gone"}, Gateway(g) PROVE Follows(ops')
      BY <2>1, <2>11 DEF Gateway, load, hist
    <2>12. CASE UNCHANGED vars
      BY <2>1, <2>12 DEF vars, load, hist
    <2> QED
      BY <2>2, <2>3, <2>4, <2>5, <2>6, <2>7, <2>8, <2>9, <2>10, <2>11, <2>12 DEF Next
  <1> QED
    BY <1>1, <1>2, TypeCorrect, PTL DEF Spec

-----------------------------------------------------------------------------
(* A test with orders left is never stranded: as long as the client is up,  *)
(* its timer runs or its loop does, whatever else the task handles.         *)
THEOREM LoadGoesOnAlways == Spec => []LoadGoesOn
  <1>1. Init => LoadGoesOn
    BY DEF Init, LoadGoesOn
  <1>2. Typed /\ LoadGoesOn /\ [Next]_vars => LoadGoesOn'
    <2> SUFFICES ASSUME Typed, LoadGoesOn, [Next]_vars PROVE LoadGoesOn'
      OBVIOUS
    <2> USE DEF LoadGoesOn, task, orders, Ready
    <2>1. CASE FrameWritten
      BY <2>1 DEF FrameWritten, TcpWrite
    <2>2. CASE LoadRound
      BY <2>2 DEF LoadRound, InLoop
    <2>3. CASE LoadCrash
      BY <2>3 DEF LoadCrash
    <2>4. CASE LoadEnds
      BY <2>4 DEF LoadEnds, MoreLoad, Arm, TimerIds
    <2>5. CASE Stop
      BY <2>5 DEF Stop
    <2>6. CASE IdleTimer
      BY <2>6 DEF IdleTimer
    <2>7. CASE RandomTimer
      BY <2>7 DEF RandomTimer
    <2>8. ASSUME NEW s, NEW ids, Ready, Settings(s, ids) PROVE LoadGoesOn'
      BY <2>8 DEF Settings, Arm, TimerIds
    <2>9. CASE LowTimer \/ MediumTimer \/ HighTimer
      BY <2>8, <2>9 DEF LowTimer, MediumTimer, HighTimer
    <2>10. CASE SettingsTimer
      <3>1. CASE running' = "crashed"
        BY <3>1
      <3> QED
        BY <2>8, <2>10, <3>1 DEF SettingsTimer
    <2>11. CASE LoadTimer
      BY <2>11 DEF LoadTimer
    <2>12. CASE TcpRead
      BY <2>12 DEF TcpRead, Answered
    <2>13. ASSUME NEW n \in ToSend, NEW first \in FirstTags, NEW on \in SUBSET {"low", "medium", "high"},
                  NewOrder(n, first, on)
           PROVE  LoadGoesOn'
      BY <2>13 DEF NewOrder, Arm, TimerIds
    <2>14. CASE Request
      BY <2>14 DEF Request, Command
    <2>15. CASE CheckSet \/ Quit \/ Latency
      BY <2>15 DEF CheckSet, Quit, Latency, Command
    <2>16. ASSUME NEW t \in Threads, Bulk(t) \/ BulkWrite(t) PROVE LoadGoesOn'
      BY <2>16 DEF Bulk, BulkWrite, TcpWrite
    <2>17. ASSUME NEW g \in {"talking", "silent", "stalled", "gone"}, Gateway(g) PROVE LoadGoesOn'
      BY <2>17 DEF Gateway
    <2>18. CASE UNCHANGED vars
      BY <2>18 DEF vars
    <2> QED
      BY <2>1, <2>2, <2>3, <2>4, <2>5, <2>6, <2>7, <2>9, <2>10, <2>11, <2>12, <2>13, <2>14,
         <2>15, <2>16, <2>17, <2>18 DEF Next, Handler
  <1> QED
    BY <1>1, <1>2, TypeCorrect, PTL DEF Spec
=============================================================================
