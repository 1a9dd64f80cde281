--------------------------- MODULE LoadTestClient ---------------------------
(***************************************************************************)
(* src/binary_gateway_load_test_client.cpp: the event task, which handles  *)
(* one event at a time (timers, bytes from the gateway, console lines that *)
(* the main thread sends it), and the threads that a bulk command starts   *)
(* and detaches.                                                           *)
(*                                                                         *)
(* The event engine is not in the repository.  It is taken to start a timer*)
(* that ev_tmr_add() names and to deliver its event once, or again and     *)
(* again, as the type says; ev_terminate() returns E_ev_no_error and ends  *)
(* ev_run() after the handler under way.  Time is left out: a timer that   *)
(* runs may expire.  What a console command says is in its parameters.     *)
(***************************************************************************)
EXTENDS Naturals, FiniteSets

CONSTANTS IdleLimit,          (* 6                                           *)
          Interval,           (* TmrIntervalMsecs, as N gives it             *)
          Given, LowOps, MediumOps, HighOps,    (* its NumberInBatch, ...    *)
          ToSend,             (* set: its NumberToSend                       *)
          FirstTags,          (* set: its UserTag                            *)
          MaxTag,             (* bound: tags used                            *)
          MaxBatch,           (* bound: m_NumberInBatch                      *)
          MaxCommands,        (* bound: console commands                     *)
          Threads, Loops      (* bulk threads, orders each sends             *)

ASSUME IntervalAssumption == Interval \in Nat \ {0}
ASSUME NumbersAssumption  == /\ {IdleLimit, Given, LowOps, MediumOps, HighOps} \subseteq Nat
                             /\ {MaxTag, MaxBatch, MaxCommands, Loops} \subseteq Nat
                             /\ ToSend \subseteq Nat /\ FirstTags \subseteq Nat
                             /\ Given <= MaxBatch

VARIABLES running,          (* the task: up, stopping after ev_terminate(),  *)
                            (* down, or crashed                              *)
          job,              (* its handler: none, load (the loop of          *)
                            (* process_load_tmr()), or frame (a tcp_write()) *)
          count,            (* count of that loop                            *)
          tmr,              (* the event each timer id will deliver, or off  *)
          connected,        (* m_tcp_connected                               *)
          rxIdle, txIdle,   (* m_tcp_rx_idle_count, m_tcp_tx_idle_count      *)
          toSend, tag, tags,(* m_NumberToSend, m_UserTag, m_user_tags        *)
          ops,              (* m_NumberInBatch, and the timer states of      *)
                            (* objLoadSettings                               *)
          given,            (* N was given: before, its settings are not set *)
          bulk,             (* orders each bulk thread has still to send     *)
          commands,         (* console commands so far                       *)
          (* the gateway: it talks, is silent, takes no bytes, or is gone    *)
          gateway,
          pending,          (* tags of orders it has still to answer         *)
          (* history, read by properties only *)
          asked, sent,      (* orders of this test: asked for, written       *)
          failed,           (* a tcp_write() failed                          *)
          reused,           (* an order had a tag of m_user_tags             *)
          cleared,          (* check_set() cleared m_user_tags               *)
          restarted         (* N came in a medium or high phase              *)

task    == <<running, job, count, tmr>>
idle    == <<rxIdle, txIdle>>
orders  == <<toSend, tag, tags>>
load    == <<ops, given>>
peer    == <<gateway, pending>>
hist    == <<asked, sent, failed, reused, cleared, restarted>>
vars    == <<task, connected, idle, orders, load, bulk, commands, peer, hist>>

TimerIds == {"tmr_idle", "tmr_random_no_timer", "tmr_load", "low", "medium", "high"}
Levels   == {"given", "low", "medium", "high"}

TypeOK ==
  /\ running \in {"up", "stopping", "down", "crashed"}
  /\ job \in {"none", "load", "frame"} /\ count \in Nat
  /\ tmr \in [TimerIds -> {"off", "on", "settings"}]
  /\ connected \in BOOLEAN /\ rxIdle \in 0 .. IdleLimit + 1 /\ txIdle \in Nat
  /\ toSend \in Nat /\ tag \in Nat /\ tags \subseteq Nat
  /\ ops \in [level : Levels, batch : Nat, medium : {0, 1}, high : {0, 1}]
  /\ given \in BOOLEAN /\ bulk \in [Threads -> 0 .. Loops] /\ commands \in 0 .. MaxCommands
  /\ gateway \in {"talking", "silent", "stalled", "gone"} /\ pending \subseteq Nat
  /\ asked \in Nat /\ sent \in Nat
  /\ failed \in BOOLEAN /\ reused \in BOOLEAN /\ cleared \in BOOLEAN /\ restarted \in BOOLEAN

(* initialise_task(); the batch size is not set.  tmr_idle is added twice:  *)
(* the second timer is refused or takes the place of the first.  A connect()*)
(* that fails leaves m_con null.                                            *)
Init ==
  /\ running = "up" /\ count = 0 /\ connected \in BOOLEAN
  /\ job = IF connected THEN "frame" ELSE "none"      (* the logon request  *)
  /\ \E kept \in {"on", "settings"} :
       tmr = [i \in TimerIds |-> CASE i = "tmr_idle" -> kept
                                   [] i = "tmr_random_no_timer" -> "on"
                                   [] OTHER -> "off"]
  /\ rxIdle = 0 /\ txIdle = 0
  /\ toSend = 0 /\ tag = 0 /\ tags = {}
  /\ ops = [level |-> "given", batch |-> 0, medium |-> 0, high |-> 0] /\ given = FALSE
  /\ bulk = [t \in Threads |-> 0] /\ commands = 0
  /\ gateway = "talking" /\ pending = {}
  /\ asked = 0 /\ sent = 0
  /\ failed = FALSE /\ reused = FALSE /\ cleared = FALSE /\ restarted = FALSE

-----------------------------------------------------------------------------
Ready   == running = "up" /\ job = "none"    (* the task waits for an event *)
Accepts == gateway \in {"talking", "silent"}

(* A tcp_write() that ends: the gateway takes the frame, or is gone.        *)
TcpWrite ==
  /\ gateway # "stalled"
  /\ txIdle' = IF Accepts THEN 0 ELSE txIdle
  /\ running' = IF Accepts THEN running ELSE IF running = "up" THEN "stopping" ELSE running
  /\ failed' = (failed \/ ~Accepts)

(* The rest of send_heartbeat(), process_a_logon() and of the requests.     *)
FrameWritten ==
  /\ job = "frame" /\ running # "crashed" /\ TcpWrite /\ job' = "none"
  /\ UNCHANGED <<count, tmr, connected, rxIdle, orders, load, bulk, commands, peer,
                 asked, sent, reused, cleared, restarted>>

(* ev_run() returns.                                                        *)
Stop ==
  /\ running = "stopping" /\ job = "none" /\ running' = "down"
  /\ UNCHANGED <<job, count, tmr, connected, idle, orders, load, bulk, commands, peer, hist>>

-----------------------------------------------------------------------------
(* process_idle_tmr(), without its flush of the log                         *)
NotCounted == rxIdle                           (* variant                   *)
MoreIdle   == rxIdle + 1
TooIdle    == MoreIdle > IdleLimit
IdleTimer ==
  /\ Ready /\ tmr["tmr_idle"] = "on"
  /\ \/ ~connected /\ UNCHANGED <<running, job, idle>>
     \/ /\ connected /\ rxIdle' = MoreIdle
        /\ \/ TooIdle /\ running' = "stopping" /\ UNCHANGED <<job, txIdle>>
           \/ ~TooIdle /\ txIdle' = txIdle + 1 /\ job' = "frame" /\ UNCHANGED running
  /\ UNCHANGED <<count, tmr, connected, orders, load, bulk, commands, peer, hist>>

(* process_random_no(): a twentieth more or less                            *)
RandomTimer ==
  /\ Ready /\ tmr["tmr_random_no_timer"] = "on"
  /\ LET part == ops.batch \div 20 IN
     \E b \in {ops.batch - part, ops.batch + part} :
       b <= MaxBatch /\ ops' = [ops EXCEPT !.batch = b]
  /\ UNCHANGED <<task, connected, idle, orders, given, bulk, commands, peer, hist>>

(* process_load_settings_tmr().  m_nLowTimerState is 0 between two events:  *)
(* each event of the low timer starts a phase.                              *)
Ops == [low |-> LowOps, medium |-> MediumOps, high |-> HighOps]
Number(level) == (Ops[level] * 1000) \div Interval
SetTo(s, level) == [s EXCEPT !.level = level, !.batch = IF given THEN Number(level) ELSE 0]

LowOp(s) == IF s.medium = 0 /\ s.high = 0 THEN SetTo(s, "low") ELSE s
MediumOp(s) ==
  LET t == IF s.high = 1 THEN s ELSE SetTo(s, IF s.medium = 0 THEN "medium" ELSE "low")
  IN [t EXCEPT !.medium = 1 - @]
HighEndsLow(s) ==    (* variant: the end of a high phase forgets the medium one *)
  [SetTo(s, IF s.high = 0 THEN "high" ELSE "low") EXCEPT !.high = 1 - @]
HighOp(s) ==
  [SetTo(s, CASE s.high = 0 -> "high"
              [] s.high = 1 /\ s.medium = 1 -> "medium"
              [] OTHER -> "low") EXCEPT !.high = 1 - @]

Arm(ids) == tmr' = [i \in TimerIds |-> IF i \in ids THEN "on" ELSE tmr[i]]
Settings(s, ids) ==
  /\ ops' = s /\ Arm(ids)
  /\ UNCHANGED <<running, job, count, connected, idle, orders, given, bulk, commands, peer, hist>>

(* The cases of fsm_initialise() fall through: an event is handled as each  *)
(* of those after it as well, and their timers start again.                 *)
LowTimer    == /\ Ready /\ tmr["low"] = "on"
               /\ Settings(HighOp(MediumOp(LowOp(ops))), {"low", "medium", "high"})
MediumTimer == /\ Ready /\ tmr["medium"] = "on"
               /\ Settings(HighOp(MediumOp(ops)), {"medium", "high"})
HighTimer   == Ready /\ tmr["high"] = "on" /\ Settings(HighOp(ops), {"high"})

(* ev_load_settings_timer, if its timer took the place of the idle timer.   *)
(* Before N the divisor m_TmrIntervalMsecs is not set, and may be 0.        *)
SettingsTimer ==
  /\ Ready /\ tmr["tmr_idle"] = "settings"
  /\ \/ Settings(HighOp(MediumOp(LowOp(ops))), {"low", "medium", "high"})
     \/ /\ ~given /\ running' = "crashed"
        /\ UNCHANGED <<job, count, tmr, connected, idle, orders, load, bulk, commands, peer, hist>>

-----------------------------------------------------------------------------
(* process_load_tmr(): the timer, a round of its loop, and its end          *)
LoadTimer ==
  /\ Ready /\ tmr["tmr_load"] = "on"
  /\ tmr' = [tmr EXCEPT !["tmr_load"] = "off"] /\ job' = "load" /\ count' = 0
  /\ UNCHANGED <<running, connected, idle, orders, load, bulk, commands, peer, hist>>

InLoop == job = "load" /\ running # "crashed" /\ count < ops.batch /\ toSend > 0

(* An order whose tag is in m_user_tags is written and counted nowhere.     *)
CountedTwice ==    (* variant: toSend is taken down twice an order *)
  /\ tags' = tags \cup {tag}
  /\ IF tag \in tags THEN UNCHANGED <<toSend, tag, count>>
     ELSE toSend' = (IF toSend = 1 THEN 0 ELSE toSend - 2) /\ tag' = tag + 1 /\ count' = count + 1
Counted ==
  /\ tags' = tags \cup {tag}
  /\ IF tag \in tags THEN UNCHANGED <<toSend, tag, count>>
     ELSE toSend' = toSend - 1 /\ tag' = tag + 1 /\ count' = count + 1

LoadRound ==
  /\ InLoop /\ connected
  /\ tag < MaxTag /\ (reused => tag \notin tags)    (* bounds: tags, resends *)
  /\ TcpWrite /\ Counted
  /\ pending' = IF Accepts THEN pending \cup {tag} ELSE pending
  /\ sent' = IF Accepts THEN sent + 1 ELSE sent
  /\ reused' = (reused \/ tag \in tags)
  /\ UNCHANGED <<job, tmr, connected, rxIdle, load, bulk, commands, gateway,
                 asked, cleared, restarted>>

(* m_con is null                                                            *)
LoadCrash ==
  /\ InLoop /\ ~connected /\ running' = "crashed"
  /\ UNCHANGED <<job, count, tmr, connected, idle, orders, load, bulk, commands, peer, hist>>

NoMoreLoad == tmr' = tmr                       (* variant: no timer again    *)
MoreLoad   == Arm(IF toSend > 0 THEN {"tmr_load"} ELSE {})
LoadEnds ==
  /\ job = "load" /\ running # "crashed" /\ ~InLoop /\ job' = "none" /\ MoreLoad
  /\ UNCHANGED <<running, count, connected, idle, orders, load, bulk, commands, peer, hist>>

-----------------------------------------------------------------------------
(* The handlers of messages: that of the answer to an order takes its tag   *)
(* out of the set, and the others only log what they are given.             *)
Answered ==
  \/ UNCHANGED <<tags, pending>>
  \/ \E p \in pending : pending' = pending \ {p} /\ tags' = tags \ {p}

(* tcp_read(): a frame, or an error                                         *)
TcpRead ==
  /\ Ready /\ connected
  /\ \/ gateway = "talking" /\ rxIdle' = 0 /\ Answered /\ UNCHANGED running
     \/ /\ gateway \in {"talking", "gone"} /\ running' = "stopping"
        /\ UNCHANGED <<rxIdle, tags, pending>>
  /\ UNCHANGED <<job, count, tmr, connected, txIdle, toSend, tag, load, bulk, commands,
                 gateway, hist>>

Command == Ready /\ commands < MaxCommands /\ commands' = commands + 1

(* N, process_a_new_order().  on holds the timers whose interval is not 0,  *)
(* none without UseSOP; the high one is started by the medium interval.     *)
StartedTimers(on) == (on \cap {"low", "medium"}) \cup (IF "medium" \in on THEN {"high"} ELSE {})
NewOrder(n, first, on) ==
  /\ Command
  /\ toSend' = n /\ tag' = first /\ given' = TRUE
  /\ ops' = [ops EXCEPT !.level = "given", !.batch = Given]
  /\ Arm(StartedTimers(on) \cup {"tmr_load"})
  /\ asked' = n /\ sent' = 0 /\ restarted' = (restarted \/ ops.medium = 1 \/ ops.high = 1)
  /\ UNCHANGED <<running, job, count, connected, idle, tags, bulk, peer,
                 failed, reused, cleared>>

(* L, M, C, A, W, F: one frame is written; R writes none                    *)
Request ==
  /\ Command
  /\ IF connected THEN job' = "frame" /\ UNCHANGED running
     ELSE running' = "crashed" /\ UNCHANGED job
  /\ UNCHANGED <<count, tmr, connected, idle, orders, load, bulk, peer, hist>>

(* V, check_set()                                                           *)
CheckSet ==
  /\ Command /\ tags' = {} /\ cleared' = TRUE
  /\ UNCHANGED <<task, connected, idle, toSend, tag, load, bulk, peer,
                 asked, sent, failed, reused, restarted>>

(* Q                                                                        *)
Quit ==
  /\ Command /\ running' = "stopping"
  /\ UNCHANGED <<job, count, tmr, connected, idle, orders, load, bulk, peer, hist>>

(* Y, do_latency(): the average of the histogram x, to which nothing is ever*)
(* added, divides by its count of 0, unless its file cannot be opened.      *)
Latency ==
  /\ Command /\ running' \in {running, "crashed"}
  /\ UNCHANGED <<job, count, tmr, connected, idle, orders, load, bulk, peer, hist>>

(* B, process_a_new_order_bulk(), and a round of write_bulk_new_orders(),   *)
(* which goes on when a write has failed and when the task has ended.       *)
Bulk(t) ==
  /\ Command /\ bulk[t] = 0 /\ bulk' = [bulk EXCEPT ![t] = Loops]
  /\ UNCHANGED <<task, connected, idle, orders, load, peer, hist>>
BulkWrite(t) ==
  /\ bulk[t] > 0 /\ running # "crashed"
  /\ bulk' = [bulk EXCEPT ![t] = @ - 1]
  /\ IF connected THEN TcpWrite
     ELSE running' = "crashed" /\ UNCHANGED <<txIdle, failed>>
  /\ UNCHANGED <<job, count, tmr, connected, rxIdle, orders, load, commands, peer,
                 asked, sent, reused, cleared, restarted>>

Gateway(g) ==
  /\ connected /\ gateway # "gone" /\ gateway' = g
  /\ UNCHANGED <<task, connected, idle, orders, load, bulk, commands, pending, hist>>

-----------------------------------------------------------------------------
Handler == FrameWritten \/ LoadRound \/ LoadCrash \/ LoadEnds \/ Stop
Next ==
  \/ Handler \/ IdleTimer \/ RandomTimer \/ LowTimer \/ MediumTimer \/ HighTimer
  \/ SettingsTimer \/ LoadTimer \/ TcpRead
  \/ \E n \in ToSend, first \in FirstTags, on \in SUBSET {"low", "medium", "high"} :
       NewOrder(n, first, on)
  \/ Request \/ CheckSet \/ Quit \/ Latency
  \/ \E t \in Threads : Bulk(t) \/ BulkWrite(t)
  \/ \E g \in {"talking", "silent", "stalled", "gone"} : Gateway(g)

(* A handler goes on; the engine delivers an event whose timer is due, in   *)
(* the order they became due, although others come all the time.            *)
Fairness == WF_vars(Handler) /\ SF_vars(IdleTimer) /\ SF_vars(LoadTimer)
Spec == Init /\ [][Next]_vars /\ Fairness

-----------------------------------------------------------------------------
(* Every order asked for is either still to send or was written once, and   *)
(* m_user_tags holds the tags the gateway has yet to answer, over any       *)
(* number of tests and whatever else is sent, as long as the gateway stays  *)
(* and no tag is used twice.  check_set() forgets them.                     *)
OrdersAccounted ==
  ~failed /\ ~reused =>
    /\ asked = toSend + sent
    /\ ~cleared => tags = pending

(* The batch size is the one of the phase the timers are in, high before    *)
(* medium before low, though one event is handled as several.  A second N   *)
(* in a phase sets it anew and leaves the states as they are.               *)
LevelFollowsTimers ==
  ~restarted => ops.level \in CASE ops.high = 1   -> {"high"}
                                [] ops.high = 0 /\ ops.medium = 1 -> {"medium"}
                                [] OTHER -> {"given", "low"}

(* A test that has orders left goes on: its timer runs or its loop does.    *)
LoadGoesOn ==
  running = "up" /\ toSend > 0 => tmr["tmr_load"] = "on" \/ job = "load"

(* A gateway that falls silent for good ends the client, however much the   *)
(* client writes, unless tags were reused: then the loop never ends, and if *)
(* the second timer on tmr_idle took the place of the first.                *)
SilenceDetected ==
  <>[](gateway = "silent") => <>(running # "up" \/ reused \/ tmr["tmr_idle"] # "on")

(* A test completes, unless the client stops, the gateway takes no more or  *)
(* tags are reused.                                                         *)
TestCompletes ==
  (toSend > 0) ~> (toSend = 0 \/ running # "up" \/ reused \/ ~Accepts)
=============================================================================
