---------------------------- MODULE SampleClient ----------------------------
(***************************************************************************)
(* src/sample_test_client_moonx.cpp: main(), which reads command lines and *)
(* sends them to the event task; the event task, which handles one event at*)
(* a time and asks the user for the fields of an order on the same standard*)
(* input; and its connections to the order gateway (OMG) and to the market *)
(* data gateway (MDG).                                                     *)
(*                                                                         *)
(* The event engine is not in the repository.  It is taken to hand an event*)
(* sent to a task over in order and once, and to end ev_run() after the    *)
(* handler that called ev_terminate().  A line is one word; a request is   *)
(* that it is made: its fields are left out.                               *)
(***************************************************************************)
EXTENDS Naturals, Sequences

CONSTANTS IdleLimit,      (* 6                                              *)
          Lines,          (* the lines the user may type                    *)
          Fields,         (* fields that a prompt asks for, 2 to 12         *)
          MaxLines        (* bound: lines typed                             *)

Numbers == {"1", "2", "8", "10", "11"}
AllLines == Numbers \cup {"q", "Q", "?", "y", "n"}
ASSUME LinesAssumption == Lines \subseteq AllLines
ASSUME BoundsAssumption == IdleLimit \in Nat /\ Fields \in Nat \ {0} /\ MaxLines \in Nat

VARIABLES main,           (* main(): reads lines, joins after "q", returned *)
          stdin,          (* a line not yet read, none, or closed           *)
          typed,          (* lines typed so far                             *)
          cinFailed,      (* cin: its failbit, which nothing clears         *)
          running,        (* the task: up, stopping after ev_terminate(),   *)
                          (* down, or the whole program crashed             *)
          job,            (* the handler under way, and where it is         *)
          taskId,         (* m_main_task_id is set                          *)
          queue,          (* console commands sent to the task              *)
          left,           (* fields the prompt has still to ask for         *)
          omg,            (* the connection: failed (m_con is null), open   *)
                          (* and unwatched, read only, or up                *)
          mdg,            (* the one to MDG is watched for reading          *)
          connected,      (* m_tcp_connected                                *)
          rxIdle,         (* m_tcp_rx_idle_count                            *)
          tagged,         (* m_UserTag, which never changes, is in the set  *)
          gateway,        (* OMG: talking, silent, stalled (takes no bytes),*)
                          (* or gone                                        *)
          mdgData,        (* MDG has sent what nobody has read              *)
          (* history, read by properties only *)
          confirmed,      (* the order under way was answered with y        *)
          unconfirmed,    (* an order was written that was not              *)
          lost,           (* the q was sent before the task had its number  *)
          misread         (* a command did not do what the menu says        *)

console == <<main, stdin, typed, cinFailed>>
task    == <<running, job, taskId, queue, left>>
links   == <<omg, mdg, connected, rxIdle, tagged>>
peers   == <<gateway, mdgData>>
hist    == <<confirmed, unconfirmed, lost, misread>>
vars    == <<console, task, links, peers, hist>>

Prompts == {"modify_order"}    (* stands for 2 to 7, which are alike        *)
Jobs  == {"start", "omg", "logon", "mdg", "help", "none", "reading", "prompt",
          "confirm", "request", "frame"}
Links == {"failed", "unwatched", "read", "up"}

TypeOK ==
  /\ main \in {"reads", "joins", "returned"} /\ stdin \in AllLines \cup {"none", "closed"}
  /\ typed \in 0 .. MaxLines /\ cinFailed \in BOOLEAN
  /\ running \in {"up", "stopping", "down", "crashed"} /\ job \in Jobs
  /\ taskId \in BOOLEAN /\ queue \in Seq(AllLines) /\ left \in 0 .. Fields
  /\ omg \in Links /\ mdg \in BOOLEAN /\ connected \in BOOLEAN
  /\ rxIdle \in 0 .. IdleLimit + 1 /\ tagged \in BOOLEAN
  /\ gateway \in {"talking", "silent", "stalled", "gone"} /\ mdgData \in BOOLEAN
  /\ confirmed \in BOOLEAN /\ unconfirmed \in BOOLEAN /\ lost \in BOOLEAN
  /\ misread \in BOOLEAN

Init ==
  /\ main = "reads" /\ stdin = "none" /\ typed = 0 /\ cinFailed = FALSE
  /\ running = "up" /\ job = "start" /\ taskId = FALSE /\ queue = <<>> /\ left = 0
  /\ omg = "failed" /\ mdg = FALSE /\ connected = FALSE
  /\ rxIdle = 0 /\ tagged = FALSE
  /\ gateway = "talking" /\ mdgData = FALSE
  /\ confirmed = FALSE /\ unconfirmed = FALSE /\ lost = FALSE
  /\ misread = FALSE

-----------------------------------------------------------------------------
(* The user types a line, or closes the input.                              *)
Type(line) ==
  /\ running # "crashed" /\ stdin = "none" /\ typed < MaxLines /\ stdin' = line /\ typed' = typed + 1
  /\ UNCHANGED <<main, cinFailed, task, links, peers, hist>>
CloseInput ==
  /\ running # "crashed" /\ stdin = "none" /\ stdin' = "closed"
  /\ UNCHANGED <<main, typed, cinFailed, task, links, peers, hist>>

(* main(): a line, from its start on.  linenoise() returns null when the    *)
(* input is closed, and main() calls it again and again.                    *)
Given == stdin \in AllLines
MainReads ==
  /\ main = "reads" /\ Given /\ running # "crashed"
  /\ stdin' = "none" /\ main' = IF stdin = "q" THEN "joins" ELSE "reads"
  /\ queue' = IF taskId /\ running # "down" THEN Append(queue, stdin) ELSE queue
  /\ lost' = (lost \/ (stdin = "q" /\ ~taskId))
  /\ UNCHANGED <<typed, cinFailed, running, job, taskId, left, links, peers,
                 confirmed, unconfirmed, misread>>
MainReturns ==
  /\ main = "joins" /\ running = "down" /\ main' = "returned"
  /\ UNCHANGED <<stdin, typed, cinFailed, task, links, peers, hist>>

-----------------------------------------------------------------------------
Alive == running \in {"up", "stopping"}
Crash == running' = "crashed" /\ UNCHANGED job

(* A tcp_write() that ends.                                                 *)
Accepts == gateway \in {"talking", "silent"}
TcpWrite ==
  /\ gateway # "stalled"
  /\ running' = IF Accepts THEN running ELSE "stopping"

(* initialise_task(): it sets m_main_task_id, connects to OMG and logs on,  *)
(* connects to MDG, and sends itself "?".                                   *)
Startup ==
  /\ job = "start" /\ taskId' = TRUE /\ job' = "omg"
  /\ UNCHANGED <<console, running, queue, left, links, peers, hist>>
ConnectOmg ==
  /\ job = "omg"
  /\ \E link \in Links :
       /\ omg' = link /\ connected' = (link = "up")
       /\ job' = IF link = "up" THEN "logon" ELSE "mdg"
  /\ UNCHANGED <<console, running, taskId, queue, left, mdg, rxIdle, tagged,
                 peers, hist>>
Logon ==
  /\ job = "logon" /\ TcpWrite /\ job' = "mdg"
  /\ UNCHANGED <<console, taskId, queue, left, omg, mdg, connected, rxIdle, tagged,
                 peers, hist>>

(* The log of a connection to MDG reads the descriptor of m_con.            *)
ConnectMdgSafely(link) ==      (* variant: it reads that of m_mdg_con       *)
  /\ mdg' = (link \in {"read", "up"}) /\ connected' = (connected \/ link = "up")
  /\ job' = "help" /\ UNCHANGED running
ConnectMdgTo(link) ==
  /\ mdg' = (link \in {"read", "up"})
  /\ IF link = "up" /\ omg = "failed" THEN Crash /\ UNCHANGED connected
     ELSE /\ connected' = (connected \/ link = "up")
          /\ job' = "help" /\ UNCHANGED running
ConnectMdg ==
  /\ job = "mdg" /\ Alive /\ \E link \in Links : ConnectMdgTo(link)
  /\ UNCHANGED <<console, taskId, queue, left, omg, rxIdle, tagged, peers, hist>>
Help ==
  /\ job = "help" /\ job' = "none"
  /\ queue' = IF connected THEN Append(queue, "?") ELSE queue
  /\ UNCHANGED <<console, running, taskId, left, links, peers, hist>>

-----------------------------------------------------------------------------
Ready == running = "up" /\ job = "none"     (* the task waits for an event *)

(* process_idle_tmr(), without its flush of the log.  The count of idle     *)
(* ticks without a write is left out: its test is always true.              *)
NotCounted == rxIdle                        (* variant                     *)
MoreIdle   == rxIdle + 1
TooIdle    == MoreIdle > IdleLimit
IdleTimer ==
  /\ Ready
  /\ \/ ~connected /\ UNCHANGED <<running, job, rxIdle>>
     \/ /\ connected /\ rxIdle' = MoreIdle
        /\ \/ TooIdle /\ running' = "stopping" /\ UNCHANGED job
           \/ /\ ~TooIdle
              /\ IF omg = "failed" THEN Crash ELSE job' = "frame" /\ UNCHANGED running
  /\ UNCHANGED <<console, taskId, queue, left, omg, mdg, connected, tagged, peers, hist>>

(* ev_tcp_read is the event of both connections: tcp_read() reads m_con,    *)
(* and waits if only MDG has sent something.                                *)
Readable ==
  \/ omg \in {"read", "up"} /\ gateway \in {"talking", "gone"}
  \/ mdg /\ mdgData
TcpRead ==
  /\ Ready /\ Readable
  /\ IF omg = "failed" THEN Crash ELSE job' = "reading" /\ UNCHANGED running
  /\ UNCHANGED <<console, taskId, queue, left, links, peers, hist>>
(* The handlers of messages log what they are given; that of the answer to  *)
(* a new order also takes its tag out of the set.                           *)
Answered == tagged' \in {tagged, FALSE}
TcpReadEnds ==
  /\ job = "reading" /\ Alive /\ job' = "none"
  /\ \/ /\ gateway = "talking" /\ rxIdle' = 0
        /\ Answered /\ UNCHANGED running
     \/ /\ gateway \in {"talking", "gone"} /\ running' = "stopping"
        /\ UNCHANGED <<rxIdle, tagged>>
  /\ UNCHANGED <<console, taskId, queue, left, omg, mdg, connected, peers, hist>>

(* The rest of send_heartbeat() and of process_a_logoff()                   *)
FrameWritten ==
  /\ job = "frame" /\ Alive /\ TcpWrite /\ job' = "none"
  /\ UNCHANGED <<console, taskId, queue, left, omg, mdg, connected, rxIdle, tagged,
                 peers, hist>>

-----------------------------------------------------------------------------
(* console_read(): the first character of the command alone is compared,    *)
(* first with that of "12".                                                 *)
Deed(command) ==
  CASE command \in {"q", "Q"}        -> "terminate"
    [] command \in {"1", "10", "11"} -> "log_off"
    [] command = "2"                 -> "modify_order"
    [] command = "8"                 -> "asset_query"
    [] command = "?"                 -> "menu"
    [] OTHER                         -> "ignored"

(* print_menu()                                                             *)
MenuSays(command) ==
  CASE command = "1"  -> "new_order"   [] command = "2"  -> "modify_order"
    [] command = "8"  -> "asset_query" [] command = "10" -> "depth"
    [] command = "11" -> "log_off"     [] OTHER -> Deed(command)

KeepsQuit(command) == FALSE   (* variant: no command ends the task          *)
Ends(command) == Deed(command) = "terminate"

ConsoleRead ==
  /\ Ready /\ queue # <<>>
  /\ LET command == Head(queue) IN
     /\ misread' = (misread \/ Deed(command) # MenuSays(command))
     /\ \/ Ends(command) /\ running' = "stopping" /\ UNCHANGED <<job, left>>
        \/ /\ Deed(command) = "log_off" /\ UNCHANGED left
           /\ IF omg = "failed" THEN Crash ELSE job' = "frame" /\ UNCHANGED running
        \/ Deed(command) \in Prompts /\ job' = "prompt" /\ left' = Fields /\ UNCHANGED running
        \/ /\ ~Ends(command) /\ Deed(command) \notin Prompts \cup {"log_off"}
           /\ UNCHANGED <<running, job, left>>
  /\ queue' = Tail(queue)
  /\ UNCHANGED <<console, taskId, links, peers, confirmed, unconfirmed, lost>>

(* prompt(): cin takes a line, unless main() does.  Once cin has failed, it *)
(* takes none, and fields keep their defaults.                              *)
PromptField ==
  /\ job = "prompt" /\ Alive /\ (cinFailed \/ stdin # "none")
  /\ left' = left - 1 /\ job' = IF left = 1 THEN "confirm" ELSE "prompt"
  /\ cinFailed' = (cinFailed \/ stdin \notin Numbers)
  /\ stdin' = IF ~cinFailed /\ Given THEN "none" ELSE stdin
  /\ UNCHANGED <<main, typed, running, taskId, queue, links, peers, hist>>

(* The answer to "Y/n".  A cin that has failed leaves confirm as it is,     *)
(* which is not initialised.                                                *)
AnyButNo == {stdin # "n"}        (* variant: what is not n is yes           *)
Yes == IF cinFailed \/ stdin = "closed" THEN BOOLEAN ELSE {stdin = "y"}
Confirm ==
  /\ job = "confirm" /\ Alive /\ (cinFailed \/ stdin # "none")
  /\ \E yes \in Yes :
       IF yes /\ omg = "failed" THEN Crash
       ELSE job' = (IF yes THEN "request" ELSE "none") /\ UNCHANGED running
  /\ cinFailed' = (cinFailed \/ stdin = "closed")
  /\ stdin' = IF ~cinFailed /\ Given THEN "none" ELSE stdin
  /\ confirmed' = (~cinFailed /\ stdin = "y")
  /\ UNCHANGED <<main, typed, taskId, queue, left, links, peers, unconfirmed, lost, misread>>

(* The write of process_modify_order() and the like: a write that failed    *)
(* counts as one that was done.                                             *)
RequestWritten ==
  /\ job = "request" /\ Alive /\ TcpWrite /\ job' = "none" /\ tagged' = TRUE
  /\ unconfirmed' = (unconfirmed \/ ~confirmed) /\ confirmed' = FALSE
  /\ UNCHANGED <<console, taskId, queue, left, omg, mdg, connected, rxIdle, peers,
                 lost, misread>>

(* ev_run() returns; what was sent to the task is dropped.                  *)
Stop ==
  /\ running = "stopping" /\ job = "none" /\ running' = "down"
  /\ UNCHANGED <<console, job, taskId, queue, left, links, peers, hist>>

-----------------------------------------------------------------------------
(* The gateways, as long as there is a task to see them                     *)
Gateway(g) ==
  /\ Alive /\ omg # "failed" /\ gateway # "gone" /\ gateway' = g
  /\ UNCHANGED <<console, task, links, mdgData, hist>>
MdgSends ==
  /\ Alive /\ mdg /\ mdgData' = TRUE
  /\ UNCHANGED <<console, task, links, gateway, hist>>

Handler ==
  \/ Startup \/ ConnectOmg \/ Logon \/ ConnectMdg \/ Help \/ TcpReadEnds
  \/ FrameWritten \/ PromptField \/ Confirm \/ RequestWritten \/ Stop
Next ==
  \/ \E line \in Lines : Type(line)
  \/ CloseInput \/ MainReads \/ MainReturns
  \/ Handler \/ IdleTimer \/ TcpRead \/ ConsoleRead
  \/ \E g \in {"talking", "silent", "stalled", "gone"} : Gateway(g)
  \/ MdgSends

(* A handler goes on when nothing keeps it waiting, and a system call that  *)
(* waits returns when the gateway takes or sends bytes again and again.  The*)
(* engine delivers the events of the timer and of the console in the order  *)
(* they became due, although others come all the time.  What the user does  *)
(* is not fair.                                                             *)
Fairness == SF_vars(Handler) /\ WF_vars(MainReturns)
            /\ SF_vars(IdleTimer) /\ SF_vars(ConsoleRead)
Spec == Init /\ [][Next]_vars /\ Fairness

-----------------------------------------------------------------------------
(* No request goes to the gateway that the user has not confirmed with y,   *)
(* whichever of the two readers takes which line, until cin has failed.     *)
OrdersConfirmed == unconfirmed => cinFailed

(* Either connection sets m_tcp_connected, and m_con is used when it is set *)
(* and when MDG sends: the program never uses a null m_con from then on.    *)
NoCrashOnceConnected == running = "crashed" => ~connected

(* The task waits for the user, who need not answer, or for a gateway.      *)
Waiting == \/ job \in {"prompt", "confirm"}
           \/ job \in {"reading", "frame", "request", "logon"} /\ ~(gateway \in {"talking", "gone"})

(* After q the program ends, unless the task waits for the user or a gateway*)
(* for ever, or the q was sent before the task had its number.              *)
QuitEnds ==
  <>[]Waiting \/ (main = "joins" ~> (main = "returned" \/ running = "crashed" \/ lost))

(* An order gateway that falls silent for good ends a connected task,       *)
(* however much the user and MDG send, unless it waits for ever for one.    *)
SilenceDetected ==
  <>[](gateway = "silent" /\ connected) => <>(running # "up") \/ <>[]Waiting

(* What print_menu() says of a command is what the command does.            *)
MenuHonoured == ~misread
=============================================================================
