------------------------- MODULE SampleClientProofs -------------------------
(***************************************************************************)
(* What SampleClient asks the user before it writes an order, and when it  *)
(* uses a connection it does not have, for any set of lines, any number of *)
(* fields of a prompt and any limit of the idle timer.  No theorem uses    *)
(* Fairness.                                                               *)
(***************************************************************************)
EXTENDS SampleClient, SequenceTheorems, TLAPS

(* The idle count passes its limit only as the task ends; a prompt ends     *)
(* with its last field.                                                     *)
RxBound  == running = "up" => rxIdle <= IdleLimit
Prompted == job = "prompt" => left > 0

Typed == TypeOK /\ RxBound /\ Prompted

(* Every variable keeps its type.                                           *)
THEOREM TypeCorrect == Spec => []Typed
  <1>1. Init => Typed
    <2> SUFFICES ASSUME Init PROVE Typed
      OBVIOUS
    <2>1. typed \in 0 .. MaxLines /\ left \in 0 .. Fields /\ rxIdle \in 0 .. IdleLimit + 1
          /\ rxIdle <= IdleLimit
      BY BoundsAssumption DEF Init
    <2>2. queue \in Seq(AllLines)
      BY DEF Init
    <2>3. job \in Jobs /\ job # "prompt" /\ omg \in Links
      BY DEF Init, Jobs, Links
    <2> QED
      BY <2>1, <2>2, <2>3 DEF Init, Typed, TypeOK, RxBound, Prompted
  <1>2. Typed /\ [Next]_vars => Typed'
    <2> SUFFICES ASSUME Typed, [Next]_vars PROVE Typed'
      OBVIOUS
    <2> USE DEF Typed, TypeOK, RxBound, Prompted, console, task, links, peers, hist
    <2>1. ASSUME NEW line \in Lines, Type(line) PROVE Typed'
      BY <2>1, LinesAssumption, BoundsAssumption DEF Type
    <2>2. CASE CloseInput \/ MainReturns
      BY <2>2 DEF CloseInput, MainReturns
    <2>3. CASE MainReads
      <3>1. queue' \in Seq(AllLines)
        BY <2>3 DEF MainReads, Given
      <3> QED
        BY <2>3, <3>1 DEF MainReads, Given
    <2>4. CASE Startup
      BY <2>4 DEF Startup, Jobs
    <2>5. CASE ConnectOmg
      BY <2>5 DEF ConnectOmg, Jobs
    <2>6. CASE Logon
      BY <2>6 DEF Logon, TcpWrite, Jobs
    <2>7. CASE ConnectMdg
      <3>1. PICK link \in Links : ConnectMdgTo(link)
        BY <2>7 DEF ConnectMdg
      <3>2. /\ running' \in {running, "crashed"} /\ job' \in {job, "help"}
            /\ mdg' = (link \in {"read", "up"})
            /\ connected' = connected \/ connected' = (connected \/ link = "up")
        BY <3>1 DEF ConnectMdgTo, Crash
      <3> QED
        <4>1. mdg' \in BOOLEAN /\ connected' \in BOOLEAN
          <5>1. connected \in BOOLEAN
            OBVIOUS
          <5>2. connected' \in BOOLEAN
            <6>1. CASE connected' = connected
              BY <5>1, <6>1
            <6>2. CASE connected' = (connected \/ link = "up")
              BY <6>2
            <6> QED
              BY <3>2, <6>1, <6>2
          <5>3. mdg' \in BOOLEAN
            BY <3>2
          <5> QED
            BY <5>2, <5>3
        <4>2. job' \in Jobs /\ running' \in {"up", "stopping", "down", "crashed"}
              /\ (running' = "up" => running = "up") /\ job' # "prompt"
          BY <2>7, <3>2 DEF ConnectMdg, Jobs
        <4>3. UNCHANGED <<console, taskId, queue, left, omg, rxIdle, tagged, peers, hist>>
          BY <2>7 DEF ConnectMdg
        <4> QED
          BY <4>1, <4>2, <4>3
    <2>8. CASE Help
      <3>1. "?" \in AllLines
        BY DEF AllLines
      <3>2. queue' \in Seq(AllLines)
        BY <2>8, <3>1 DEF Help
      <3> QED
        BY <2>8, <3>2 DEF Help, Jobs
    <2>9. CASE IdleTimer
      BY <2>9, BoundsAssumption DEF IdleTimer, Ready, TooIdle, MoreIdle, Crash, Jobs
    <2>10. CASE TcpRead
      BY <2>10 DEF TcpRead, Ready, Crash, Jobs
    <2>11. CASE TcpReadEnds
      <3>1. /\ job' = "none" /\ running' \in {running, "stopping"} /\ rxIdle' \in {rxIdle, 0}
            /\ tagged' \in BOOLEAN
            /\ UNCHANGED <<console, taskId, queue, left, omg, mdg, connected, peers, hist>>
        BY <2>11 DEF TcpReadEnds, Answered
      <3> QED
        BY <3>1, BoundsAssumption DEF Jobs
    <2>12. CASE FrameWritten
      BY <2>12 DEF FrameWritten, TcpWrite, Jobs
    <2>13. CASE ConsoleRead
      <3>1. queue' \in Seq(AllLines)
        BY <2>13, HeadTailProperties DEF ConsoleRead
      <3>2. /\ running' \in {"up", "stopping", "crashed"} /\ running = "up"
            /\ job' \in Jobs /\ left' \in 0 .. Fields /\ (job' = "prompt" => left' > 0)
        BY <2>13, BoundsAssumption DEF ConsoleRead, Ready, Crash, Jobs
      <3>3. /\ misread' \in BOOLEAN
            /\ UNCHANGED <<console, taskId, links, peers, confirmed, unconfirmed, lost>>
        BY <2>13 DEF ConsoleRead
      <3> QED
        BY <3>1, <3>2, <3>3
    <2>14. CASE PromptField
      BY <2>14, BoundsAssumption DEF PromptField, Jobs
    <2>15. CASE Confirm
      <3>1. running' \in {running, "crashed"} /\ job' \in {job, "request", "none"}
        BY <2>15 DEF Confirm, Crash
      <3>2. /\ job = "confirm" /\ cinFailed' \in BOOLEAN /\ stdin' \in {"none", stdin}
            /\ confirmed' \in BOOLEAN
            /\ UNCHANGED <<main, typed, taskId, queue, left, links, peers, unconfirmed, lost, misread>>
        BY <2>15 DEF Confirm
      <3> QED
        BY <3>1, <3>2 DEF Jobs
    <2>16. CASE RequestWritten
      <3>1. /\ job' = "none" /\ running' \in {running, "stopping"} /\ tagged' = TRUE
            /\ confirmed' = FALSE /\ unconfirmed' = (unconfirmed \/ ~confirmed)
            /\ UNCHANGED <<console, taskId, queue, left, omg, mdg, connected, rxIdle, peers,
                           lost, misread>>
        BY <2>16 DEF RequestWritten, TcpWrite
      <3>2. unconfirmed' \in BOOLEAN /\ confirmed' \in BOOLEAN /\ tagged' \in BOOLEAN
        BY <3>1
      <3>3. job' \in Jobs /\ running' \in {"up", "stopping", "down", "crashed"}
            /\ (running' = "up" => running = "up")
        BY <3>1 DEF Jobs
      <3> QED
        BY <3>1, <3>2, <3>3
    <2>17. CASE Stop
      BY <2>17 DEF Stop
    <2>18. ASSUME NEW g \in {"talking", "silent", "stalled", "gone"}, Gateway(g) PROVE Typed'
      BY <2>18 DEF Gateway
    <2>19. CASE MdgSends
      BY <2>19 DEF MdgSends
    <2>20. CASE UNCHANGED vars
      BY <2>20 DEF vars
    <2> QED
      BY <2>1, <2>2, <2>3, <2>4, <2>5, <2>6, <2>7, <2>8, <2>9, <2>10, <2>11, <2>12, <2>13,
         <2>14, <2>15, <2>16, <2>17, <2>18, <2>19, <2>20 DEF Next, Handler
  <1> QED
    BY <1>1, <1>2, PTL DEF Spec

-----------------------------------------------------------------------------
(* A request under way was answered with y, unless cin has failed.          *)
Asked == job = "request" => confirmed \/ cinFailed

(* No order is written that the user has not confirmed, whichever of the    *)
(* two readers of the input takes which line, until cin has failed: the     *)
(* answer of an earlier order does not stand for this one.                  *)
THEOREM OrdersAreConfirmed == Spec => []OrdersConfirmed
  <1>1. Init => Asked /\ OrdersConfirmed
    BY DEF Init, Asked, OrdersConfirmed
  <1>2. Typed /\ Asked /\ OrdersConfirmed /\ [Next]_vars => Asked' /\ OrdersConfirmed'
    <2> SUFFICES ASSUME Typed, Asked, OrdersConfirmed, [Next]_vars
                 PROVE  Asked' /\ OrdersConfirmed'
      OBVIOUS
    <2> USE DEF Asked, OrdersConfirmed, console, task, links, peers, hist
    <2>1. CASE Confirm
      <3>1. UNCHANGED unconfirmed /\ cinFailed' = (cinFailed \/ stdin = "closed")
            /\ confirmed' = (~cinFailed /\ stdin = "y")
        BY <2>1 DEF Confirm
      <3>2. ASSUME ~cinFailed', job' = "request" PROVE confirmed'
        <4>1. ~cinFailed /\ stdin # "closed"
          BY <3>1, <3>2 DEF Typed, TypeOK
        <4>2. stdin = "y"
          BY <2>1, <3>2, <4>1 DEF Confirm, Yes, Crash
        <4> QED
          BY <3>1, <4>1, <4>2
      <3> QED
        BY <3>1, <3>2 DEF Typed, TypeOK
    <2>2. CASE RequestWritten
      BY <2>2 DEF RequestWritten
    <2>3. CASE PromptField
      BY <2>3 DEF PromptField
    <2>4. CASE Startup \/ ConnectOmg \/ Logon \/ ConnectMdg \/ Help \/ TcpReadEnds \/ FrameWritten \/ Stop
      <3>1. \/ UNCHANGED <<hist, cinFailed>> /\ job' # "request"
            \/ UNCHANGED <<hist, cinFailed, job>>
        <4>1. CASE Startup \/ ConnectOmg \/ Logon
          BY <4>1 DEF Startup, ConnectOmg, Logon
        <4>2. CASE ConnectMdg
          BY <4>2 DEF ConnectMdg, ConnectMdgTo, Crash
        <4>3. CASE Help \/ TcpReadEnds \/ FrameWritten \/ Stop
          BY <4>3 DEF Help, TcpReadEnds, Answered, FrameWritten, Stop
        <4> QED
          BY <2>4, <4>1, <4>2, <4>3
      <3> QED
        BY <3>1
    <2>5. CASE IdleTimer \/ TcpRead
      BY <2>5 DEF IdleTimer, TcpRead, Ready, Crash
    <2>6. CASE ConsoleRead
      BY <2>6 DEF ConsoleRead, Ready, Crash
    <2>7. CASE \E line \in Lines : Type(line)
      BY <2>7 DEF Type
    <2>8. CASE CloseInput \/ MainReads \/ MainReturns
      BY <2>8 DEF CloseInput, MainReads, MainReturns
    <2>9. CASE (\E g \in {"talking", "silent", "stalled", "gone"} : Gateway(g)) \/ MdgSends
      BY <2>9 DEF Gateway, MdgSends
    <2>10. CASE UNCHANGED vars
      BY <2>10 DEF vars
    <2> QED
      BY <2>1, <2>2, <2>3, <2>4, <2>5, <2>6, <2>7, <2>8, <2>9, <2>10 DEF Next, Handler
  <1> QED
    BY <1>1, <1>2, TypeCorrect, PTL DEF Spec

-----------------------------------------------------------------------------
(* What sets m_tcp_connected has an m_con, and a program that has crashed   *)
(* makes no more connections.                                               *)
ConHeld  == connected => omg # "failed"
Crashing == running = "crashed" => job \in {"mdg", "none", "confirm"}

(* The program uses a null m_con only while m_tcp_connected is false,       *)
(* although the connection to MDG sets it as well as the one to OMG.        *)
THEOREM NoCrashWhenConnected == Spec => []NoCrashOnceConnected
  <1> DEFINE Safe == ConHeld /\ Crashing /\ NoCrashOnceConnected
  <1>1. Init => Safe
    BY DEF Init, ConHeld, Crashing, NoCrashOnceConnected
  <1>2. Typed /\ Safe /\ [Next]_vars => Safe'
    <2> SUFFICES ASSUME Typed, Safe, [Next]_vars PROVE Safe'
      OBVIOUS
    <2> USE DEF ConHeld, Crashing, NoCrashOnceConnected, console, task, links, peers, hist
    <2>1. CASE ConnectOmg
      BY <2>1 DEF ConnectOmg
    <2>2. CASE ConnectMdg
      BY <2>2 DEF ConnectMdg, ConnectMdgTo, Crash, Alive
    <2>3. CASE Startup \/ Logon \/ Help
      BY <2>3 DEF Startup, Logon, TcpWrite, Help
    <2>4. CASE TcpReadEnds \/ FrameWritten \/ PromptField \/ RequestWritten
      <3>1. running # "crashed" /\ running' # "crashed" /\ UNCHANGED <<omg, connected>>
        <4>1. CASE TcpReadEnds
          BY <4>1 DEF TcpReadEnds, Answered, Alive
        <4>2. CASE FrameWritten
          BY <4>2 DEF FrameWritten, TcpWrite, Alive
        <4>3. CASE PromptField
          BY <4>3 DEF PromptField, Alive
        <4>4. CASE RequestWritten
          BY <4>4 DEF RequestWritten, TcpWrite, Alive
        <4> QED
          BY <2>4, <4>1, <4>2, <4>3, <4>4
      <3> QED
        BY <3>1
    <2>5. CASE Confirm
      BY <2>5 DEF Confirm, Crash, Alive
    <2>6. CASE Stop
      BY <2>6 DEF Stop
    <2>7. CASE IdleTimer \/ TcpRead
      BY <2>7 DEF IdleTimer, TcpRead, Ready, Crash
    <2>8. CASE ConsoleRead
      BY <2>8 DEF ConsoleRead, Ready, Crash
    <2>9. CASE \E line \in Lines : Type(line)
      BY <2>9 DEF Type
    <2>10. CASE CloseInput \/ MainReads \/ MainReturns
      BY <2>10 DEF CloseInput, MainReads, MainReturns
    <2>11. CASE (\E g \in {"talking", "silent", "stalled", "gone"} : Gateway(g)) \/ MdgSends
      BY <2>11 DEF Gateway, MdgSends
    <2>12. CASE UNCHANGED vars
      BY <2>12 DEF vars
    <2> QED
      BY <2>1, <2>2, <2>3, <2>4, <2>5, <2>6, <2>7, <2>8, <2>9, <2>10, <2>11, <2>12 DEF Next, Handler
  <1>3. Safe => NoCrashOnceConnected
    OBVIOUS
  <1> QED
    BY <1>1, <1>2, <1>3, TypeCorrect, PTL DEF Spec
=============================================================================
