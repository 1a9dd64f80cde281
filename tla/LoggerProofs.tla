---------------------------- MODULE LoggerProofs ----------------------------
(***************************************************************************)
(* Of the logger, for any number of threads, buffers, files and lines and  *)
(* every combination of calls.  First its types, m_lock, the wakeups of the*)
(* disk thread and the ownership of buffers.  Then where its lines go:     *)
(* none is dropped, none is written twice or out of order, each goes to    *)
(* the file it was meant for, and the name of a file does not change under *)
(* the disk thread.  Last, with one log file, no I/O error and             *)
(* asynchronous mode never left, the logger implements FifoLog: through the*)
(* refinement mapping of MCLogger, its initial states and its steps are    *)
(* those of a first-in first-out pipeline.  (That the pipeline goes on     *)
(* writing is liveness, and left to TLC.)                                  *)
(***************************************************************************)
EXTENDS MCLogger, SequenceTheorems, TLAPS

(* CHOOSE from a set that is not empty.                                     *)
LEMMA AnyOfIn == ASSUME NEW S, S # {} PROVE AnyOf(S) \in S
  BY DEF AnyOf

(* The two buffers of the constructor.                                      *)
LEMMA TwoBuffers ==
  LET b == AnyOf(Buffers) IN b \in Buffers /\ AnyOf(Buffers \ {b}) \in Buffers \ {b}
  BY BuffersAssumption, AnyOfIn

(* Emptying a buffer leaves a function from buffers to sequences of lines.  *)
LEMMA EmptiedType ==
  ASSUME TypeOK, NEW b \in Buffers PROVE Emptied(b) \in [Buffers -> Seq(Lines)]
  <1>1. <<>> \in Seq(Lines)
    OBVIOUS
  <1> QED
    BY <1>1 DEF TypeOK, Emptied

(* What send_to_files() does to files and to the set of lost lines.         *)
LEMMA WriteBufferType ==
  ASSUME TypeOK, NEW f \in Files \cup {NoFile}, NEW b \in Buffers, WriteBuffer(f, b)
  PROVE  content' \in [Files -> Seq(Lines)] /\ lost' \subseteq Lines
  <1>1. PICK n \in 0 .. Len(text[b]) :
          /\ content' = [g \in Files |-> IF g = f THEN content[g] \o SubSeq(text[b], 1, n)
                                         ELSE content[g]]
          /\ lost' = lost \cup { text[b][i] : i \in n + 1 .. Len(text[b]) }
    BY DEF WriteBuffer
  <1>2. text[b] \in Seq(Lines)
    BY DEF TypeOK
  <1>3. SubSeq(text[b], 1, n) \in Seq(Lines)
    BY <1>2
  <1>4. \A g \in Files : content[g] \o SubSeq(text[b], 1, n) \in Seq(Lines)
    BY <1>3 DEF TypeOK
  <1>5. \A i \in n + 1 .. Len(text[b]) : text[b][i] \in Lines
    BY <1>2
  <1> QED
    BY <1>1, <1>4, <1>5 DEF TypeOK

(* Every variable keeps its type, for every value of the constants.         *)
THEOREM TypeCorrect == Spec => []TypeOK
  <1>1. Init => TypeOK
    <2> SUFFICES ASSUME Init PROVE TypeOK
      OBVIOUS
    <2> USE DEF Init
    <2>1. m_buf \in Buffers /\ m_clean_pool \subseteq Buffers /\ heap \subseteq Buffers
      BY TwoBuffers
    <2>2. mode \in Modes
      BY LevelsAssumption DEF Modes
    <2>3. /\ text \in [Buffers -> Seq(Lines)] /\ content \in [Files -> Seq(Lines)]
          /\ stream \in Seq(Lines) /\ m_dirty_pool \in Seq(Buffers)
          /\ waiting_pool \in Seq(Buffers)
      OBVIOUS
    <2>4. /\ pc \in [App -> AppPC] /\ op \in [App -> AllOps \cup {"none"}]
          /\ dpc \in DiskPC
      BY DEF AppPC, DiskPC
    <2>5. nlines \in 0 .. MaxLines /\ target \in [Lines -> Files \cup {NoFile}]
      BY BoundsAssumption
    <2> QED
      BY <2>1, <2>2, <2>3, <2>4, <2>5, FilesAssumption DEF TypeOK
  <1>2. TypeOK /\ [Next]_vars => TypeOK'
    <2> SUFFICES ASSUME TypeOK, [Next]_vars PROVE TypeOK'
      OBVIOUS
    <2> USE DEF TypeOK
    <2>1. ASSUME NEW t \in App, Call(t) PROVE TypeOK'
      <3> USE LevelsAssumption DEF CanCall, Enter, Goto, SetMode, Modes, AppPC, AllOps,
              lockVars, fileVars, poolVars, diskVars, outVars, lineVars
      <3>1. ASSUME NEW level \in LogLevels, Log(t, level) PROVE TypeOK'
        <4>1. nlines + 1 \in Lines
          BY <3>1, BoundsAssumption DEF Log, Lines
        <4>2. text' \in [Buffers -> Seq(Lines)]
          BY <3>1, <4>1 DEF Log
        <4>3. pc' \in [App -> AppPC] /\ op' \in [App -> AllOps \cup {"none"}]
              /\ m_lock' \in App \cup {NoThread}
          BY <3>1 DEF Log
        <4>4. nlines' \in 0 .. MaxLines /\ target' \in [Lines -> Files \cup {NoFile}]
          BY <3>1, <4>1, BoundsAssumption DEF Log, Lines
        <4> QED
          BY <3>1, <4>2, <4>3, <4>4 DEF Log
      <3>2. ASSUME NEW level \in Levels, SetLevel(t, level) \/ SetForceFlushLevel(t, level)
            PROVE TypeOK'
        BY <3>2 DEF SetLevel, SetForceFlushLevel
      <3>3. ASSUME NEW f \in Files \cup {NoFile}, SetNewFile(t, f) PROVE TypeOK'
        BY <3>3 DEF SetNewFile
      <3>4. CASE Flush(t) \/ DisableAsync(t) \/ Destroy(t)
        BY <3>4 DEF Flush, DisableAsync, Destroy
      <3>5. CASE DisableBuffered(t)
        BY <3>5 DEF DisableBuffered
      <3>6. CASE EnableBuffered(t) \/ EnableAsync(t) \/ EnableStream(t) \/ DisableStream(t)
        BY <3>6 DEF EnableBuffered, EnableAsync, EnableStream, DisableStream
      <3>7. CASE EnableFile(t) \/ DisableFile(t)
        BY <3>7 DEF EnableFile, DisableFile, HasFile
      <3> QED
        BY <2>1, <3>1, <3>2, <3>3, <3>4, <3>5, <3>6, <3>7 DEF Call
    <2>2. ASSUME NEW t \in App, Continue(t) PROVE TypeOK'
      <3> USE DEF Goto, Leave, Modes, AppPC, AllOps,
              lockVars, fileVars, poolVars, diskVars, outVars, lineVars
      <3>1. CASE DoWork(t)
        <4>1. text[m_buf] \in Seq(Lines) /\ stream' \in Seq(Lines)
          BY <3>1 DEF DoWork
        <4>2. text' \in [Buffers -> Seq(Lines)]
          BY <3>1, EmptiedType DEF DoWork
        <4>3. lost' \subseteq Lines
          <5>1. RangeOf(text[m_buf]) \subseteq Lines
            BY <4>1 DEF RangeOf
          <5> QED
            BY <3>1, <5>1 DEF DoWork
        <4> QED
          BY <3>1, <4>1, <4>2, <4>3 DEF DoWork
      <3>2. CASE Push(t)
        <4>1. m_buf' \in Buffers /\ m_clean_pool' \subseteq Buffers /\ heap' \subseteq Buffers
          <5>1. CASE m_clean_pool # {} /\ m_buf' = AnyOf(m_clean_pool)
            BY <3>2, <5>1, AnyOfIn DEF Push, PopClean
          <5>2. CASE m_clean_pool = {} /\ Buffers \ heap # {}
            <6>1. m_buf' = AnyOf(Buffers \ heap) /\ heap' = heap \cup {m_buf'}
                  /\ m_clean_pool' = m_clean_pool
              BY <3>2, <5>2 DEF Push
            <6>2. m_buf' \in Buffers
              BY <5>2, <6>1, AnyOfIn
            <6> QED
              BY <6>1, <6>2
          <5> QED
            BY <3>2, <5>1, <5>2 DEF Push
        <4>2. m_dirty_pool' \in Seq(Buffers)
          <5>1. Append(m_dirty_pool, m_buf) \in Seq(Buffers)
            OBVIOUS
          <5> QED
            BY <3>2, <5>1 DEF Push, PushBack
        <4>3. text' \in [Buffers -> Seq(Lines)] /\ dpc' \in DiskPC
          <5>1. text' = Emptied(m_buf') /\ Signal
            BY <3>2 DEF Push
          <5> QED
            BY <4>1, <5>1, EmptiedType DEF Signal, DiskPC
        <4> QED
          BY <3>2, <4>1, <4>2, <4>3 DEF Push
      <3>3. CASE SyncWrite(t)
        <4>1. content' \in [Files -> Seq(Lines)] /\ lost' \subseteq Lines
          BY <3>3, WriteBufferType DEF SyncWrite
        <4> QED
          BY <3>3, <4>1 DEF SyncWrite, Emptied
      <3>4. CASE Return(t) \/ Poll(t)
        BY <3>4 DEF Return, Poll
      <3>5. CASE SyncMode(t)
        BY <3>5 DEF SyncMode
      <3>6. CASE Rename(t)
        BY <3>6 DEF Rename, NewName
      <3>7. CASE Terminate(t)
        BY <3>7 DEF Terminate, Signal, DiskPC
      <3>8. CASE Join(t)
        BY <3>8 DEF Join
      <3> QED
        BY <2>2, <3>1, <3>2, <3>3, <3>4, <3>5, <3>6, <3>7, <3>8 DEF Continue
    <2>3. CASE DiskStep
      <3> USE DEF DiskFrame, DiskPC, fileVars, lineVars
      <3>1. ASSUME NEW inner \in BOOLEAN, Loops(inner)
            PROVE  /\ dpc' \in DiskPC /\ waiting_pool' \in Seq(Buffers)
                   /\ m_dirty_pool' \in Seq(Buffers) /\ ran' \in BOOLEAN
        BY <3>1 DEF Loops, Taken
      <3>2. CASE DiskStart
        BY <3>1, <3>2 DEF DiskStart
      <3>3. CASE DiskWake
        BY <3>1, <3>3 DEF DiskWake
      <3>4. CASE DiskOpen \/ DiskClose
        BY <3>4 DEF DiskOpen, DiskClose
      <3>5. CASE DiskWrite
        <4>1. Head(waiting_pool) \in Buffers /\ Tail(waiting_pool) \in Seq(Buffers)
          BY <3>5, HeadTailProperties DEF DiskWrite
        <4>2. content' \in [Files -> Seq(Lines)] /\ lost' \subseteq Lines
          BY <3>5, <4>1, WriteBufferType DEF DiskWrite
        <4> QED
          BY <3>5, <4>1, <4>2 DEF DiskWrite
      <3>6. CASE DiskRecycle
        BY <3>1, <3>6 DEF DiskRecycle
      <3> QED
        BY <2>3, <3>2, <3>3, <3>4, <3>5, <3>6 DEF DiskStep
    <2>4. CASE SpuriousWakeup
      BY <2>4 DEF SpuriousWakeup, DiskFrame, DiskPC, fileVars, lineVars
    <2>5. CASE UNCHANGED vars
      BY <2>5 DEF vars, lockVars, fileVars, poolVars, diskVars, outVars, lineVars
    <2> QED
      BY <2>1, <2>2, <2>3, <2>4, <2>5 DEF Next, Quiet
  <1> QED
    BY <1>1, <1>2, PTL DEF Spec

-----------------------------------------------------------------------------
(* The disk thread never sleeps on a non-empty queue or on a request to     *)
(* terminate; this is inductive as it stands.                               *)
THEOREM WakeupsCorrect == Spec => []NoMissedWakeup
  <1>1. Init => NoMissedWakeup
    BY DEF Init, NoMissedWakeup
  <1>2. NoMissedWakeup /\ [Next]_vars => NoMissedWakeup'
    <2> SUFFICES ASSUME NoMissedWakeup, [Next]_vars PROVE NoMissedWakeup'
      OBVIOUS
    <2> USE DEF NoMissedWakeup
    <2>1. ASSUME NEW t \in App, Call(t) PROVE NoMissedWakeup'
      <3>1. UNCHANGED <<dpc, m_dirty_pool, m_terminate>>
        BY <2>1 DEF Call, Log, SetLevel, SetForceFlushLevel, SetNewFile, Flush,
          DisableBuffered, EnableBuffered, DisableFile, EnableFile, DisableStream,
          EnableStream, DisableAsync, EnableAsync, Destroy, SetMode, poolVars, diskVars
      <3> QED
        BY <3>1
    <2>2. ASSUME NEW t \in App, Continue(t) PROVE NoMissedWakeup'
      <3>1. CASE Push(t) \/ Terminate(t)
        <4>1. dpc' # "wait"
          BY <3>1 DEF Push, Terminate, Signal
        <4> QED
          BY <4>1
      <3>2. CASE Join(t)
        BY <3>2 DEF Join, diskVars
      <3>3. CASE DoWork(t) \/ SyncWrite(t) \/ Return(t) \/ SyncMode(t) \/ Poll(t) \/ Rename(t)
        BY <3>3 DEF DoWork, SyncWrite, Return, SyncMode, Poll, Rename, poolVars, diskVars
      <3> QED
        BY <2>2, <3>1, <3>2, <3>3 DEF Continue
    <2>3. CASE DiskStep
      <3>1. ASSUME NEW inner \in BOOLEAN, Loops(inner), m_terminate' = m_terminate
            PROVE  NoMissedWakeup'
        BY <3>1 DEF Loops, MustWait
      <3>2. CASE DiskStart \/ DiskWake \/ DiskRecycle
        BY <3>1, <3>2 DEF DiskStart, DiskWake, DiskRecycle, DiskFrame
      <3>3. CASE DiskOpen \/ DiskWrite \/ DiskClose
        BY <3>3 DEF DiskOpen, DiskWrite, DiskClose
      <3> QED
        BY <2>3, <3>2, <3>3 DEF DiskStep
    <2>4. CASE SpuriousWakeup
      BY <2>4 DEF SpuriousWakeup
    <2>5. CASE UNCHANGED vars
      BY <2>5 DEF vars, poolVars, diskVars
    <2> QED
      BY <2>1, <2>2, <2>3, <2>4, <2>5 DEF Next, Quiet
  <1> QED
    BY <1>1, <1>2, PTL DEF Spec

-----------------------------------------------------------------------------
(* Who is in a call, and where the disk thread holds buffers: what the      *)
(* ownership of buffers rests on.                                           *)
CallPhases ==
  /\ \A t \in App : pc[t] \notin {"idle", "gone"} => m_lock = t
  /\ \A t \in App : op[t] = "none" <=> pc[t] = "idle"
  /\ \A t \in App : pc[t] \in {"join", "gone"} => op[t] = "destroy"
  /\ \A t, u \in App : op[t] = "destroy" /\ t # u => pc[u] = "idle"

DiskPhases ==
  /\ dpc \in {"start", "wait", "wake", "done"} => waiting_pool = <<>> /\ written_pool = {}
  /\ dpc = "io" => written_pool = {}
  /\ dpc = "recycle" => waiting_pool = <<>>
  /\ Gone => dpc = "done"

(* Ranges of the queues.                                                    *)
LEMMA RangeAppend ==
  ASSUME NEW S, NEW s \in Seq(S), NEW e \in S
  PROVE  /\ RangeOf(Append(s, e)) = RangeOf(s) \cup {e}
         /\ Distinct(s) /\ e \notin RangeOf(s) => Distinct(Append(s, e))
  <1> DEFINE a == Append(s, e)
  <1>1. /\ DOMAIN s = 1 .. Len(s) /\ DOMAIN a = 1 .. Len(s) + 1 /\ Len(s) \in Nat
        /\ \A i \in 1 .. Len(s) : a[i] = s[i]
        /\ a[Len(s) + 1] = e
    BY AppendProperties
  <1>2. RangeOf(a) = RangeOf(s) \cup {e}
    BY <1>1 DEF RangeOf
  <1>3. ASSUME Distinct(s), e \notin RangeOf(s) PROVE Distinct(a)
    BY <1>1, <1>3 DEF Distinct, RangeOf
  <1> QED
    BY <1>2, <1>3

(* The head of a queue without repetition is not in its tail.               *)
LEMMA RangeTail ==
  ASSUME NEW S, NEW s \in Seq(S), s # <<>>
  PROVE  /\ RangeOf(s) = {Head(s)} \cup RangeOf(Tail(s))
         /\ Distinct(s) => Distinct(Tail(s)) /\ Head(s) \notin RangeOf(Tail(s))
  <1> DEFINE r == Tail(s)
  <1>1. /\ DOMAIN s = 1 .. Len(s) /\ DOMAIN r = 1 .. Len(s) - 1 /\ Len(s) \in Nat \ {0}
        /\ Head(s) = s[1] /\ \A i \in 1 .. Len(s) - 1 : r[i] = s[i + 1]
    BY HeadTailProperties, EmptySeq
  <1>3. RangeOf(s) = {Head(s)} \cup RangeOf(r)
    <2>1. ASSUME NEW e \in RangeOf(s) PROVE e \in {Head(s)} \cup RangeOf(r)
      <3>1. PICK j \in 1 .. Len(s) : e = s[j]
        BY <1>1 DEF RangeOf
      <3>2. CASE j = 1
        BY <1>1, <3>1, <3>2
      <3>3. CASE j # 1
        <4>1. j - 1 \in DOMAIN r /\ e = r[j - 1]
          BY <1>1, <3>1, <3>3
        <4> QED
          BY <4>1 DEF RangeOf
      <3> QED
        BY <3>2, <3>3
    <2>2. Head(s) \in RangeOf(s)
      BY <1>1 DEF RangeOf
    <2>3. ASSUME NEW e \in RangeOf(r) PROVE e \in RangeOf(s)
      <3>1. PICK j \in 1 .. Len(s) - 1 : e = r[j]
        BY <1>1 DEF RangeOf
      <3>2. j + 1 \in 1 .. Len(s) /\ e = s[j + 1]
        BY <1>1, <3>1
      <3> QED
        BY <1>1, <3>2 DEF RangeOf
    <2> QED
      BY <2>1, <2>2, <2>3
  <1>4. ASSUME Distinct(s) PROVE Distinct(r) /\ Head(s) \notin RangeOf(r)
    BY <1>1, <1>4 DEF Distinct, RangeOf
  <1> QED
    BY <1>3, <1>4

(* An empty queue holds no buffer.                                          *)
LEMMA RangeEmpty == RangeOf(<<>>) = {} /\ Distinct(<<>>)
  BY DEF RangeOf, Distinct

(* While a thread is in a call and has not deleted the buffers, none has.   *)
LEMMA NotGone ==
  ASSUME CallPhases, NEW t \in App, pc[t] \notin {"idle", "gone"} PROVE ~Gone
  BY DEF CallPhases, Gone

(* The calls and the phases of the disk thread, step by step.               *)
LEMMA PhasesStep ==
  ASSUME TypeOK, CallPhases, DiskPhases, [Next]_vars
  PROVE  CallPhases' /\ DiskPhases'
  <1> USE DEF CallPhases, DiskPhases, Gone, TypeOK
  <1>1. ASSUME NEW t \in App, Call(t) PROVE CallPhases' /\ DiskPhases'
    <2>1. /\ UNCHANGED <<dpc, waiting_pool, written_pool>>
          /\ pc[t] = "idle" /\ m_lock = NoThread
          /\ \A u \in App : op[u] # "destroy"
          /\ \/ UNCHANGED <<pc, op, m_lock>>
             \/ \E o \in AllOps, where \in {"do_work"} : Enter(t, o, where)
      BY <1>1 DEF Call, Log, SetLevel, SetForceFlushLevel, SetNewFile, Flush,
        DisableBuffered, EnableBuffered, DisableFile, EnableFile, DisableStream,
        EnableStream, DisableAsync, EnableAsync, Destroy, SetMode, lockVars, diskVars,
        CanCall, AllOps
    <2>2. CASE UNCHANGED <<pc, op, m_lock>>
      BY <2>1, <2>2
    <2>3. CASE \E o \in AllOps : Enter(t, o, "do_work")
      <3>1. PICK o \in AllOps : Enter(t, o, "do_work")
        BY <2>3
      <3>2. \A u \in App : pc[u] \in {"idle", "gone"}
        BY <2>1, ThreadsAssumption
      <3>3. \A u \in App : u # t => pc'[u] = pc[u] /\ op'[u] = op[u]
        BY <3>1 DEF Enter, Goto
      <3>4. m_lock' = t /\ pc'[t] = "do_work" /\ op'[t] = o /\ o # "none"
        BY <3>1 DEF Enter, Goto, AllOps
      <3>5. \A u \in App : pc[u] = "idle"
        BY <2>1, <3>2
      <3> QED
        BY <2>1, <3>3, <3>4, <3>5
    <2> QED
      BY <2>1, <2>2, <2>3
  <1>2. ASSUME NEW t \in App, Continue(t) PROVE CallPhases' /\ DiskPhases'
    <2>1. pc[t] \notin {"idle", "gone"} /\ m_lock = t
      BY <1>2 DEF Continue, DoWork, Push, SyncWrite, Return, SyncMode, Poll, Rename,
        Terminate, Join
    <2>2. \A u \in App : u # t => pc[u] = "idle"
      <3> TAKE u \in App
      <3> HAVE u # t
      <3>1. m_lock # u
        BY <2>1
      <3>2. pc[u] \in {"idle", "gone"}
        BY <3>1
      <3>3. pc[u] = "gone" => op[u] = "destroy" /\ pc[t] = "idle"
        OBVIOUS
      <3> QED
        BY <2>1, <3>2, <3>3
    <2>3. CASE Return(t) \/ Poll(t) \/ Rename(t)
      <3>1. Leave(t) /\ UNCHANGED <<dpc, waiting_pool, written_pool>>
        BY <2>3 DEF Return, Poll, Rename, diskVars
      <3>2. pc'[t] = "idle" /\ op'[t] = "none"
            /\ \A u \in App : u # t => pc'[u] = pc[u] /\ op'[u] = op[u]
        BY <3>1 DEF Leave, Goto
      <3> QED
        BY <2>2, <3>1, <3>2
    <2>4. CASE DoWork(t) \/ SyncWrite(t) \/ SyncMode(t)
      <3>1. /\ UNCHANGED <<op, m_lock, dpc, waiting_pool, written_pool>>
            /\ pc'[t] \in {"push", "write", "after", "poll"}
            /\ \A u \in App : u # t => pc'[u] = pc[u]
        BY <2>4 DEF DoWork, SyncWrite, SyncMode, Goto, lockVars, diskVars
      <3> QED
        BY <2>1, <2>2, <3>1
    <2>5. CASE Push(t) \/ Terminate(t)
      <3>1. /\ UNCHANGED <<op, m_lock, waiting_pool, written_pool>> /\ Signal
            /\ \/ pc'[t] = "after" \/ (pc'[t] = "join" /\ op[t] = "destroy")
            /\ \A u \in App : u # t => pc'[u] = pc[u]
        BY <2>5 DEF Push, Terminate, Goto, lockVars
      <3> QED
        BY <2>1, <2>2, <3>1 DEF Signal
    <2>6. CASE Join(t)
      <3>1. /\ UNCHANGED <<op, dpc, waiting_pool, written_pool>>
            /\ pc[t] = "join" /\ pc'[t] = "gone" /\ dpc = "done"
            /\ \A u \in App : u # t => pc'[u] = pc[u]
        BY <2>6 DEF Join, Goto, diskVars
      <3> QED
        BY <2>1, <2>2, <3>1
    <2> QED
      BY <1>2, <2>3, <2>4, <2>5, <2>6 DEF Continue
  <1>3. CASE DiskStep \/ SpuriousWakeup
    <2>1. UNCHANGED <<pc, op, m_lock>>
      BY <1>3 DEF DiskStep, DiskStart, DiskWake, DiskOpen, DiskWrite, DiskClose,
        DiskRecycle, SpuriousWakeup, DiskFrame
    <2>2. CallPhases' /\ (Gone' <=> Gone)
      BY <2>1
    <2>3. dpc # "done"
      BY <1>3 DEF DiskStep, DiskStart, DiskWake, DiskOpen, DiskWrite, DiskClose,
        DiskRecycle, SpuriousWakeup
    <2>4. DiskPhases'
      BY <1>3, <2>2, <2>3 DEF DiskStep, DiskStart, DiskWake, DiskOpen, DiskWrite, DiskClose,
        DiskRecycle, SpuriousWakeup, Loops
    <2> QED
      BY <2>2, <2>4
  <1>4. CASE UNCHANGED vars
    BY <1>4 DEF vars, lockVars, diskVars
  <1> QED
    BY <1>1, <1>2, <1>3, <1>4 DEF Next, Quiet

(* p_do_work() queues the buffer and takes a clean or a new one.            *)
LEMMA PushMoves ==
  ASSUME TypeOK, CallPhases, BufferOwnership, NEW t \in App, Push(t)
  PROVE  BufferOwnership'
  <1> USE DEF TypeOK
  <1>1. pc[t] = "push" /\ ~Gone
    BY NotGone DEF Push
  <1>2. ~Gone'
    <2>1. \A u \in App : pc'[u] = "gone" => pc[u] = "gone"
      BY <1>1 DEF Push, Goto
    <2> QED
      BY <1>1, <2>1 DEF Gone
  <1>3. m_dirty_pool' = Append(m_dirty_pool, m_buf)
    BY DEF Push, PushBack
  <1>4. UNCHANGED <<waiting_pool, written_pool>>
    BY DEF Push
  <1>5. m_buf \notin Dirty
    BY DEF BufferOwnership
  <1>6. Dirty' = Dirty \cup {m_buf} /\ Distinct(m_dirty_pool')
    BY <1>3, <1>5, RangeAppend DEF Dirty, BufferOwnership
  <1>7. Waiting' = Waiting /\ Distinct(waiting_pool')
    BY <1>4 DEF Waiting, BufferOwnership
  <1>8. \/ /\ m_buf' \in m_clean_pool /\ m_clean_pool' = m_clean_pool \ {m_buf'}
           /\ heap' = heap
        \/ /\ m_buf' \notin heap /\ m_clean_pool' = m_clean_pool
           /\ heap' = heap \cup {m_buf'}
    BY AnyOfIn DEF Push, PopClean
  <1>9. heap = {m_buf} \cup m_clean_pool \cup Dirty \cup Waiting \cup written_pool
    BY <1>1 DEF BufferOwnership
  <1>10. heap' = {m_buf'} \cup m_clean_pool' \cup Dirty' \cup Waiting' \cup written_pool'
    BY <1>4, <1>6, <1>7, <1>8, <1>9
  <1>11. /\ m_buf' \notin m_clean_pool' \cup Dirty' \cup Waiting' \cup written_pool'
         /\ m_clean_pool' \cap (Dirty' \cup Waiting' \cup written_pool') = {}
         /\ Dirty' \cap (Waiting' \cup written_pool') = {}
         /\ Waiting' \cap written_pool' = {}
    BY <1>4, <1>6, <1>7, <1>8, <1>9 DEF BufferOwnership
  <1> QED
    BY <1>2, <1>6, <1>7, <1>10, <1>11 DEF BufferOwnership

(* The destructor deletes what is left; the disk thread holds nothing.      *)
LEMMA JoinMoves ==
  ASSUME TypeOK, CallPhases, DiskPhases, BufferOwnership, NEW t \in App, Join(t)
  PROVE  BufferOwnership'
  <1>1. ~Gone /\ Gone'
    BY NotGone DEF Join, Goto, Gone, TypeOK
  <1>2. waiting_pool = <<>> /\ written_pool = {}
    BY DEF Join, DiskPhases
  <1>3. Waiting = {} /\ Waiting' = {} /\ Dirty' = {} /\ written_pool' = {}
        /\ Distinct(m_dirty_pool') /\ Distinct(waiting_pool') /\ m_clean_pool' = {}
    BY <1>2, RangeEmpty DEF Join, diskVars, Dirty, Waiting
  <1>4. heap' = {}
    BY <1>1, <1>2, <1>3 DEF Join, BufferOwnership, Dirty
  <1> QED
    BY <1>1, <1>3, <1>4 DEF BufferOwnership

(* Loops() moves the whole queue to the disk thread, or nothing.            *)
LEMMA LoopsMoves ==
  ASSUME TypeOK, BufferOwnership, NEW inner \in BOOLEAN, Loops(inner),
         waiting_pool = <<>>, UNCHANGED <<pc, m_buf, heap>>,
         m_clean_pool' = m_clean_pool \cup written_pool, written_pool' = {}
  PROVE  BufferOwnership'
  <1>1. Waiting = {}
    BY RangeEmpty DEF Waiting
  <1>2. \/ Waiting' = Dirty /\ Dirty' = {}
        \/ Waiting' = {} /\ Dirty' = Dirty
    BY <1>1, RangeEmpty DEF Loops, Taken, Dirty, Waiting
  <1>3. Distinct(m_dirty_pool') /\ Distinct(waiting_pool')
    BY RangeEmpty DEF Loops, Taken, BufferOwnership
  <1>4. Gone' <=> Gone
    BY DEF Gone
  <1> QED
    BY <1>1, <1>2, <1>3, <1>4 DEF BufferOwnership

(* The disk thread writes the first buffer of its pool.                     *)
LEMMA DiskWriteMoves ==
  ASSUME TypeOK, BufferOwnership, DiskWrite PROVE BufferOwnership'
  <1>1. waiting_pool \in Seq(Buffers) /\ waiting_pool # <<>>
    BY DEF DiskWrite, TypeOK
  <1>2. Waiting = {Head(waiting_pool)} \cup Waiting'
        /\ Distinct(waiting_pool') /\ Head(waiting_pool) \notin Waiting'
    BY <1>1, RangeTail DEF Waiting, DiskWrite, BufferOwnership
  <1>3. written_pool' = written_pool \cup {Head(waiting_pool)} /\ Dirty' = Dirty
        /\ UNCHANGED <<m_buf, m_clean_pool, m_dirty_pool, heap>> /\ (Gone' <=> Gone)
    BY DEF DiskWrite, DiskFrame, Dirty, Gone
  <1> QED
    BY <1>2, <1>3 DEF BufferOwnership

(* Every other step leaves all buffers where they are.                      *)
LEMMA NothingMoves ==
  ASSUME BufferOwnership, Gone' <=> Gone,
         UNCHANGED <<m_buf, m_clean_pool, m_dirty_pool, waiting_pool, written_pool, heap>>
  PROVE  BufferOwnership'
  BY DEF BufferOwnership, Dirty, Waiting

(* A buffer is in one place at a time, whatever the threads do.             *)
THEOREM OwnershipCorrect == Spec => []BufferOwnership
  <1>1. Init => CallPhases /\ DiskPhases /\ BufferOwnership
    <2> SUFFICES ASSUME Init PROVE CallPhases /\ DiskPhases /\ BufferOwnership
      OBVIOUS
    <2>1. ~Gone /\ CallPhases /\ DiskPhases
      BY DEF Init, CallPhases, DiskPhases, Gone
    <2>2. Dirty = {} /\ Waiting = {} /\ Distinct(m_dirty_pool) /\ Distinct(waiting_pool)
      BY RangeEmpty DEF Init, Dirty, Waiting
    <2>3. m_buf \notin m_clean_pool /\ heap = {m_buf} \cup m_clean_pool /\ written_pool = {}
      BY TwoBuffers DEF Init
    <2> QED
      BY <2>1, <2>2, <2>3 DEF BufferOwnership
  <1>2. TypeOK /\ CallPhases /\ DiskPhases /\ BufferOwnership /\ [Next]_vars
          => BufferOwnership'
    <2> SUFFICES ASSUME TypeOK, CallPhases, DiskPhases, BufferOwnership, [Next]_vars
                 PROVE  BufferOwnership'
      OBVIOUS
    <2>1. ASSUME NEW t \in App, Call(t) PROVE BufferOwnership'
      <3>1. UNCHANGED <<m_buf, m_clean_pool, m_dirty_pool, waiting_pool, written_pool, heap>>
        BY <2>1 DEF Call, Log, SetLevel, SetForceFlushLevel, SetNewFile, Flush,
          DisableBuffered, EnableBuffered, DisableFile, EnableFile, DisableStream,
          EnableStream, DisableAsync, EnableAsync, Destroy, SetMode, poolVars, diskVars
      <3>2. \A u \in App : pc'[u] = "gone" <=> pc[u] = "gone"
        BY <2>1 DEF Call, Log, SetLevel, SetForceFlushLevel, SetNewFile, Flush,
          DisableBuffered, EnableBuffered, DisableFile, EnableFile, DisableStream,
          EnableStream, DisableAsync, EnableAsync, Destroy, SetMode, Enter, Goto,
          CanCall, TypeOK
      <3> QED
        BY <3>1, <3>2, NothingMoves DEF Gone
    <2>2. ASSUME NEW t \in App, Continue(t) PROVE BufferOwnership'
      <3>1. CASE DoWork(t) \/ SyncWrite(t) \/ Return(t) \/ SyncMode(t) \/ Poll(t)
                 \/ Rename(t) \/ Terminate(t)
        <4>1. UNCHANGED <<m_buf, m_clean_pool, m_dirty_pool, waiting_pool, written_pool, heap>>
          BY <3>1 DEF DoWork, SyncWrite, Return, SyncMode, Poll, Rename, Terminate,
            poolVars, diskVars
        <4>2. \A u \in App : pc'[u] = "gone" <=> pc[u] = "gone"
          BY <3>1 DEF DoWork, SyncWrite, Return, SyncMode, Poll, Rename, Terminate,
            Goto, Leave, TypeOK
        <4> QED
          BY <4>1, <4>2, NothingMoves DEF Gone
      <3> QED
        BY <2>2, <3>1, PushMoves, JoinMoves DEF Continue
    <2>3. CASE DiskStart \/ DiskWake \/ DiskRecycle
      <3>1. waiting_pool = <<>> /\ UNCHANGED <<pc, m_buf, heap>>
            /\ m_clean_pool' = m_clean_pool \cup written_pool /\ written_pool' = {}
            /\ \E inner \in BOOLEAN : Loops(inner)
        BY <2>3 DEF DiskStart, DiskWake, DiskRecycle, DiskFrame, DiskPhases
      <3> QED
        BY <3>1, LoopsMoves
    <2>4. CASE DiskOpen \/ DiskClose \/ SpuriousWakeup \/ UNCHANGED vars
      <3>1. UNCHANGED <<pc, m_buf, m_clean_pool, m_dirty_pool, waiting_pool, written_pool, heap>>
        BY <2>4 DEF DiskOpen, DiskClose, SpuriousWakeup, DiskFrame, vars, poolVars, diskVars
      <3> QED
        BY <3>1, NothingMoves DEF Gone
    <2> QED
      BY <2>1, <2>2, <2>3, <2>4, DiskWriteMoves DEF Next, Quiet, DiskStep
  <1> QED
    BY <1>1, <1>2, TypeCorrect, PhasesStep, PTL DEF Spec

-----------------------------------------------------------------------------
(* The calls and the disk thread are in step, as OwnershipCorrect uses it.  *)
LEMMA PhasesCorrect == Spec => [](CallPhases /\ DiskPhases)
  <1>1. Init => CallPhases /\ DiskPhases
    BY DEF Init, CallPhases, DiskPhases, Gone
  <1> QED
    BY <1>1, PhasesStep, TypeCorrect, PTL DEF Spec

-----------------------------------------------------------------------------
(* What a call of the application changes at once: a line is appended, or a *)
(* mode set; the thread goes on to p_do_work() or is still idle.            *)
LEMMA CallChanges ==
  ASSUME TypeOK, CallPhases, NEW t \in App, Call(t)
  PROVE  /\ UNCHANGED <<ops, m_io_lock, m_terminate, m_file_name, m_buf, m_dirty_pool,
                        m_clean_pool, heap, dpc, waiting_pool, written_pool, ran,
                        content, stream, lost>>
         /\ \A u \in App : pc[u] = "idle"
         /\ \/ UNCHANGED <<pc, op>>
            \/ /\ pc'[t] = "do_work" /\ op'[t] \in ops
               /\ \A u \in App : u # t => pc'[u] = pc[u] /\ op'[u] = op[u]
         /\ \/ UNCHANGED <<text, nlines, target>>
            \/ /\ nlines + 1 \in Lines /\ nlines' = nlines + 1
               /\ text' = [text EXCEPT ![m_buf] = Append(@, nlines + 1)]
               /\ target' = [target EXCEPT ![nlines + 1] = m_file_name]
         /\ \/ mode'.async = mode.async
            \/ "enable_async" \in ops /\ mode'.async = TRUE
         /\ mode'.file_out = mode.file_out \/ ops \cap {"disable_file", "enable_file"} # {}
  <1> USE DEF TypeOK, Modes
  <1>1. \A u \in App : pc[u] = "idle"
    <2>1. m_lock = NoThread /\ \A u \in App : op[u] # "destroy"
      BY DEF Call, Log, SetLevel, SetForceFlushLevel, SetNewFile, Flush,
        DisableBuffered, EnableBuffered, DisableFile, EnableFile, DisableStream,
        EnableStream, DisableAsync, EnableAsync, Destroy, SetMode, CanCall
    <2> QED
      BY <2>1, ThreadsAssumption DEF CallPhases
  <1> USE DEF lockVars, fileVars, poolVars, diskVars, outVars, lineVars
  <1>2. ASSUME NEW level \in LogLevels, Log(t, level)
        PROVE  /\ nlines + 1 \in Lines
               /\ \/ UNCHANGED pc /\ UNCHANGED op
                  \/ Enter(t, "log", "do_work")
               /\ "log" \in ops
    BY <1>2, BoundsAssumption DEF Log, CanCall, Lines
  <1>3. ASSUME NEW o \in ops, Enter(t, o, "do_work")
        PROVE  /\ pc'[t] = "do_work" /\ op'[t] \in ops
               /\ \A u \in App : u # t => pc'[u] = pc[u] /\ op'[u] = op[u]
    BY <1>3 DEF Enter, Goto
  <1>4. ASSUME NEW level \in LogLevels, Log(t, level)
        PROVE  /\ nlines' = nlines + 1 /\ target' = [target EXCEPT ![nlines + 1] = m_file_name]
               /\ text' = [text EXCEPT ![m_buf] = Append(@, nlines + 1)]
               /\ UNCHANGED <<ops, m_io_lock, mode, m_terminate, m_file_name, m_buf,
                        m_dirty_pool, m_clean_pool, heap, dpc, waiting_pool, written_pool,
                        ran, content, stream, lost>>
    BY <1>4 DEF Log
  <1>5. CASE \E level \in LogLevels : Log(t, level)
    BY <1>1, <1>2, <1>3, <1>4, <1>5
  <1>6. CASE \/ \E level \in Levels : SetLevel(t, level) \/ SetForceFlushLevel(t, level)
             \/ EnableBuffered(t) \/ EnableStream(t) \/ DisableStream(t)
    <2>1. mode'.async = mode.async /\ mode'.file_out = mode.file_out
      BY <1>6 DEF SetLevel, SetForceFlushLevel, EnableBuffered, EnableStream,
        DisableStream, SetMode
    <2> QED
      BY <1>1, <1>6, <2>1 DEF SetLevel, SetForceFlushLevel, EnableBuffered, EnableStream,
        DisableStream, SetMode
  <1>7. CASE EnableFile(t) \/ DisableFile(t)
    <2>1. mode'.async = mode.async /\ ops \cap {"disable_file", "enable_file"} # {}
      BY <1>7 DEF EnableFile, DisableFile, SetMode, CanCall
    <2> QED
      BY <1>1, <1>7, <2>1 DEF EnableFile, DisableFile, SetMode
  <1>8. CASE EnableAsync(t)
    <2>1. mode'.async = TRUE /\ mode'.file_out = mode.file_out /\ "enable_async" \in ops
      BY <1>8 DEF EnableAsync, SetMode, CanCall
    <2> QED
      BY <1>1, <1>8, <2>1 DEF EnableAsync, SetMode
  <1>9. CASE \/ \E f \in Files \cup {NoFile} : SetNewFile(t, f)
             \/ Flush(t) \/ DisableAsync(t) \/ Destroy(t)
    <2>1. mode' = mode /\ \E o \in ops : Enter(t, o, "do_work")
      BY <1>9 DEF SetNewFile, Flush, DisableAsync, Destroy, CanCall
    <2> QED
      BY <1>1, <1>3, <1>9, <2>1 DEF SetNewFile, Flush, DisableAsync, Destroy
  <1>10. CASE DisableBuffered(t)
    <2>1. mode'.async = mode.async /\ mode'.file_out = mode.file_out
          /\ \E o \in ops : Enter(t, o, "do_work")
      BY <1>10 DEF DisableBuffered, CanCall
    <2> QED
      BY <1>1, <1>3, <1>10, <2>1 DEF DisableBuffered
  <1> QED
    BY <1>5, <1>6, <1>7, <1>8, <1>9, <1>10 DEF Call

(* The application stays the one it is.                                     *)
LEMMA OpsStay == ASSUME [Next]_vars PROVE ops' = ops
  BY DEF Next, Call, Continue, DiskStep, SpuriousWakeup, Quiet, Log, SetLevel,
    SetForceFlushLevel, SetNewFile, Flush, DisableBuffered, EnableBuffered,
    DisableFile, EnableFile, DisableStream, EnableStream, DisableAsync, EnableAsync,
    Destroy, SetMode, DoWork, Push, SyncWrite, Return, SyncMode, Poll, Rename,
    Terminate, Join, DiskStart, DiskWake, DiskOpen, DiskWrite, DiskClose,
    DiskRecycle, DiskFrame, vars

(* The file output of send_to_files() takes m_io_lock, and set_new_file()   *)
(* waits for it.                                                            *)
IoPhases == dpc = "writing" => m_io_lock = Disk

(* The disk thread holds m_io_lock while it writes.                         *)
LEMMA IoCorrect == Spec => []IoPhases
  <1>1. Init => IoPhases
    BY DEF Init, IoPhases
  <1>2. TypeOK /\ CallPhases /\ IoPhases /\ [Next]_vars => IoPhases'
    <2> SUFFICES ASSUME TypeOK, CallPhases, IoPhases, [Next]_vars PROVE IoPhases'
      OBVIOUS
    <2> USE DEF IoPhases
    <2>1. ASSUME NEW t \in App, Call(t) PROVE IoPhases'
      BY <2>1, CallChanges
    <2>2. ASSUME NEW t \in App, Continue(t) PROVE IoPhases'
      BY <2>2 DEF Continue, DoWork, Push, SyncWrite, Return, SyncMode, Poll, Rename,
        Terminate, Join, Leave, Signal, lockVars, diskVars
    <2>3. CASE DiskStep \/ SpuriousWakeup
      BY <2>3 DEF DiskStep, DiskStart, DiskWake, DiskOpen, DiskWrite, DiskClose,
        DiskRecycle, SpuriousWakeup, Loops
    <2>4. CASE UNCHANGED vars
      BY <2>4 DEF vars, lockVars, diskVars
    <2> QED
      BY <2>1, <2>2, <2>3, <2>4 DEF Next, Quiet
  <1> QED
    BY <1>1, <1>2, TypeCorrect, PhasesCorrect, PTL DEF Spec

(* While the disk thread is inside send_to_files(), set_new_file() and the  *)
(* destructor leave the name it opened alone.                               *)
THEOREM NameIsStable == Spec => NameStableWhileWriting
  <1>1. TypeOK /\ CallPhases /\ IoPhases /\ [Next]_vars
          => [dpc = "writing" => UNCHANGED m_file_name]_vars
    <2> SUFFICES ASSUME TypeOK, CallPhases, IoPhases, Next, dpc = "writing"
                 PROVE  UNCHANGED m_file_name
      OBVIOUS
    <2>1. ASSUME NEW t \in App, Call(t) PROVE UNCHANGED m_file_name
      BY <2>1, CallChanges
    <2>2. ASSUME NEW t \in App, Continue(t) PROVE UNCHANGED m_file_name
      <3>1. ~Rename(t)
        BY ThreadsAssumption DEF Rename, IoPhases
      <3>2. ~Join(t)
        BY DEF Join
      <3> QED
        BY <2>2, <3>1, <3>2 DEF Continue, DoWork, Push, SyncWrite, Return, SyncMode,
          Poll, Terminate, fileVars
    <2>3. CASE DiskStep \/ SpuriousWakeup \/ Quiet
      BY <2>3 DEF DiskStep, DiskStart, DiskWake, DiskOpen, DiskWrite, DiskClose,
        DiskRecycle, SpuriousWakeup, DiskFrame, Quiet, vars, fileVars
    <2> QED
      BY <2>1, <2>2, <2>3 DEF Next
  <1> QED
    BY <1>1, TypeCorrect, PhasesCorrect, IoCorrect, PTL DEF Spec, NameStableWhileWriting

-----------------------------------------------------------------------------
(* Where a call stands in p_do_work(): the buffer it leaves empty, the mode *)
(* it went by; and how the end of the disk thread follows ~logger().        *)
Callers ==
  /\ \A t \in App : op[t] \in ops \cup {"none"}
  /\ \A t \in App : pc[t] \in {"after", "poll", "join", "gone"} => text[m_buf] = <<>>
  /\ \A t \in App : pc[t] = "push" => mode.async
  /\ \A t \in App : pc[t] = "write" => ~mode.async
  /\ \A t \in App : pc[t] \in {"push", "write"} => text[m_buf] # <<>>
  /\ m_terminate => \E t \in App : pc[t] \in {"join", "gone"}
  /\ dpc = "start" => ~ran
  /\ dpc = "done" => m_terminate /\ (ran => m_dirty_pool = <<>>)

(* A thread in a call is the only one; nobody logs meanwhile.               *)
LEMMA AloneInCall ==
  ASSUME TypeOK, CallPhases, NEW t \in App, pc[t] \notin {"idle", "gone"}
  PROVE  \A u \in App : u # t => pc[u] = "idle"
  <1> TAKE u \in App
  <1> HAVE u # t
  <1>1. m_lock = t /\ (pc[u] \notin {"idle", "gone"} => m_lock = u)
    BY DEF CallPhases
  <1>2. pc[u] = "gone" => pc[t] = "idle"
    BY DEF CallPhases
  <1> QED
    BY <1>1, <1>2

(* Step by step.                                                            *)
LEMMA CallersStep ==
  ASSUME TypeOK, CallPhases, DiskPhases, Callers, [Next]_vars
  PROVE  Callers'
  <1> USE DEF Callers
  <1>1. ASSUME NEW t \in App, Call(t) PROVE Callers'
    <2>1. /\ UNCHANGED <<ops, m_terminate, m_dirty_pool, dpc, ran, m_buf>>
          /\ \A u \in App : pc[u] = "idle" /\ pc'[u] \in {"idle", "do_work"}
          /\ \A u \in App : op'[u] \in ops \cup {"none"}
      BY <1>1, CallChanges
    <2> QED
      BY <2>1
  <1>2. ASSUME NEW t \in App, Continue(t) PROVE Callers'
    <2>1. pc[t] \notin {"idle", "gone"} /\ m_lock = t /\ op[t] # "none"
      BY <1>2 DEF Continue, DoWork, Push, SyncWrite, Return, SyncMode, Poll, Rename,
        Terminate, Join, CallPhases
    <2>2. \A u \in App : u # t => pc[u] = "idle"
      BY <2>1, AloneInCall
    <2>3. UNCHANGED <<ops, ran>> /\ \A u \in App : op'[u] \in {op[u], "none"}
      BY <1>2 DEF Continue, DoWork, Push, SyncWrite, Return, SyncMode, Poll, Rename,
        Terminate, Join, Leave, diskVars, TypeOK
    <2>4. \A u \in App : u # t => pc'[u] = "idle"
      BY <1>2, <2>2 DEF Continue, DoWork, Push, SyncWrite, Return, SyncMode, Poll, Rename,
        Terminate, Join, Leave, Goto, TypeOK
    <2> USE DEF Goto, TypeOK
    <2>5. CASE DoWork(t)
      <3>1. /\ UNCHANGED <<m_terminate, m_buf, mode, m_dirty_pool, dpc>>
            /\ \/ pc'[t] = "push" /\ mode.async /\ text[m_buf] # <<>> /\ text' = text
               \/ pc'[t] = "write" /\ ~mode.async /\ text[m_buf] # <<>> /\ text' = text
               \/ pc'[t] = "after" /\ text'[m_buf] = <<>>
        BY <2>5 DEF DoWork, Emptied, diskVars
      <3>2. ~m_terminate
        BY <2>2, <2>5 DEF DoWork
      <3> QED
        BY <2>3, <2>4, <3>1, <3>2
    <2>6. CASE Push(t)
      <3>1. /\ UNCHANGED <<m_terminate, mode>> /\ Signal /\ pc'[t] = "after"
            /\ text' = Emptied(m_buf')
        BY <2>6 DEF Push
      <3>2. m_buf' \in Buffers
        BY <2>6, AnyOfIn DEF Push
      <3>3. text'[m_buf'] = <<>>
        BY <3>1, <3>2 DEF Emptied
      <3>4. ~m_terminate
        BY <2>2, <2>6 DEF Push
      <3> QED
        BY <2>3, <2>4, <3>1, <3>3, <3>4 DEF Signal
    <2>7. CASE SyncWrite(t)
      <3>1. /\ UNCHANGED <<m_terminate, mode, m_buf, m_dirty_pool, dpc>> /\ pc'[t] = "after"
            /\ text'[m_buf] = <<>>
        BY <2>7 DEF SyncWrite, Emptied, diskVars
      <3>2. ~m_terminate
        BY <2>2, <2>7 DEF SyncWrite
      <3> QED
        BY <2>3, <2>4, <3>1, <3>2
    <2>8. CASE Return(t) \/ Poll(t) \/ Rename(t)
      <3>1. /\ UNCHANGED <<m_terminate, text, m_buf, m_dirty_pool, dpc>> /\ pc'[t] = "idle"
        BY <2>8 DEF Return, Poll, Rename, Leave, poolVars, diskVars
      <3>2. ~m_terminate
        BY <2>2, <2>8 DEF Return, Poll, Rename
      <3> QED
        BY <2>3, <2>4, <3>1, <3>2
    <2>9. CASE SyncMode(t)
      <3>1. /\ UNCHANGED <<m_terminate, text, m_buf, m_dirty_pool, dpc>> /\ pc'[t] = "poll"
            /\ pc[t] = "after"
        BY <2>9 DEF SyncMode, poolVars, diskVars
      <3>2. ~m_terminate
        BY <2>2, <2>9 DEF SyncMode
      <3> QED
        BY <2>3, <2>4, <3>1, <3>2
    <2>10. CASE Terminate(t)
      <3>1. /\ UNCHANGED <<text, m_buf, m_dirty_pool>> /\ pc'[t] = "join" /\ m_terminate'
            /\ pc[t] = "after" /\ Signal
        BY <2>10 DEF Terminate, poolVars
      <3> QED
        BY <2>3, <2>4, <3>1 DEF Signal
    <2>11. CASE Join(t)
      <3>1. /\ UNCHANGED <<m_terminate, text, m_buf, dpc>> /\ pc'[t] = "gone"
            /\ m_dirty_pool' = <<>> /\ pc[t] = "join" /\ dpc = "done"
        BY <2>11 DEF Join, diskVars
      <3> QED
        BY <2>3, <2>4, <3>1
    <2> QED
      BY <1>2, <2>5, <2>6, <2>7, <2>8, <2>9, <2>10, <2>11 DEF Continue
  <1>3. CASE DiskStep \/ SpuriousWakeup
    <2>1. UNCHANGED <<ops, pc, op, mode, m_terminate, text, m_buf>>
      BY <1>3 DEF DiskStep, DiskStart, DiskWake, DiskOpen, DiskWrite, DiskClose,
        DiskRecycle, SpuriousWakeup, DiskFrame
    <2>2. dpc # "done" /\ dpc' # "start"
      BY <1>3 DEF DiskStep, DiskStart, DiskWake, DiskOpen, DiskWrite, DiskClose,
        DiskRecycle, SpuriousWakeup, Loops
    <2>3. dpc' = "done" => m_terminate /\ (ran' => m_dirty_pool' = <<>>)
      <3>1. CASE DiskStart
        BY <3>1 DEF DiskStart, Loops
      <3>2. CASE DiskWake \/ DiskRecycle
        BY <3>2 DEF DiskWake, DiskRecycle, Loops
      <3>3. CASE DiskOpen \/ DiskWrite \/ DiskClose \/ SpuriousWakeup
        BY <3>3 DEF DiskOpen, DiskWrite, DiskClose, SpuriousWakeup
      <3> QED
        BY <1>3, <3>1, <3>2, <3>3 DEF DiskStep
    <2> QED
      BY <2>1, <2>2, <2>3
  <1>4. CASE UNCHANGED vars
    BY <1>4 DEF vars, lockVars, poolVars, diskVars
  <1> QED
    BY <1>1, <1>2, <1>3, <1>4 DEF Next, Quiet

(* So it is in every state.                                                 *)
LEMMA CallersCorrect == Spec => []Callers
  <1>1. Init => Callers
    BY DEF Init, Callers
  <1> QED
    BY <1>1, CallersStep, TypeCorrect, PhasesCorrect, PTL DEF Spec

-----------------------------------------------------------------------------
(* Everything in a sequence of lines before and after a Log().              *)
LEMMA RangeIn ==
  ASSUME NEW S, NEW s \in Seq(S) PROVE RangeOf(s) \subseteq S
  BY DEF RangeOf

(* What a concatenation holds.                                              *)
LEMMA RangeConcat ==
  ASSUME NEW S, NEW s \in Seq(S), NEW r \in Seq(S)
  PROVE  RangeOf(s \o r) = RangeOf(s) \cup RangeOf(r)
  <1> DEFINE c == s \o r
  <1>1. /\ DOMAIN s = 1 .. Len(s) /\ DOMAIN r = 1 .. Len(r) /\ Len(s) \in Nat /\ Len(r) \in Nat
        /\ DOMAIN c = 1 .. Len(s) + Len(r)
        /\ \A i \in 1 .. Len(s) + Len(r) : c[i] = IF i <= Len(s) THEN s[i] ELSE r[i - Len(s)]
    BY ConcatProperties
  <1> HIDE DEF c
  <1>2. ASSUME NEW e \in RangeOf(c) PROVE e \in RangeOf(s) \cup RangeOf(r)
    <2>1. PICK i \in 1 .. Len(s) + Len(r) : e = c[i]
      BY <1>1, <1>2 DEF RangeOf
    <2>2. CASE i <= Len(s)
      BY <1>1, <2>1, <2>2 DEF RangeOf
    <2>3. CASE ~(i <= Len(s))
      <3>1. i - Len(s) \in DOMAIN r /\ e = r[i - Len(s)]
        BY <1>1, <2>1, <2>3
      <3> QED
        BY <3>1 DEF RangeOf
    <2> QED
      BY <2>2, <2>3
  <1>3. ASSUME NEW e \in RangeOf(s) PROVE e \in RangeOf(c)
    <2>1. PICK i \in 1 .. Len(s) : e = s[i]
      BY <1>1, <1>3 DEF RangeOf
    <2>2. i \in DOMAIN c /\ c[i] = s[i]
      BY <1>1
    <2> QED
      BY <2>1, <2>2 DEF RangeOf
  <1>4. ASSUME NEW e \in RangeOf(r) PROVE e \in RangeOf(c)
    <2>1. PICK i \in 1 .. Len(r) : e = r[i]
      BY <1>1, <1>4 DEF RangeOf
    <2>2. i + Len(s) \in DOMAIN c /\ c[i + Len(s)] = r[i]
      BY <1>1
    <2> QED
      BY <2>1, <2>2 DEF RangeOf
  <1> QED
    BY <1>2, <1>3, <1>4 DEF c

(* A write of n lines of buffer b puts them at the end of one file and adds *)
(* the others to those that are lost.                                       *)
LEMMA WriteBufferMoves ==
  ASSUME TypeOK, NEW f \in Files \cup {NoFile}, NEW b \in Buffers, WriteBuffer(f, b)
  PROVE  \E n \in 0 .. Len(text[b]) :
           /\ \A g \in Files : content'[g] = IF g = f THEN content[g] \o SubSeq(text[b], 1, n)
                                             ELSE content[g]
           /\ f \notin Files => n = 0
           /\ RangeOf(SubSeq(text[b], 1, n)) = { text[b][i] : i \in 1 .. n }
           /\ \A g \in Files : RangeOf(content[g]) \subseteq RangeOf(content'[g])
           /\ f \in Files => RangeOf(content'[f])
                             = RangeOf(content[f]) \cup { text[b][i] : i \in 1 .. n }
           /\ lost' = lost \cup { text[b][i] : i \in n + 1 .. Len(text[b]) }
  <1>1. PICK n \in 0 .. Len(text[b]) :
          /\ IF f = NoFile THEN n = 0 ELSE IOFail \/ n = Len(text[b])
          /\ content' = [g \in Files |-> IF g = f THEN content[g] \o SubSeq(text[b], 1, n)
                                         ELSE content[g]]
          /\ lost' = lost \cup { text[b][i] : i \in n + 1 .. Len(text[b]) }
    BY DEF WriteBuffer
  <1>2. text[b] \in Seq(Lines) /\ \A g \in Files : content[g] \in Seq(Lines)
    BY DEF TypeOK
  <1> DEFINE p == SubSeq(text[b], 1, n)
  <1>3. p \in Seq(Lines) /\ DOMAIN p = 1 .. n /\ \A i \in 1 .. n : p[i] = text[b][i]
    <2>1. 1 \in 1 .. Len(text[b]) + 1 /\ n \in 0 .. Len(text[b]) /\ n \in Nat
      BY <1>2
    <2>2. /\ p \in Seq(Lines) /\ Len(p) = n /\ \A i \in 1 .. n : p[i] = text[b][i]
      BY <1>2, <2>1
    <2> QED
      BY <2>2, LenProperties
  <1> HIDE DEF p
  <1>4. RangeOf(p) = { text[b][i] : i \in 1 .. n }
    BY <1>3 DEF RangeOf
  <1>5. \A g \in Files : content'[g] = IF g = f THEN content[g] \o p ELSE content[g]
    BY <1>1 DEF p
  <1>6. \A g \in Files : RangeOf(content[g] \o p) = RangeOf(content[g]) \cup RangeOf(p)
    BY <1>2, <1>3, RangeConcat
  <1>7. \A g \in Files : RangeOf(content'[g]) = IF g = f THEN RangeOf(content[g]) \cup RangeOf(p)
                                                ELSE RangeOf(content[g])
    BY <1>5, <1>6
  <1>8. \A g \in Files : content'[g] = IF g = f THEN content[g] \o SubSeq(text[b], 1, n)
                                             ELSE content[g]
    BY <1>5 DEF p
  <1>9. RangeOf(SubSeq(text[b], 1, n)) = { text[b][i] : i \in 1 .. n }
    BY <1>4 DEF p
  <1>10. \A g \in Files : RangeOf(content[g]) \subseteq RangeOf(content'[g])
    BY <1>7
  <1>11. f \in Files => RangeOf(content'[f])
                             = RangeOf(content[f]) \cup { text[b][i] : i \in 1 .. n }
    BY <1>4, <1>7
  <1>12. f \notin Files => n = 0
    BY <1>1
  <1> QED
    BY <1>1, <1>8, <1>9, <1>10, <1>11, <1>12

(* No line of the buffer disappears in a write, and none of the others.     *)
LEMMA WriteBufferKeeps ==
  ASSUME TypeOK, NEW f \in Files \cup {NoFile}, NEW b \in Buffers, WriteBuffer(f, b)
  PROVE  /\ lost \subseteq lost'
         /\ \A g \in Files : RangeOf(content[g]) \subseteq RangeOf(content'[g])
         /\ \A l \in RangeOf(text[b]) :
              l \in lost' \/ \E g \in Files : l \in RangeOf(content'[g])
  <1>1. PICK n \in 0 .. Len(text[b]) :
           /\ f \notin Files => n = 0
           /\ \A g \in Files : RangeOf(content[g]) \subseteq RangeOf(content'[g])
           /\ f \in Files => RangeOf(content'[f])
                             = RangeOf(content[f]) \cup { text[b][i] : i \in 1 .. n }
           /\ lost' = lost \cup { text[b][i] : i \in n + 1 .. Len(text[b]) }
    BY WriteBufferMoves
  <1>2. ASSUME NEW l \in RangeOf(text[b])
        PROVE  l \in lost' \/ \E g \in Files : l \in RangeOf(content'[g])
    <2>1. PICK i \in 1 .. Len(text[b]) : l = text[b][i]
      BY DEF TypeOK, RangeOf
    <2>2. CASE i <= n
      <3>1. i \in 1 .. n /\ f \in Files
        BY <1>1, <2>2
      <3> QED
        BY <1>1, <2>1, <3>1
    <2>3. CASE ~(i <= n)
      <3>1. i \in n + 1 .. Len(text[b])
        BY <2>3
      <3> QED
        BY <1>1, <2>1, <3>1
    <2> QED
      BY <2>2, <2>3
  <1> QED
    BY <1>1, <1>2

-----------------------------------------------------------------------------
(* Where a line is, seen from the application's buffer.                     *)
Somewhere(l) == OnFile(l) \/ l \in lost \/ Queued(l) \/ (Buffered(l) /\ ~Gone)

(* A step of an application thread keeps every line somewhere.              *)
LEMMA CallKeepsLines ==
  ASSUME TypeOK, CallPhases, NEW t \in App, Call(t),
         \A l \in 1 .. nlines : Somewhere(l)
  PROVE  \A l \in 1 .. nlines' : Somewhere(l)'
  <1> USE DEF Somewhere, OnFile, Queued, Buffered, Gone, Dirty, Waiting
  <1>1. /\ UNCHANGED <<m_buf, m_dirty_pool, waiting_pool, content, lost>>
        /\ \A u \in App : pc[u] = "idle" /\ pc'[u] \in {"idle", "do_work"}
    BY CallChanges
  <1>2. CASE UNCHANGED <<text, nlines>>
    BY <1>1, <1>2
  <1>3. CASE /\ nlines' = nlines + 1
             /\ text' = [text EXCEPT ![m_buf] = Append(@, nlines + 1)]
             /\ nlines + 1 \in Lines
    <2>1. RangeOf(text'[m_buf]) = RangeOf(text[m_buf]) \cup {nlines + 1}
      BY <1>3, RangeAppend DEF TypeOK
    <2>2. \A b \in Buffers : RangeOf(text[b]) \subseteq RangeOf(text'[b])
      BY <1>3, <2>1 DEF TypeOK
    <2>3. Dirty \cup Waiting \subseteq Buffers
      BY RangeIn DEF TypeOK
    <2>4. Somewhere(nlines)' /\ ~Gone'
      BY <1>1, <1>3, <2>1
    <2>5. \A l \in 1 .. nlines : Somewhere(l)'
      BY <1>1, <2>2, <2>3 DEF TypeOK
    <2>6. 1 .. nlines + 1 = (1 .. nlines) \cup {nlines + 1}
      BY DEF TypeOK
    <2> QED
      BY <1>3, <2>4, <2>5, <2>6
  <1> QED
    BY <1>2, <1>3, CallChanges

(* p_do_work() empties the buffer, queues it or writes it; ~logger() drops  *)
(* an empty buffer and an empty queue.                                      *)
LEMMA ContinueKeepsLines ==
  ASSUME TypeOK, CallPhases, DiskPhases, Callers, BufferOwnership,
         NEW t \in App, Continue(t), Gone' => ran,
         \A l \in 1 .. nlines : Somewhere(l)
  PROVE  \A l \in 1 .. nlines' : Somewhere(l)'
  <1> USE DEF Somewhere
  <1>1. nlines' = nlines /\ ~Gone
    <2>1. pc[t] \notin {"idle", "gone"}
      BY DEF Continue, DoWork, Push, SyncWrite, Return, SyncMode, Poll, Rename,
        Terminate, Join
    <2> QED
      BY <2>1, NotGone DEF Continue, DoWork, Push, SyncWrite, Return, SyncMode, Poll,
        Rename, Terminate, Join, lineVars
  <1>2. ASSUME ~Join(t) PROVE ~Gone'
    <2>1. \A u \in App : pc'[u] = "gone" => pc[u] = "gone"
      BY <1>2 DEF Continue, DoWork, Push, SyncWrite, Return, SyncMode, Poll, Rename,
        Terminate, Leave, Goto, TypeOK
    <2> QED
      BY <1>1, <2>1 DEF Gone
  <1>3. m_buf \in Buffers /\ m_buf \notin Dirty \cup Waiting /\ Dirty \cup Waiting \subseteq Buffers
    BY RangeIn DEF TypeOK, BufferOwnership, Dirty, Waiting
  <1> TAKE l \in 1 .. nlines'
  <1>4. Somewhere(l)
    BY <1>1
  <1>5. CASE DoWork(t)
    <2>1. UNCHANGED <<m_buf, m_dirty_pool, waiting_pool, content>> /\ ~Gone'
      BY <1>2, <1>5 DEF DoWork, Join, diskVars
    <2>2. \/ UNCHANGED <<text, lost>>
          \/ text' = Emptied(m_buf) /\ lost' = lost \cup RangeOf(text[m_buf])
      BY <1>5 DEF DoWork
    <2>3. \A b \in Dirty \cup Waiting : text'[b] = text[b]
      BY <1>3, <2>2 DEF Emptied, TypeOK
    <2>4. OnFile(l) => OnFile(l)'
      BY <2>1 DEF OnFile
    <2>5. Queued(l) => Queued(l)'
      BY <2>1, <2>3 DEF Queued, Dirty, Waiting
    <2>6. Buffered(l) => Buffered(l)' \/ l \in lost'
      BY <2>1, <2>2 DEF Buffered
    <2>7. l \in lost => l \in lost'
      BY <2>2
    <2> QED
      BY <1>4, <2>1, <2>4, <2>5, <2>6, <2>7
  <1>6. CASE Push(t)
    <2>1. UNCHANGED <<waiting_pool, content, lost>> /\ m_dirty_pool' = Append(m_dirty_pool, m_buf)
          /\ text' = Emptied(m_buf')
      BY <1>6 DEF Push, PushBack, outVars
    <2>2. Dirty' = Dirty \cup {m_buf} /\ Waiting' = Waiting
      BY <2>1, RangeAppend DEF Dirty, Waiting, TypeOK
    <2>3. m_buf' \notin Dirty' \cup Waiting'
      BY <1>6, PushMoves DEF BufferOwnership
    <2>4. \A b \in Dirty' \cup Waiting' : text'[b] = text[b]
      BY <1>3, <2>1, <2>2, <2>3 DEF Emptied, TypeOK
    <2>5. Queued(l) \/ Buffered(l) => Queued(l)'
      BY <2>2, <2>4 DEF Queued, Buffered
    <2>6. OnFile(l) => OnFile(l)'
      BY <2>1 DEF OnFile
    <2> QED
      BY <1>4, <2>1, <2>5, <2>6
  <1>7. CASE SyncWrite(t)
    <2>1. UNCHANGED <<m_buf, m_dirty_pool, waiting_pool>> /\ text' = Emptied(m_buf)
          /\ WriteBuffer(m_file_name, m_buf) /\ ~Gone'
      BY <1>2, <1>7 DEF SyncWrite, Join, diskVars
    <2>2. m_file_name \in Files \cup {NoFile}
      BY DEF TypeOK
    <2>3. /\ lost \subseteq lost'
          /\ \A g \in Files : RangeOf(content[g]) \subseteq RangeOf(content'[g])
          /\ l \in RangeOf(text[m_buf]) =>
               l \in lost' \/ \E g \in Files : l \in RangeOf(content'[g])
      BY <1>3, <2>1, <2>2, WriteBufferKeeps
    <2>4. \A b \in Dirty \cup Waiting : text'[b] = text[b]
      BY <1>3, <2>1 DEF Emptied, TypeOK
    <2>5. Queued(l) => Queued(l)'
      BY <2>1, <2>4 DEF Queued, Dirty, Waiting
    <2>6. OnFile(l) => OnFile(l)'
      BY <2>3 DEF OnFile
    <2>7. Buffered(l) => l \in lost' \/ OnFile(l)'
      BY <2>3 DEF OnFile, Buffered
    <2> QED
      BY <1>4, <2>3, <2>5, <2>6, <2>7
  <1>8. CASE Return(t) \/ SyncMode(t) \/ Poll(t) \/ Rename(t) \/ Terminate(t)
    <2>1. UNCHANGED <<m_buf, text, m_dirty_pool, waiting_pool, content, lost>>
      BY <1>8 DEF Return, SyncMode, Poll, Rename, Terminate, poolVars, diskVars, outVars
    <2>2. ~Gone'
      BY <1>2, <1>8 DEF Return, SyncMode, Poll, Rename, Terminate, Join
    <2> QED
      BY <1>4, <2>1, <2>2 DEF OnFile, Queued, Buffered, Dirty, Waiting
  <1>9. CASE Join(t)
    <2>1. text[m_buf] = <<>> /\ dpc = "done" /\ pc'[t] = "gone"
          /\ UNCHANGED <<content, lost, ran>>
      BY <1>9 DEF Join, Callers, Goto, TypeOK, outVars, diskVars
    <2>2. m_dirty_pool = <<>> /\ waiting_pool = <<>>
      BY <2>1 DEF Callers, DiskPhases, Gone
    <2>3. ~Buffered(l) /\ ~Queued(l)
      BY <2>1, <2>2, RangeEmpty DEF Buffered, Queued, Dirty, Waiting
    <2> QED
      BY <1>4, <2>1, <2>3 DEF OnFile
  <1> QED
    BY <1>5, <1>6, <1>7, <1>8, <1>9 DEF Continue

(* The disk thread moves lines from the queue to its own pool, and from     *)
(* there to the file.                                                       *)
LEMMA DiskKeepsLines ==
  ASSUME TypeOK, DiskPhases, BufferOwnership, DiskStep \/ SpuriousWakeup,
         \A l \in 1 .. nlines : Somewhere(l)
  PROVE  \A l \in 1 .. nlines' : Somewhere(l)'
  <1> USE DEF Somewhere
  <1>1. UNCHANGED <<nlines, pc, m_buf, text>>
    BY DEF DiskStep, DiskStart, DiskWake, DiskOpen, DiskWrite, DiskClose,
      DiskRecycle, SpuriousWakeup, DiskFrame, lineVars
  <1>2. (Gone <=> Gone') /\ \A l : Buffered(l) <=> Buffered(l)'
    BY <1>1 DEF Gone, Buffered
  <1>3. CASE ~DiskWrite
    <2>1. UNCHANGED <<content, lost>>
      BY <1>3 DEF DiskStep, DiskStart, DiskWake, DiskOpen, DiskClose,
        DiskRecycle, SpuriousWakeup
    <2>2. \/ UNCHANGED <<m_dirty_pool, waiting_pool>>
          \/ waiting_pool = <<>> /\ \E inner \in BOOLEAN : Loops(inner)
      BY <1>3 DEF DiskStep, DiskStart, DiskWake, DiskOpen, DiskClose,
        DiskRecycle, SpuriousWakeup, DiskPhases
    <2>3. Dirty' \cup Waiting' = Dirty \cup Waiting
      <3>1. CASE UNCHANGED <<m_dirty_pool, waiting_pool>>
        BY <3>1 DEF Dirty, Waiting
      <3>2. CASE waiting_pool = <<>> /\ \E inner \in BOOLEAN : Loops(inner)
        BY <3>2, RangeEmpty DEF Loops, Taken, Dirty, Waiting
      <3> QED
        BY <2>2, <3>1, <3>2
    <2> QED
      BY <1>1, <1>2, <2>1, <2>3 DEF OnFile, Queued
  <1>4. CASE DiskWrite
    <2>1. waiting_pool \in Seq(Buffers) /\ waiting_pool # <<>>
          /\ waiting_pool' = Tail(waiting_pool) /\ m_dirty_pool' = m_dirty_pool
          /\ WriteBuffer(m_file_name, Head(waiting_pool))
          /\ m_file_name \in Files \cup {NoFile}
      BY <1>4 DEF DiskWrite, TypeOK
    <2> DEFINE b == Head(waiting_pool)
    <2>2. b \in Buffers
      BY <2>1, HeadTailProperties
    <2>3. Waiting = {b} \cup Waiting' /\ Dirty' = Dirty
      BY <2>1, RangeTail DEF Waiting, Dirty
    <2>4. /\ lost \subseteq lost'
          /\ \A g \in Files : RangeOf(content[g]) \subseteq RangeOf(content'[g])
          /\ \A l \in RangeOf(text[b]) :
               l \in lost' \/ \E g \in Files : l \in RangeOf(content'[g])
      BY <2>1, <2>2, WriteBufferKeeps
    <2> HIDE DEF b
    <2>5. \A l : Queued(l) => Queued(l)' \/ l \in lost' \/ OnFile(l)'
      BY <1>1, <2>3, <2>4 DEF Queued, OnFile
    <2>6. \A l : OnFile(l) => OnFile(l)'
      BY <2>4 DEF OnFile
    <2> QED
      BY <1>1, <1>2, <2>4, <2>5, <2>6
  <1> QED
    BY <1>3, <1>4

(* A logged line is never dropped, whatever the threads do: it is in the    *)
(* buffer, queued, on disk, or file output was off or its write failed.     *)
THEOREM NothingIsDropped == Spec => []NothingDropped
  <1>1. Init => NothingDropped
    BY DEF Init, NothingDropped
  <1>2. TypeOK /\ CallPhases /\ DiskPhases /\ Callers /\ BufferOwnership
          /\ NothingDropped /\ [Next]_vars => NothingDropped'
    <2> SUFFICES ASSUME TypeOK, CallPhases, DiskPhases, Callers, BufferOwnership,
                        NothingDropped, [Next]_vars, Gone' => ran'
                 PROVE  \A l \in 1 .. nlines' : Somewhere(l)'
      BY DEF NothingDropped, Somewhere
    <2>1. Gone => ran
      <3>1. ASSUME Gone PROVE UNCHANGED ran /\ Gone'
        <4>1. PICK t \in App : pc[t] = "gone"
          BY <3>1 DEF Gone
        <4>2. op[t] = "destroy" /\ dpc = "done"
          BY <3>1, <4>1 DEF CallPhases, DiskPhases
        <4>3. \A u \in App : ~Call(u)
          BY <4>1, CallChanges
        <4>4. \A u \in App : ~Continue(u)
          <5>1. ASSUME NEW u \in App, pc[u] \notin {"idle", "gone"} PROVE FALSE
            BY <3>1, <5>1, NotGone
          <5> QED
            BY <5>1 DEF Continue, DoWork, Push, SyncWrite, Return, SyncMode, Poll,
              Rename, Terminate, Join
        <4>5. ~DiskStep /\ ~SpuriousWakeup
          BY <4>2 DEF DiskStep, DiskStart, DiskWake, DiskOpen, DiskWrite, DiskClose,
            DiskRecycle, SpuriousWakeup
        <4>6. UNCHANGED vars
          BY <4>3, <4>4, <4>5 DEF Next, Quiet
        <4> QED
          BY <3>1, <4>6 DEF vars, diskVars, Gone
      <3> QED
        BY <3>1
    <2>2. \A l \in 1 .. nlines : Somewhere(l)
      BY <2>1 DEF NothingDropped, Somewhere
    <2>3. ASSUME NEW t \in App, Call(t) PROVE \A l \in 1 .. nlines' : Somewhere(l)'
      BY <2>2, <2>3, CallKeepsLines
    <2>4. ASSUME NEW t \in App, Continue(t) PROVE \A l \in 1 .. nlines' : Somewhere(l)'
      <3>1. ran' = ran
        BY <2>4 DEF Continue, DoWork, Push, SyncWrite, Return, SyncMode, Poll, Rename,
          Terminate, Join, diskVars
      <3> QED
        BY <2>2, <2>4, <3>1, ContinueKeepsLines
    <2>5. CASE DiskStep \/ SpuriousWakeup
      BY <2>2, <2>5, DiskKeepsLines
    <2>6. CASE UNCHANGED vars
      BY <2>2, <2>6 DEF vars, poolVars, diskVars, outVars, lineVars, Somewhere, OnFile,
        Queued, Buffered, Gone, Dirty, Waiting
    <2> QED
      BY <2>3, <2>4, <2>5, <2>6 DEF Next, Quiet
  <1> QED
    BY <1>1, <1>2, TypeCorrect, PhasesCorrect, CallersCorrect, OwnershipCorrect, PTL DEF Spec

-----------------------------------------------------------------------------
(* The order of lines.                                                      *)
Increasing(s) == \A i, j \in DOMAIN s : i < j => s[i] < s[j]
Below(S, T)   == \A x \in S, y \in T : x < y

(* Sequences in order, one below the other, make a sequence in order.       *)
LEMMA IncreasingConcat ==
  ASSUME NEW s \in Seq(Nat), NEW r \in Seq(Nat), Increasing(s), Increasing(r),
         Below(RangeOf(s), RangeOf(r))
  PROVE  Increasing(s \o r)
  <1> DEFINE c == s \o r
  <1>1. /\ DOMAIN s = 1 .. Len(s) /\ DOMAIN r = 1 .. Len(r) /\ Len(s) \in Nat /\ Len(r) \in Nat
        /\ DOMAIN c = 1 .. Len(s) + Len(r)
        /\ \A i \in 1 .. Len(s) + Len(r) : c[i] = IF i <= Len(s) THEN s[i] ELSE r[i - Len(s)]
    BY ConcatProperties
  <1> HIDE DEF c
  <1>2. ASSUME NEW i \in DOMAIN c, NEW j \in DOMAIN c, i < j PROVE c[i] < c[j]
    <2>1. i \in 1 .. Len(s) + Len(r) /\ j \in 1 .. Len(s) + Len(r)
      BY <1>1
    <2>2. CASE j <= Len(s)
      <3>1. i \in DOMAIN s /\ j \in DOMAIN s /\ c[i] = s[i] /\ c[j] = s[j]
        BY <1>1, <1>2, <2>1, <2>2
      <3> QED
        BY <1>2, <3>1 DEF Increasing
    <2>3. CASE i <= Len(s) /\ ~(j <= Len(s))
      <3>1. i \in DOMAIN s /\ j - Len(s) \in DOMAIN r /\ c[i] = s[i] /\ c[j] = r[j - Len(s)]
        BY <1>1, <1>2, <2>1, <2>3
      <3> QED
        BY <3>1 DEF Below, RangeOf
    <2>4. CASE ~(i <= Len(s))
      <3>1. /\ i - Len(s) \in DOMAIN r /\ j - Len(s) \in DOMAIN r
            /\ c[i] = r[i - Len(s)] /\ c[j] = r[j - Len(s)] /\ i - Len(s) < j - Len(s)
        BY <1>1, <1>2, <2>1, <2>4
      <3> QED
        BY <3>1 DEF Increasing
    <2> QED
      BY <1>1, <1>2, <2>1, <2>2, <2>3, <2>4
  <1> QED
    BY <1>2 DEF Increasing, c

(* Lines are numbers.                                                       *)
LEMMA LinesAreNumbers == ASSUME NEW s \in Seq(Lines) PROVE s \in Seq(Nat)
  <1>1. Len(s) \in Nat /\ s \in [1 .. Len(s) -> Lines]
    BY LenProperties
  <1>2. s \in [1 .. Len(s) -> Nat]
    BY <1>1 DEF Lines
  <1> QED
    BY <1>1, <1>2, SeqDef

(* A line above all others goes to the end.                                 *)
LEMMA IncreasingAppend ==
  ASSUME NEW s \in Seq(Nat), NEW e \in Nat, Increasing(s), \A x \in RangeOf(s) : x < e
  PROVE  Increasing(Append(s, e))
  <1> DEFINE a == Append(s, e)
  <1>1. /\ DOMAIN s = 1 .. Len(s) /\ DOMAIN a = 1 .. Len(s) + 1 /\ Len(s) \in Nat
        /\ \A i \in 1 .. Len(s) : a[i] = s[i]
        /\ a[Len(s) + 1] = e
    BY AppendProperties
  <1> HIDE DEF a
  <1>2. ASSUME NEW i \in DOMAIN a, NEW j \in DOMAIN a, i < j PROVE a[i] < a[j]
    <2>1. i \in 1 .. Len(s) /\ a[i] = s[i]
      BY <1>1, <1>2
    <2>2. CASE j = Len(s) + 1
      BY <1>1, <2>1, <2>2 DEF RangeOf
    <2>3. CASE j # Len(s) + 1
      <3>1. j \in DOMAIN s /\ a[j] = s[j]
        BY <1>1, <2>3
      <3> QED
        BY <1>1, <1>2, <2>1, <3>1 DEF Increasing
    <2> QED
      BY <2>2, <2>3
  <1> QED
    BY <1>2 DEF Increasing, a

(* In a sequence in order nothing is repeated.                              *)
LEMMA IncreasingDistinct ==
  ASSUME NEW s \in Seq(Nat), Increasing(s) PROVE Distinct(s)
  <1>1. ASSUME NEW i \in DOMAIN s, NEW j \in DOMAIN s, s[i] = s[j] PROVE i = j
    <2>1. i \in Nat /\ j \in Nat /\ s[i] \in Nat /\ s[j] \in Nat
      OBVIOUS
    <2>2. ~(i < j) /\ ~(j < i)
      BY <1>1, <2>1 DEF Increasing
    <2> QED
      BY <2>1, <2>2
  <1> QED
    BY <1>1 DEF Distinct

(* The numbers of lines: none is above the count of LOG() calls, and each   *)
(* buffer has its lines in order.                                           *)
Numbered ==
  /\ \A b \in Buffers : RangeOf(text[b]) \subseteq 1 .. nlines /\ Increasing(text[b])
  /\ \A f \in Files : RangeOf(content[f]) \subseteq 1 .. nlines
  /\ RangeOf(stream) \subseteq 1 .. nlines

(* A step that changes nothing but where lines are.                         *)
LEMMA SameLines ==
  ASSUME TypeOK, Numbered, nlines' = nlines,
         \A b \in Buffers : text'[b] \in {text[b], <<>>},
         \A f \in Files : RangeOf(content'[f]) \subseteq 1 .. nlines,
         RangeOf(stream') \subseteq 1 .. nlines
  PROVE  Numbered'
  <1>1. ASSUME NEW b \in Buffers
        PROVE  RangeOf(text'[b]) \subseteq 1 .. nlines' /\ Increasing(text'[b])
    <2>1. RangeOf(<<>>) = {} /\ Increasing(<<>>)
      BY DEF RangeOf, Increasing
    <2> QED
      BY <2>1 DEF Numbered
  <1> QED
    BY <1>1 DEF Numbered

(* What a write puts into the files comes from the buffer.                  *)
LEMMA WriteBufferFrom ==
  ASSUME TypeOK, NEW f \in Files \cup {NoFile}, NEW b \in Buffers, WriteBuffer(f, b)
  PROVE  \A g \in Files :
           RangeOf(content'[g]) \subseteq RangeOf(content[g])
                                          \cup (IF g = f THEN RangeOf(text[b]) ELSE {})
  <1>1. PICK n \in 0 .. Len(text[b]) :
           /\ \A g \in Files : content'[g] = IF g = f THEN content[g] \o SubSeq(text[b], 1, n)
                                             ELSE content[g]
           /\ f \in Files => RangeOf(content'[f])
                             = RangeOf(content[f]) \cup { text[b][i] : i \in 1 .. n }
    BY WriteBufferMoves
  <1>2. { text[b][i] : i \in 1 .. n } \subseteq RangeOf(text[b])
    BY DEF TypeOK, RangeOf
  <1> QED
    BY <1>1, <1>2

(* Lines are numbered in every state.                                       *)
LEMMA NumberedCorrect == Spec => []Numbered
  <1>1. Init => Numbered
    BY DEF Init, Numbered, RangeOf, Increasing
  <1>2. TypeOK /\ CallPhases /\ Numbered /\ [Next]_vars => Numbered'
    <2> SUFFICES ASSUME TypeOK, CallPhases, Numbered, [Next]_vars PROVE Numbered'
      OBVIOUS
    <2>0. RangeOf(<<>>) = {}
      BY DEF RangeOf
    <2>1. ASSUME NEW t \in App, Call(t) PROVE Numbered'
      <3>1. UNCHANGED <<m_buf, content, stream>>
        BY <2>1, CallChanges
      <3>2. CASE UNCHANGED <<text, nlines>>
        BY <3>1, <3>2, SameLines DEF Numbered
      <3>3. CASE /\ nlines' = nlines + 1
                 /\ text' = [text EXCEPT ![m_buf] = Append(@, nlines + 1)]
                 /\ nlines + 1 \in Lines
        <4>1. text[m_buf] \in Seq(Lines) /\ Lines \subseteq Nat /\ nlines \in Nat
          BY DEF TypeOK, Lines
        <4>2. text[m_buf] \in Seq(Nat)
          BY <4>1, LinesAreNumbers
        <4>3. RangeOf(text'[m_buf]) = RangeOf(text[m_buf]) \cup {nlines + 1}
          BY <3>3, <4>1, RangeAppend DEF TypeOK
        <4>4. Increasing(Append(text[m_buf], nlines + 1))
          BY <4>1, <4>2, IncreasingAppend DEF Numbered, TypeOK
        <4>5. \A b \in Buffers : RangeOf(text'[b]) \subseteq 1 .. nlines + 1 /\ Increasing(text'[b])
          BY <3>3, <4>1, <4>3, <4>4 DEF Numbered, TypeOK
        <4>6. 1 .. nlines \subseteq 1 .. nlines + 1
          BY <4>1
        <4> QED
          BY <3>1, <3>3, <4>5, <4>6 DEF Numbered
      <3> QED
        BY <2>1, <3>2, <3>3, CallChanges
    <2>2. ASSUME NEW t \in App, Continue(t) PROVE Numbered'
      <3> USE DEF lineVars, outVars, poolVars
      <3>1. CASE DoWork(t)
        <4>1. /\ nlines' = nlines /\ content' = content
              /\ text' = text \/ text' = Emptied(m_buf)
              /\ stream' = stream \/ stream' = stream \o text[m_buf]
          BY <3>1 DEF DoWork
        <4>2. RangeOf(stream \o text[m_buf]) = RangeOf(stream) \cup RangeOf(text[m_buf])
          BY RangeConcat DEF TypeOK
        <4>3. RangeOf(stream') \subseteq 1 .. nlines
          BY <4>1, <4>2 DEF Numbered, TypeOK
        <4>4. \A b \in Buffers : text'[b] \in {text[b], <<>>}
          BY <4>1 DEF Emptied, TypeOK
        <4> QED
          BY <4>1, <4>3, <4>4, SameLines DEF Numbered
      <3>2. CASE Push(t)
        <4>1. UNCHANGED <<nlines, content, stream>> /\ text' = Emptied(m_buf')
          BY <3>2 DEF Push
        <4>2. \A b \in Buffers : text'[b] \in {text[b], <<>>}
          BY <4>1 DEF Emptied, TypeOK
        <4> QED
          BY <4>1, <4>2, SameLines DEF Numbered
      <3>3. CASE SyncWrite(t)
        <4>1. UNCHANGED <<nlines, stream>> /\ text' = Emptied(m_buf)
              /\ WriteBuffer(m_file_name, m_buf)
              /\ m_buf \in Buffers /\ m_file_name \in Files \cup {NoFile}
          BY <3>3 DEF SyncWrite, TypeOK
        <4>2. \A g \in Files : RangeOf(content'[g]) \subseteq 1 .. nlines
          BY <4>1, WriteBufferFrom DEF Numbered
        <4>3. \A b \in Buffers : text'[b] \in {text[b], <<>>}
          BY <4>1 DEF Emptied, TypeOK
        <4> QED
          BY <4>1, <4>2, <4>3, SameLines DEF Numbered
      <3>4. CASE Return(t) \/ SyncMode(t) \/ Poll(t) \/ Rename(t) \/ Terminate(t) \/ Join(t)
        <4>1. UNCHANGED <<nlines, text, content, stream>>
          BY <3>4 DEF Return, SyncMode, Poll, Rename, Terminate, Join
        <4> QED
          BY <4>1, SameLines DEF Numbered
      <3> QED
        BY <2>2, <3>1, <3>2, <3>3, <3>4 DEF Continue
    <2>3. CASE DiskStep \/ SpuriousWakeup
      <3>1. UNCHANGED <<nlines, text, stream>>
        BY <2>3 DEF DiskStep, DiskStart, DiskWake, DiskOpen, DiskWrite, DiskClose,
          DiskRecycle, SpuriousWakeup, DiskFrame, lineVars
      <3>2. CASE DiskWrite
        <4>1. Head(waiting_pool) \in Buffers
          BY <3>2, HeadTailProperties DEF DiskWrite, TypeOK
        <4>2. \A g \in Files : RangeOf(content'[g]) \subseteq 1 .. nlines
          <5>1. m_file_name \in Files \cup {NoFile} /\ WriteBuffer(m_file_name, Head(waiting_pool))
            BY <3>2 DEF DiskWrite, TypeOK
          <5> QED
            BY <4>1, <5>1, WriteBufferFrom DEF Numbered
        <4> QED
          BY <3>1, <4>2, SameLines DEF Numbered
      <3>3. CASE ~DiskWrite
        <4>1. UNCHANGED content
          BY <2>3, <3>3 DEF DiskStep, DiskStart, DiskWake, DiskOpen, DiskClose,
            DiskRecycle, SpuriousWakeup
        <4> QED
          BY <3>1, <4>1, SameLines DEF Numbered
      <3> QED
        BY <3>2, <3>3
    <2>4. CASE UNCHANGED vars
      BY <2>4, SameLines DEF vars, poolVars, outVars, lineVars, Numbered
    <2> QED
      BY <2>1, <2>2, <2>3, <2>4 DEF Next, Quiet
  <1> QED
    BY <1>1, <1>2, TypeCorrect, PhasesCorrect, PTL DEF Spec

-----------------------------------------------------------------------------
(* Synchronous mode, as long as it is never left by disable_async(), finds  *)
(* nothing queued.                                                          *)
Synced ==
  /\ "enable_async" \notin ops => ~mode.async
  /\ ~({"enable_async", "disable_async"} \subseteq ops) /\ ~mode.async
       => m_dirty_pool = <<>> /\ waiting_pool = <<>>

(* So it is in every state.                                                 *)
LEMMA SyncedCorrect == Spec => []Synced
  <1>1. Init => Synced
    BY DEF Init, Synced
  <1>2. TypeOK /\ CallPhases /\ Callers /\ Synced /\ [Next]_vars => Synced'
    <2> SUFFICES ASSUME TypeOK, CallPhases, Callers, Synced, [Next]_vars PROVE Synced'
      OBVIOUS
    <2>1. ASSUME NEW t \in App, Call(t) PROVE Synced'
      <3>1. /\ UNCHANGED <<ops, m_dirty_pool, waiting_pool>>
            /\ mode'.async = mode.async \/ ("enable_async" \in ops /\ mode'.async = TRUE)
        BY <2>1, CallChanges
      <3> QED
        BY <3>1 DEF Synced
    <2>2. ASSUME NEW t \in App, Continue(t) PROVE Synced'
      <3>1. CASE Push(t)
        <4>1. UNCHANGED <<ops, mode>> /\ mode.async
          BY <3>1 DEF Push, Callers
        <4> QED
          BY <4>1 DEF Synced
      <3>2. CASE SyncMode(t)
        <4>1. UNCHANGED <<ops, m_dirty_pool, waiting_pool>> /\ "disable_async" \in ops
              /\ mode'.async = FALSE
          BY <3>2 DEF SyncMode, Callers, poolVars, diskVars, TypeOK, Modes
        <4> QED
          BY <4>1 DEF Synced
      <3>3. CASE Rename(t)
        <4>1. UNCHANGED <<ops, m_dirty_pool, waiting_pool>> /\ mode'.async = mode.async
          BY <3>3 DEF Rename, poolVars, diskVars, TypeOK, Modes
        <4> QED
          BY <4>1 DEF Synced
      <3>4. CASE DoWork(t) \/ SyncWrite(t) \/ Return(t) \/ Poll(t) \/ Terminate(t) \/ Join(t)
        <4>1. UNCHANGED <<ops, mode, waiting_pool>> /\ m_dirty_pool' \in {m_dirty_pool, <<>>}
          BY <3>4 DEF DoWork, SyncWrite, Return, Poll, Terminate, Join, poolVars, diskVars
        <4> QED
          BY <4>1 DEF Synced
      <3> QED
        BY <2>2, <3>1, <3>2, <3>3, <3>4 DEF Continue
    <2>3. CASE DiskStep \/ SpuriousWakeup
      <3>1. UNCHANGED <<ops, mode>>
        BY <2>3 DEF DiskStep, DiskStart, DiskWake, DiskOpen, DiskWrite, DiskClose,
          DiskRecycle, SpuriousWakeup, DiskFrame
      <3>2. m_dirty_pool = <<>> /\ waiting_pool = <<>> => m_dirty_pool' = <<>> /\ waiting_pool' = <<>>
        BY <2>3 DEF DiskStep, DiskStart, DiskWake, DiskOpen, DiskWrite, DiskClose,
          DiskRecycle, SpuriousWakeup, Loops
      <3> QED
        BY <3>1, <3>2 DEF Synced
    <2>4. CASE UNCHANGED vars
      BY <2>4 DEF vars, poolVars, diskVars, Synced
    <2> QED
      BY <2>1, <2>2, <2>3, <2>4 DEF Next, Quiet
  <1> QED
    BY <1>1, <1>2, TypeCorrect, PhasesCorrect, CallersCorrect, PTL DEF Spec

(* An application that never calls enable_async(): the buffer holds lines   *)
(* for the current file only.                                               *)
SyncFile ==
  "enable_async" \notin ops =>
    /\ \A f \in Files : \A l \in RangeOf(content[f]) : target[l] = f
    /\ \A l \in RangeOf(text[m_buf]) : target[l] = m_file_name

(* Without enable_async() a line is written to the file that was current    *)
(* when it was logged: set_new_file() finds the buffer empty.               *)
THEOREM SyncFilesAreRight == Spec => []RightFileSync
  <1>1. Init => SyncFile
    <2> SUFFICES ASSUME Init PROVE SyncFile
      OBVIOUS
    <2>1. text[m_buf] = <<>> /\ \A f \in Files : content[f] = <<>>
      BY TwoBuffers DEF Init
    <2> QED
      BY <2>1, RangeEmpty DEF SyncFile
  <1>2. /\ TypeOK /\ CallPhases /\ DiskPhases /\ Callers /\ Numbered /\ Synced
        /\ SyncFile /\ [Next]_vars
        => SyncFile'
    <2> SUFFICES ASSUME TypeOK, CallPhases, DiskPhases, Callers, Numbered, Synced,
                        SyncFile, [Next]_vars, "enable_async" \notin ops'
                 PROVE  /\ \A f \in Files : \A l \in RangeOf(content'[f]) : target'[l] = f
                        /\ \A l \in RangeOf(text'[m_buf']) : target'[l] = m_file_name'
      BY DEF SyncFile
    <2> DEFINE Goal == /\ \A f \in Files : \A l \in RangeOf(content'[f]) : target'[l] = f
                       /\ \A l \in RangeOf(text'[m_buf']) : target'[l] = m_file_name'
    <2>0. ops' = ops
      BY OpsStay
    <2>1. /\ \A f \in Files : \A l \in RangeOf(content[f]) : target[l] = f
          /\ \A l \in RangeOf(text[m_buf]) : target[l] = m_file_name
          /\ m_dirty_pool = <<>> /\ waiting_pool = <<>> /\ ~mode.async
      BY <2>0 DEF SyncFile, Synced
    <2>2. RangeOf(<<>>) = {}
      BY DEF RangeOf
    <2>3. ASSUME NEW t \in App, Call(t) PROVE Goal
      <3>1. UNCHANGED <<m_buf, content, m_file_name>>
        BY <2>3, CallChanges
      <3>2. CASE UNCHANGED <<text, nlines, target>>
        BY <2>1, <3>1, <3>2
      <3>3. CASE /\ nlines + 1 \in Lines /\ nlines' = nlines + 1
                 /\ text' = [text EXCEPT ![m_buf] = Append(@, nlines + 1)]
                 /\ target' = [target EXCEPT ![nlines + 1] = m_file_name]
        <4>1. RangeOf(text'[m_buf]) = RangeOf(text[m_buf]) \cup {nlines + 1}
          BY <3>3, RangeAppend DEF TypeOK
        <4>2. \A l \in 1 .. nlines : target'[l] = target[l]
          BY <3>3 DEF TypeOK
        <4>3. target'[nlines + 1] = m_file_name
          BY <3>3 DEF TypeOK
        <4>4. /\ \A f \in Files : RangeOf(content[f]) \subseteq 1 .. nlines
              /\ RangeOf(text[m_buf]) \subseteq 1 .. nlines
          BY DEF Numbered, TypeOK
        <4> QED
          BY <2>1, <3>1, <4>1, <4>2, <4>3, <4>4
      <3> QED
        BY <2>3, <3>2, <3>3, CallChanges
    <2>4. ASSUME NEW t \in App, Continue(t) PROVE Goal
      <3>1. target' = target
        BY <2>4 DEF Continue, DoWork, Push, SyncWrite, Return, SyncMode, Poll, Rename,
          Terminate, Join, lineVars
      <3>2. ~Push(t)
        BY <2>1 DEF Push, Callers
      <3>3. CASE DoWork(t)
        <4>1. UNCHANGED <<content, m_buf, m_file_name>>
              /\ text'[m_buf] \in {text[m_buf], <<>>}
          BY <3>3 DEF DoWork, fileVars, Emptied, TypeOK
        <4> QED
          BY <2>1, <2>2, <3>1, <4>1
      <3>4. CASE SyncWrite(t)
        <4>1. UNCHANGED <<m_buf, m_file_name>> /\ text'[m_buf] = <<>>
              /\ WriteBuffer(m_file_name, m_buf) /\ m_buf \in Buffers
              /\ m_file_name \in Files \cup {NoFile}
          BY <3>4 DEF SyncWrite, fileVars, Emptied, TypeOK
        <4>2. \A g \in Files :
                RangeOf(content'[g]) \subseteq RangeOf(content[g])
                          \cup (IF g = m_file_name THEN RangeOf(text[m_buf]) ELSE {})
          BY <4>1, WriteBufferFrom
        <4> QED
          BY <2>1, <2>2, <3>1, <4>1, <4>2
      <3>5. CASE Return(t) \/ SyncMode(t) \/ Poll(t) \/ Terminate(t)
        <4>1. UNCHANGED <<content, m_buf, m_file_name, text>>
          BY <3>5 DEF Return, SyncMode, Poll, Terminate, fileVars, outVars, poolVars
        <4> QED
          BY <2>1, <3>1, <4>1
      <3>6. CASE Rename(t) \/ Join(t)
        <4>1. UNCHANGED <<content, m_buf, text>> /\ text[m_buf] = <<>>
          BY <3>6 DEF Rename, Join, Callers, outVars, poolVars
        <4> QED
          BY <2>1, <2>2, <3>1, <4>1
      <3> QED
        BY <2>4, <3>2, <3>3, <3>4, <3>5, <3>6 DEF Continue
    <2>5. CASE DiskStep \/ SpuriousWakeup
      <3>1. UNCHANGED <<text, m_buf, m_file_name, target>>
        BY <2>5 DEF DiskStep, DiskStart, DiskWake, DiskOpen, DiskWrite, DiskClose,
          DiskRecycle, SpuriousWakeup, DiskFrame, lineVars, fileVars
      <3>2. UNCHANGED content
        BY <2>1, <2>5 DEF DiskStep, DiskStart, DiskWake, DiskOpen, DiskWrite, DiskClose,
          DiskRecycle, SpuriousWakeup
      <3> QED
        BY <2>1, <3>1, <3>2
    <2>6. CASE UNCHANGED vars
      BY <2>1, <2>6 DEF vars, poolVars, outVars, lineVars, fileVars
    <2> QED
      BY <2>3, <2>4, <2>5, <2>6 DEF Next, Quiet
  <1>3. TypeOK /\ SyncFile => RightFileSync
    BY DEF SyncFile, RightFileSync, RightFile, RangeOf
  <1> QED
    BY <1>1, <1>2, <1>3, TypeCorrect, PhasesCorrect, CallersCorrect, NumberedCorrect,
       SyncedCorrect, PTL DEF Spec

-----------------------------------------------------------------------------
(* What went to the stream is in order and, but for a buffer that is being  *)
(* written, comes before what is in the buffer.                             *)
Streamed ==
  /\ Increasing(stream)
  /\ \/ \E t \in App : pc[t] \in {"push", "write"}
     \/ Below(RangeOf(stream), RangeOf(text[m_buf]))

(* So it is in every state.                                                 *)
LEMMA StreamedCorrect == Spec => []Streamed
  <1>1. Init => Streamed
    BY DEF Init, Streamed, Increasing, Below, RangeOf
  <1>2. TypeOK /\ CallPhases /\ Callers /\ Numbered /\ Streamed /\ [Next]_vars => Streamed'
    <2> SUFFICES ASSUME TypeOK, CallPhases, Callers, Numbered, Streamed, [Next]_vars
                 PROVE  Streamed'
      OBVIOUS
    <2>0. Below(RangeOf(stream'), RangeOf(<<>>))
      BY DEF Below, RangeOf
    <2>1. ASSUME NEW t \in App, Call(t) PROVE Streamed'
      <3>1. UNCHANGED <<m_buf, stream>> /\ \A u \in App : pc[u] = "idle"
        BY <2>1, CallChanges
      <3>2. Below(RangeOf(stream), RangeOf(text[m_buf]))
        BY <3>1 DEF Streamed
      <3>3. CASE UNCHANGED <<text, nlines>>
        BY <3>1, <3>2, <3>3 DEF Streamed
      <3>4. CASE text' = [text EXCEPT ![m_buf] = Append(@, nlines + 1)] /\ nlines + 1 \in Lines
        <4>1. RangeOf(text'[m_buf]) = RangeOf(text[m_buf]) \cup {nlines + 1}
          BY <3>4, RangeAppend DEF TypeOK
        <4>2. \A l \in RangeOf(stream) : l < nlines + 1
          BY DEF Numbered, TypeOK
        <4> QED
          BY <3>1, <3>2, <4>1, <4>2 DEF Streamed, Below
      <3> QED
        BY <2>1, <3>3, <3>4, CallChanges
    <2>2. ASSUME NEW t \in App, Continue(t) PROVE Streamed'
      <3>1. pc[t] \notin {"idle", "gone"}
        BY <2>2 DEF Continue, DoWork, Push, SyncWrite, Return, SyncMode, Poll, Rename,
          Terminate, Join
      <3>2. \A u \in App : u # t => pc[u] = "idle"
        BY <3>1, AloneInCall
      <3> USE DEF Streamed
      <3>3. CASE DoWork(t)
        <4>1. pc[t] = "do_work" /\ m_buf' = m_buf
          BY <3>3 DEF DoWork
        <4>2. Below(RangeOf(stream), RangeOf(text[m_buf]))
          BY <3>2, <4>1
        <4>3. Increasing(stream')
          <5>1. stream \in Seq(Nat) /\ text[m_buf] \in Seq(Nat) /\ Increasing(text[m_buf])
            BY LinesAreNumbers DEF TypeOK, Numbered
          <5>2. Increasing(stream \o text[m_buf])
            BY <4>2, <5>1, IncreasingConcat
          <5> QED
            BY <3>3, <5>2 DEF DoWork
        <4>4. pc'[t] \in {"push", "write"} \/ text'[m_buf] = <<>>
          BY <3>3 DEF DoWork, Goto, Emptied, TypeOK
        <4> QED
          BY <2>0, <4>1, <4>3, <4>4
      <3>4. CASE Push(t) \/ SyncWrite(t)
        <4>1. stream' = stream /\ text' = Emptied(m_buf')
          BY <3>4 DEF Push, SyncWrite, outVars
        <4>2. m_buf' \in Buffers
          BY <3>4, AnyOfIn DEF Push, SyncWrite, TypeOK
        <4>3. text'[m_buf'] = <<>>
          BY <4>1, <4>2 DEF Emptied, TypeOK
        <4> QED
          BY <2>0, <4>1, <4>3
      <3>5. CASE Return(t) \/ SyncMode(t) \/ Poll(t) \/ Rename(t) \/ Terminate(t) \/ Join(t)
        <4>1. UNCHANGED <<m_buf, text, stream>> /\ pc[t] \notin {"push", "write"}
          BY <3>5 DEF Return, SyncMode, Poll, Rename, Terminate, Join, poolVars, outVars
        <4> QED
          BY <3>2, <4>1
      <3> QED
        BY <2>2, <3>3, <3>4, <3>5 DEF Continue
    <2>3. CASE DiskStep \/ SpuriousWakeup
      <3>1. UNCHANGED <<pc, text, m_buf, stream>>
        BY <2>3 DEF DiskStep, DiskStart, DiskWake, DiskOpen, DiskWrite, DiskClose,
          DiskRecycle, SpuriousWakeup, DiskFrame
      <3> QED
        BY <3>1 DEF Streamed
    <2>4. CASE UNCHANGED vars
      BY <2>4 DEF vars, poolVars, outVars, Streamed
    <2> QED
      BY <2>1, <2>2, <2>3, <2>4 DEF Next, Quiet
  <1> QED
    BY <1>1, <1>2, TypeCorrect, PhasesCorrect, CallersCorrect, NumberedCorrect, PTL DEF Spec

-----------------------------------------------------------------------------
(* The order of the whole pipeline: files, the disk thread's buffers, the   *)
(* queue, the buffer.                                                       *)
InQueue(q) ==
  \A i, j \in DOMAIN q : i < j => Below(RangeOf(text[q[i]]), RangeOf(text[q[j]]))

FilesOrdered ==
  /\ \A f \in Files : Increasing(content[f])
  /\ \A f, g \in Files : f # g => RangeOf(content[f]) \cap RangeOf(content[g]) = {}

QueuesOrdered ==
  /\ InQueue(m_dirty_pool) /\ InQueue(waiting_pool)
  /\ \A b \in Waiting, c \in Dirty : Below(RangeOf(text[b]), RangeOf(text[c]))
  /\ \A b \in Dirty \cup Waiting : Below(RangeOf(text[b]), RangeOf(text[m_buf]))

FilesFirst ==
  \A f \in Files : \A b \in Dirty \cup Waiting \cup {m_buf} :
    Below(RangeOf(content[f]), RangeOf(text[b]))

InOrder == FilesOrdered /\ QueuesOrdered /\ FilesFirst

(* A buffer whose lines come after all those in the files is written.       *)
LEMMA WriteInOrder ==
  ASSUME TypeOK, Numbered, FilesOrdered, NEW f \in Files \cup {NoFile}, NEW b \in Buffers,
         WriteBuffer(f, b), \A g \in Files : Below(RangeOf(content[g]), RangeOf(text[b]))
  PROVE  FilesOrdered'
  <1>1. PICK n \in 0 .. Len(text[b]) :
           /\ \A g \in Files : content'[g] = IF g = f THEN content[g] \o SubSeq(text[b], 1, n)
                                             ELSE content[g]
           /\ RangeOf(SubSeq(text[b], 1, n)) = { text[b][i] : i \in 1 .. n }
    BY WriteBufferMoves
  <1>2. text[b] \in Seq(Nat) /\ Increasing(text[b]) /\ \A g \in Files : content[g] \in Seq(Nat)
    BY LinesAreNumbers DEF TypeOK, Numbered
  <1> DEFINE p == SubSeq(text[b], 1, n)
  <1>3. p \in Seq(Nat) /\ DOMAIN p = 1 .. n /\ \A i \in 1 .. n : p[i] = text[b][i]
    <2>1. 1 \in 1 .. Len(text[b]) + 1 /\ n \in 0 .. Len(text[b]) /\ n \in Nat
      BY <1>2
    <2>2. /\ p \in Seq(Nat) /\ Len(p) = n /\ \A i \in 1 .. n : p[i] = text[b][i]
      BY <1>2, <2>1
    <2> QED
      BY <2>2, LenProperties
  <1>4. 1 .. n \subseteq DOMAIN text[b]
    BY <1>2, LenProperties
  <1>5. Increasing(p) /\ RangeOf(p) \subseteq RangeOf(text[b])
    <2> HIDE DEF p
    <2>1. ASSUME NEW i \in DOMAIN p, NEW j \in DOMAIN p, i < j PROVE p[i] < p[j]
      <3>1. i \in DOMAIN text[b] /\ j \in DOMAIN text[b] /\ p[i] = text[b][i] /\ p[j] = text[b][j]
        BY <1>3, <1>4
      <3> QED
        BY <1>2, <2>1, <3>1 DEF Increasing
    <2>2. \A i \in DOMAIN p : i \in DOMAIN text[b] /\ p[i] = text[b][i]
      BY <1>3, <1>4
    <2>3. RangeOf(p) \subseteq RangeOf(text[b])
      BY <2>2 DEF RangeOf
    <2>4. Increasing(p)
      BY <2>1 DEF Increasing
    <2> QED
      BY <2>3, <2>4
  <1>6. \A g \in Files : content'[g] = IF g = f THEN content[g] \o p ELSE content[g]
    BY <1>1
  <1> HIDE DEF p
  <1>7. ASSUME NEW g \in Files PROVE Increasing(content'[g])
    <2>1. Below(RangeOf(content[g]), RangeOf(p))
      BY <1>5 DEF Below
    <2>2. Increasing(content[g] \o p)
      BY <1>2, <1>3, <1>5, <2>1, IncreasingConcat DEF FilesOrdered
    <2> QED
      BY <1>6, <2>2 DEF FilesOrdered
  <1>8. ASSUME NEW g \in Files, NEW h \in Files, g # h
        PROVE  RangeOf(content'[g]) \cap RangeOf(content'[h]) = {}
    <2>1. \A k \in Files : RangeOf(content'[k]) \subseteq RangeOf(content[k])
                                 \cup (IF k = f THEN RangeOf(text[b]) ELSE {})
      BY WriteBufferFrom
    <2>2. \A k \in Files : RangeOf(content[k]) \cap RangeOf(text[b]) = {}
      <3>1. ASSUME NEW k \in Files, NEW x \in RangeOf(content[k]), x \in RangeOf(text[b])
            PROVE  FALSE
        <4>1. x < x /\ x \in Nat
          BY <1>2, <3>1, RangeIn DEF Below
        <4> QED
          BY <4>1
      <3> QED
        BY <3>1
    <2> QED
      BY <1>8, <2>1, <2>2 DEF FilesOrdered
  <1> QED
    BY <1>7, <1>8 DEF FilesOrdered

(* A Log() appends the largest number to the buffer.                        *)
LEMMA CallInOrder ==
  ASSUME TypeOK, CallPhases, BufferOwnership, Numbered, InOrder, NEW t \in App, Call(t)
  PROVE  InOrder'
  <1>1. UNCHANGED <<m_buf, m_dirty_pool, waiting_pool, content>>
    BY CallChanges
  <1>2. Dirty' = Dirty /\ Waiting' = Waiting /\ FilesOrdered'
    BY <1>1 DEF Dirty, Waiting, InOrder, FilesOrdered
  <1>3. CASE UNCHANGED text
    BY <1>1, <1>2, <1>3 DEF InOrder, QueuesOrdered, FilesFirst, InQueue
  <1>4. CASE text' = [text EXCEPT ![m_buf] = Append(@, nlines + 1)] /\ nlines + 1 \in Lines
    <2>1. RangeOf(text'[m_buf]) = RangeOf(text[m_buf]) \cup {nlines + 1}
      BY <1>4, RangeAppend DEF TypeOK
    <2>2. \A b \in Dirty \cup Waiting : text'[b] = text[b] /\ b \in Buffers
      BY <1>4, RangeIn DEF TypeOK, BufferOwnership, Dirty, Waiting
    <2>3. /\ \A f \in Files : \A l \in RangeOf(content[f]) : l < nlines + 1
          /\ \A b \in Buffers : \A l \in RangeOf(text[b]) : l < nlines + 1
      BY DEF Numbered, TypeOK
    <2>4. FilesFirst'
      BY <1>1, <1>2, <2>1, <2>2, <2>3 DEF InOrder, FilesFirst, Below
    <2>5. \A b \in Dirty \cup Waiting : Below(RangeOf(text'[b]), RangeOf(text'[m_buf]))
      BY <2>1, <2>2, <2>3 DEF InOrder, QueuesOrdered, Below
    <2>6. /\ \A i \in DOMAIN m_dirty_pool : m_dirty_pool[i] \in Dirty
          /\ \A i \in DOMAIN waiting_pool : waiting_pool[i] \in Waiting
      BY DEF Dirty, Waiting, RangeOf
    <2>7. InQueue(m_dirty_pool)' /\ InQueue(waiting_pool)'
      BY <1>1, <2>2, <2>6 DEF InOrder, QueuesOrdered, InQueue
    <2>8. \A b \in Waiting, c \in Dirty : Below(RangeOf(text'[b]), RangeOf(text'[c]))
      BY <2>2 DEF InOrder, QueuesOrdered
    <2> QED
      BY <1>1, <1>2, <2>4, <2>5, <2>7, <2>8 DEF InOrder, QueuesOrdered
  <1> QED
    BY <1>3, <1>4, CallChanges

(* Emptying one buffer, the queues and files being the same.                *)
LEMMA EmptiedInOrder ==
  ASSUME InOrder, UNCHANGED <<m_buf, m_dirty_pool, waiting_pool, content>>,
         \A b \in Dirty \cup Waiting \cup {m_buf} : text'[b] \in {text[b], <<>>}
  PROVE  InOrder'
  <1>1. \A b \in Dirty \cup Waiting \cup {m_buf} : RangeOf(text'[b]) \subseteq RangeOf(text[b])
    BY RangeEmpty
  <1>2. Dirty' = Dirty /\ Waiting' = Waiting
    BY DEF Dirty, Waiting
  <1>3. /\ \A i \in DOMAIN m_dirty_pool : m_dirty_pool[i] \in Dirty
        /\ \A i \in DOMAIN waiting_pool : waiting_pool[i] \in Waiting
    BY DEF Dirty, Waiting, RangeOf
  <1>4. FilesOrdered'
    BY DEF InOrder, FilesOrdered
  <1>5. FilesFirst'
    BY <1>1, <1>2 DEF InOrder, FilesFirst, Below
  <1>6. InQueue(m_dirty_pool)' /\ InQueue(waiting_pool)'
    <2>1. ASSUME NEW b \in Dirty \cup Waiting, NEW c \in Dirty \cup Waiting,
                 Below(RangeOf(text[b]), RangeOf(text[c]))
          PROVE  Below(RangeOf(text'[b]), RangeOf(text'[c]))
      BY <1>1, <2>1 DEF Below
    <2>2. \A i, j \in DOMAIN m_dirty_pool : i < j =>
            Below(RangeOf(text'[m_dirty_pool[i]]), RangeOf(text'[m_dirty_pool[j]]))
      BY <1>3, <2>1 DEF InOrder, QueuesOrdered, InQueue
    <2>3. \A i, j \in DOMAIN waiting_pool : i < j =>
            Below(RangeOf(text'[waiting_pool[i]]), RangeOf(text'[waiting_pool[j]]))
      BY <1>3, <2>1 DEF InOrder, QueuesOrdered, InQueue
    <2> QED
      BY <2>2, <2>3 DEF InQueue
  <1>7. /\ \A b \in Waiting, c \in Dirty : Below(RangeOf(text'[b]), RangeOf(text'[c]))
        /\ \A b \in Dirty \cup Waiting : Below(RangeOf(text'[b]), RangeOf(text'[m_buf]))
    BY <1>1 DEF InOrder, QueuesOrdered, Below
  <1> QED
    BY <1>2, <1>4, <1>5, <1>6, <1>7 DEF InOrder, QueuesOrdered

(* The buffer becomes the last of the queue.                                *)
LEMMA PushInOrder ==
  ASSUME TypeOK, CallPhases, BufferOwnership, InOrder, NEW t \in App, Push(t)
  PROVE  InOrder'
  <1>1. UNCHANGED <<waiting_pool, content>> /\ m_dirty_pool' = Append(m_dirty_pool, m_buf)
        /\ text' = Emptied(m_buf')
    BY DEF Push, PushBack, outVars
  <1>2. Dirty' = Dirty \cup {m_buf} /\ Waiting' = Waiting
    BY <1>1, RangeAppend DEF Dirty, Waiting, TypeOK
  <1>3. m_buf' \notin Dirty' \cup Waiting'
    BY PushMoves DEF BufferOwnership
  <1>4. m_buf' \in Buffers
    BY AnyOfIn DEF Push, TypeOK
  <1>5. text'[m_buf'] = <<>> /\ \A b \in Dirty' \cup Waiting' : text'[b] = text[b]
    BY <1>1, <1>2, <1>3, <1>4, RangeIn DEF Emptied, TypeOK, Dirty, Waiting
  <1>6. RangeOf(text'[m_buf']) = {}
    BY <1>5, RangeEmpty
  <1>7. FilesOrdered'
    BY <1>1 DEF InOrder, FilesOrdered
  <1>8. FilesFirst'
    BY <1>1, <1>2, <1>5, <1>6 DEF InOrder, FilesFirst, Below
  <1>9. \A b \in Dirty' \cup Waiting' : Below(RangeOf(text'[b]), RangeOf(text'[m_buf']))
    BY <1>6 DEF Below
  <1>10. \A b \in Waiting', c \in Dirty' : Below(RangeOf(text'[b]), RangeOf(text'[c]))
    BY <1>2, <1>5 DEF InOrder, QueuesOrdered
  <1>11. InQueue(waiting_pool)'
    <2>1. \A i \in DOMAIN waiting_pool : waiting_pool[i] \in Waiting
      BY DEF Waiting, RangeOf
    <2> QED
      BY <1>1, <1>2, <1>5, <2>1 DEF InOrder, QueuesOrdered, InQueue
  <1>12. InQueue(m_dirty_pool)'
    <2> DEFINE d == m_dirty_pool
               a == Append(d, m_buf)
    <2>1. /\ DOMAIN d = 1 .. Len(d) /\ DOMAIN a = 1 .. Len(d) + 1 /\ Len(d) \in Nat
          /\ \A i \in 1 .. Len(d) : a[i] = d[i] /\ d[i] \in Dirty
          /\ a[Len(d) + 1] = m_buf
      BY AppendProperties DEF TypeOK, Dirty, RangeOf
    <2>2. \A i \in DOMAIN a : a[i] \in Dirty'
      BY <1>2, <2>1
    <2>3. m_dirty_pool' = a
      BY <1>1
    <2> HIDE DEF a, d
    <2>4. ASSUME NEW i \in DOMAIN a, NEW j \in DOMAIN a, i < j
          PROVE  Below(RangeOf(text[a[i]]), RangeOf(text[a[j]]))
      <3>1. i \in DOMAIN d /\ a[i] = d[i] /\ d[i] \in Dirty
        BY <2>1, <2>4
      <3>2. CASE j = Len(d) + 1
        BY <2>1, <3>1, <3>2 DEF InOrder, QueuesOrdered
      <3>3. CASE j # Len(d) + 1
        <4>1. j \in DOMAIN d /\ a[j] = d[j]
          BY <2>1, <3>3
        <4> QED
          BY <2>4, <3>1, <4>1 DEF InOrder, QueuesOrdered, InQueue, d
      <3> QED
        BY <3>2, <3>3
    <2> QED
      BY <1>5, <2>2, <2>3, <2>4 DEF InQueue
  <1> QED
    BY <1>7, <1>8, <1>9, <1>10, <1>11, <1>12 DEF InOrder, QueuesOrdered

(* A synchronous write finds nothing queued.                                *)
LEMMA SyncWriteInOrder ==
  ASSUME TypeOK, Callers, Synced, "disable_async" \notin ops, Numbered, InOrder,
         NEW t \in App, SyncWrite(t)
  PROVE  InOrder'
  <1>1. m_dirty_pool = <<>> /\ waiting_pool = <<>>
    BY DEF SyncWrite, Callers, Synced
  <1>2. UNCHANGED <<m_buf, m_dirty_pool, waiting_pool>> /\ text'[m_buf] = <<>>
        /\ WriteBuffer(m_file_name, m_buf) /\ m_buf \in Buffers
        /\ m_file_name \in Files \cup {NoFile}
    BY DEF SyncWrite, Emptied, TypeOK, diskVars
  <1>3. \A g \in Files : Below(RangeOf(content[g]), RangeOf(text[m_buf]))
    BY DEF InOrder, FilesFirst
  <1>4. FilesOrdered'
    BY <1>2, <1>3, WriteInOrder DEF InOrder
  <1>5. Dirty' = {} /\ Waiting' = {} /\ RangeOf(text'[m_buf']) = {}
        /\ m_dirty_pool' = <<>> /\ waiting_pool' = <<>>
    BY <1>1, <1>2, RangeEmpty DEF Dirty, Waiting
  <1>6. FilesFirst'
    BY <1>5 DEF FilesFirst, Below
  <1>7. QueuesOrdered'
    BY <1>5 DEF QueuesOrdered, InQueue
  <1> QED
    BY <1>4, <1>6, <1>7 DEF InOrder

(* The disk thread writes the oldest buffer.                                *)
LEMMA DiskWriteInOrder ==
  ASSUME TypeOK, Numbered, InOrder, DiskWrite
  PROVE  InOrder'
  <1> DEFINE b == Head(waiting_pool)
             r == Tail(waiting_pool)
  <1>1. waiting_pool \in Seq(Buffers) /\ waiting_pool # <<>>
        /\ waiting_pool' = r /\ WriteBuffer(m_file_name, b)
        /\ UNCHANGED <<m_dirty_pool, m_buf, text>> /\ m_file_name \in Files \cup {NoFile}
    BY DEF DiskWrite, TypeOK, DiskFrame
  <1>2. b \in Buffers
    BY <1>1, HeadTailProperties
  <1>3. Waiting = {b} \cup Waiting' /\ Dirty' = Dirty
    BY <1>1, RangeTail DEF Waiting, Dirty
  <1>4. /\ DOMAIN waiting_pool = 1 .. Len(waiting_pool) /\ DOMAIN r = 1 .. Len(waiting_pool) - 1
        /\ Len(waiting_pool) \in Nat \ {0} /\ b = waiting_pool[1]
        /\ \A i \in 1 .. Len(waiting_pool) - 1 : r[i] = waiting_pool[i + 1]
    BY <1>1, HeadTailProperties, EmptySeq
  <1> HIDE DEF b, r
  <1>5. \A g \in Files : Below(RangeOf(content[g]), RangeOf(text[b]))
    BY <1>3 DEF InOrder, FilesFirst
  <1>6. FilesOrdered'
    BY <1>1, <1>2, <1>5, WriteInOrder DEF InOrder
  <1>7. InQueue(waiting_pool)'
    <2>1. ASSUME NEW i \in DOMAIN r, NEW j \in DOMAIN r, i < j
          PROVE  Below(RangeOf(text[r[i]]), RangeOf(text[r[j]]))
      <3>1. i + 1 \in DOMAIN waiting_pool /\ j + 1 \in DOMAIN waiting_pool /\ i + 1 < j + 1
            /\ r[i] = waiting_pool[i + 1] /\ r[j] = waiting_pool[j + 1]
        BY <1>4, <2>1
      <3> QED
        BY <3>1 DEF InOrder, QueuesOrdered, InQueue
    <2> QED
      BY <1>1, <2>1 DEF InQueue
  <1>8. \A c \in Waiting' : Below(RangeOf(text[b]), RangeOf(text[c]))
    <2> TAKE c \in Waiting'
    <2>1. PICK i \in DOMAIN r : c = r[i]
      BY <1>1 DEF Waiting, RangeOf
    <2>2. i + 1 \in DOMAIN waiting_pool /\ 1 \in DOMAIN waiting_pool /\ 1 < i + 1
          /\ c = waiting_pool[i + 1] /\ b = waiting_pool[1]
      BY <1>4, <2>1
    <2> QED
      BY <2>2 DEF InOrder, QueuesOrdered, InQueue
  <1>9. \A c \in Dirty \cup Waiting' \cup {m_buf} : Below(RangeOf(text[b]), RangeOf(text[c]))
    BY <1>3, <1>8 DEF InOrder, QueuesOrdered
  <1>10. \A g \in Files : RangeOf(content'[g]) \subseteq RangeOf(content[g]) \cup RangeOf(text[b])
    BY <1>1, <1>2, WriteBufferFrom
  <1>11. FilesFirst'
    BY <1>1, <1>3, <1>9, <1>10 DEF InOrder, FilesFirst, Below
  <1>12. QueuesOrdered'
    BY <1>1, <1>3, <1>7 DEF InOrder, QueuesOrdered, InQueue
  <1> QED
    BY <1>6, <1>11, <1>12 DEF InOrder

(* The disk thread takes the whole queue, when its own pool is empty.       *)
LEMMA LoopsInOrder ==
  ASSUME InOrder, NEW inner \in BOOLEAN, Loops(inner), waiting_pool = <<>>,
         UNCHANGED <<m_buf, text, content>>
  PROVE  InOrder'
  <1>1. CASE UNCHANGED <<m_dirty_pool, waiting_pool>>
    BY <1>1 DEF InOrder, FilesOrdered, QueuesOrdered, FilesFirst, InQueue, Dirty, Waiting
  <1>2. CASE m_dirty_pool' = <<>> /\ waiting_pool' = m_dirty_pool
    <2>1. Dirty' = {} /\ Waiting' = Dirty /\ Waiting = {}
      BY <1>2, RangeEmpty DEF Dirty, Waiting
    <2>2. InQueue(m_dirty_pool)' /\ InQueue(waiting_pool)'
      BY <1>2 DEF InOrder, QueuesOrdered, InQueue
    <2>3. FilesOrdered'
      BY DEF InOrder, FilesOrdered
    <2>4. FilesFirst'
      BY <2>1 DEF InOrder, FilesFirst
    <2>5. QueuesOrdered'
      BY <2>1, <2>2 DEF InOrder, QueuesOrdered
    <2> QED
      BY <2>3, <2>4, <2>5 DEF InOrder
  <1> QED
    BY <1>1, <1>2 DEF Loops, Taken

(* As long as asynchronous mode is not left by disable_async(), the lines   *)
(* of each file are in the order of the LOG() calls, and no line is in two  *)
(* places of the files or of the stream.                                    *)
THEOREM LinesInOrder == Spec => []("disable_async" \notin ops => OnceInOrder)
  <1> DEFINE Inv == "disable_async" \notin ops => InOrder
  <1>1. Init => Inv
    <2> SUFFICES ASSUME Init PROVE InOrder
      OBVIOUS
    <2>1. Dirty = {} /\ Waiting = {} /\ \A f \in Files : content[f] = <<>>
      BY RangeEmpty DEF Init, Dirty, Waiting
    <2> QED
      BY <2>1, RangeEmpty DEF Init, InOrder, FilesOrdered, QueuesOrdered, FilesFirst,
        InQueue, Increasing, Below
  <1>2. /\ TypeOK /\ CallPhases /\ DiskPhases /\ Callers /\ BufferOwnership /\ Numbered
        /\ Synced /\ Inv /\ [Next]_vars
        => Inv'
    <2> SUFFICES ASSUME TypeOK, CallPhases, DiskPhases, Callers, BufferOwnership,
                        Numbered, Synced, Inv, [Next]_vars, "disable_async" \notin ops'
                 PROVE  InOrder'
      OBVIOUS
    <2>0. ops' = ops
      BY OpsStay
    <2>1. InOrder
      BY <2>0
    <2>2. ASSUME NEW t \in App, Call(t) PROVE InOrder'
      BY <2>1, <2>2, CallInOrder
    <2>3. ASSUME NEW t \in App, Continue(t) PROVE InOrder'
      <3>1. CASE DoWork(t) \/ Return(t) \/ SyncMode(t) \/ Poll(t) \/ Rename(t) \/ Terminate(t)
        <4>1. UNCHANGED <<m_buf, m_dirty_pool, waiting_pool, content>>
          BY <3>1 DEF DoWork, Return, SyncMode, Poll, Rename, Terminate, poolVars,
            outVars, diskVars
        <4>2. text' = text \/ text' = Emptied(m_buf)
          BY <3>1 DEF DoWork, Return, SyncMode, Poll, Rename, Terminate, poolVars
        <4>3. \A b \in Buffers : text'[b] \in {text[b], <<>>}
          BY <4>2 DEF Emptied, TypeOK
        <4>4. Dirty \cup Waiting \cup {m_buf} \subseteq Buffers
          BY RangeIn DEF TypeOK, Dirty, Waiting
        <4> QED
          BY <2>1, <4>1, <4>3, <4>4, EmptiedInOrder
      <3>2. CASE Push(t)
        BY <2>1, <3>2, PushInOrder
      <3>3. CASE SyncWrite(t)
        BY <2>0, <2>1, <3>3, SyncWriteInOrder
      <3>4. CASE Join(t)
        <4>1. UNCHANGED <<m_buf, text, waiting_pool, content>> /\ m_dirty_pool' = <<>>
          BY <3>4 DEF Join, outVars, diskVars
        <4>2. Dirty' = {} /\ Waiting' = Waiting
          BY <4>1, RangeEmpty DEF Dirty, Waiting
        <4>3. InQueue(m_dirty_pool)' /\ InQueue(waiting_pool)'
          BY <2>1, <4>1 DEF InOrder, QueuesOrdered, InQueue
        <4>4. FilesOrdered' /\ FilesFirst'
          BY <2>1, <4>1, <4>2 DEF InOrder, FilesOrdered, FilesFirst
        <4>5. QueuesOrdered'
          BY <2>1, <4>1, <4>2, <4>3 DEF InOrder, QueuesOrdered
        <4> QED
          BY <4>4, <4>5 DEF InOrder
      <3> QED
        BY <2>3, <3>1, <3>2, <3>3, <3>4 DEF Continue
    <2>4. CASE DiskStart \/ DiskWake \/ DiskRecycle
      <3>1. waiting_pool = <<>> /\ UNCHANGED <<m_buf, text, content>>
            /\ \E inner \in BOOLEAN : Loops(inner)
        BY <2>4 DEF DiskStart, DiskWake, DiskRecycle, DiskFrame, DiskPhases
      <3> QED
        BY <2>1, <3>1, LoopsInOrder
    <2>5. CASE DiskOpen \/ DiskClose \/ SpuriousWakeup \/ UNCHANGED vars
      <3>1. UNCHANGED <<m_buf, text, m_dirty_pool, waiting_pool, content>>
        BY <2>5 DEF DiskOpen, DiskClose, SpuriousWakeup, DiskFrame, vars, poolVars,
          diskVars, outVars
      <3> QED
        BY <2>1, <3>1, EmptiedInOrder
    <2>6. CASE DiskWrite
      BY <2>1, <2>6, DiskWriteInOrder
    <2> QED
      BY <2>2, <2>3, <2>4, <2>5, <2>6 DEF Next, Quiet, DiskStep
  <1>3. TypeOK /\ Inv /\ Streamed => ("disable_async" \notin ops => OnceInOrder)
    <2> SUFFICES ASSUME TypeOK, InOrder, Streamed PROVE OnceInOrder
      OBVIOUS
    <2>1. stream \in Seq(Nat)
      BY LinesAreNumbers DEF TypeOK
    <2>2. Distinct(stream)
      BY <2>1, IncreasingDistinct DEF Streamed
    <2> QED
      BY <2>2 DEF InOrder, FilesOrdered, Increasing, OnceInOrder
  <1> HIDE DEF Inv
  <1> QED
    BY <1>1, <1>2, <1>3, TypeCorrect, PhasesCorrect, CallersCorrect, NumberedCorrect,
       SyncedCorrect, StreamedCorrect, OwnershipCorrect, PTL DEF Spec

-----------------------------------------------------------------------------
(* The lines of the buffers of two queues, the first queue first.           *)
TextsOf(first, second, x) ==
  LET both == first \o second IN [i \in DOMAIN both |-> x[both[i]]]

(* They are a sequence of as many elements, of the same buffers.            *)
LEMMA TextsAre ==
  ASSUME NEW w \in Seq(Buffers), NEW d \in Seq(Buffers), NEW x \in [Buffers -> Seq(Lines)]
  PROVE  /\ TextsOf(w, d, x) \in Seq(Seq(Lines))
         /\ Len(TextsOf(w, d, x)) = Len(w) + Len(d)
         /\ Len(w) \in Nat /\ Len(d) \in Nat
         /\ \A i \in 1 .. Len(w) + Len(d) :
              TextsOf(w, d, x)[i] = IF i <= Len(w) THEN x[w[i]] ELSE x[d[i - Len(w)]]
  <1> DEFINE c == w \o d
             q == [i \in DOMAIN c |-> x[c[i]]]
  <1>1. /\ c \in Seq(Buffers) /\ DOMAIN c = 1 .. Len(w) + Len(d) /\ Len(w) \in Nat /\ Len(d) \in Nat
        /\ \A i \in 1 .. Len(w) + Len(d) : c[i] = IF i <= Len(w) THEN w[i] ELSE d[i - Len(w)]
    BY ConcatProperties
  <1>2. \A i \in 1 .. Len(w) + Len(d) : c[i] \in Buffers
    BY <1>1
  <1> HIDE DEF c
  <1>3. q \in [1 .. Len(w) + Len(d) -> Seq(Lines)]
    BY <1>1, <1>2
  <1>4. Len(w) + Len(d) \in Nat
    BY <1>1
  <1>5. q \in Seq(Seq(Lines)) /\ Len(q) = Len(w) + Len(d)
    BY <1>3, <1>4, SeqDef, LenProperties
  <1>6. \A i \in 1 .. Len(w) + Len(d) : q[i] = x[c[i]]
    BY <1>1
  <1>7. TextsOf(w, d, x) = q
    BY DEF TextsOf, c
  <1> HIDE DEF q
  <1> QED
    BY <1>1, <1>5, <1>6, <1>7

(* The buffers of a queue have the same lines in x as in y.                 *)
Agree(q, x, y) == \A b \in RangeOf(q) : y[b] = x[b]

(* The same buffers with the same lines.                                    *)
LEMMA TextsSame ==
  ASSUME NEW w \in Seq(Buffers), NEW d \in Seq(Buffers),
         NEW x \in [Buffers -> Seq(Lines)], NEW y \in [Buffers -> Seq(Lines)],
         Agree(w, x, y), Agree(d, x, y)
  PROVE  TextsOf(w, d, y) = TextsOf(w, d, x)
  <1> DEFINE p == TextsOf(w, d, x)
             q == TextsOf(w, d, y)
  <1>1. p \in Seq(Seq(Lines)) /\ q \in Seq(Seq(Lines)) /\ Len(p) = Len(q) /\ Len(p) = Len(w) + Len(d)
        /\ Len(w) \in Nat /\ Len(d) \in Nat
    BY TextsAre
  <1>2. ASSUME NEW i \in 1 .. Len(p) PROVE p[i] = q[i]
    <2>0. i \in 1 .. Len(w) + Len(d)
      BY <1>1
    <2>1. CASE i <= Len(w)
      <3>1. w[i] \in RangeOf(w)
        BY <1>1, <2>0, <2>1 DEF RangeOf
      <3>2. p[i] = x[w[i]] /\ q[i] = y[w[i]]
        BY <2>0, <2>1, TextsAre
      <3> QED
        BY <3>1, <3>2 DEF Agree
    <2>2. CASE ~(i <= Len(w))
      <3>1. i - Len(w) \in DOMAIN d
        BY <1>1, <2>0, <2>2
      <3>2. d[i - Len(w)] \in RangeOf(d)
        BY <3>1 DEF RangeOf
      <3>3. p[i] = x[d[i - Len(w)]] /\ q[i] = y[d[i - Len(w)]]
        BY <2>0, <2>2, TextsAre
      <3> QED
        BY <3>2, <3>3 DEF Agree
    <2> QED
      BY <2>1, <2>2
  <1> HIDE DEF p, q
  <1>3. p \in Seq(Seq(Lines)) /\ q \in Seq(Seq(Lines)) /\ Len(p) = Len(q)
    BY <1>1
  <1>4. p = q
    BY <1>2, <1>3, SeqEqual
  <1> QED
    BY <1>4 DEF p, q

(* One more buffer at the end of the queue.                                 *)
LEMMA TextsAppend ==
  ASSUME NEW w \in Seq(Buffers), NEW d \in Seq(Buffers), NEW b \in Buffers,
         NEW x \in [Buffers -> Seq(Lines)]
  PROVE  TextsOf(w, Append(d, b), x) = Append(TextsOf(w, d, x), x[b])
  <1> DEFINE e == Append(d, b)
             p == TextsOf(w, d, x)
             q == TextsOf(w, e, x)
             a == Append(p, x[b])
  <1>1. e \in Seq(Buffers) /\ Len(e) = Len(d) + 1 /\ e[Len(d) + 1] = b
        /\ \A i \in 1 .. Len(d) : e[i] = d[i]
    BY AppendProperties
  <1> HIDE DEF e
  <1>2. /\ p \in Seq(Seq(Lines)) /\ Len(p) = Len(w) + Len(d) /\ Len(w) \in Nat /\ Len(d) \in Nat
        /\ \A i \in 1 .. Len(w) + Len(d) : p[i] = IF i <= Len(w) THEN x[w[i]] ELSE x[d[i - Len(w)]]
    BY TextsAre
  <1>3. /\ q \in Seq(Seq(Lines)) /\ Len(q) = Len(w) + Len(e)
        /\ \A i \in 1 .. Len(w) + Len(e) : q[i] = IF i <= Len(w) THEN x[w[i]] ELSE x[e[i - Len(w)]]
    BY <1>1, TextsAre
  <1> HIDE DEF p, q
  <1>4. /\ a \in Seq(Seq(Lines)) /\ Len(a) = Len(p) + 1 /\ a[Len(p) + 1] = x[b]
        /\ \A i \in 1 .. Len(p) : a[i] = p[i]
    BY <1>2, AppendProperties
  <1> HIDE DEF a
  <1>L. /\ Len(w) \in Nat /\ Len(d) \in Nat /\ Len(e) = Len(d) + 1
        /\ Len(p) = Len(w) + Len(d) /\ Len(q) = Len(w) + Len(e) /\ Len(a) = Len(p) + 1
    BY <1>1, <1>2, <1>3, <1>4
  <1>5. ASSUME NEW i \in 1 .. Len(q) PROVE q[i] = a[i]
    <2>1. CASE i = Len(p) + 1
      <3>1. ~(i <= Len(w)) /\ i - Len(w) = Len(d) + 1 /\ i \in 1 .. Len(w) + Len(e)
        BY <1>1, <1>2, <2>1
      <3> QED
        BY <1>1, <1>3, <1>4, <2>1, <3>1
    <2>2. CASE i # Len(p) + 1
      <3>1. i \in 1 .. Len(p) /\ i \in 1 .. Len(w) + Len(d) /\ i \in 1 .. Len(w) + Len(e)
        BY <1>L, <2>2
      <3>2. a[i] = p[i]
        BY <1>4, <3>1
      <3>3. CASE i <= Len(w)
        BY <1>2, <1>3, <3>1, <3>2, <3>3
      <3>4. CASE ~(i <= Len(w))
        <4>1. i - Len(w) \in 1 .. Len(d)
          BY <1>L, <3>1, <3>4
        <4>2. q[i] = x[e[i - Len(w)]] /\ p[i] = x[d[i - Len(w)]]
          BY <1>2, <1>3, <3>1, <3>4
        <4> QED
          BY <1>1, <3>2, <4>1, <4>2
      <3> QED
        BY <3>3, <3>4
    <2> QED
      BY <2>1, <2>2
  <1>6. q \in Seq(Seq(Lines)) /\ a \in Seq(Seq(Lines)) /\ Len(q) = Len(a)
    BY <1>3, <1>4, <1>L
  <1>7. q = a
    BY <1>5, <1>6, SeqEqual
  <1> QED
    BY <1>7 DEF a, p, q, e

(* Without the oldest buffer.                                               *)
LEMMA TextsTail ==
  ASSUME NEW w \in Seq(Buffers), w # <<>>, NEW d \in Seq(Buffers),
         NEW x \in [Buffers -> Seq(Lines)]
  PROVE  /\ TextsOf(w, d, x) # <<>>
         /\ Head(TextsOf(w, d, x)) = x[Head(w)]
         /\ TextsOf(Tail(w), d, x) = Tail(TextsOf(w, d, x))
  <1> DEFINE r == Tail(w)
             p == TextsOf(w, d, x)
             q == TextsOf(r, d, x)
             t == Tail(p)
  <1>1. /\ r \in Seq(Buffers) /\ Len(r) = Len(w) - 1 /\ Len(w) \in Nat \ {0} /\ Head(w) = w[1]
        /\ \A i \in 1 .. Len(r) : r[i] = w[i + 1]
    BY HeadTailProperties, EmptySeq
  <1> HIDE DEF r
  <1>2. /\ p \in Seq(Seq(Lines)) /\ Len(p) = Len(w) + Len(d) /\ Len(d) \in Nat
        /\ \A i \in 1 .. Len(w) + Len(d) : p[i] = IF i <= Len(w) THEN x[w[i]] ELSE x[d[i - Len(w)]]
    BY TextsAre
  <1>3. /\ q \in Seq(Seq(Lines)) /\ Len(q) = Len(r) + Len(d)
        /\ \A i \in 1 .. Len(r) + Len(d) : q[i] = IF i <= Len(r) THEN x[r[i]] ELSE x[d[i - Len(r)]]
    BY <1>1, TextsAre
  <1> HIDE DEF p, q
  <1>4. p # <<>> /\ Len(p) \in Nat \ {0}
    BY <1>1, <1>2, EmptySeq
  <1>5. /\ t \in Seq(Seq(Lines)) /\ Len(t) = Len(p) - 1 /\ Head(p) = p[1]
        /\ \A i \in 1 .. Len(t) : t[i] = p[i + 1]
    BY <1>2, <1>4, HeadTailProperties
  <1> HIDE DEF t
  <1>6. Head(p) = x[Head(w)]
    BY <1>1, <1>2, <1>5
  <1>L. /\ Len(w) \in Nat \ {0} /\ Len(d) \in Nat /\ Len(r) = Len(w) - 1
        /\ Len(p) = Len(w) + Len(d) /\ Len(q) = Len(r) + Len(d) /\ Len(t) = Len(p) - 1
    BY <1>1, <1>2, <1>3, <1>5
  <1>7. ASSUME NEW i \in 1 .. Len(q) PROVE q[i] = t[i]
    <2>1. i \in 1 .. Len(r) + Len(d) /\ i + 1 \in 1 .. Len(w) + Len(d) /\ i \in 1 .. Len(t)
      BY <1>L
    <2>2. (i <= Len(r) <=> i + 1 <= Len(w)) /\ i - Len(r) = i + 1 - Len(w)
      BY <1>L
    <2>3. t[i] = p[i + 1]
      BY <1>5, <2>1
    <2>4. CASE i <= Len(r)
      <3>1. r[i] = w[i + 1]
        BY <1>1, <1>L, <2>4
      <3>2. q[i] = x[r[i]] /\ p[i + 1] = x[w[i + 1]]
        BY <1>2, <1>3, <2>1, <2>2, <2>4
      <3> QED
        BY <2>3, <3>1, <3>2
    <2>5. CASE ~(i <= Len(r))
      <3>1. q[i] = x[d[i - Len(r)]]
        BY <1>3, <2>1, <2>5
      <3>2. ~(i + 1 <= Len(w))
        BY <2>2, <2>5
      <3>3. p[i + 1] = x[d[i + 1 - Len(w)]]
        <4>1. \A k \in 1 .. Len(w) + Len(d) : ~(k <= Len(w)) => p[k] = x[d[k - Len(w)]]
          BY <1>2
        <4> QED
          BY <2>1, <3>2, <4>1
      <3> QED
        BY <2>2, <2>3, <3>1, <3>3
    <2> QED
      BY <2>4, <2>5
  <1>8. q \in Seq(Seq(Lines)) /\ t \in Seq(Seq(Lines)) /\ Len(q) = Len(t)
    BY <1>3, <1>5, <1>L
  <1>9. q = t
    BY <1>7, <1>8, SeqEqual
  <1> QED
    BY <1>4, <1>6, <1>9 DEF p, q, t, r

(* The disk thread takes the queue over.                                    *)
LEMMA TextsTaken ==
  ASSUME NEW d \in Seq(Buffers), NEW x PROVE TextsOf(d, <<>>, x) = TextsOf(<<>>, d, x)
  <1>1. d \o <<>> = d /\ <<>> \o d = d
    BY ConcatEmptySeq
  <1> QED
    BY <1>1 DEF TextsOf

(* Of nothing, nothing.                                                     *)
LEMMA TextsNone == ASSUME NEW x PROVE TextsOf(<<>>, <<>>, x) = <<>>
  BY ConcatEmptySeq DEF TextsOf

-----------------------------------------------------------------------------
(* An application of the kind Stays has the first file open throughout.     *)
OneFile == ops = Stays => m_file_name = FirstFile /\ mode.file_out

(* So it is in every state.                                                 *)
LEMMA OneFileCorrect == ASSUME FirstFile \in Files PROVE Spec => []OneFile
  <1>1. Init => OneFile
    <2> SUFFICES ASSUME Init PROVE m_file_name = FirstFile /\ mode.file_out
      BY DEF OneFile
    <2>1. FirstFile # NoFile
      BY FilesAssumption
    <2>2. mode.file_out = (FirstFile # NoFile) /\ m_file_name = FirstFile
      BY DEF Init
    <2> QED
      BY <2>1, <2>2, Zenon
  <1>2. TypeOK /\ CallPhases /\ Callers /\ OneFile /\ [Next]_vars => OneFile'
    <2> SUFFICES ASSUME TypeOK, CallPhases, Callers, OneFile, [Next]_vars, ops = Stays
                 PROVE  m_file_name' = m_file_name /\ mode'.file_out = mode.file_out
      BY OpsStay DEF OneFile
    <2>1. ASSUME NEW t \in App, Call(t)
          PROVE  m_file_name' = m_file_name /\ mode'.file_out = mode.file_out
      <3>1. ops \cap {"disable_file", "enable_file"} = {}
        BY DEF Stays
      <3> QED
        BY <2>1, <3>1, CallChanges
    <2>2. ASSUME NEW t \in App, Continue(t)
          PROVE  m_file_name' = m_file_name /\ mode'.file_out = mode.file_out
      <3>1. op[t] \notin {"set_new_file", "destroy", "disable_async"}
        BY DEF Callers, Stays
      <3>2. ~Rename(t) /\ ~Join(t) /\ ~SyncMode(t)
        BY <3>1 DEF Rename, Join, SyncMode, CallPhases
      <3> QED
        BY <2>2, <3>2 DEF Continue, DoWork, Push, SyncWrite, Return, Poll, Terminate,
          fileVars
    <2>3. CASE DiskStep \/ SpuriousWakeup
      BY <2>3 DEF DiskStep, DiskStart, DiskWake, DiskOpen, DiskWrite, DiskClose,
        DiskRecycle, SpuriousWakeup, DiskFrame, fileVars
    <2>4. CASE UNCHANGED vars
      BY <2>4 DEF vars, fileVars
    <2> QED
      BY <2>1, <2>2, <2>3, <2>4 DEF Next, Quiet
  <1> QED
    BY <1>1, <1>2, TypeCorrect, PhasesCorrect, CallersCorrect, PTL DEF Spec

(* Without I/O errors a write puts the whole buffer into the open file.     *)
LEMMA WriteWhole ==
  ASSUME TypeOK, IOFail = FALSE, NEW f \in Files, NEW b \in Buffers, WriteBuffer(f, b)
  PROVE  content'[f] = content[f] \o text[b]
  <1>1. PICK n \in 0 .. Len(text[b]) :
          /\ IF f = NoFile THEN n = 0 ELSE IOFail \/ n = Len(text[b])
          /\ content' = [g \in Files |-> IF g = f THEN content[g] \o SubSeq(text[b], 1, n)
                                         ELSE content[g]]
    BY DEF WriteBuffer
  <1>2. n = Len(text[b])
    BY <1>1, FilesAssumption
  <1>3. text[b] \in Seq(Lines)
    BY DEF TypeOK
  <1>4. SubSeq(text[b], 1, n) = text[b]
    BY <1>2, <1>3, SubSeqFull
  <1> QED
    BY <1>1, <1>4

-----------------------------------------------------------------------------
(* The pipeline's buffer and its file.                                      *)
Cur == text[m_buf]
Out == content[LogFile]

(* The steps of FifoLog, of the logger's state.                             *)
Appends1 == nlines' = nlines + 1 /\ Cur' = Append(Cur, nlines + 1) /\ UNCHANGED <<Pipeline, Out>>
Submits  == /\ Cur # <<>> /\ Pipeline' = Append(Pipeline, Cur) /\ Cur' = <<>>
            /\ UNCHANGED <<nlines, Out>>
WritesOldest == /\ Pipeline # <<>> /\ Out' = Out \o Head(Pipeline)
                /\ Pipeline' = Tail(Pipeline) /\ UNCHANGED <<nlines, Cur>>
WritesThrough == /\ Pipeline = <<>> /\ Cur # <<>> /\ Out' = Out \o Cur /\ Cur' = <<>>
                 /\ UNCHANGED <<nlines, Pipeline>>
Stands == UNCHANGED <<nlines, Cur, Pipeline, Out>>

(* The pipeline is that of the buffers, before and after a step.            *)
LEMMA PipelineIs == Pipeline = TextsOf(waiting_pool, m_dirty_pool, text)
                    /\ Pipeline' = TextsOf(waiting_pool', m_dirty_pool', text')
  BY DEF Pipeline, TextsOf

(* The pipeline does not depend on what is in other buffers.                *)
LEMMA PipelineSame ==
  ASSUME TypeOK, text' \in [Buffers -> Seq(Lines)], UNCHANGED <<waiting_pool, m_dirty_pool>>,
         \A b \in Dirty \cup Waiting : text'[b] = text[b]
  PROVE  Pipeline' = Pipeline
  <1>1. TextsOf(waiting_pool, m_dirty_pool, text') = TextsOf(waiting_pool, m_dirty_pool, text)
    <2>1. waiting_pool \in Seq(Buffers) /\ m_dirty_pool \in Seq(Buffers)
          /\ text \in [Buffers -> Seq(Lines)] /\ text' \in [Buffers -> Seq(Lines)]
      BY DEF TypeOK
    <2>2. Agree(waiting_pool, text, text') /\ Agree(m_dirty_pool, text, text')
      BY DEF Dirty, Waiting, Agree
    <2> QED
      BY <2>1, <2>2, TextsSame
  <1> QED
    BY <1>1, PipelineIs

(* A call of the application appends a line, or does nothing here.          *)
LEMMA CallFifo ==
  ASSUME TypeOK, TypeOK', CallPhases, BufferOwnership, NEW t \in App, Call(t)
  PROVE  Appends1 \/ Stands
  <1>1. UNCHANGED <<m_buf, waiting_pool, m_dirty_pool, content>>
    BY CallChanges
  <1>2. text' \in [Buffers -> Seq(Lines)]
    BY DEF TypeOK
  <1>3. CASE UNCHANGED <<text, nlines>>
    <2>1. Pipeline' = Pipeline
      BY <1>1, <1>2, <1>3, PipelineSame
    <2> QED
      BY <1>1, <1>3, <2>1 DEF Stands, Cur, Out
  <1>4. CASE nlines' = nlines + 1 /\ text' = [text EXCEPT ![m_buf] = Append(@, nlines + 1)]
    <2>1. \A b \in Dirty \cup Waiting : text'[b] = text[b]
      BY <1>4, RangeIn DEF BufferOwnership, TypeOK, Dirty, Waiting
    <2>2. Pipeline' = Pipeline
      BY <1>1, <1>2, <2>1, PipelineSame
    <2>3. Cur' = Append(Cur, nlines + 1)
      BY <1>1, <1>4 DEF Cur, TypeOK
    <2> QED
      BY <1>1, <1>4, <2>2, <2>3 DEF Appends1, Out
  <1> QED
    BY <1>3, <1>4, CallChanges

(* p_do_work() hands the buffer over, or writes it with nothing queued.     *)
LEMMA ContinueFifo ==
  ASSUME TypeOK, TypeOK', CallPhases, Callers, BufferOwnership, Synced, OneFile,
         IOFail = FALSE, FirstFile \in Files, LogFile = FirstFile, ops = Stays,
         NEW t \in App, Continue(t)
  PROVE  Submits \/ WritesThrough \/ Stands
  <1>1. text' \in [Buffers -> Seq(Lines)] /\ m_buf \in Buffers
    BY DEF TypeOK
  <1>2. nlines' = nlines
    BY DEF Continue, DoWork, Push, SyncWrite, Return, SyncMode, Poll, Rename,
      Terminate, Join, lineVars
  <1>3. op[t] \notin {"set_new_file", "destroy", "disable_async"}
    BY DEF Callers, Stays
  <1>4. ~Rename(t) /\ ~Join(t) /\ ~SyncMode(t) /\ ~Terminate(t)
    BY <1>3 DEF Rename, Join, SyncMode, Terminate, CallPhases
  <1>5. CASE DoWork(t)
    <2>1. UNCHANGED <<m_buf, waiting_pool, m_dirty_pool, content>>
      BY <1>5 DEF DoWork, diskVars
    <2>2. text' = text
      <3>1. text' = text \/ (text[m_buf] = <<>> /\ text' = Emptied(m_buf))
        BY <1>5 DEF DoWork, OneFile
      <3> QED
        BY <1>1, <3>1 DEF Emptied, TypeOK
    <2>3. Pipeline' = Pipeline
      BY <1>1, <2>1, <2>2, PipelineSame
    <2> QED
      BY <1>2, <2>1, <2>2, <2>3 DEF Stands, Cur, Out
  <1>6. CASE Push(t)
    <2>1. UNCHANGED <<waiting_pool, content>> /\ m_dirty_pool' = Append(m_dirty_pool, m_buf)
          /\ text' = Emptied(m_buf') /\ text[m_buf] # <<>>
      BY <1>6 DEF Push, PushBack, outVars, Callers
    <2>2. Dirty' = Dirty \cup {m_buf} /\ Waiting' = Waiting
      BY <2>1, RangeAppend DEF Dirty, Waiting, TypeOK
    <2>3. m_buf' \notin Dirty' \cup Waiting' /\ m_buf' \in Buffers
      BY <1>6, PushMoves DEF BufferOwnership, TypeOK
    <2>4. text'[m_buf'] = <<>> /\ \A b \in Dirty' \cup Waiting' : text'[b] = text[b]
      BY <1>1, <2>1, <2>2, <2>3, RangeIn DEF Emptied, TypeOK, Dirty, Waiting
    <2>5. m_dirty_pool' \in Seq(Buffers) /\ waiting_pool \in Seq(Buffers)
          /\ m_dirty_pool \in Seq(Buffers) /\ text \in [Buffers -> Seq(Lines)]
      BY DEF TypeOK
    <2>6. Agree(waiting_pool, text, text') /\ Agree(m_dirty_pool', text, text')
      BY <2>1, <2>4 DEF Dirty, Waiting, Agree
    <2>7. TextsOf(waiting_pool, m_dirty_pool', text') = TextsOf(waiting_pool, m_dirty_pool', text)
      BY <1>1, <2>5, <2>6, TextsSame
    <2>8. TextsOf(waiting_pool, m_dirty_pool', text)
            = Append(TextsOf(waiting_pool, m_dirty_pool, text), text[m_buf])
      BY <1>1, <2>1, <2>5, TextsAppend
    <2>9. Pipeline' = Append(Pipeline, Cur)
      BY <2>1, <2>7, <2>8, PipelineIs DEF Cur
    <2> QED
      BY <1>2, <2>1, <2>4, <2>9 DEF Submits, Cur, Out
  <1>7. CASE SyncWrite(t)
    <2>1. /\ UNCHANGED <<m_buf, waiting_pool, m_dirty_pool>> /\ text' = Emptied(m_buf)
          /\ WriteBuffer(m_file_name, m_buf) /\ text[m_buf] # <<>>
      BY <1>7 DEF SyncWrite, diskVars, Callers
    <2>2. m_dirty_pool = <<>> /\ waiting_pool = <<>>
      BY <1>7 DEF SyncWrite, Callers, Synced, Stays
    <2>3. Pipeline = <<>> /\ Pipeline' = <<>>
      BY <2>1, <2>2, TextsNone, PipelineIs
    <2>4. Out' = Out \o Cur
      BY <1>1, <2>1, WriteWhole DEF Out, Cur, OneFile
    <2>5. text'[m_buf] = <<>>
      BY <1>1, <2>1 DEF Emptied, TypeOK
    <2> QED
      BY <1>2, <2>1, <2>3, <2>4, <2>5 DEF WritesThrough, Cur
  <1>8. CASE Return(t) \/ Poll(t)
    <2>1. UNCHANGED <<m_buf, text, waiting_pool, m_dirty_pool, content>>
      BY <1>8 DEF Return, Poll, poolVars, diskVars, outVars
    <2>2. Pipeline' = Pipeline
      BY <1>1, <2>1, PipelineSame
    <2> QED
      BY <1>2, <2>1, <2>2 DEF Stands, Cur, Out
  <1> QED
    BY <1>4, <1>5, <1>6, <1>7, <1>8 DEF Continue

(* The disk thread writes the oldest buffer, or moves the queue.            *)
LEMMA DiskFifo ==
  ASSUME TypeOK, TypeOK', DiskPhases, OneFile,
         IOFail = FALSE, FirstFile \in Files, LogFile = FirstFile, ops = Stays,
         DiskStep \/ SpuriousWakeup
  PROVE  WritesOldest \/ Stands
  <1>1. UNCHANGED <<nlines, m_buf, text>>
    BY DEF DiskStep, DiskStart, DiskWake, DiskOpen, DiskWrite, DiskClose,
      DiskRecycle, SpuriousWakeup, DiskFrame, lineVars
  <1>2. /\ text \in [Buffers -> Seq(Lines)] /\ waiting_pool \in Seq(Buffers)
        /\ m_dirty_pool \in Seq(Buffers)
    BY DEF TypeOK
  <1>3. CASE DiskWrite
    <2>1. /\ waiting_pool # <<>> /\ waiting_pool' = Tail(waiting_pool)
          /\ m_dirty_pool' = m_dirty_pool /\ WriteBuffer(m_file_name, Head(waiting_pool))
      BY <1>3 DEF DiskWrite
    <2>2. Head(waiting_pool) \in Buffers
      BY <1>2, <2>1, HeadTailProperties
    <2>3. Out' = Out \o text[Head(waiting_pool)]
      BY <2>1, <2>2, WriteWhole DEF Out, OneFile
    <2>4. /\ Pipeline # <<>> /\ Head(Pipeline) = text[Head(waiting_pool)]
          /\ Pipeline' = Tail(Pipeline)
      BY <1>1, <1>2, <2>1, TextsTail, PipelineIs
    <2> QED
      BY <1>1, <2>3, <2>4 DEF WritesOldest, Cur
  <1>4. CASE ~DiskWrite
    <2>1. UNCHANGED content
      BY <1>4 DEF DiskStep, DiskStart, DiskWake, DiskOpen, DiskClose, DiskRecycle,
        SpuriousWakeup
    <2>2. \/ UNCHANGED <<m_dirty_pool, waiting_pool>>
          \/ waiting_pool = <<>> /\ \E inner \in BOOLEAN : Loops(inner)
      BY <1>4 DEF DiskStep, DiskStart, DiskWake, DiskOpen, DiskClose,
        DiskRecycle, SpuriousWakeup, DiskPhases
    <2>3. \/ UNCHANGED <<m_dirty_pool, waiting_pool>>
          \/ waiting_pool = <<>> /\ waiting_pool' = m_dirty_pool /\ m_dirty_pool' = <<>>
      BY <2>2 DEF Loops, Taken
    <2>4. Pipeline' = Pipeline
      BY <1>1, <1>2, <2>3, TextsTaken, PipelineIs
    <2> QED
      BY <1>1, <2>1, <2>4 DEF Stands, Cur, Out
  <1> QED
    BY <1>3, <1>4

(* An application that switches modes, but never back to synchronous mode,  *)
(* sees a first-in first-out pipeline.                                      *)
THEOREM LoggerIsFifo ==
  ASSUME Files = {FirstFile}, IOFail = FALSE
  PROVE  Spec => Fifo!Init /\ [][Fifo!Next]_Fifo!vars
  <1>0. FirstFile \in Files /\ LogFile = FirstFile
    BY DEF LogFile
  <1>1. Init => Fifo!Init
    <2> SUFFICES ASSUME Init PROVE Fifo!Init
      OBVIOUS
    <2>1. text[m_buf] = <<>> /\ content[LogFile] = <<>> /\ nlines = 0
      BY <1>0, TwoBuffers DEF Init
    <2>2. Pipeline = <<>>
      BY TextsNone, PipelineIs DEF Init
    <2> QED
      BY <2>1, <2>2 DEF Fifo!Init, Used
  <1>2. /\ TypeOK /\ TypeOK' /\ CallPhases /\ DiskPhases /\ Callers /\ BufferOwnership
        /\ Synced /\ OneFile /\ [Next]_vars
        => [Fifo!Next]_Fifo!vars
    <2> SUFFICES ASSUME TypeOK, TypeOK', CallPhases, DiskPhases, Callers,
                        BufferOwnership, Synced, OneFile, [Next]_vars
                 PROVE  [Fifo!Next]_Fifo!vars
      OBVIOUS
    <2>1. ops' = ops
      BY OpsStay
    <2>2. CASE ops # Stays
      BY <2>1, <2>2 DEF Fifo!vars, Used
    <2>3. CASE ops = Stays
      <3>1. Appends1 \/ Submits \/ WritesOldest \/ WritesThrough \/ Stands
        <4>1. ASSUME NEW t \in App, Call(t) PROVE Appends1 \/ Stands
          BY <4>1, CallFifo
        <4>2. ASSUME NEW t \in App, Continue(t) PROVE Submits \/ WritesThrough \/ Stands
          BY <1>0, <2>3, <4>2, ContinueFifo
        <4>3. CASE DiskStep \/ SpuriousWakeup
          BY <1>0, <2>3, <4>3, DiskFifo
        <4>4. CASE UNCHANGED vars
          BY <4>4 DEF vars, poolVars, diskVars, outVars, lineVars, Stands, Cur, Out, Pipeline
        <4> QED
          BY <4>1, <4>2, <4>3, <4>4 DEF Next, Quiet
      <3>2. CASE Appends1
        BY <2>1, <2>3, <3>2 DEF Appends1, Cur, Out, Used, Fifo!Next, Fifo!Append1
      <3>3. CASE Submits
        BY <2>1, <2>3, <3>3 DEF Submits, Cur, Out, Used, Fifo!Next, Fifo!Submit
      <3>4. CASE WritesOldest
        BY <2>1, <2>3, <3>4 DEF WritesOldest, Cur, Out, Used, Fifo!Next, Fifo!WriteOldest
      <3>5. CASE WritesThrough
        BY <2>1, <2>3, <3>5 DEF WritesThrough, Cur, Out, Used, Fifo!Next, Fifo!WriteThrough
      <3>6. CASE Stands
        BY <2>1, <2>3, <3>6 DEF Stands, Cur, Out, Used, Fifo!vars
      <3> QED
        BY <3>1, <3>2, <3>3, <3>4, <3>5, <3>6
    <2> QED
      BY <2>2, <2>3
  <1>3. Spec => []OneFile
    BY <1>0, OneFileCorrect
  <1> QED
    BY <1>1, <1>2, <1>3, TypeCorrect, PhasesCorrect, CallersCorrect, OwnershipCorrect,
       SyncedCorrect, PTL DEF Spec
=============================================================================
