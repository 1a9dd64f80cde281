------------------------------- MODULE Logger -------------------------------
(***************************************************************************)
(* The logger of util_lib/logger: application threads append lines to a    *)
(* shared buffer under m_lock; p_do_work() writes the buffer to the output *)
(* stream and to the log file, either at once (under m_io_lock) or by      *)
(* handing the buffer to the disk writer thread through m_dirty_pool       *)
(* (under m_write_mutex).                                                  *)
(*                                                                         *)
(* A line is the number of the LOG() call that made it; its bytes are the  *)
(* subject of LogBuffer.  A step of a thread runs up to the next point     *)
(* where it may have to wait, or where another thread can see what it did: *)
(* a section under m_write_mutex never waits and is one step, and so is an *)
(* application thread's section under m_io_lock.  m_lock is held over all  *)
(* the steps of a call, m_io_lock over all the writes of the disk thread.  *)
(***************************************************************************)
EXTENDS Naturals, Sequences, FiniteSets

CONSTANTS App,       (* the application threads that use the logger            *)
          Disk,      (* the disk writer thread                                 *)
          NoThread,  (* the owner of a free mutex                              *)
          Buffers,   (* identities of heap buffers                             *)
          Files,     (* names of log files                                     *)
          NoFile,    (* m_file_name == 0                                       *)
          FirstFile, (* the constructor's file_name argument                   *)
          Scenarios, (* sets of operations: an application calls those of one  *)
          Levels,    (* the log levels, as numbers                             *)
          LogLevels, (* those the application logs at                          *)
          InfoLevel, WarningLevel, (* two levels the constructor sets          *)
          BufLines,  (* lines a buffer holds: sz_log_buf                       *)
          MaxLines,  (* bound: number of LOG() calls                           *)
          IOFail     (* may open() or write() of the log file fail?            *)

AllOps == { "log", "flush", "disable_buffered", "enable_buffered",
            "disable_file", "enable_file", "disable_stream", "enable_stream",
            "disable_async", "enable_async", "set_new_file", "set_level",
            "set_force_flush_level", "destroy" }

ASSUME ThreadsAssumption == NoThread \notin App \cup {Disk} /\ Disk \notin App
ASSUME FilesAssumption   == NoFile \notin Files /\ FirstFile \in Files \cup {NoFile}
ASSUME BuffersAssumption == \E b, c \in Buffers : b # c
ASSUME LevelsAssumption  == /\ Levels \subseteq Nat /\ LogLevels \subseteq Levels
                            /\ InfoLevel \in Levels /\ WarningLevel \in Levels
ASSUME BoundsAssumption  == /\ BufLines \in Nat \ {0} /\ MaxLines \in Nat
                            /\ Scenarios \subseteq SUBSET AllOps
                            /\ IOFail \in BOOLEAN

Lines == 1 .. MaxLines

VARIABLES
  ops,                     (* the operations this application calls            *)
  pc, op, arg,             (* where each application thread is, in which call, *)
                           (* with which file name                             *)
  dpc,                     (* where the disk writer thread is                  *)
  m_lock, m_io_lock,       (* owners of the two mutexes                        *)
  mode,                    (* m_buffered, m_async, m_file_out, m_stream_out,   *)
                           (* m_log_level, m_force_flush_log_level             *)
  m_terminate, m_file_name,
  m_buf,                   (* the buffer lines are appended to                 *)
  text,                    (* the lines in each buffer                         *)
  m_dirty_pool,            (* queue of buffers for the disk thread             *)
  m_clean_pool,            (* buffers that can be used again                   *)
  waiting_pool,            (* the disk thread's buffers still to be written    *)
  written_pool,            (* the part of its waiting_pool already written     *)
  heap,                    (* buffers allocated and not deleted                *)
  content, stream,         (* what is in each file, what went to the stream    *)
  (* history, read by properties only *)
  nlines,                  (* LOG() calls that produced a line                 *)
  target,                  (* m_file_name when the line was logged             *)
  lost,                    (* lines written to no file: output off, or failed  *)
  ran                      (* the disk thread has entered its loop             *)

lockVars == <<m_lock, m_io_lock>>
fileVars == <<arg, m_file_name>>
poolVars == <<m_buf, text, m_dirty_pool, m_clean_pool, heap>>
diskVars == <<dpc, waiting_pool, written_pool, ran>>
outVars  == <<content, stream, lost>>
lineVars == <<nlines, target>>
vars == <<ops, pc, op, lockVars, mode, m_terminate, fileVars, poolVars,
          diskVars, outVars, lineVars>>

AppPC  == {"idle", "do_work", "push", "write", "after", "poll", "join", "gone"}
DiskPC == {"start", "wait", "wake", "io", "writing", "recycle", "done"}
Modes  == [buffered : BOOLEAN, async : BOOLEAN, file_out : BOOLEAN,
           stream_out : BOOLEAN, level : Levels, flush_level : Levels]

RangeOf(s) == { s[i] : i \in DOMAIN s }
AnyOf(S)   == CHOOSE b \in S : TRUE

TypeOK ==
  /\ ops \in Scenarios
  /\ pc \in [App -> AppPC] /\ op \in [App -> AllOps \cup {"none"}]
  /\ arg \in Files \cup {NoFile} /\ dpc \in DiskPC
  /\ m_lock \in App \cup {NoThread} /\ m_io_lock \in {Disk, NoThread}
  /\ mode \in Modes /\ m_terminate \in BOOLEAN
  /\ m_file_name \in Files \cup {NoFile}
  /\ m_buf \in Buffers /\ text \in [Buffers -> Seq(Lines)]
  /\ m_dirty_pool \in Seq(Buffers) /\ waiting_pool \in Seq(Buffers)
  /\ m_clean_pool \subseteq Buffers /\ written_pool \subseteq Buffers
  /\ heap \subseteq Buffers
  /\ content \in [Files -> Seq(Lines)] /\ stream \in Seq(Lines)
  /\ nlines \in 0 .. MaxLines
  /\ target \in [Lines -> Files \cup {NoFile}]
  /\ lost \subseteq Lines /\ ran \in BOOLEAN

-----------------------------------------------------------------------------
(* The state the constructor leaves: the disk thread has been created but   *)
(* need not have run; one spare buffer is in the clean pool.                *)
Init ==
  /\ ops \in Scenarios
  /\ pc = [t \in App |-> "idle"] /\ op = [t \in App |-> "none"]
  /\ arg = NoFile /\ m_file_name = FirstFile
  /\ m_lock = NoThread /\ m_io_lock = NoThread
  /\ mode = [buffered |-> TRUE, async |-> FALSE, stream_out |-> TRUE,
             file_out |-> FirstFile # NoFile,
             level |-> InfoLevel, flush_level |-> WarningLevel]
  /\ m_terminate = FALSE
  /\ m_buf = AnyOf(Buffers) /\ m_clean_pool = {AnyOf(Buffers \ {m_buf})}
  /\ heap = {m_buf} \cup m_clean_pool
  /\ text = [b \in Buffers |-> <<>>] /\ m_dirty_pool = <<>>
  /\ dpc = "start" /\ waiting_pool = <<>> /\ written_pool = {} /\ ran = FALSE
  /\ content = [f \in Files |-> <<>>] /\ stream = <<>> /\ lost = {}
  /\ nlines = 0 /\ target = [l \in Lines |-> NoFile]

-----------------------------------------------------------------------------
(* Calls.  Each takes m_lock; one that goes on to p_do_work() keeps it.     *)

(* Once the destructor has been entered, nothing else is called.            *)
CanCall(t, o) ==
  /\ o \in ops
  /\ \A u \in App : op[u] # "destroy"
  /\ pc[t] = "idle" /\ m_lock = NoThread

Goto(t, where) == pc' = [pc EXCEPT ![t] = where]

Enter(t, o, where) ==
  /\ m_lock' = t
  /\ op' = [op EXCEPT ![t] = o]
  /\ Goto(t, where)

Leave(t) ==
  /\ m_lock' = NoThread
  /\ op' = [op EXCEPT ![t] = "none"]
  /\ Goto(t, "idle")

(* A call that changes a mode and is over before it releases m_lock.        *)
SetMode(t, o, newMode) ==
  /\ CanCall(t, o)
  /\ mode' = newMode
  /\ UNCHANGED <<ops, pc, op, lockVars, m_terminate, fileVars, poolVars,
                 diskVars, outVars, lineVars>>

HasFile == m_file_name # NoFile

EnableBuffered(t) == SetMode(t, "enable_buffered", [mode EXCEPT !.buffered = TRUE])
EnableAsync(t)    == SetMode(t, "enable_async", [mode EXCEPT !.async = TRUE])
EnableStream(t)   == SetMode(t, "enable_stream", [mode EXCEPT !.stream_out = TRUE])
DisableStream(t)  == SetMode(t, "disable_stream", [mode EXCEPT !.stream_out = FALSE])
EnableFile(t)     == SetMode(t, "enable_file", [mode EXCEPT !.file_out = @ \/ HasFile])
DisableFile(t)    == SetMode(t, "disable_file", [mode EXCEPT !.file_out = @ /\ ~HasFile])
SetLevel(t, l)    == SetMode(t, "set_level", [mode EXCEPT !.level = l])
SetForceFlushLevel(t, l) ==
  SetMode(t, "set_force_flush_level", [mode EXCEPT !.flush_level = l])

(* process_data(): is p_do_work() called once the line is in the buffer?    *)
(* The level of the line is not asked.                                      *)
WriteNow(len) ==
  ~mode.buffered \/ len >= BufLines \/ mode.flush_level <= mode.level

(* LOG(): logging_required(), then the line is appended by process_data().  *)
Log(t, level) ==
  LET line == nlines + 1
  IN /\ CanCall(t, "log")
     /\ nlines < MaxLines /\ level >= mode.level
     /\ text' = [text EXCEPT ![m_buf] = Append(@, line)]
     /\ IF WriteNow(Len(text[m_buf]) + 1)
        THEN Enter(t, "log", "do_work")
        ELSE UNCHANGED <<pc, op, m_lock>>
     /\ nlines' = line
     /\ target' = [target EXCEPT ![line] = m_file_name]
     /\ UNCHANGED <<ops, m_io_lock, mode, m_terminate, fileVars, m_buf,
                    m_dirty_pool, m_clean_pool, heap, diskVars, outVars>>

Flush(t) ==
  /\ CanCall(t, "flush")
  /\ Enter(t, "flush", "do_work")
  /\ UNCHANGED <<ops, m_io_lock, mode, m_terminate, fileVars, poolVars,
                 diskVars, outVars, lineVars>>

DisableBuffered(t) ==
  /\ CanCall(t, "disable_buffered")
  /\ Enter(t, "disable_buffered", "do_work")
  /\ mode' = [mode EXCEPT !.buffered = FALSE]
  /\ UNCHANGED <<ops, m_io_lock, m_terminate, fileVars, poolVars, diskVars,
                 outVars, lineVars>>

DisableAsync(t) ==
  /\ CanCall(t, "disable_async")
  /\ Enter(t, "disable_async", "do_work")
  /\ UNCHANGED <<ops, m_io_lock, mode, m_terminate, fileVars, poolVars,
                 diskVars, outVars, lineVars>>

(* variant: without p_do_work() first *)
SetNewFileNoFlush(t, f) ==
  /\ CanCall(t, "set_new_file")
  /\ Enter(t, "set_new_file", "after")
  /\ arg' = f
  /\ UNCHANGED <<ops, m_io_lock, mode, m_terminate, m_file_name, poolVars,
                 diskVars, outVars, lineVars>>

SetNewFile(t, f) ==
  /\ CanCall(t, "set_new_file")
  /\ Enter(t, "set_new_file", "do_work")
  /\ arg' = f
  /\ UNCHANGED <<ops, m_io_lock, mode, m_terminate, m_file_name, poolVars,
                 diskVars, outVars, lineVars>>

(* The destructor runs when no other thread is in a call.                   *)
Destroy(t) ==
  /\ CanCall(t, "destroy")
  /\ Enter(t, "destroy", "do_work")
  /\ UNCHANGED <<ops, m_io_lock, mode, m_terminate, fileVars, poolVars,
                 diskVars, outVars, lineVars>>

-----------------------------------------------------------------------------
(* p_do_work()                                                              *)

(* m_cptr = m_buf                                                           *)
NotEmptied(b) == text    (* variant: m_cptr is left where it is *)
Emptied(b) == [text EXCEPT ![b] = <<>>]

DoWork(t) ==
  /\ pc[t] = "do_work"
  /\ stream' = IF mode.stream_out THEN stream \o text[m_buf] ELSE stream
  /\ IF mode.file_out /\ text[m_buf] # <<>>
     THEN /\ Goto(t, IF mode.async THEN "push" ELSE "write")
          /\ UNCHANGED <<text, lost>>
     ELSE /\ Goto(t, "after")
          /\ text' = Emptied(m_buf)
          /\ lost' = lost \cup RangeOf(text[m_buf])
  /\ UNCHANGED <<ops, op, lockVars, mode, m_terminate, fileVars, m_buf,
                 m_dirty_pool, m_clean_pool, heap, diskVars, content, lineVars>>

(* m_dirty_pool.push_back(), m_clean_pool.pop_back()                        *)
PushFront(b) == <<b>> \o m_dirty_pool    (* variant: a stack, not a queue *)
PushBack(b) == Append(m_dirty_pool, b)
NoPop(b) == m_clean_pool    (* variant: the reused buffer stays in the pool *)
PopClean(b) == m_clean_pool \ {b}

(* pthread_cond_signal(): wakes the disk thread if it waits, else nothing.  *)
NoSignal == UNCHANGED dpc    (* variant: nobody is woken *)
Signal == dpc' = IF dpc = "wait" THEN "wake" ELSE dpc

(* Asynchronous: queue m_buf, go on with a clean or a new buffer.           *)
Push(t) ==
  /\ pc[t] = "push"
  /\ m_dirty_pool' = PushBack(m_buf)
  /\ \/ /\ m_clean_pool # {}
        /\ m_buf' = AnyOf(m_clean_pool)
        /\ m_clean_pool' = PopClean(m_buf')
        /\ UNCHANGED heap
     \/ /\ m_clean_pool = {} /\ Buffers \ heap # {}
        /\ m_buf' = AnyOf(Buffers \ heap)
        /\ heap' = heap \cup {m_buf'}
        /\ UNCHANGED m_clean_pool
  /\ text' = Emptied(m_buf')
  /\ Signal
  /\ Goto(t, "after")
  /\ UNCHANGED <<ops, op, lockVars, mode, m_terminate, fileVars, waiting_pool,
                 written_pool, ran, outVars, lineVars>>

(* What a write of buffer b can leave in file f: all of it, or, when open() *)
(* or write() fails, only the first n lines; open(NULL) always fails.       *)
WriteBuffer(f, b) ==
  \E n \in 0 .. Len(text[b]) :
    /\ IF f = NoFile THEN n = 0 ELSE IOFail \/ n = Len(text[b])
    /\ content' = [g \in Files |-> IF g = f THEN content[g] \o SubSeq(text[b], 1, n)
                                   ELSE content[g]]
    /\ lost' = lost \cup { text[b][i] : i \in n + 1 .. Len(text[b]) }

(* Synchronous: send_to_files(buf, len), then m_cptr = m_buf.               *)
SyncWrite(t) ==
  /\ pc[t] = "write" /\ m_io_lock = NoThread
  /\ WriteBuffer(m_file_name, m_buf)
  /\ text' = Emptied(m_buf)
  /\ Goto(t, "after")
  /\ UNCHANGED <<ops, op, lockVars, mode, m_terminate, fileVars, m_buf,
                 m_dirty_pool, m_clean_pool, heap, diskVars, stream, lineVars>>

-----------------------------------------------------------------------------
(* What follows p_do_work() in each call.                                   *)

Return(t) ==
  /\ pc[t] = "after" /\ op[t] \in {"log", "flush", "disable_buffered"}
  /\ Leave(t)
  /\ UNCHANGED <<ops, m_io_lock, mode, m_terminate, fileVars, poolVars,
                 diskVars, outVars, lineVars>>

(* disable_async(): m_async = false, then poll until m_dirty_pool is empty. *)
SyncMode(t) ==
  /\ pc[t] = "after" /\ op[t] = "disable_async"
  /\ mode' = [mode EXCEPT !.async = FALSE]
  /\ Goto(t, "poll")
  /\ UNCHANGED <<ops, op, lockVars, m_terminate, fileVars, poolVars, diskVars,
                 outVars, lineVars>>

IsEmpty == m_dirty_pool = <<>>

Poll(t) ==
  /\ pc[t] = "poll" /\ IsEmpty
  /\ Leave(t)
  /\ UNCHANGED <<ops, m_io_lock, mode, m_terminate, fileVars, poolVars,
                 diskVars, outVars, lineVars>>

Deleted == "deleted"    (* variant: the old name is deleted, none is copied *)
NewName == arg

(* set_new_file(): m_file_out survives unless the new name is empty.        *)
(* variant: without m_io_lock *)
RenameUnlocked(t) ==
  /\ pc[t] = "after" /\ op[t] = "set_new_file"
  /\ m_file_name' = NewName /\ arg' = NoFile
  /\ mode' = [mode EXCEPT !.file_out = @ /\ arg # NoFile]
  /\ Leave(t)
  /\ UNCHANGED <<ops, m_io_lock, m_terminate, poolVars, diskVars, outVars,
                 lineVars>>

Rename(t) ==
  /\ pc[t] = "after" /\ op[t] = "set_new_file"
  /\ m_io_lock = NoThread
  /\ m_file_name' = NewName /\ arg' = NoFile
  /\ mode' = [mode EXCEPT !.file_out = @ /\ arg # NoFile]
  /\ Leave(t)
  /\ UNCHANGED <<ops, m_io_lock, m_terminate, poolVars, diskVars, outVars,
                 lineVars>>

Terminate(t) ==
  /\ pc[t] = "after" /\ op[t] = "destroy"
  /\ m_terminate' = TRUE
  /\ Signal
  /\ Goto(t, "join")
  /\ UNCHANGED <<ops, op, lockVars, mode, fileVars, poolVars, waiting_pool,
                 written_pool, ran, outVars, lineVars>>

(* pthread_join(), then every pool entry and m_buf are deleted.             *)
Join(t) ==
  /\ pc[t] = "join" /\ dpc = "done"
  /\ heap' = heap \ (m_clean_pool \cup RangeOf(m_dirty_pool) \cup {m_buf})
  /\ m_clean_pool' = {} /\ m_dirty_pool' = <<>>
  /\ m_file_name' = NoFile
  /\ m_lock' = NoThread
  /\ Goto(t, "gone")
  /\ UNCHANGED <<ops, op, m_io_lock, mode, m_terminate, arg, m_buf, text,
                 diskVars, outVars, lineVars>>

-----------------------------------------------------------------------------
(* disk_thread()                                                            *)

DiskFrame == UNCHANGED <<ops, pc, op, m_lock, mode, m_terminate, fileVars,
                         m_buf, text, heap, stream, lineVars>>

(* if (m_dirty_pool.empty() == true) pthread_cond_wait()                    *)
AlwaysWait == TRUE    (* variant: the code under #if 0 *)
MustWait == m_dirty_pool = <<>>

(* waiting_pool = m_dirty_pool                                              *)
TakenFront == <<Head(m_dirty_pool)>>    (* variant: the rest is cleared *)
Taken == m_dirty_pool

(* The loops of disk_thread(), from a test of m_terminate (outer) or of     *)
(* m_dirty_pool (inner loop) to where m_write_mutex is released.            *)
Loops(inner) ==
  LET fetch == (inner \/ (~m_terminate /\ ~MustWait)) /\ m_dirty_pool # <<>>
  IN /\ dpc' = IF fetch THEN "io" ELSE IF m_terminate THEN "done" ELSE "wait"
     /\ waiting_pool' = IF fetch THEN Taken ELSE waiting_pool
     /\ m_dirty_pool' = IF fetch THEN <<>> ELSE m_dirty_pool
     /\ ran' = (ran \/ ~m_terminate)

DiskStart ==
  /\ dpc = "start"
  /\ Loops(FALSE)
  /\ UNCHANGED <<m_io_lock, m_clean_pool, written_pool, content, lost>>
  /\ DiskFrame

DiskWake ==
  /\ dpc = "wake"
  /\ Loops(TRUE)
  /\ UNCHANGED <<m_io_lock, m_clean_pool, written_pool, content, lost>>
  /\ DiskFrame

(* POSIX lets pthread_cond_wait() return without a signal.                  *)
SpuriousWakeup ==
  /\ dpc = "wait"
  /\ dpc' = "wake"
  /\ UNCHANGED <<m_io_lock, m_dirty_pool, m_clean_pool, waiting_pool,
                 written_pool, content, lost, ran>>
  /\ DiskFrame

(* send_to_files(waiting_pool): take m_io_lock, write buffer by buffer.     *)
DiskOpen ==
  /\ dpc = "io" /\ m_io_lock = NoThread
  /\ m_io_lock' = Disk
  /\ dpc' = "writing"
  /\ UNCHANGED <<m_dirty_pool, m_clean_pool, waiting_pool, written_pool,
                 content, lost, ran>>
  /\ DiskFrame

DiskWrite ==
  /\ dpc = "writing" /\ waiting_pool # <<>>
  /\ WriteBuffer(m_file_name, Head(waiting_pool))
  /\ waiting_pool' = Tail(waiting_pool)
  /\ written_pool' = written_pool \cup {Head(waiting_pool)}
  /\ UNCHANGED <<dpc, m_io_lock, m_dirty_pool, m_clean_pool, ran>>
  /\ DiskFrame

DiskClose ==
  /\ dpc = "writing" /\ waiting_pool = <<>>
  /\ m_io_lock' = NoThread
  /\ dpc' = "recycle"
  /\ UNCHANGED <<m_dirty_pool, m_clean_pool, waiting_pool, written_pool,
                 content, lost, ran>>
  /\ DiskFrame

DiskRecycle ==
  /\ dpc = "recycle"
  /\ m_clean_pool' = m_clean_pool \cup written_pool
  /\ written_pool' = {}
  /\ Loops(TRUE)
  /\ UNCHANGED <<m_io_lock, content, lost>>
  /\ DiskFrame

-----------------------------------------------------------------------------
Call(t) ==
  \/ \E level \in LogLevels : Log(t, level)
  \/ \E level \in Levels : SetLevel(t, level) \/ SetForceFlushLevel(t, level)
  \/ \E f \in Files \cup {NoFile} : SetNewFile(t, f)
  \/ Flush(t) \/ DisableBuffered(t) \/ EnableBuffered(t)
  \/ DisableFile(t) \/ EnableFile(t) \/ DisableStream(t) \/ EnableStream(t)
  \/ DisableAsync(t) \/ EnableAsync(t) \/ Destroy(t)

Continue(t) ==
  \/ DoWork(t) \/ Push(t) \/ SyncWrite(t) \/ Return(t) \/ SyncMode(t)
  \/ Poll(t) \/ Rename(t) \/ Terminate(t) \/ Join(t)

DiskStep == \/ DiskStart \/ DiskWake \/ DiskOpen \/ DiskWrite \/ DiskClose
            \/ DiskRecycle

(* The object is gone, or the application makes no further call.            *)
Quiet ==
  /\ \A t \in App : pc[t] \in {"idle", "gone"}
  /\ dpc \in {"wait", "done"}
  /\ UNCHANGED vars

Next == \/ \E t \in App : Call(t) \/ Continue(t)
        \/ DiskStep \/ SpuriousWakeup \/ Quiet

Spec == Init /\ [][Next]_vars

(* The kernel runs every thread that can run; a mutex that is free again    *)
(* and again is in the end given to a thread that waits for it.             *)
Fairness == SF_vars(DiskStep) /\ \A t \in App : SF_vars(Continue(t))

FairSpec == Spec /\ Fairness

-----------------------------------------------------------------------------
(* Properties.                                                              *)

Gone == \E t \in App : pc[t] = "gone"

Dirty   == RangeOf(m_dirty_pool)
Waiting == RangeOf(waiting_pool)

Distinct(s) == \A i, j \in DOMAIN s : s[i] = s[j] => i = j

(* A buffer is in one place at a time: the one the application appends to,  *)
(* the clean pool, the dirty pool, or the disk thread's hands.  So no       *)
(* buffer is written to disk while lines are added to it, none is queued    *)
(* twice, none is used after delete[] and, once the destructor is through,  *)
(* none is left (p_do_work, disk_thread, ~logger).                          *)
BufferOwnership ==
  /\ m_buf \notin m_clean_pool \cup Dirty \cup Waiting \cup written_pool
  /\ m_clean_pool \cap (Dirty \cup Waiting \cup written_pool) = {}
  /\ Dirty \cap (Waiting \cup written_pool) = {}
  /\ Waiting \cap written_pool = {}
  /\ Distinct(m_dirty_pool) /\ Distinct(waiting_pool)
  /\ heap = IF Gone THEN {}
            ELSE {m_buf} \cup m_clean_pool \cup Dirty \cup Waiting \cup written_pool

(* The disk thread never sleeps on a non-empty queue or on a request to     *)
(* terminate: the fault of the earlier disk_thread() that the comment after *)
(* the present one describes.                                               *)
NoMissedWakeup == dpc = "wait" => m_dirty_pool = <<>> /\ ~m_terminate

OnFile(l)   == \E f \in Files : l \in RangeOf(content[f])
Queued(l)   == \E b \in Dirty \cup Waiting : l \in RangeOf(text[b])
Buffered(l) == l \in RangeOf(text[m_buf])

(* A logged line is never dropped: it is in the buffer, on its way to the   *)
(* disk, or on disk, unless file output was off or its write failed.  After *)
(* the destructor it is on disk, provided the disk thread had entered its   *)
(* loop (p_do_work, disk_thread, disable_async, ~logger).                   *)
NothingDropped ==
  (Gone => ran) =>
    \A l \in 1 .. nlines :
      OnFile(l) \/ l \in lost \/ Queued(l) \/ (Buffered(l) /\ ~Gone)

(* The lines of each file are in the order of the LOG() calls that made     *)
(* them and none is written twice, to one file or to two, whichever mode    *)
(* changes happen while it is on its way.  (Not so once disable_async() is  *)
(* used: it waits for m_dirty_pool only.)                                   *)
OnceInOrder ==
  /\ \A f \in Files : \A i, j \in DOMAIN content[f] : i < j => content[f][i] < content[f][j]
  /\ \A f, g \in Files : f # g => RangeOf(content[f]) \cap RangeOf(content[g]) = {}
  /\ Distinct(stream)

(* set_new_file() "first flushes out any buffered data": a line is written  *)
(* to the file that was current when it was logged.                         *)
RightFile ==
  \A f \in Files : \A i \in DOMAIN content[f] : target[content[f][i]] = f

(* The same of an application that never switches to asynchronous mode.     *)
RightFileSync == "enable_async" \notin ops => RightFile

(* While the disk thread is inside send_to_files(), set_new_file() and the  *)
(* destructor leave the name it opened alone.                               *)
NameStableWhileWriting == [][dpc = "writing" => UNCHANGED m_file_name]_vars

(* Every call returns: disable_async() does not poll, and the destructor    *)
(* does not wait for the disk thread, for ever.                             *)
CallsReturn == \A t \in App : (pc[t] # "idle") ~> (pc[t] \in {"idle", "gone"})
=============================================================================
