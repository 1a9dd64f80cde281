------------------------------ MODULE MCLogger ------------------------------
(* Instances of Logger for TLC, and its refinement of FifoLog. *)
EXTENDS Logger

(* The calls used by each run: one set per kind of application. *)
Stays == {"log", "flush", "enable_async", "disable_buffered", "enable_buffered"}
AsyncScenarios ==
  {Stays, {"log", "flush", "enable_async", "disable_async", "disable_buffered", "destroy"}}
FileScenarios ==
  { {"log", "enable_async", "set_new_file", "disable_file", "enable_file", "destroy"},
    {"log", "flush", "set_new_file", "enable_buffered", "disable_buffered",
     "disable_file", "enable_stream", "disable_stream"},
    {"log", "flush", "set_level", "set_force_flush_level", "enable_async"} }
RenameScenarios == {{"log", "enable_async", "set_new_file"}}

LogFile == CHOOSE f \in Files : TRUE

(* The pipeline of one file: the disk thread's buffers, then the queue.     *)
Pipeline == LET pending == waiting_pool \o m_dirty_pool
            IN [i \in DOMAIN pending |-> text[pending[i]]]

(* An application that leaves asynchronous mode, or destroys the logger, is *)
(* mapped to a pipeline that nobody uses: FifoLog says nothing of it.       *)
Used(v, unused) == IF ops = Stays THEN v ELSE unused
Fifo == INSTANCE FifoLog WITH n <- Used(nlines, 0), cur <- Used(text[m_buf], <<>>),
          queue <- Used(Pipeline, <<>>), out <- Used(content[LogFile], <<>>)

(* With one log file, no I/O error, and asynchronous mode never left, the   *)
(* logger is a first-in first-out pipeline that keeps writing.              *)
FifoSpec == Fifo!Spec
=============================================================================
