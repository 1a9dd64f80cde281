------------------------------- MODULE FifoLog ------------------------------
(***************************************************************************)
(* What the logger promises for one log file: a first-in first-out         *)
(* pipeline.  Lines are numbered 1, 2, ...; they gather in the current     *)
(* buffer, full buffers queue, the queue is written in order.              *)
(***************************************************************************)
EXTENDS Naturals, Sequences, SequencesExt

VARIABLES n,      (* lines logged so far                *)
          cur,    (* lines in the current buffer        *)
          queue,  (* buffers handed over, oldest first  *)
          out     (* lines in the file                  *)

vars == <<n, cur, queue, out>>

Init == n = 0 /\ cur = <<>> /\ queue = <<>> /\ out = <<>>

Append1 == /\ n' = n + 1
           /\ cur' = Append(cur, n + 1)
           /\ UNCHANGED <<queue, out>>

Submit == /\ cur # <<>>
          /\ queue' = Append(queue, cur)
          /\ cur' = <<>>
          /\ UNCHANGED <<n, out>>

WriteOldest == /\ queue # <<>>
               /\ out' = out \o Head(queue)
               /\ queue' = Tail(queue)
               /\ UNCHANGED <<n, cur>>

(* Synchronous mode, only with nothing queued. *)
WriteThrough == /\ queue = <<>> /\ cur # <<>>
                /\ out' = out \o cur
                /\ cur' = <<>>
                /\ UNCHANGED <<n, queue>>

Next == Append1 \/ Submit \/ WriteOldest \/ WriteThrough

Spec == Init /\ [][Next]_vars /\ WF_vars(WriteOldest)

(* Every line is exactly once, and in order, in the file, the queue or the  *)
(* current buffer.                                                          *)
AllInOrder == out \o FlattenSeq(queue) \o cur = [i \in 1 .. n |-> i]
=============================================================================
