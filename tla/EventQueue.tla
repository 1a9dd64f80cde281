----------------------------- MODULE EventQueue -----------------------------
(***************************************************************************)
(* eventpp: an EventQueue used by several threads.  A step is what a       *)
(* thread does under queueListMutex or freeListMutex, or one read of what  *)
(* is not guarded: queueList.empty() and the two counters.  CallbackList   *)
(* has what a dispatched event calls; an event is the number it has among  *)
(* those enqueued.                                                         *)
(***************************************************************************)
EXTENDS Naturals, Sequences, FiniteSets, SequencesExt, Functions

CONSTANTS Producers,       (* threads that enqueue, or disable notifying     *)
          Consumers,       (* threads that process, take and clear           *)
          Waiters,         (* the consumers that wait                        *)
          Calls,           (* bound: which of their calls each makes         *)
          MaxEvents        (* bound: events enqueued                         *)

VARIABLES queueList, freeList,      (* events, and how many free items       *)
          queueEmptyCounter, queueNotifyCounter,
          mutex,                    (* the thread that holds queueListMutex  *)
                                    (* from one step to the next             *)
          waiting,                  (* threads asleep in wait()              *)
          run,                      (* what each thread is doing             *)
          items, enqueued,          (* history: items made, events enqueued  *)
          fate,                     (* history: how often each event was     *)
                                    (* dispatched, taken or cleared          *)
          lapse                     (* history: what may lose a wakeup, or   *)
                                    (* the order                             *)

queue == <<queueList, freeList, queueEmptyCounter, queueNotifyCounter, mutex, waiting,
           run, items, enqueued, fate, lapse>>

Threads == Producers \cup Consumers
NoOne   == 0
Idle    == [at |-> "idle", func |-> "", temp |-> <<>>, idle |-> 0, next |-> 0]

Init ==
  /\ queueList = <<>> /\ freeList = 0 /\ queueEmptyCounter = 0 /\ queueNotifyCounter = 0
  /\ mutex = NoOne /\ waiting = {}
  /\ run = [t \in Threads |-> Idle]
  /\ items = 0 /\ enqueued = 0 /\ fate = [e \in 1 .. MaxEvents |-> 0] /\ lapse = {}

At(t, at)     == run[t].at = at /\ t \notin waiting
Go(t, at)     == run' = [run EXCEPT ![t].at = at]
Free          == mutex = NoOne
listCounters  == <<queueEmptyCounter, queueNotifyCounter>>
history       == <<items, enqueued, fate>>

-----------------------------------------------------------------------------
(* doEnqueue(): a free item or a new one, then the end of the list.         *)
Enqueue(t) ==
  /\ At(t, "idle") /\ enqueued < MaxEvents
  /\ IF freeList > 0 THEN freeList' = freeList - 1 /\ UNCHANGED items
     ELSE items' = items + 1 /\ UNCHANGED freeList
  /\ Go(t, "splice")
  /\ UNCHANGED <<queueList, listCounters, mutex, waiting, enqueued, fate, lapse>>
Splice(t) ==
  /\ At(t, "splice") /\ Free
  /\ enqueued' = enqueued + 1 /\ queueList' = Append(queueList, enqueued')
  /\ run' = [run EXCEPT ![t] = [Idle EXCEPT !.at = "list", !.func = "enqueue"]]
  /\ UNCHANGED <<freeList, listCounters, mutex, waiting, items, fate, lapse>>

(* emptyQueue() and doCanNotifyQueueAvailable(), in two reads or three, and *)
(* notify_one().  DisableQueueNotify asks them the other way round.         *)
ReadList(t) ==
  /\ At(t, "list")
  /\ Go(t, IF queueList = <<>> THEN "counter" ELSE "notifies")
  /\ UNCHANGED <<queueList, freeList, listCounters, mutex, waiting, history, lapse>>
ReadCounter(t) ==
  /\ At(t, "counter")
  /\ run' = [run EXCEPT ![t] = IF queueEmptyCounter = 0 THEN Idle ELSE [@ EXCEPT !.at = "notifies"]]
  /\ UNCHANGED <<queueList, freeList, listCounters, mutex, waiting, history, lapse>>
ReadNotifies(t)  == queueNotifyCounter = 0 \/ run[t].func = "disable"
NotifyOne(t) ==
  /\ At(t, "notifies")
  /\ run' = [run EXCEPT ![t] = Idle]
  /\ IF ReadNotifies(t)
     THEN /\ IF waiting = {} THEN UNCHANGED waiting
             ELSE \E u \in waiting : waiting' = waiting \ {u}
          /\ lapse' = lapse \cup (IF mutex # NoOne THEN {"between test and sleep"} ELSE {})
     ELSE UNCHANGED <<waiting, lapse>>
  /\ UNCHANGED <<queueList, freeList, listCounters, mutex, history>>

Disable(t) ==
  /\ At(t, "idle") /\ queueNotifyCounter = 0 /\ queueNotifyCounter' = queueNotifyCounter + 1
  /\ UNCHANGED <<queueList, freeList, queueEmptyCounter, mutex, waiting, run, history, lapse>>
Enable(t) ==
  /\ At(t, "idle") /\ queueNotifyCounter > 0 /\ queueNotifyCounter' = queueNotifyCounter - 1
  /\ run' = IF queueNotifyCounter' = 0 THEN [run EXCEPT ![t] = [Idle EXCEPT !.at = "list", !.func = "disable"]]
            ELSE run
  /\ UNCHANGED <<queueList, freeList, queueEmptyCounter, mutex, waiting, history, lapse>>

-----------------------------------------------------------------------------
(* Each of the five calls looks at the list before it locks it; process()   *)
(* and the like count themselves.                                           *)
Counts(func) == func \in {"process", "processOne", "processIf"}
Look(t, func) ==
  /\ At(t, "idle") /\ queueList # <<>>
  /\ run' = [run EXCEPT ![t] = [Idle EXCEPT !.at = "take", !.func = func]]
  /\ queueEmptyCounter' = queueEmptyCounter + (IF Counts(func) THEN 1 ELSE 0)
  /\ UNCHANGED <<queueList, freeList, queueNotifyCounter, mutex, waiting, history, lapse>>
clearEvents(t) == "clearEvents" \in Calls[t] /\ Look(t, "clearEvents")
process(t)     == "process" \in Calls[t] /\ Look(t, "process")
processOne(t)  == "processOne" \in Calls[t] /\ Look(t, "processOne")
processIf(t)   == "processIf" \in Calls[t] /\ Look(t, "processIf")
takeEvent(t)   == "takeEvent" \in Calls[t] /\ Look(t, "takeEvent")
Take(t) ==
  LET n == IF run[t].func \in {"processOne", "takeEvent"} /\ queueList # <<>> THEN 1 ELSE Len(queueList)
  IN /\ At(t, "take") /\ Free
     /\ queueList' = SubSeq(queueList, n + 1, Len(queueList))
     /\ run' = [run EXCEPT ![t].at = IF n = 0 THEN "end" ELSE "item", ![t].next = 1,
                           ![t].temp = SubSeq(queueList, 1, n)]
     /\ lapse' = lapse \cup (IF run[t].func = "processIf" /\
                                \E u \in Threads \ {t} : run[u].func = "processIf" /\ run[u].temp # <<>>
                             THEN {"overlap"} ELSE {})
     /\ UNCHANGED <<freeList, listCounters, mutex, waiting, items, enqueued, fate>>

(* directDispatch(): the listener is called, if there is one and no mixin   *)
(* filters the event; either way the event is done with.  The events that   *)
(* processIf() refuses stay in its list, and go back before the others.     *)
Item(t) ==
  LET r == run[t]  e == r.temp[r.next]
  IN /\ At(t, "item")
     /\ IF r.next > Len(r.temp) THEN Go(t, "back") /\ UNCHANGED fate
        ELSE \E refused \in IF r.func = "processIf" THEN BOOLEAN ELSE {FALSE} :
               IF refused
               THEN run' = [run EXCEPT ![t].next = @ + 1] /\ UNCHANGED fate
               ELSE /\ fate' = [fate EXCEPT ![e] = @ + 1]
                    /\ run' = [run EXCEPT ![t].temp = RemoveAt(@, r.next), ![t].idle = @ + 1]
     /\ UNCHANGED <<queueList, freeList, listCounters, mutex, waiting, items, enqueued, lapse>>
PutBack(t)  == run[t].temp \o queueList
Back(t) ==
  /\ At(t, "back") /\ (run[t].temp = <<>> \/ Free)
  /\ queueList' = PutBack(t)
  /\ run' = [run EXCEPT ![t].at = "free", ![t].temp = <<>>]
  /\ lapse' = lapse \cup (IF run[t].temp # <<>> /\ \E u \in Producers : run[u].at = "counter"
                         THEN {"put back between two reads"} ELSE {})
  /\ UNCHANGED <<freeList, listCounters, mutex, waiting, history>>
Release(t) ==
  /\ At(t, "free") /\ Go(t, "end") /\ freeList' = freeList + run[t].idle
  /\ UNCHANGED <<queueList, listCounters, mutex, waiting, history, lapse>>
End(t) ==
  /\ At(t, "end") /\ run' = [run EXCEPT ![t] = Idle]
  /\ queueEmptyCounter' = queueEmptyCounter - (IF Counts(run[t].func) THEN 1 ELSE 0)
  /\ UNCHANGED <<queueList, freeList, queueNotifyCounter, mutex, waiting, history, lapse>>

-----------------------------------------------------------------------------
(* wait() tests under queueListMutex, and gives it up when it sleeps; it    *)
(* tests again when it wakes.  waitFor() goes on also when time is up.      *)
CanProcess == (queueList # <<>> \/ queueEmptyCounter # 0) /\ queueNotifyCounter = 0
Wait(t) ==
  /\ At(t, "idle") \/ At(t, "asleep")
  /\ Free
  /\ IF CanProcess THEN run' = [run EXCEPT ![t] = Idle] /\ UNCHANGED mutex
     ELSE run' = [run EXCEPT ![t] = [Idle EXCEPT !.at = "sleep"]] /\ mutex' = t
  /\ UNCHANGED <<queueList, freeList, listCounters, waiting, history, lapse>>
Sleep(t) ==
  /\ At(t, "sleep") /\ Go(t, "asleep") /\ waiting' = waiting \cup {t} /\ mutex' = NoOne
  /\ UNCHANGED <<queueList, freeList, listCounters, history, lapse>>
TimeUp(t) ==
  /\ t \in waiting /\ Free
  /\ waiting' = waiting \ {t} /\ run' = [run EXCEPT ![t] = Idle]
  /\ UNCHANGED <<queueList, freeList, listCounters, mutex, history, lapse>>

Next ==
  \/ \E t \in Producers : Enqueue(t) \/ Splice(t) \/ Disable(t) \/ Enable(t)
  \/ \E t \in Consumers : \/ Take(t) \/ Item(t) \/ Back(t) \/ Release(t) \/ End(t)
                          \/ clearEvents(t) \/ process(t) \/ processOne(t) \/ processIf(t) \/ takeEvent(t)
  \/ \E t \in Waiters : Sleep(t) \/ TimeUp(t) \/ Wait(t)
  \/ \E t \in Producers : ReadList(t) \/ ReadCounter(t) \/ NotifyOne(t)

-----------------------------------------------------------------------------
(* Every event is in one place: the queue, the list of a thread that works  *)
(* on it, or it was dispatched, taken or cleared, once; events are taken in *)
(* their order, unless two threads overlapped; and no item is lost.         *)
EventsKept ==
  LET held == Range(queueList) \cup UNION {Range(run[t].temp) : t \in Threads}
  IN /\ \A e \in 1 .. enqueued : fate[e] = (IF e \in held THEN 0 ELSE 1)
     /\ IsInjective(queueList)
     /\ "overlap" \notin lapse => \A i, j \in DOMAIN queueList : i < j => queueList[i] < queueList[j]
     /\ items = freeList + Cardinality(held) + FoldFunction(+, 0, [t \in Threads |-> run[t].idle])
                - FoldFunction(+, 0, [t \in Threads |-> IF run[t].at = "end" THEN run[t].idle ELSE 0])
                + Cardinality({t \in Threads : run[t].at = "splice"})

(* The waiting threads do not all sleep beside an event while the others    *)
(* rest, but after what the library does not guard: a notification between  *)
(* the test of wait() and its sleep, and events that processIf() puts back  *)
(* between the two reads of emptyQueue(), which enqueue() asks.             *)
NoLostWakeup ==
  waiting = Waiters /\ queueList # <<>> /\ queueNotifyCounter = 0
    /\ (\A t \in Threads \ Waiters : run[t].at = "idle")
  => lapse \cap {"between test and sleep", "put back between two reads"} # {}
=============================================================================
