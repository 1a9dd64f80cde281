---------------------------- MODULE CallbackList ----------------------------
(***************************************************************************)
(* eventpp: a CallbackList used by several threads, by the callbacks that  *)
(* it invokes, and through CounterRemover, ConditionalRemover,             *)
(* ScopedRemover and the functions of eventutil.h.  A step is what a       *)
(* thread does under the mutex, or without it, at a time: what a callback  *)
(* does to the list while a loop waits for it is a step of some thread.    *)
(***************************************************************************)
EXTENDS Naturals, Sequences, FiniteSets, SequencesExt, Functions

CONSTANTS Threads, Loopers, (* threads, and those that invoke the list       *)
          KindsOf,         (* bound: what the i-th callback may be added as  *)
          Funcs,           (* what loops do                                  *)
          MaxNodes,        (* bound: nodes allocated                         *)
          MaxCounter,      (* unsigned: the counter's greatest value         *)
          Trigger          (* triggerCount of CounterRemover                 *)

VARIABLES node,            (* previous, next, counter, kind of each node     *)
          head, tail, currentCounter,
          trigger, handle, (* Data of the wrapper of a removing callback     *)
          itemList,        (* of one ScopedRemover                           *)
          run,             (* what each thread is doing                      *)
          order,           (* history: the nodes added and not removed       *)
          gone,            (* history: the nodes removed                     *)
          calls,           (* history: how often each callback was invoked   *)
          odd              (* history: what the documentation leaves out     *)

callbacks == <<node, head, tail, currentCounter, trigger, handle, itemList, run,
               order, gone, calls, odd>>

Nil     == 0
Nodes   == 1 .. Len(node)
removed == 0
Idle    == [at |-> "idle", node |-> Nil, before |-> Nil, how |-> "", func |-> "",
            counter |-> 0, begun |-> <<>>, had |-> 0, called |-> <<>>]

Init ==
  /\ node = <<>> /\ head = Nil /\ tail = Nil
  /\ currentCounter \in {0, MaxCounter - 1}       (* a new list, and an old one *)
  /\ trigger = <<>> /\ handle = <<>> /\ itemList = {}
  /\ run = [t \in Threads |-> Idle]
  /\ order = <<>> /\ gone = {} /\ calls = <<>> /\ odd = {}

(* A node lives as long as a shared_ptr to it: the list, a thread, or a     *)
(* node that lives.  handle.lock() gets it until then.                      *)
Reach(start, More(_)) ==
  LET reach[i \in 0 .. MaxNodes] == IF i = 0 THEN start \ {Nil}
        ELSE (reach[i - 1] \cup UNION {More(n) : n \in reach[i - 1]}) \ {Nil}
  IN reach[MaxNodes]
Alive == Reach({head, tail} \cup UNION {{run[t].node, run[t].before} : t \in Threads},
               LAMBDA n : {node[n].next, node[n].previous})

-----------------------------------------------------------------------------
(* getNextCounter(), without the mutex; when it overflows, the nodes of the *)
(* list start over, under the mutex, and the next number is taken.          *)
InList == Reach({head}, LAMBDA n : {node[n].next})
NextCounter == (currentCounter + 1) % (MaxCounter + 1)
Created(t, how, before, kind) ==
  /\ node' = Append(node, [previous |-> Nil, next |-> Nil, counter |-> NextCounter, kind |-> kind])
  /\ trigger' = Append(trigger, Trigger) /\ handle' = Append(handle, Nil) /\ calls' = Append(calls, 0)
  /\ run' = [run EXCEPT ![t] = [Idle EXCEPT !.at = "link", !.node = Len(node) + 1,
                                            !.before = before, !.how = how]]
Allocate(t, how, before, kind) ==
  /\ run[t].at = "idle"
  /\ IF how = "insert" THEN before \in Alive ELSE before = Nil
  /\ currentCounter' = NextCounter
  /\ \/ NextCounter # 0 /\ Created(t, how, before, kind) /\ UNCHANGED odd
     \/ /\ NextCounter = 0 /\ odd' = odd \cup {"overflow"}
        /\ run' = [run EXCEPT ![t] = [Idle EXCEPT !.at = "start over", !.before = before, !.how = how]]
        /\ UNCHANGED <<node, trigger, handle, calls>>
  /\ UNCHANGED <<head, tail, itemList, order, gone>>
StartOver(t) ==
  /\ run[t].at = "start over" /\ run' = [run EXCEPT ![t].at = "count on"]
  /\ node' = [n \in Nodes |-> IF n \in InList THEN [node[n] EXCEPT !.counter = 1] ELSE node[n]]
  /\ UNCHANGED <<head, tail, currentCounter, trigger, handle, itemList, order, gone, calls, odd>>
CountOn(t, kind) ==
  /\ run[t].at = "count on" /\ currentCounter' = NextCounter
  /\ Created(t, run[t].how, run[t].before, kind)
  /\ UNCHANGED <<head, tail, itemList, order, gone, odd>>

(* append(), prepend() and doInsert(), under the mutex.  A node inserted    *)
(* before one that was removed since goes where that one was.               *)
doInsertSwapped(n, before) ==                         (* variant: the node  *)
  [node EXCEPT ![n].previous = node[before].previous, (* before is asked for *)
               ![n].next = n, ![before].previous = n] (* its previous late   *)
doInsert(n, before) ==
  LET p == node[before].previous
  IN [node EXCEPT ![n].previous = p, ![n].next = before, ![before].previous = n,
                  ![IF p = Nil THEN n ELSE p].next = IF p = Nil THEN before ELSE n]
Linked(n, how, before) ==
  CASE how = "insert"     -> doInsert(n, before)
    [] head = Nil       -> node
    [] how = "append"   -> [node EXCEPT ![n].previous = tail, ![tail].next = n]
    [] how = "prepend"  -> [node EXCEPT ![n].next = head, ![head].previous = n]
Link(t) ==
  LET n == run[t].node  how == run[t].how  before == run[t].before
  IN /\ run[t].at = "link"
     /\ node' = Linked(n, how, before)
     /\ head' = IF how = "prepend" \/ (how = "append" /\ head = Nil) \/ (how = "insert" /\ before = head)
                THEN n ELSE head
     /\ tail' = IF how = "append" \/ (how = "prepend" /\ head = Nil) THEN n ELSE tail
     /\ order' = CASE how = "append"  -> Append(order, n)
                   [] how = "prepend" -> <<n>> \o order
                   [] before \in Range(order) ->
                        LET i == CHOOSE i \in DOMAIN order : order[i] = before
                        IN InsertAt(order, i, n)
                   [] OTHER -> order
     /\ odd' = odd \cup (IF before \in gone THEN {"insert before removed"} ELSE {})
                   \cup (IF node[n].counter > currentCounter THEN {"old counter"} ELSE {})
     /\ run' = [run EXCEPT ![t] = IF node[n].kind = "plain" THEN Idle ELSE [Idle EXCEPT !.at = "note", !.node = n]]
     /\ UNCHANGED <<currentCounter, trigger, handle, itemList, gone, calls>>

(* The removers keep the handle they got, once append() has returned.       *)
NoteScoped(n)  == itemList' = itemList \cup {n} /\ UNCHANGED handle
NoteWrapped(n) == handle' = [handle EXCEPT ![n] = n] /\ UNCHANGED itemList
Note(t) ==
  /\ run[t].at = "note"
  /\ IF node[run[t].node].kind = "scoped" THEN NoteScoped(run[t].node) ELSE NoteWrapped(run[t].node)
  /\ run' = [run EXCEPT ![t] = Idle]
  /\ UNCHANGED <<node, head, tail, currentCounter, trigger, order, gone, calls, odd>>

-----------------------------------------------------------------------------
(* remove() and doFreeNode(): a node that lives on in a loop is unlinked    *)
(* again by a second remove().                                              *)
doFreeNode(n) ==
  /\ node' = [m \in Nodes |->
       [node[m] EXCEPT !.previous = IF node[n].next = m THEN node[n].previous ELSE @,
                       !.next     = IF node[n].previous = m THEN node[n].next ELSE @,
                       !.counter  = IF m = n THEN removed ELSE @]]
  /\ head' = IF head = n THEN node[n].next ELSE head
  /\ tail' = IF tail = n THEN node[n].previous ELSE tail
RemoveHandle(n) ==
  IF n \in Alive
  THEN /\ doFreeNode(n)
       /\ order' = SelectSeq(order, LAMBDA m : m # n) /\ gone' = gone \cup {n}
       /\ odd' = odd \cup (IF n \in gone THEN {"removed twice"} ELSE {})
  ELSE UNCHANGED <<node, head, tail, order, gone, odd>>
Known(n) == \A t \in Threads : ~(run[t].at \in {"link", "note"} /\ run[t].node = n)
RemoveByHandle(t, n) ==
  /\ run[t].at = "idle" /\ n \in Nodes /\ Known(n)
  /\ RemoveHandle(n)
  /\ UNCHANGED <<currentCounter, trigger, handle, itemList, run, calls>>

(* ScopedRemover::reset(): all that it added is removed, one by one.        *)
ScopedReset(t) ==
  /\ run[t].at = "idle" /\ itemList # {}
  /\ \A u \in Threads : run[u].node \in Nodes => node[run[u].node].kind # "scoped" \/ run[u].at # "note"
  /\ \E n \in itemList : RemoveHandle(n) /\ itemList' = itemList \ {n}
  /\ UNCHANGED <<currentCounter, trigger, handle, run, calls>>

-----------------------------------------------------------------------------
(* doForEachIf(): the head is read, then the counter, then each node is     *)
(* tested without the mutex.  operator() invokes the callbacks, removeListener() *)
(* of eventutil.h removes the first that is plain, and hasListener() stops  *)
(* there.                                                                   *)
Begin(t, func) ==
  /\ run[t].at = "idle"
  /\ run' = [run EXCEPT ![t] = [Idle EXCEPT !.at = "count", !.node = head, !.func = func, !.begun = order]]
  /\ UNCHANGED <<node, head, tail, currentCounter, trigger, handle, itemList, order, gone, calls, odd>>
Count(t) ==
  /\ run[t].at = "count"
  /\ run' = [run EXCEPT ![t].at = "test", ![t].counter = currentCounter,
                              ![t].had = Len(node)]
  /\ UNCHANGED <<node, head, tail, currentCounter, trigger, handle, itemList, order, gone, calls, odd>>

Invokes(t, n) == node[n].counter # removed /\ run[t].counter >= node[n].counter
Test(t) ==
  LET n == run[t].node
  IN /\ run[t].at = "test"
     /\ run' = [run EXCEPT ![t] = IF n = Nil THEN [@ EXCEPT !.at = "done"]
                                  ELSE IF Invokes(t, n) THEN [@ EXCEPT !.at = "invoke"]
                                  ELSE [@ EXCEPT !.at = "next"]]
     /\ UNCHANGED <<node, head, tail, currentCounter, trigger, handle, itemList, order, gone, calls, odd>>

(* The wrapper of CounterRemover counts down and removes its callback when  *)
(* none is left; that of ConditionalRemover, when its condition says so.    *)
(* The functions of eventutil.h stop at the callback they look for, here    *)
(* the first plain one, and removeListener() removes it.                    *)
CounterRemoves(n)  == {trigger[n] <= 1}
ConditionalRemoves == BOOLEAN
Removes(t, n) ==
  CASE run[t].func = "operator()" /\ node[n].kind = "counted"     -> CounterRemoves(n)
    [] run[t].func = "operator()" /\ node[n].kind = "conditional" -> ConditionalRemoves
    [] OTHER -> {run[t].func = "removeListener" /\ node[n].kind = "plain"}
hasListener(t, n)  == run[t].func # "operator()" /\ node[n].kind = "plain"
Busy(t, n) == \E u \in Threads \ {t} : run[u].node = n /\ run[u].at \in {"link", "note", "invoke"}
Invoke(t) ==
  LET n == run[t].node
  IN /\ run[t].at = "invoke"
     /\ \E removes \in Removes(t, n) :
          /\ IF removes
             THEN RemoveHandle(IF run[t].func = "operator()" THEN handle[n] ELSE n)
             ELSE UNCHANGED <<node, head, tail, order, gone, odd>>
          /\ trigger' = IF run[t].func = "operator()" /\ trigger[n] > 0 THEN [trigger EXCEPT ![n] = @ - 1] ELSE trigger
     /\ calls' = IF run[t].func = "operator()" /\ node[n].kind = "counted" /\ ~Busy(t, n)
                 THEN [calls EXCEPT ![n] = @ + 1] ELSE calls
     /\ run' = [run EXCEPT ![t] = [@ EXCEPT !.at = IF hasListener(t, n) THEN "done" ELSE "next",
                                            !.called = Append(@, n)]]
     /\ UNCHANGED <<currentCounter, handle, itemList>>
GoOn(t) ==
  /\ run[t].at = "next"
  /\ run' = [run EXCEPT ![t].at = "test", ![t].node = node[run[t].node].next]
  /\ UNCHANGED <<node, head, tail, currentCounter, trigger, handle, itemList, order, gone, calls, odd>>
End(t) ==
  /\ run[t].at = "done" /\ run' = [run EXCEPT ![t] = Idle]
  /\ UNCHANGED <<node, head, tail, currentCounter, trigger, handle, itemList, order, gone, calls, odd>>

(* Bound: a list that is broken is not followed any further.                *)
Broken == odd \cap {"insert before removed", "removed twice"} # {}
Next == ~Broken /\ \E t \in Threads :
  \/ \E kind \in IF Len(node) < MaxNodes THEN KindsOf[Len(node) + 1] ELSE {} :
       \/ CountOn(t, kind)
       \/ \E how \in {"append", "prepend"} : Allocate(t, how, Nil, kind)
       \/ \E before \in Nodes : Known(before) /\ Allocate(t, "insert", before, kind)
  \/ StartOver(t) \/ Link(t) \/ Note(t)
  \/ \E n \in Nodes : RemoveByHandle(t, n)
  \/ ScopedReset(t)
  \/ t \in Loopers /\ \E func \in Funcs : Begin(t, func)
  \/ Count(t) \/ Test(t) \/ Invoke(t) \/ GoOn(t) \/ End(t)

-----------------------------------------------------------------------------
(* The list, read either way, is the callbacks added and not removed, in    *)
(* their order, until someone inserts before or removes a callback that was *)
(* removed already: handles of removed callbacks work while a loop is at    *)
(* them.                                                                    *)
ListKept ==
  ~Broken =>
    LET n == Len(order)
    IN /\ head = (IF n = 0 THEN Nil ELSE order[1]) /\ tail = (IF n = 0 THEN Nil ELSE order[n])
       /\ \A i \in 1 .. n :
            /\ node[order[i]].next     = (IF i = n THEN Nil ELSE order[i + 1])
            /\ node[order[i]].previous = (IF i = 1 THEN Nil ELSE order[i - 1])
            /\ node[order[i]].counter # removed

(* A loop that got to the end invoked each callback that was in the list    *)
(* all the time, in the order of the list, none twice, and none that was    *)
(* added after it began - but for what an overflow of the counter does.     *)
LoopsCallOnce ==
  odd = {} => \A t \in Threads : run[t].at \in {"next", "done"} =>
    LET r == run[t]
    IN /\ IsInjective(r.called)
       /\ \A i \in DOMAIN r.called : r.called[i] <= r.had
       /\ SelectSeq(r.begun, LAMBDA n : n \in Range(r.called)) = SelectSeq(r.called, LAMBDA n : n \in Range(r.begun))
       /\ r.at = "done" /\ r.func = "operator()" =>
            \A n \in Range(r.begun) \cap Range(order) : n \in Range(r.called)
       /\ r.at = "done" /\ r.func = "removeListener" =>
            Cardinality({n \in Range(r.called) : node[n].kind = "plain"}) <= 1

(* CounterRemover: a callback is invoked as often as it was added for, not  *)
(* counting invocations that overlap with its addition or one another.      *)
CountedOut == \A n \in Nodes : node[n].kind = "counted" => calls[n] <= Trigger
=============================================================================
