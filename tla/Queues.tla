------------------------------- MODULE Queues -------------------------------
(***************************************************************************)
(* QUEUE: single linked, head and tail pointer in the header; and STACK:   *)
(* single linked, head pointer only, which serves as the second header.    *)
(* QUEUE_INSERT_AFTER and STACK_INSERT_AFTER name their parameter          *)
(* prec_entry and use prev_entry: they are modelled for a caller whose     *)
(* variable has that name, the only one they compile for.                  *)
(***************************************************************************)
EXTENDS Links

VARIABLES
  head, tail,   \* the header of the queue
  top,          \* the header of the stack
  next,         \* the link of each entry
  ready,        \* headers that are initialised
  call,         \* history: the last macro
  strayed       \* history: has QUEUE_REM_AFTER ever removed a last entry?

vars == <<head, tail, top, next, ready, call, strayed>>

Queue == Chain(head, next)
Stack == Chain(top, next)
Seqn(l) == IF l \notin ready THEN <<>> ELSE IF l = "queue" THEN Queue ELSE Stack
On(l) == ToSet(Seqn(l))
Unlinked(e) == e \notin On("queue") \cup On("stack")

-----------------------------------------------------------------------------
Init ==
  /\ \E junk \in Pointer : Unwritten(next, Entry, junk) /\ head = junk
  /\ tail = head /\ top = head
  /\ ready = {} /\ call = NoCall /\ strayed = FALSE

QueueInit ==
  /\ head' = NULL /\ tail' = NULL
  /\ ready' = ready \cup {"queue"}
  /\ call' = Call("init", "queue", NULL, NULL)
  /\ UNCHANGED <<top, next, strayed>>

AddTail(e) ==
  /\ "queue" \in ready /\ Unlinked(e)
  /\ next' = IF tail = NULL THEN [next EXCEPT ![e] = NULL]
             ELSE [next EXCEPT ![e] = NULL, ![tail] = e]
  /\ head' = IF tail = NULL THEN e ELSE head
  /\ tail' = e
  /\ call' = Call("add_tail", "queue", e, NULL)
  /\ UNCHANGED <<top, ready, strayed>>

RemHead ==
  /\ "queue" \in ready /\ head # NULL
  /\ head' = next[head]
  /\ tail' = IF head' = NULL THEN NULL ELSE tail
  /\ call' = Call("rem_head", "queue", NULL, NULL)
  /\ UNCHANGED <<top, next, ready, strayed>>

InsertAfter(at, e) ==
  /\ at \in On("queue") /\ Unlinked(e)
  /\ next' = [next EXCEPT ![e] = next[at], ![at] = e]
  /\ tail' = IF next[at] = NULL THEN e ELSE tail
  /\ call' = Call("insert_after", "queue", e, at)
  /\ UNCHANGED <<head, top, ready, strayed>>

(* The entry behind prec is removed.  The header's tail is not looked at: when
   that entry was the last one, tail goes on naming it. *)
RemAfter(prec, e) ==
  /\ prec \in On("queue") /\ next[prec] = e
  /\ next' = [next EXCEPT ![prec] = next[e]]
  /\ strayed' = (strayed \/ next[e] = NULL)
  /\ call' = Call("rem_entry", "queue", e, NULL)
  /\ UNCHANGED <<head, tail, top, ready>>

(* without a preceding entry, the first one *)
RemAfterNull(e) ==
  /\ "queue" \in ready /\ head = e
  /\ head' = next[head]
  /\ tail' = IF head' = NULL THEN NULL ELSE tail
  /\ call' = Call("rem_entry", "queue", e, NULL)
  /\ UNCHANGED <<top, next, ready, strayed>>

-----------------------------------------------------------------------------
StackInit ==
  /\ top' = NULL
  /\ ready' = ready \cup {"stack"}
  /\ call' = Call("init", "stack", NULL, NULL)
  /\ UNCHANGED <<head, tail, next, strayed>>

StackAddHead(e) ==
  /\ "stack" \in ready /\ Unlinked(e)
  /\ next' = [next EXCEPT ![e] = top]
  /\ top' = e
  /\ call' = Call("add_head", "stack", e, NULL)
  /\ UNCHANGED <<head, tail, ready, strayed>>

StackRemHead ==
  /\ "stack" \in ready /\ top # NULL
  /\ top' = next[top]
  /\ call' = Call("rem_head", "stack", NULL, NULL)
  /\ UNCHANGED <<head, tail, next, ready, strayed>>

StackInsertAfter(at, e) ==
  /\ at \in On("stack") /\ Unlinked(e)
  /\ next' = [next EXCEPT ![e] = next[at], ![at] = e]
  /\ call' = Call("insert_after", "stack", e, at)
  /\ UNCHANGED <<head, tail, top, ready, strayed>>

Next ==
  \/ QueueInit \/ RemHead \/ StackInit \/ StackRemHead
  \/ \E e \in Entry :
       \/ AddTail(e) \/ RemAfterNull(e) \/ StackAddHead(e)
       \/ \E at \in Entry : InsertAfter(at, e) \/ RemAfter(at, e) \/ StackInsertAfter(at, e)

Spec == Init /\ [][Next]_vars

-----------------------------------------------------------------------------
(* The header's tail pointer names the last entry: QUEUE_ADD_TAIL puts the next
   one behind what QUEUE_NEXT finds last, not behind one that has left. *)
TailIsLast == "queue" \in ready => tail = IF Queue = <<>> THEN NULL ELSE Last(Queue)
=============================================================================
