-------------------------------- MODULE Heaps --------------------------------
(* HEAP: double linked, head pointer only.  One action per macro; callers   *)
(* keep to the same rules as in Lists.                                      *)
EXTENDS Links

VARIABLES
  head,         \* the header
  next, prev,   \* the links of each entry
  ready,        \* is the header initialised?
  call          \* history: the last macro

vars == <<head, next, prev, ready, call>>

Heap == IF ready THEN Chain(head, next) ELSE <<>>
On == ToSet(Heap)

-----------------------------------------------------------------------------
Set(pointer, e, value) == IF e = NULL THEN pointer ELSE [pointer EXCEPT ![e] = value]

Init ==
  /\ \E junk \in Pointer : Unwritten(next, Entry, junk) /\ head = junk
  /\ prev = next
  /\ ready = FALSE /\ call = NoCall

HeapInit ==
  /\ head' = NULL /\ ready' = TRUE
  /\ call' = Call("init", "heap", NULL, NULL)
  /\ UNCHANGED <<next, prev>>

AddHead(e) ==
  /\ ready /\ e \notin On
  /\ next' = [next EXCEPT ![e] = head]
  /\ prev' = Set([prev EXCEPT ![e] = NULL], head, e)
  /\ head' = e
  /\ call' = Call("add_head", "heap", e, NULL)
  /\ UNCHANGED ready

RemHead ==
  /\ ready /\ head # NULL
  /\ head' = next[head]
  /\ prev' = Set(prev, head', NULL)
  /\ call' = Call("rem_head", "heap", NULL, NULL)
  /\ UNCHANGED <<next, ready>>

InsertAfter(at, e) ==
  /\ at \in On /\ e \notin On
  /\ next' = [next EXCEPT ![e] = next[at], ![at] = e]
  /\ prev' = Set([prev EXCEPT ![e] = at], next[at], e)
  /\ call' = Call("insert_after", "heap", e, at)
  /\ UNCHANGED <<head, ready>>

InsertBefore(at, e) ==
  /\ at \in On /\ e \notin On
  /\ prev' = [prev EXCEPT ![e] = prev[at], ![at] = e]
  /\ next' = Set([next EXCEPT ![e] = at], prev[at], e)
  /\ head' = IF prev[at] # NULL THEN head ELSE e
  /\ call' = Call("insert_before", "heap", e, at)
  /\ UNCHANGED ready

RemEntry(e) ==
  /\ e \in On
  /\ next' = Set(next, prev[e], next[e])
  /\ prev' = Set(prev, next[e], prev[e])
  /\ head' = IF prev[e] # NULL THEN head ELSE next[e]
  /\ call' = Call("rem_entry", "heap", e, NULL)
  /\ UNCHANGED ready

Next ==
  \/ HeapInit \/ RemHead
  \/ \E e \in Entry :
       \/ AddHead(e) \/ RemEntry(e)
       \/ \E at \in Entry : InsertAfter(at, e) \/ InsertBefore(at, e)

Spec == Init /\ [][Next]_vars

-----------------------------------------------------------------------------
(* Each entry's HEAP_PREV is the entry whose HEAP_NEXT it is, and the first has
   none: HEAP_REM_ENTRY and HEAP_INSERT_BEFORE tell the first entry by that. *)
Mirrored == \A i \in DOMAIN Heap : prev[Heap[i]] = IF i = 1 THEN NULL ELSE Heap[i - 1]
=============================================================================
