-------------------------------- MODULE Lists --------------------------------
(***************************************************************************)
(* LIST: double linked, head and tail pointer in the header.  This is the  *)
(* list of nodes of mkifs.  One action per macro; a caller keeps to what   *)
(* the macros rely on: no entry is added that is on a list, none removed   *)
(* or used as a neighbour that is not, and a header is initialised first,  *)
(* and again when its entries have been given away by LIST_CONCAT.         *)
(***************************************************************************)
EXTENDS Links

VARIABLES
  head, tail,   \* the headers
  next, prev,   \* the links of each entry
  ready,        \* headers that are initialised
  call          \* history: the last macro

vars == <<head, tail, next, prev, ready, call>>

Seqn(l) == IF l \in ready THEN Chain(head[l], next) ELSE <<>>
On(l) == ToSet(Seqn(l))
Unlinked(e) == \A l \in Headers : e \notin On(l)

-----------------------------------------------------------------------------
(* pointer[e] := value, unless e is NULL, where the code has no assignment *)
Set(pointer, e, value) == IF e = NULL THEN pointer ELSE [pointer EXCEPT ![e] = value]

Init ==
  /\ \E junk \in Pointer : Unwritten(head, Headers, junk) /\ Unwritten(next, Entry, junk)
  /\ tail = head /\ prev = next
  /\ ready = {} /\ call = NoCall

ListInit(l) ==
  /\ head' = [head EXCEPT ![l] = NULL]
  /\ tail' = [tail EXCEPT ![l] = NULL]
  /\ ready' = ready \cup {l}
  /\ call' = Call("init", l, NULL, NULL)
  /\ UNCHANGED <<next, prev>>

Concat(dest, src) ==
  /\ {dest, src} \subseteq ready /\ dest # src
  /\ IF head[src] = NULL THEN UNCHANGED <<head, tail, next, prev>>
     ELSE /\ next' = Set(next, tail[dest], head[src])
          /\ prev' = [prev EXCEPT ![head[src]] = tail[dest]]
          /\ head' = [head EXCEPT ![dest] = IF @ # NULL THEN @ ELSE head[src]]
          /\ tail' = [tail EXCEPT ![dest] = tail[src]]
  /\ ready' = ready \ {src}
  /\ call' = Call("concat", dest, src, NULL)

AddHead(l, e) ==
  /\ l \in ready /\ Unlinked(e)
  /\ next' = [next EXCEPT ![e] = head[l]]
  /\ prev' = Set([prev EXCEPT ![e] = NULL], head[l], e)
  /\ tail' = [tail EXCEPT ![l] = IF head[l] # NULL THEN @ ELSE e]
  /\ head' = [head EXCEPT ![l] = e]
  /\ call' = Call("add_head", l, e, NULL)
  /\ UNCHANGED ready

AddTail(l, e) ==
  /\ l \in ready /\ Unlinked(e)
  /\ next' = Set([next EXCEPT ![e] = NULL], tail[l], e)
  /\ prev' = [prev EXCEPT ![e] = tail[l]]
  /\ head' = [head EXCEPT ![l] = IF tail[l] # NULL THEN @ ELSE e]
  /\ tail' = [tail EXCEPT ![l] = e]
  /\ call' = Call("add_tail", l, e, NULL)
  /\ UNCHANGED ready

(* mutant: the new first entry keeps its way back *)
RemHeadLinked(l) ==
  /\ l \in ready /\ head[l] # NULL
  /\ head' = [head EXCEPT ![l] = next[@]]
  /\ tail' = [tail EXCEPT ![l] = IF head'[l] # NULL THEN @ ELSE NULL]
  /\ call' = Call("rem_head", l, NULL, NULL)
  /\ UNCHANGED <<next, prev, ready>>

RemHead(l) ==
  /\ l \in ready /\ head[l] # NULL
  /\ head' = [head EXCEPT ![l] = next[@]]
  /\ prev' = Set(prev, head'[l], NULL)
  /\ tail' = [tail EXCEPT ![l] = IF head'[l] # NULL THEN @ ELSE NULL]
  /\ call' = Call("rem_head", l, NULL, NULL)
  /\ UNCHANGED <<next, ready>>

RemTail(l) ==
  /\ l \in ready /\ tail[l] # NULL
  /\ tail' = [tail EXCEPT ![l] = prev[@]]
  /\ next' = Set(next, tail'[l], NULL)
  /\ head' = [head EXCEPT ![l] = IF tail'[l] # NULL THEN @ ELSE NULL]
  /\ call' = Call("rem_tail", l, NULL, NULL)
  /\ UNCHANGED <<prev, ready>>

InsertAfter(l, at, e) ==
  /\ at \in On(l) /\ Unlinked(e)
  /\ next' = [next EXCEPT ![e] = next[at], ![at] = e]
  /\ prev' = Set([prev EXCEPT ![e] = at], next[at], e)
  /\ tail' = [tail EXCEPT ![l] = IF next[at] # NULL THEN @ ELSE e]
  /\ call' = Call("insert_after", l, e, at)
  /\ UNCHANGED <<head, ready>>

InsertBefore(l, at, e) ==
  /\ at \in On(l) /\ Unlinked(e)
  /\ prev' = [prev EXCEPT ![e] = prev[at], ![at] = e]
  /\ next' = Set([next EXCEPT ![e] = at], prev[at], e)
  /\ head' = [head EXCEPT ![l] = IF prev[at] # NULL THEN @ ELSE e]
  /\ call' = Call("insert_before", l, e, at)
  /\ UNCHANGED <<tail, ready>>

(* mutant: the header is not told that its last entry is gone *)
RemEntryTailKept(l, e) ==
  /\ e \in On(l)
  /\ next' = Set(next, prev[e], next[e])
  /\ prev' = Set(prev, next[e], prev[e])
  /\ head' = [head EXCEPT ![l] = IF prev[e] # NULL THEN @ ELSE next[e]]
  /\ call' = Call("rem_entry", l, e, NULL)
  /\ UNCHANGED <<tail, ready>>

RemEntry(l, e) ==
  /\ e \in On(l)
  /\ next' = Set(next, prev[e], next[e])
  /\ prev' = Set(prev, next[e], prev[e])
  /\ head' = [head EXCEPT ![l] = IF prev[e] # NULL THEN @ ELSE next[e]]
  /\ tail' = [tail EXCEPT ![l] = IF next[e] # NULL THEN @ ELSE prev[e]]
  /\ call' = Call("rem_entry", l, e, NULL)
  /\ UNCHANGED ready

Next ==
  \/ \E l \in Headers : ListInit(l) \/ RemHead(l) \/ RemTail(l)
  \/ \E l \in Headers, e \in Entry :
       \/ AddHead(l, e) \/ AddTail(l, e) \/ RemEntry(l, e)
       \/ \E at \in Entry : InsertAfter(l, at, e) \/ InsertBefore(l, at, e)
  \/ \E dest, src \in Headers : Concat(dest, src)

Spec == Init /\ [][Next]_vars

-----------------------------------------------------------------------------
(* An initialised header has both pointers or none.  Read from the tail by
   LIST_PREV, a list has the entries that LIST_NEXT finds from its head, in
   reverse order, whatever was inserted, removed, moved. *)
Mirrored == \A l \in ready : /\ head[l] = NULL <=> tail[l] = NULL
                             /\ Chain(tail[l], prev) = Reverse(Seqn(l))
=============================================================================
