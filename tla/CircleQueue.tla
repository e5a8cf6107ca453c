----------------------------- MODULE CircleQueue -----------------------------
(***************************************************************************)
(* CIRCLEQ: double linked in a circle, the header points at the current    *)
(* first entry.  One action per macro.  CIRCLEQ_REVERSE moves the head the *)
(* way CIRCLEQ_FORWARD does; it also takes an empty queue, and leaves it.  *)
(***************************************************************************)
EXTENDS Links

VARIABLES
  head,         \* the header
  next, prev,   \* the links of each entry
  ready,        \* is the header initialised?
  call          \* history: the last macro

vars == <<head, next, prev, ready, call>>

(* from the head along link, once around *)
Around(link) ==
  LET met == Chain(head, link)
      again == {i \in 2 .. Len(met) : met[i] = head}
  IN  IF again = {} THEN met
      ELSE SubSeq(met, 1, (CHOOSE i \in again : \A j \in again : i <= j) - 1)

Circle == IF ready THEN Around(next) ELSE <<>>
On == ToSet(Circle)
Alone == next[head] = head

-----------------------------------------------------------------------------
Init ==
  /\ \E junk \in Pointer : Unwritten(next, Entry, junk) /\ head = junk
  /\ prev = next
  /\ ready = FALSE /\ call = NoCall

CircleInit ==
  /\ head' = NULL /\ ready' = TRUE
  /\ call' = Call("init", "circle", NULL, NULL)
  /\ UNCHANGED <<next, prev>>

(* what CIRCLEQ_ADD_HEAD and CIRCLEQ_ADD_TAIL do to the links *)
LinkIn(e) ==
  /\ ready /\ e \notin On
  /\ IF head = NULL THEN /\ next' = [next EXCEPT ![e] = e]
                         /\ prev' = [prev EXCEPT ![e] = e]
     ELSE /\ next' = [next EXCEPT ![e] = head, ![prev[head]] = e]
          /\ prev' = [prev EXCEPT ![e] = prev[head], ![head] = e]

AddHead(e) ==
  /\ LinkIn(e)
  /\ head' = e
  /\ call' = Call("add_head", "circle", e, NULL)
  /\ UNCHANGED ready

AddTail(e) ==
  /\ LinkIn(e)
  /\ head' = IF head = NULL THEN e ELSE head
  /\ call' = Call("add_tail", "circle", e, NULL)
  /\ UNCHANGED ready

RemHead ==
  /\ ready /\ head # NULL
  /\ IF Alone THEN head' = NULL /\ UNCHANGED <<next, prev>>
     ELSE /\ prev' = [prev EXCEPT ![next[head]] = prev[head]]
          /\ next' = [next EXCEPT ![prev[head]] = next[head]]
          /\ head' = next[head]
  /\ call' = Call("rem_head", "circle", NULL, NULL)
  /\ UNCHANGED ready

RemTail ==
  /\ ready /\ head # NULL
  /\ IF Alone THEN head' = NULL /\ UNCHANGED <<next, prev>>
     ELSE /\ next' = [next EXCEPT ![prev[prev[head]]] = head]
          /\ prev' = [prev EXCEPT ![head] = prev[prev[head]]]
          /\ UNCHANGED head
  /\ call' = Call("rem_tail", "circle", NULL, NULL)
  /\ UNCHANGED ready

RemEntry(e) ==
  /\ e \in On
  /\ IF next[e] = e THEN head' = NULL /\ UNCHANGED <<next, prev>>
     ELSE /\ prev' = [prev EXCEPT ![next[e]] = prev[e]]
          /\ next' = [next EXCEPT ![prev[e]] = next[e]]
          /\ head' = IF head = e THEN next[e] ELSE head
  /\ call' = Call("rem_entry", "circle", e, NULL)
  /\ UNCHANGED ready

SetHead(e) ==
  /\ e \in On
  /\ head' = e
  /\ call' = Call("set_head", "circle", e, NULL)
  /\ UNCHANGED <<next, prev, ready>>

Forward ==
  /\ ready /\ head # NULL
  /\ head' = next[head]
  /\ call' = Call("forward", "circle", NULL, NULL)
  /\ UNCHANGED <<next, prev, ready>>

ReverseHead ==
  /\ ready /\ head # NULL
  /\ head' = next[head]
  /\ call' = Call("reverse", "circle", NULL, NULL)
  /\ UNCHANGED <<next, prev, ready>>

Next ==
  \/ CircleInit \/ RemHead \/ RemTail \/ Forward \/ ReverseHead
  \/ \E e \in Entry : AddHead(e) \/ AddTail(e) \/ RemEntry(e) \/ SetHead(e)

Spec == Init /\ [][Next]_vars

-----------------------------------------------------------------------------
(* Around by CIRCLEQ_PREV one meets the entries that CIRCLEQ_NEXT finds, in
   reverse order: CIRCLEQ_TAIL is the last, and every walk comes back. *)
Mirrored == ready => LET back == Around(prev) IN
  back = IF head = NULL THEN <<>> ELSE <<head>> \o Reverse(Tail(Circle))
=============================================================================
