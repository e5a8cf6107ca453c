------------------------------ MODULE ListSpec ------------------------------
(***************************************************************************)
(* What the macros of lists.h promise: a header stands for a sequence of   *)
(* entries, and each macro is one operation on sequences.  The last call   *)
(* is part of the state, so that an implementation has to follow call by   *)
(* call.                                                                   *)
(***************************************************************************)
EXTENDS Integers, Sequences, SequencesExt

CONSTANTS Lists, Entry, NULL

VARIABLES
  lists,    \* the sequence each header stands for
  call      \* the last call: operation, header, and up to two entries

Call(op, l, e, at) == [op |-> op, on |-> l, entry |-> e, at |-> at]
NoCall == Call("none", NULL, NULL, NULL)

(* an entry has one set of links and can be on one list at a time *)
Unlinked(e) == \A l \in Lists : e \notin ToSet(lists[l])

Position(l, e) == CHOOSE i \in DOMAIN lists[l] : lists[l][i] = e

Insert(l, e, i) == /\ Unlinked(e)
                   /\ lists' = [lists EXCEPT ![l] = InsertAt(@, i, e)]
Delete(l, i) == /\ i \in DOMAIN lists[l]
                /\ lists' = [lists EXCEPT ![l] = RemoveAt(@, i)]

Clear(l) == call' = Call("init", l, NULL, NULL) /\ lists' = [lists EXCEPT ![l] = <<>>]

AddHead(l, e) == call' = Call("add_head", l, e, NULL) /\ Insert(l, e, 1)
AddTail(l, e) == call' = Call("add_tail", l, e, NULL) /\ Insert(l, e, Len(lists[l]) + 1)
RemHead(l) == call' = Call("rem_head", l, NULL, NULL) /\ Delete(l, 1)
RemTail(l) == call' = Call("rem_tail", l, NULL, NULL) /\ Delete(l, Len(lists[l]))

InsertAfter(l, at, e) ==
  /\ call' = Call("insert_after", l, e, at)
  /\ at \in ToSet(lists[l])
  /\ Insert(l, e, Position(l, at) + 1)

InsertBefore(l, at, e) ==
  /\ call' = Call("insert_before", l, e, at)
  /\ at \in ToSet(lists[l])
  /\ Insert(l, e, Position(l, at))

RemEntry(l, e) ==
  /\ call' = Call("rem_entry", l, e, NULL)
  /\ e \in ToSet(lists[l])
  /\ Delete(l, Position(l, e))

(* all of src goes behind dest; src has to be initialised to be used again *)
Concat(dest, src) ==
  /\ dest # src
  /\ call' = Call("concat", dest, src, NULL)
  /\ lists' = [lists EXCEPT ![dest] = @ \o lists[src], ![src] = <<>>]

(* the entries keep their circular order, and e becomes the first *)
Turn(l, e) ==
  /\ e \in ToSet(lists[l])
  /\ lists' = [lists EXCEPT ![l] = SubSeq(@, Position(l, e), Len(@))
                                     \o SubSeq(@, 1, Position(l, e) - 1)]

SetHead(l, e) == call' = Call("set_head", l, e, NULL) /\ Turn(l, e)

(* one entry on: the next of the first, in the circle, becomes the first *)
Forward(l) ==
  /\ call' = Call("forward", l, NULL, NULL)
  /\ lists[l] # <<>>
  /\ Turn(l, IF Len(lists[l]) = 1 THEN lists[l][1] ELSE lists[l][2])

(* one entry back: the last becomes the first *)
ReverseHead(l) ==
  /\ call' = Call("reverse", l, NULL, NULL)
  /\ lists[l] # <<>>
  /\ Turn(l, Last(lists[l]))

Init == lists = [l \in Lists |-> <<>>] /\ call = NoCall

Next ==
  \/ \E l \in Lists : Clear(l) \/ RemHead(l) \/ RemTail(l) \/ Forward(l) \/ ReverseHead(l)
  \/ \E l \in Lists, e \in Entry :
       \/ AddHead(l, e) \/ AddTail(l, e) \/ RemEntry(l, e) \/ SetHead(l, e)
       \/ \E at \in Entry : InsertAfter(l, at, e) \/ InsertBefore(l, at, e)
  \/ \E dest, src \in Lists : Concat(dest, src)

Spec == Init /\ [][Next]_<<lists, call>>
=============================================================================
