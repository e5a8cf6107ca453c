-------------------------------- MODULE Links --------------------------------
(* Entries that point at each other, and the calls made on them; what the   *)
(* modules on the macros of lists.h share.                                  *)
EXTENDS Integers, Sequences, SequencesExt

CONSTANTS
  Entry, NULL,
  Headers             \* of LISTs; of the other kinds there is one each

ASSUME LinksAssumption == IsFiniteSet(Entry) /\ NULL \notin Entry

Pointer == Entry \cup {NULL}

Call(op, l, e, at) == [op |-> op, on |-> l, entry |-> e, at |-> at]
NoCall == Call("none", NULL, NULL, NULL)

(* The entries one meets from first on, along link, until NULL; one more than
   there are entries if the links run in a circle. *)
Chain(first, link) ==
  LET from[n \in 0 .. Cardinality(Entry) + 1] == [e \in Pointer |->
        IF e = NULL \/ n = 0 THEN <<>> ELSE <<e>> \o from[n - 1][link[e]]]
  IN  from[Cardinality(Entry) + 1][first]

(* what is a list, and has an order *)
Ordered == Headers \cup {"queue", "stack", "heap", "circle"}

(* pointers nobody has assigned hold whatever was in memory *)
Unwritten(pointers, owners, junk) == pointers = [o \in owners |-> junk]
=============================================================================
