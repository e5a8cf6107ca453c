------------------------------ MODULE ListMacros ------------------------------
(***************************************************************************)
(* lists.h as a whole: callers that use one kind of list at a time, LISTs, *)
(* a QUEUE beside a STACK, a HEAP or a CIRCLEQ.  Each kind is a module of  *)
(* its own; this one says what they have in common: all implement          *)
(* ListSpec.                                                               *)
(***************************************************************************)
EXTENDS Links

VARIABLES
  kind,               \* the kind that is used
  head, tail, top,    \* headers; tail and top are NULL where a kind has none
  next, prev,         \* the links of each entry
  ready,              \* headers that are initialised
  call,               \* history: the last macro
  strayed             \* history: has a queue's last entry left by QUEUE_REM_AFTER?

vars == <<kind, head, tail, top, next, prev, ready, call, strayed>>

L == INSTANCE Lists
Q == INSTANCE Queues
H == INSTANCE Heaps
C == INSTANCE CircleQueue

-----------------------------------------------------------------------------
Init ==
  \/ kind = "list" /\ L!Init /\ top = NULL /\ strayed = FALSE
  \/ kind = "queue" /\ Q!Init /\ prev = NULL
  \/ kind = "heap" /\ H!Init /\ tail = NULL /\ top = NULL /\ strayed = FALSE
  \/ kind = "circle" /\ C!Init /\ tail = NULL /\ top = NULL /\ strayed = FALSE

Next ==
  /\ UNCHANGED kind
  /\ \/ kind = "list" /\ L!Next /\ UNCHANGED <<top, strayed>>
     \/ kind = "queue" /\ Q!Next /\ UNCHANGED prev
     \/ kind = "heap" /\ H!Next /\ UNCHANGED <<tail, top, strayed>>
     \/ kind = "circle" /\ C!Next /\ UNCHANGED <<tail, top, strayed>>

Spec == Init /\ [][Next]_vars

Symmetry == Permutations(Entry)

-----------------------------------------------------------------------------
(* What a header or a way back says of a list is what one finds by following it
   from its head, after any calls: the macros that remove from the tail, insert
   before an entry or add behind the last one start from there.  Of a queue this
   is said until QUEUE_REM_AFTER removes a last entry: QueueTailRight is not
   kept by that call. *)
HeadersRight == CASE kind = "list" -> L!Mirrored
                  [] kind = "queue" -> strayed \/ Q!TailIsLast
                  [] kind = "heap" -> H!Mirrored
                  [] kind = "circle" -> C!Mirrored

(* "Single linked queue with head and tail pointers in the header"
   (bootloader/lists.h:153): QUEUE_TAIL is the last entry of the queue after
   every macro, QUEUE_REM_AFTER of the last one among them. *)
QueueTailRight == kind = "queue" => Q!TailIsLast

Sequence(l) == CASE l \in Headers /\ kind = "list" -> L!Seqn(l)
                 [] l \in {"queue", "stack"} /\ kind = "queue" -> Q!Seqn(l)
                 [] l = "heap" /\ kind = "heap" -> H!Heap
                 [] l = "circle" /\ kind = "circle" -> C!Circle
                 [] OTHER -> <<>>

Sequences == [l \in Ordered |-> Sequence(l)]

Promise == INSTANCE ListSpec WITH Lists <- Ordered, lists <- Sequences

(* CIRCLEQ_REVERSE turns the circle, but not the way its name says *)
WrongWay == call'.op = "reverse" /\ \E e \in Entry : Promise!Turn("circle", e)

(* Each macro does to the links what its name says it does to a sequence, and
   leaves the lists that were not named in the call as they were.  Two calls are
   not held to that: CIRCLEQ_REVERSE is only held to keep the entries and their
   circular order (ReverseGoesBack says what it should do), and nothing is said
   of the calls made after QUEUE_REM_AFTER has removed the last entry of a
   queue, whose tail then names an entry that is not on it. *)
IsSequence == Promise!Init /\ [][strayed \/ WrongWay \/ Promise!Next]_<<Sequences, call>>

(* CIRCLEQ_REVERSE moves the head of the circle to the entry before it, and so
   undoes CIRCLEQ_FORWARD. *)
ReverseGoesBack == [][call'.op = "reverse" => Promise!ReverseHead("circle")]_<<Sequences, call>>
=============================================================================
