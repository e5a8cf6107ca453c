------------------------------ MODULE ListProofs ------------------------------
(***************************************************************************)
(* Proofs about the macros of lists.h: for any number of entries, headers  *)
(* and calls.                                                              *)
(***************************************************************************)
EXTENDS ListMacros, LinkFacts

-----------------------------------------------------------------------------
(* LIST *)

LEMMA ListChain == \A e, f : L!Chain(e, f) = Chain(e, f)
  <1>1. L!Cardinality(Entry) = Cardinality(Entry)
    BY Zenon DEF L!Cardinality, Cardinality
  <1>2. QED
    BY <1>1, Zenon DEF L!Chain, Chain, L!Pointer, Pointer

LEMMA CallsAgree == \A op, l, e, at : /\ L!Call(op, l, e, at) = Call(op, l, e, at)
                                      /\ Promise!Call(op, l, e, at) = Call(op, l, e, at)
  BY DEF L!Call, Promise!Call, Call

(* The headers h and t and the links f and b are those of the sequences q, r
   are the headers that are initialised. *)
Holds(q, h, t, f, b, r) ==
  /\ h \in [Headers -> Pointer] /\ t \in [Headers -> Pointer] /\ f \in Link /\ b \in Link
  /\ r \subseteq Headers
  /\ Lay(q) /\ AllOnward(q, f) /\ AllBack(q, b)
  /\ \A l \in r : h[l] = At(q[l], 1) /\ t[l] = At(q[l], Len(q[l]))
  /\ \A l \in Ordered : l \notin r => q[l] = <<>>

LEMMA ListFound ==
  ASSUME NEW q, NEW h, NEW t, NEW f, NEW b, NEW r, Holds(q, h, t, f, b, r), NEW l \in Ordered
  PROVE  /\ q[l] = IF l \in r THEN L!Chain(h[l], f) ELSE <<>>
         /\ l \in r => L!Chain(t[l], b) = Reverse(q[l])
  <1>1. Lay(q) /\ AllOnward(q, f) /\ AllBack(q, b)
    BY DEF Holds
  <1>2. Chain(At(q[l], 1), f) = q[l] /\ Chain(At(q[l], Len(q[l])), b) = Reverse(q[l])
    BY <1>1, WalkOn, WalkBack, Zenon
  <1>3. CASE l \in r
    <2>1. h[l] = At(q[l], 1) /\ t[l] = At(q[l], Len(q[l]))
      BY <1>3, Zenon DEF Holds
    <2>2. QED
      BY <1>2, <1>3, <2>1, ListChain, Zenon
  <1>4. CASE l \notin r
    BY <1>4, Zenon DEF Holds
  <1>5. QED
    BY <1>3, <1>4, Zenon

(* the sequences are those one finds *)
LEMMA ListSequences ==
  ASSUME NEW q, kind = "list", Holds(q, head, tail, next, prev, ready)
  PROVE  Sequences = q /\ \A l \in Headers : L!Seqn(l) = q[l]
  <1>1. \A l \in Ordered : q[l] = IF l \in ready THEN L!Chain(head[l], next) ELSE <<>>
    BY ListFound
  <1>2. \A l \in Headers : L!Seqn(l) = q[l]
    BY <1>1 DEF L!Seqn, Ordered
  <1>3. ready \subseteq Headers
    BY DEF Holds
  <1>4. \A l \in Ordered : Sequence(l) = q[l]
    <2>1. SUFFICES ASSUME NEW l \in Ordered PROVE Sequence(l) = q[l]
      OBVIOUS
    <2>2. CASE l \in Headers
      <3>1. Sequence(l) = L!Seqn(l)
        BY <2>2 DEF Sequence
      <3>2. QED
        BY <1>2, <2>2, <3>1
    <2>3. CASE l \notin Headers
      <3>1. Sequence(l) = <<>>
        BY <2>3 DEF Sequence
      <3>2. QED
        BY <1>1, <1>3, <2>3, <3>1
    <2>4. QED
      BY <2>2, <2>3
  <1>5. q = [l \in Ordered |-> q[l]]
    BY DEF Holds, Lay
  <1>6. QED
    BY <1>2, <1>4, <1>5, Zenon DEF Sequences

(* a macro that changes list l only *)
LEMMA HoldsAgain ==
  ASSUME NEW q, NEW h, NEW t, NEW f, NEW b, NEW r, Holds(q, h, t, f, b, r), NEW l \in r,
         NEW p, Lay(p), \A m \in Ordered : m # l => p[m] = q[m],
         NEW g \in Link, AllOnward(p, g), NEW c \in Link, AllBack(p, c),
         NEW u \in [Headers -> Pointer], NEW v \in [Headers -> Pointer],
         u[l] = At(p[l], 1), v[l] = At(p[l], Len(p[l])),
         \A m \in Headers : m # l => u[m] = h[m] /\ v[m] = t[m]
  PROVE  Holds(p, u, v, g, c, r)
  <1>1. \A m \in r : u[m] = At(p[m], 1) /\ v[m] = At(p[m], Len(p[m]))
    BY DEF Holds, Ordered
  <1>2. \A m \in Ordered : m \notin r => p[m] = <<>>
    BY DEF Holds
  <1>3. QED
    BY <1>1, <1>2 DEF Holds

(* e goes between p and v *)
LEMMA PutBetween ==
  ASSUME NEW f \in Link, NEW e \in Entry, NEW v \in Pointer, NEW p \in Pointer, p # e,
         NEW g, g = IF p = NULL THEN [f EXCEPT ![e] = v] ELSE [f EXCEPT ![e] = v, ![p] = e]
  PROVE  g \in Link /\ Rewired(f, g, e, v, p)
  <1>1. p # NULL => p \in Entry
    BY DEF Pointer
  <1>2. g \in Link
    BY <1>1, Pointers DEF Link
  <1>3. QED
    BY <1>1, Pointers DEF Rewired, Link

LEMMA JoinedUp ==
  ASSUME NEW f \in Link, NEW v \in Pointer, NEW p \in Pointer,
         NEW g, g = IF p = NULL THEN f ELSE [f EXCEPT ![p] = v]
  PROVE  g \in Link /\ Bypassed(f, g, p, v)
  <1>1. p # NULL => p \in Entry
    BY DEF Pointer
  <1>2. QED
    BY <1>1, Pointers DEF Bypassed, Link

(* the rules callers keep, in terms of the sequences *)
LEMMA ListCaller ==
  ASSUME NEW q, kind = "list", Holds(q, head, tail, next, prev, ready)
  PROVE  /\ \A e \in Entry : L!Unlinked(e) => Free(e, q)
         /\ \A l \in Headers : l \in ready => l \in Ordered /\ head[l] = At(q[l], 1) /\ tail[l] = At(q[l], Len(q[l]))
         /\ \A l \in Headers : \A e \in L!On(l) :
              /\ l \in ready /\ e \in ToSet(q[l])
              /\ \E i \in 1 .. Len(q[l]) : /\ At(q[l], i) = e /\ e \in Entry
                                           /\ i = CHOOSE k \in DOMAIN q[l] : q[l][k] = e
  <1>1. \A l \in Headers : L!On(l) = ToSet(q[l])
    BY ListSequences DEF L!On, L!ToSet, ToSet
  <1>2. Lay(q) /\ \A l \in Ordered : l \notin ready => q[l] = <<>>
    BY DEF Holds
  <1>3. \A l \in Headers : l \in Ordered
    BY DEF Ordered
  <1>4. ready \subseteq Headers
    BY DEF Holds
  <1>5. ToSet(<<>>) = {} /\ \A i \in Int : At(<<>>, i) = NULL
    BY DEF ToSet, At
  <1>6. ASSUME NEW e \in Entry, L!Unlinked(e) PROVE Free(e, q)
    <2>1. \A l \in Headers : e \notin ToSet(q[l])
      BY <1>1, <1>6 DEF L!Unlinked
    <2>2. SUFFICES ASSUME NEW l \in Ordered, NEW j \in Int, At(q[l], j) = e PROVE FALSE
      BY DEF Free, Absent
    <2>3. CASE l \in ready
      <3>1. ToSet(q[l]) = {x \in Entry : \E k \in Int : At(q[l], k) = x}
        BY <1>2, <2>2, OnList, Zenon
      <3>2. QED
        BY <1>4, <2>1, <2>2, <2>3, <3>1
    <2>4. CASE l \notin ready
      BY <1>2, <1>5, <2>2, <2>4, Pointers
    <2>5. QED
      BY <2>3, <2>4
  <1>7. ASSUME NEW l \in Headers, NEW e \in L!On(l) PROVE l \in ready /\ e \in ToSet(q[l])
    BY <1>1, <1>2, <1>3, <1>5
  <1>8. ASSUME NEW l \in Headers, NEW e \in L!On(l)
        PROVE  \E i \in 1 .. Len(q[l]) : /\ At(q[l], i) = e /\ e \in Entry
                                         /\ i = CHOOSE k \in DOMAIN q[l] : q[l][k] = e
    BY <1>2, <1>3, <1>7, <1>8, Standing
  <1>9. QED
    BY <1>3, <1>6, <1>7, <1>8 DEF Holds

LEMMA ListAddHead ==
  ASSUME NEW q, kind = "list", Holds(q, head, tail, next, prev, ready),
         NEW l \in Headers, NEW e \in Entry, L!AddHead(l, e)
  PROVE  /\ l \in Ordered /\ Free(e, q)
         /\ \E p : Becomes(q, p, l, InsertAt(q[l], 1, e)) /\ Holds(p, head', tail', next', prev', ready')
  <1>1. l \in ready /\ L!Unlinked(e) /\ ready' = ready
    BY DEF L!AddHead
  <1>2. /\ l \in Ordered /\ Free(e, q)
        /\ head[l] = At(q[l], 1) /\ tail[l] = At(q[l], Len(q[l]))
    BY <1>1, ListCaller
  <1>3. Lay(q) /\ AllOnward(q, next) /\ AllBack(q, prev)
    BY DEF Holds
  <1>4. /\ next \in Link /\ prev \in Link
        /\ head \in [Headers -> Pointer] /\ tail \in [Headers -> Pointer]
    BY DEF Holds
  <1>5. /\ Len(q[l]) \in Nat /\ At(q[l], 0) = NULL /\ (At(q[l], 1) # NULL <=> 1 \in 1 .. Len(q[l]))
        /\ 1 - 1 = 0 /\ 1 \in 1 .. Len(q[l]) + 1 /\ (1 \in 1 .. Len(q[l]) <=> ~ 1 = Len(q[l]) + 1)
    BY <1>2, <1>3, OnList
  <1>6. PICK p : Becomes(q, p, l, InsertAt(q[l], 1, e))
    BY DEF Becomes
  <1>7. /\ Lay(p) /\ \A m \in Ordered : m # l => p[m] = q[m]
        /\ \A f, g : AllOnward(q, f) /\ Rewired(f, g, e, At(q[l], 1), At(q[l], 0)) => AllOnward(p, g)
        /\ \A b, c : AllBack(q, b) /\ Rewired(b, c, e, At(q[l], 0), At(q[l], 1)) => AllBack(p, c)
        /\ At(p[l], 1) = e
        /\ At(p[l], Len(p[l])) = IF 1 = Len(q[l]) + 1 THEN e ELSE At(q[l], Len(q[l]))
    BY <1>2, <1>3, <1>5, <1>6, PutIn DEF Grown
  <1>8. /\ head[l] \in Pointer /\ head[l] # e
    BY <1>2, <1>4 DEF Free, Absent
  <1>9. next' = [next EXCEPT ![e] = head[l]] /\ prev' = L!Set([prev EXCEPT ![e] = NULL], head[l], e)
    BY DEF L!AddHead
  <1>10. next' \in Link /\ Rewired(next, next', e, At(q[l], 1), At(q[l], 0))
    BY <1>2, <1>4, <1>5, <1>8, <1>9, Pointers, PutBetween
  <1>11. prev' \in Link /\ Rewired(prev, prev', e, At(q[l], 0), At(q[l], 1))
    BY <1>2, <1>4, <1>5, <1>8, <1>9, Pointers, PutBetween DEF L!Set
  <1>12. AllOnward(p, next') /\ AllBack(p, prev')
    BY <1>3, <1>7, <1>10, <1>11
  <1>13. /\ head' \in [Headers -> Pointer] /\ head'[l] = e
         /\ tail' \in [Headers -> Pointer] /\ tail'[l] = IF head[l] # NULL THEN tail[l] ELSE e
         /\ \A m \in Headers : m # l => head'[m] = head[m] /\ tail'[m] = tail[m]
    BY <1>4 DEF L!AddHead, Pointer
  <1>14. head'[l] = At(p[l], 1) /\ tail'[l] = At(p[l], Len(p[l]))
    BY <1>2, <1>5, <1>7, <1>13
  <1>15. Holds(p, head', tail', next', prev', ready)
    BY <1>1, <1>7, <1>10, <1>11, <1>12, <1>13, <1>14, HoldsAgain
  <1>16. QED
    BY <1>1, <1>2, <1>6, <1>15

LEMMA ListAddTail ==
  ASSUME NEW q, kind = "list", Holds(q, head, tail, next, prev, ready),
         NEW l \in Headers, NEW e \in Entry, L!AddTail(l, e)
  PROVE  /\ l \in Ordered /\ Free(e, q)
         /\ \E p : Becomes(q, p, l, InsertAt(q[l], Len(q[l]) + 1, e)) /\ Holds(p, head', tail', next', prev', ready')
  <1>1. l \in ready /\ L!Unlinked(e) /\ ready' = ready
    BY DEF L!AddTail
  <1>2. /\ l \in Ordered /\ Free(e, q)
        /\ head[l] = At(q[l], 1) /\ tail[l] = At(q[l], Len(q[l]))
    BY <1>1, ListCaller
  <1>3. Lay(q) /\ AllOnward(q, next) /\ AllBack(q, prev)
    BY DEF Holds
  <1>4. /\ next \in Link /\ prev \in Link
        /\ head \in [Headers -> Pointer] /\ tail \in [Headers -> Pointer]
    BY DEF Holds
  <1>5. PICK n \in Nat : n = Len(q[l])
    BY <1>2, <1>3, OnList
  <1>6. /\ \A i \in Int : At(q[l], i) # NULL <=> i \in 1 .. n
        /\ n + 1 - 1 = n /\ n + 1 \in 1 .. n + 1 /\ (n + 1 = 1 <=> n \notin 1 .. n) /\ n \in Int
    BY <1>2, <1>3, <1>5, OnList
  <1>7. At(q[l], n + 1) = NULL
    BY <1>6
  <1>8. PICK p : Becomes(q, p, l, InsertAt(q[l], n + 1, e))
    BY DEF Becomes
  <1>9. /\ Lay(p) /\ \A m \in Ordered : m # l => p[m] = q[m]
        /\ \A f, g : AllOnward(q, f) /\ Rewired(f, g, e, NULL, At(q[l], n)) => AllOnward(p, g)
        /\ \A b, c : AllBack(q, b) /\ Rewired(b, c, e, At(q[l], n), NULL) => AllBack(p, c)
        /\ At(p[l], 1) = IF n + 1 = 1 THEN e ELSE At(q[l], 1)
        /\ At(p[l], Len(p[l])) = e
    BY <1>2, <1>3, <1>5, <1>6, <1>7, <1>8, PutIn DEF Grown
  <1>10. /\ tail[l] \in Pointer /\ tail[l] # e /\ tail[l] = At(q[l], n)
    BY <1>2, <1>4, <1>5, <1>6 DEF Free, Absent
  <1>11. next' = L!Set([next EXCEPT ![e] = NULL], tail[l], e) /\ prev' = [prev EXCEPT ![e] = tail[l]]
    BY DEF L!AddTail
  <1>12. next' \in Link /\ Rewired(next, next', e, NULL, At(q[l], n))
    BY <1>4, <1>10, <1>11, Pointers, PutBetween DEF L!Set
  <1>13. prev' \in Link /\ Rewired(prev, prev', e, At(q[l], n), NULL)
    BY <1>4, <1>10, <1>11, Pointers, PutBetween
  <1>14. AllOnward(p, next') /\ AllBack(p, prev')
    BY <1>3, <1>9, <1>12, <1>13
  <1>15. /\ tail' \in [Headers -> Pointer] /\ tail'[l] = e
         /\ head' \in [Headers -> Pointer] /\ head'[l] = IF tail[l] # NULL THEN head[l] ELSE e
         /\ \A m \in Headers : m # l => head'[m] = head[m] /\ tail'[m] = tail[m]
    BY <1>4 DEF L!AddTail, Pointer
  <1>16. head'[l] = At(p[l], 1) /\ tail'[l] = At(p[l], Len(p[l]))
    BY <1>2, <1>6, <1>9, <1>10, <1>15
  <1>17. Holds(p, head', tail', next', prev', ready)
    BY <1>1, <1>9, <1>12, <1>13, <1>14, <1>15, <1>16, HoldsAgain
  <1>18. QED
    BY <1>1, <1>2, <1>5, <1>8, <1>17

LEMMA ListRemHead ==
  ASSUME NEW q, kind = "list", Holds(q, head, tail, next, prev, ready),
         NEW l \in Headers, L!RemHead(l)
  PROVE  /\ l \in Ordered /\ 1 \in 1 .. Len(q[l])
         /\ \E p : Becomes(q, p, l, RemoveAt(q[l], 1)) /\ Holds(p, head', tail', next', prev', ready')
  <1>1. l \in ready /\ head[l] # NULL /\ ready' = ready
    BY DEF L!RemHead
  <1>2. /\ l \in Ordered
        /\ head[l] = At(q[l], 1) /\ tail[l] = At(q[l], Len(q[l]))
    BY <1>1, ListCaller
  <1>3. Lay(q) /\ AllOnward(q, next) /\ AllBack(q, prev)
    BY DEF Holds
  <1>4. /\ next \in Link /\ prev \in Link
        /\ head \in [Headers -> Pointer] /\ tail \in [Headers -> Pointer]
    BY DEF Holds
  <1>5. PICK n \in Nat : n = Len(q[l])
    BY <1>2, <1>3, OnList
  <1>6. /\ \A i \in Int : At(q[l], i) # NULL <=> i \in 1 .. n
        /\ \A i \in Int : At(q[l], i) \in Pointer
        /\ 1 - 1 = 0 /\ 1 + 1 = 2 /\ (2 \in 1 .. n <=> n # 1 /\ 1 \in 1 .. n)
    <2>1. 1 - 1 = 0 /\ 1 + 1 = 2 /\ (2 \in 1 .. n <=> n # 1 /\ 1 \in 1 .. n)
      OBVIOUS
    <2>2. QED
      BY <1>2, <1>3, <1>5, <2>1, OnList, Zenon
  <1>7. 1 \in 1 .. n /\ At(q[l], 0) = NULL /\ (At(q[l], 2) = NULL <=> n = 1) /\ At(q[l], 2) \in Pointer
    BY <1>1, <1>2, <1>6
  <1>8. PICK p : Becomes(q, p, l, RemoveAt(q[l], 1))
    BY DEF Becomes
  <1>9. /\ Lay(p) /\ \A m \in Ordered : m # l => p[m] = q[m]
        /\ \A f, g : AllOnward(q, f) /\ Bypassed(f, g, NULL, At(q[l], 2)) => AllOnward(p, g)
        /\ \A b, c : AllBack(q, b) /\ Bypassed(b, c, At(q[l], 2), NULL) => AllBack(p, c)
        /\ At(p[l], 1) = At(q[l], 2)
        /\ At(p[l], Len(p[l])) = IF n = 1 THEN NULL ELSE At(q[l], n)
    BY <1>2, <1>3, <1>5, <1>6, <1>7, <1>8, TakenOut DEF Shrunk
  <1>10. next[head[l]] = At(q[l], 2)
    <2>1. Onward(q[l], next) /\ 1 \in Int
      BY <1>2, <1>3 DEF AllOnward
    <2>2. QED
      BY <1>1, <1>2, <1>6, <2>1, Zenon DEF Onward
  <1>11. /\ head' \in [Headers -> Pointer] /\ head'[l] = At(q[l], 2)
         /\ tail' \in [Headers -> Pointer] /\ tail'[l] = IF At(q[l], 2) # NULL THEN tail[l] ELSE NULL
         /\ \A m \in Headers : m # l => head'[m] = head[m] /\ tail'[m] = tail[m]
    BY <1>4, <1>7, <1>10, Pointers DEF L!RemHead
  <1>12. next' = next /\ prev' = L!Set(prev, At(q[l], 2), NULL)
    BY <1>11 DEF L!RemHead
  <1>13. Bypassed(next, next', NULL, At(q[l], 2)) /\ next' \in Link
    BY <1>4, <1>12 DEF Bypassed
  <1>14. prev' \in Link /\ Bypassed(prev, prev', At(q[l], 2), NULL)
    BY <1>4, <1>7, <1>12, Pointers, JoinedUp DEF L!Set
  <1>15. AllOnward(p, next') /\ AllBack(p, prev')
    BY <1>3, <1>9, <1>13, <1>14
  <1>16. head'[l] = At(p[l], 1) /\ tail'[l] = At(p[l], Len(p[l]))
    BY <1>2, <1>5, <1>7, <1>9, <1>11
  <1>17. Holds(p, head', tail', next', prev', ready)
    BY <1>1, <1>9, <1>11, <1>13, <1>14, <1>15, <1>16, HoldsAgain
  <1>18. QED
    BY <1>1, <1>2, <1>5, <1>7, <1>8, <1>17

LEMMA ListRemTail ==
  ASSUME NEW q, kind = "list", Holds(q, head, tail, next, prev, ready),
         NEW l \in Headers, L!RemTail(l)
  PROVE  /\ l \in Ordered /\ Len(q[l]) \in 1 .. Len(q[l])
         /\ \E p : Becomes(q, p, l, RemoveAt(q[l], Len(q[l]))) /\ Holds(p, head', tail', next', prev', ready')
  <1>1. l \in ready /\ tail[l] # NULL /\ ready' = ready
    BY DEF L!RemTail
  <1>2. /\ l \in Ordered
        /\ head[l] = At(q[l], 1) /\ tail[l] = At(q[l], Len(q[l]))
    BY <1>1, ListCaller
  <1>3. Lay(q) /\ AllOnward(q, next) /\ AllBack(q, prev)
    BY DEF Holds
  <1>4. /\ next \in Link /\ prev \in Link
        /\ head \in [Headers -> Pointer] /\ tail \in [Headers -> Pointer]
    BY DEF Holds
  <1>5. PICK n \in Nat : n = Len(q[l])
    BY <1>2, <1>3, OnList
  <1>6. /\ \A i \in Int : At(q[l], i) # NULL <=> i \in 1 .. n
        /\ \A i \in Int : At(q[l], i) \in Pointer
        /\ n \in Int /\ n - 1 \in Int /\ n + 1 \in Int /\ n + 1 \notin 1 .. n
        /\ (n - 1 \in 1 .. n <=> n # 1 /\ n \in 1 .. n)
    <2>1. /\ n \in Int /\ n - 1 \in Int /\ n + 1 \in Int /\ n + 1 \notin 1 .. n
          /\ (n - 1 \in 1 .. n <=> n # 1 /\ n \in 1 .. n)
      OBVIOUS
    <2>2. QED
      BY <1>2, <1>3, <1>5, <2>1, OnList, Zenon
  <1>7. /\ n \in 1 .. n /\ At(q[l], n + 1) = NULL
        /\ (At(q[l], n - 1) = NULL <=> n = 1) /\ At(q[l], n - 1) \in Pointer
    BY <1>1, <1>2, <1>5, <1>6
  <1>8. PICK p : Becomes(q, p, l, RemoveAt(q[l], n))
    BY DEF Becomes
  <1>9. /\ Lay(p) /\ \A m \in Ordered : m # l => p[m] = q[m]
        /\ \A f, g : AllOnward(q, f) /\ Bypassed(f, g, At(q[l], n - 1), NULL) => AllOnward(p, g)
        /\ \A b, c : AllBack(q, b) /\ Bypassed(b, c, NULL, At(q[l], n - 1)) => AllBack(p, c)
        /\ At(p[l], 1) = IF n = 1 THEN At(q[l], 2) ELSE At(q[l], 1)
        /\ At(p[l], Len(p[l])) = At(q[l], n - 1)
    <2>1. n \in 1 .. Len(q[l])
      BY <1>5, <1>7
    <2>2. Shrunk(q, p, l, n)
      BY ONLY <1>2, <1>3, <1>8, <2>1, TakenOut
    <2>3. QED
      BY <1>5, <1>7, <2>2, Zenon DEF Shrunk
  <1>10. prev[tail[l]] = At(q[l], n - 1)
    <2>1. Back(q[l], prev)
      BY <1>2, <1>3 DEF AllBack
    <2>2. QED
      BY <1>1, <1>2, <1>5, <1>6, <2>1, Zenon DEF Back
  <1>11. /\ tail' \in [Headers -> Pointer] /\ tail'[l] = At(q[l], n - 1)
         /\ head' \in [Headers -> Pointer] /\ head'[l] = IF At(q[l], n - 1) # NULL THEN head[l] ELSE NULL
         /\ \A m \in Headers : m # l => head'[m] = head[m] /\ tail'[m] = tail[m]
    BY <1>4, <1>7, <1>10, Pointers DEF L!RemTail
  <1>12. prev' = prev /\ next' = L!Set(next, At(q[l], n - 1), NULL)
    BY <1>11 DEF L!RemTail
  <1>13. Bypassed(prev, prev', NULL, At(q[l], n - 1)) /\ prev' \in Link
    BY <1>4, <1>12 DEF Bypassed
  <1>14. next' \in Link /\ Bypassed(next, next', At(q[l], n - 1), NULL)
    BY <1>4, <1>7, <1>12, Pointers, JoinedUp DEF L!Set
  <1>15. AllOnward(p, next') /\ AllBack(p, prev')
    BY <1>3, <1>9, <1>13, <1>14
  <1>16. head'[l] = At(p[l], 1) /\ tail'[l] = At(p[l], Len(p[l]))
    <2>1. n = 1 => 2 = n + 1
      OBVIOUS
    <2>2. n = 1 => At(q[l], 2) = NULL
      BY <1>7, <2>1
    <2>3. QED
      BY <1>2, <1>7, <1>9, <1>11, <2>2
  <1>17. Holds(p, head', tail', next', prev', ready)
    BY <1>1, <1>9, <1>11, <1>13, <1>14, <1>15, <1>16, HoldsAgain
  <1>18. QED
    BY <1>1, <1>2, <1>5, <1>7, <1>8, <1>17

LEMMA ListInsertAfter ==
  ASSUME NEW q, kind = "list", Holds(q, head, tail, next, prev, ready),
         NEW l \in Headers, NEW at \in Entry, NEW e \in Entry, L!InsertAfter(l, at, e)
  PROVE  /\ l \in Ordered /\ Free(e, q) /\ at \in ToSet(q[l])
         /\ \E i \in 1 .. Len(q[l]) : \E p :
              /\ i = CHOOSE k \in DOMAIN q[l] : q[l][k] = at
              /\ Becomes(q, p, l, InsertAt(q[l], i + 1, e)) /\ Holds(p, head', tail', next', prev', ready')
  <1>1. at \in L!On(l) /\ L!Unlinked(e) /\ ready' = ready
    BY DEF L!InsertAfter
  <1>2. /\ l \in Ordered /\ Free(e, q) /\ l \in ready /\ at \in ToSet(q[l])
        /\ head[l] = At(q[l], 1) /\ tail[l] = At(q[l], Len(q[l]))
    BY <1>1, ListCaller
  <1>3. Lay(q) /\ AllOnward(q, next) /\ AllBack(q, prev)
    BY DEF Holds
  <1>4. /\ next \in Link /\ prev \in Link
        /\ head \in [Headers -> Pointer] /\ tail \in [Headers -> Pointer]
    BY DEF Holds
  <1>5. PICK n \in Nat : n = Len(q[l])
    BY <1>2, <1>3, OnList
  <1>6. PICK i \in 1 .. n : At(q[l], i) = at /\ i = CHOOSE k \in DOMAIN q[l] : q[l][k] = at
    BY <1>1, <1>5, ListCaller
  <1>7. /\ i \in Int /\ i + 1 \in Int /\ (i + 1) - 1 = i /\ i + 1 # 1
        /\ i + 1 \in 1 .. n + 1 /\ (i + 1 \in 1 .. n <=> ~ i + 1 = n + 1)
    OBVIOUS
  <1>8. /\ At(q[l], i + 1) # NULL <=> i + 1 \in 1 .. n
        /\ At(q[l], i + 1) \in Pointer
    BY <1>2, <1>3, <1>5, <1>7, OnList, Zenon
  <1>9. PICK p : Becomes(q, p, l, InsertAt(q[l], i + 1, e))
    BY DEF Becomes
  <1>10. /\ Lay(p) /\ \A m \in Ordered : m # l => p[m] = q[m]
         /\ \A f, g : AllOnward(q, f) /\ Rewired(f, g, e, At(q[l], i + 1), at) => AllOnward(p, g)
         /\ \A b, c : AllBack(q, b) /\ Rewired(b, c, e, at, At(q[l], i + 1)) => AllBack(p, c)
         /\ At(p[l], 1) = At(q[l], 1)
         /\ At(p[l], Len(p[l])) = IF i + 1 = n + 1 THEN e ELSE At(q[l], n)
    <2>1. i + 1 \in 1 .. Len(q[l]) + 1
      BY <1>5, <1>7
    <2>2. Grown(q, p, l, i + 1, e)
      BY ONLY <1>2, <1>3, <1>9, <2>1, PutIn
    <2>3. QED
      BY <1>5, <1>6, <1>7, <2>2, Zenon DEF Grown
  <1>11. next[at] = At(q[l], i + 1)
    <2>1. Onward(q[l], next)
      BY <1>2, <1>3 DEF AllOnward
    <2>2. QED
      BY <1>6, <1>7, <2>1, Pointers DEF Onward
  <1>12. at # e /\ next[at] # e /\ at # NULL
    BY <1>2, <1>6, <1>7, <1>11, Pointers DEF Free, Absent
  <1>13. /\ next' = [next EXCEPT ![e] = next[at], ![at] = e]
         /\ prev' = L!Set([prev EXCEPT ![e] = at], next[at], e)
    BY DEF L!InsertAfter
  <1>14. next' \in Link /\ Rewired(next, next', e, At(q[l], i + 1), at)
    BY <1>4, <1>8, <1>11, <1>12, <1>13, Pointers, PutBetween
  <1>15. prev' \in Link /\ Rewired(prev, prev', e, at, At(q[l], i + 1))
    BY <1>4, <1>8, <1>11, <1>12, <1>13, Pointers, PutBetween DEF L!Set
  <1>16. AllOnward(p, next') /\ AllBack(p, prev')
    BY <1>3, <1>10, <1>14, <1>15
  <1>17. /\ head' = head
         /\ tail' \in [Headers -> Pointer] /\ tail'[l] = IF next[at] # NULL THEN tail[l] ELSE e
         /\ \A m \in Headers : m # l => tail'[m] = tail[m]
    BY <1>4 DEF L!InsertAfter, Pointer
  <1>18. head'[l] = At(p[l], 1) /\ tail'[l] = At(p[l], Len(p[l]))
    BY <1>2, <1>5, <1>7, <1>8, <1>10, <1>11, <1>17
  <1>19. Holds(p, head', tail', next', prev', ready)
    BY <1>2, <1>4, <1>10, <1>14, <1>15, <1>16, <1>17, <1>18, HoldsAgain
  <1>20. QED
    BY <1>1, <1>2, <1>5, <1>6, <1>9, <1>19

LEMMA ListInsertBefore ==
  ASSUME NEW q, kind = "list", Holds(q, head, tail, next, prev, ready),
         NEW l \in Headers, NEW at \in Entry, NEW e \in Entry, L!InsertBefore(l, at, e)
  PROVE  /\ l \in Ordered /\ Free(e, q) /\ at \in ToSet(q[l])
         /\ \E i \in 1 .. Len(q[l]) : \E p :
              /\ i = CHOOSE k \in DOMAIN q[l] : q[l][k] = at
              /\ Becomes(q, p, l, InsertAt(q[l], i, e)) /\ Holds(p, head', tail', next', prev', ready')
  <1>1. at \in L!On(l) /\ L!Unlinked(e) /\ ready' = ready
    BY DEF L!InsertBefore
  <1>2. /\ l \in Ordered /\ Free(e, q) /\ l \in ready /\ at \in ToSet(q[l])
        /\ head[l] = At(q[l], 1) /\ tail[l] = At(q[l], Len(q[l]))
    BY <1>1, ListCaller
  <1>3. Lay(q) /\ AllOnward(q, next) /\ AllBack(q, prev)
    BY DEF Holds
  <1>4. /\ next \in Link /\ prev \in Link
        /\ head \in [Headers -> Pointer] /\ tail \in [Headers -> Pointer]
    BY DEF Holds
  <1>5. PICK n \in Nat : n = Len(q[l])
    BY <1>2, <1>3, OnList
  <1>6. PICK i \in 1 .. n : At(q[l], i) = at /\ i = CHOOSE k \in DOMAIN q[l] : q[l][k] = at
    BY <1>1, <1>5, ListCaller
  <1>7. /\ i \in Int /\ i - 1 \in Int /\ i # n + 1
        /\ i \in 1 .. n + 1 /\ (i - 1 \in 1 .. n <=> i # 1)
    OBVIOUS
  <1>8. /\ At(q[l], i - 1) # NULL <=> i - 1 \in 1 .. n
        /\ At(q[l], i - 1) \in Pointer
    BY <1>2, <1>3, <1>5, <1>7, OnList, Zenon
  <1>9. PICK p : Becomes(q, p, l, InsertAt(q[l], i, e))
    BY DEF Becomes
  <1>10. /\ Lay(p) /\ \A m \in Ordered : m # l => p[m] = q[m]
         /\ \A f, g : AllOnward(q, f) /\ Rewired(f, g, e, at, At(q[l], i - 1)) => AllOnward(p, g)
         /\ \A b, c : AllBack(q, b) /\ Rewired(b, c, e, At(q[l], i - 1), at) => AllBack(p, c)
         /\ At(p[l], 1) = IF i = 1 THEN e ELSE At(q[l], 1)
         /\ At(p[l], Len(p[l])) = At(q[l], n)
    <2>1. i \in 1 .. Len(q[l]) + 1
      BY <1>5, <1>7
    <2>2. Grown(q, p, l, i, e)
      BY ONLY <1>2, <1>3, <1>9, <2>1, PutIn
    <2>3. QED
      BY <1>5, <1>6, <1>7, <2>2, Zenon DEF Grown
  <1>11. prev[at] = At(q[l], i - 1)
    <2>1. Back(q[l], prev)
      BY <1>2, <1>3 DEF AllBack
    <2>2. QED
      BY <1>6, <1>7, <2>1, Pointers DEF Back
  <1>12. at # e /\ prev[at] # e /\ at # NULL
    BY <1>2, <1>6, <1>7, <1>11, Pointers DEF Free, Absent
  <1>13. /\ prev' = [prev EXCEPT ![e] = prev[at], ![at] = e]
         /\ next' = L!Set([next EXCEPT ![e] = at], prev[at], e)
    BY DEF L!InsertBefore
  <1>14. prev' \in Link /\ Rewired(prev, prev', e, At(q[l], i - 1), at)
    BY <1>4, <1>8, <1>11, <1>12, <1>13, Pointers, PutBetween
  <1>15. next' \in Link /\ Rewired(next, next', e, at, At(q[l], i - 1))
    BY <1>4, <1>8, <1>11, <1>12, <1>13, Pointers, PutBetween DEF L!Set
  <1>16. AllOnward(p, next') /\ AllBack(p, prev')
    BY <1>3, <1>10, <1>14, <1>15
  <1>17. /\ tail' = tail
         /\ head' \in [Headers -> Pointer] /\ head'[l] = IF prev[at] # NULL THEN head[l] ELSE e
         /\ \A m \in Headers : m # l => head'[m] = head[m]
    BY <1>4 DEF L!InsertBefore, Pointer
  <1>18. head'[l] = At(p[l], 1) /\ tail'[l] = At(p[l], Len(p[l]))
    BY <1>2, <1>5, <1>7, <1>8, <1>10, <1>11, <1>17
  <1>19. Holds(p, head', tail', next', prev', ready)
    BY <1>2, <1>4, <1>10, <1>14, <1>15, <1>16, <1>17, <1>18, HoldsAgain
  <1>20. QED
    BY <1>1, <1>2, <1>5, <1>6, <1>9, <1>19

LEMMA ListRemEntry ==
  ASSUME NEW q, kind = "list", Holds(q, head, tail, next, prev, ready),
         NEW l \in Headers, NEW e \in Entry, L!RemEntry(l, e)
  PROVE  /\ l \in Ordered /\ e \in ToSet(q[l])
         /\ \E i \in 1 .. Len(q[l]) : \E p :
              /\ i = CHOOSE k \in DOMAIN q[l] : q[l][k] = e
              /\ Becomes(q, p, l, RemoveAt(q[l], i)) /\ Holds(p, head', tail', next', prev', ready')
  <1>1. e \in L!On(l) /\ ready' = ready
    BY DEF L!RemEntry
  <1>2. /\ l \in Ordered /\ l \in ready /\ e \in ToSet(q[l])
        /\ head[l] = At(q[l], 1) /\ tail[l] = At(q[l], Len(q[l]))
    BY <1>1, ListCaller
  <1>3. Lay(q) /\ AllOnward(q, next) /\ AllBack(q, prev)
    BY DEF Holds
  <1>4. /\ next \in Link /\ prev \in Link
        /\ head \in [Headers -> Pointer] /\ tail \in [Headers -> Pointer]
    BY DEF Holds
  <1>5. PICK n \in Nat : n = Len(q[l])
    BY <1>2, <1>3, OnList
  <1>6. PICK i \in 1 .. n : At(q[l], i) = e /\ i = CHOOSE k \in DOMAIN q[l] : q[l][k] = e
    BY <1>1, <1>5, ListCaller
  <1>7. /\ i \in Int /\ i - 1 \in Int /\ i + 1 \in Int
        /\ (i - 1 \in 1 .. n <=> i # 1) /\ (i + 1 \in 1 .. n <=> i # n)
    OBVIOUS
  <1>8. /\ At(q[l], i - 1) # NULL <=> i - 1 \in 1 .. n
        /\ At(q[l], i - 1) \in Pointer
        /\ At(q[l], i + 1) # NULL <=> i + 1 \in 1 .. n
        /\ At(q[l], i + 1) \in Pointer
    BY <1>2, <1>3, <1>5, <1>7, OnList, Zenon
  <1>9. PICK p : Becomes(q, p, l, RemoveAt(q[l], i))
    BY DEF Becomes
  <1>10. /\ Lay(p) /\ \A m \in Ordered : m # l => p[m] = q[m]
         /\ \A f, g : AllOnward(q, f) /\ Bypassed(f, g, At(q[l], i - 1), At(q[l], i + 1)) => AllOnward(p, g)
         /\ \A b, c : AllBack(q, b) /\ Bypassed(b, c, At(q[l], i + 1), At(q[l], i - 1)) => AllBack(p, c)
         /\ At(p[l], 1) = IF i = 1 THEN At(q[l], 2) ELSE At(q[l], 1)
         /\ At(p[l], Len(p[l])) = IF i = Len(q[l]) THEN At(q[l], i - 1) ELSE At(q[l], Len(q[l]))
    <2>1. i \in 1 .. Len(q[l])
      BY <1>5
    <2>2. Shrunk(q, p, l, i)
      BY ONLY <1>2, <1>3, <1>9, <2>1, TakenOut
    <2>3. QED
      BY <2>2, Zenon DEF Shrunk
  <1>11. prev[e] = At(q[l], i - 1) /\ next[e] = At(q[l], i + 1)
    <2>1. Back(q[l], prev) /\ Onward(q[l], next)
      BY <1>2, <1>3 DEF AllBack, AllOnward
    <2>2. QED
      BY <1>6, <1>7, <2>1, Pointers DEF Back, Onward
  <1>12. /\ next' = L!Set(next, prev[e], next[e])
         /\ prev' = L!Set(prev, next[e], prev[e])
    BY DEF L!RemEntry
  <1>13. next' \in Link /\ Bypassed(next, next', At(q[l], i - 1), At(q[l], i + 1))
    BY <1>4, <1>8, <1>11, <1>12, Pointers, JoinedUp DEF L!Set
  <1>14. prev' \in Link /\ Bypassed(prev, prev', At(q[l], i + 1), At(q[l], i - 1))
    BY <1>4, <1>8, <1>11, <1>12, Pointers, JoinedUp DEF L!Set
  <1>15. AllOnward(p, next') /\ AllBack(p, prev')
    BY <1>3, <1>10, <1>13, <1>14
  <1>16. /\ head' \in [Headers -> Pointer] /\ head'[l] = IF prev[e] # NULL THEN head[l] ELSE next[e]
         /\ tail' \in [Headers -> Pointer] /\ tail'[l] = IF next[e] # NULL THEN tail[l] ELSE prev[e]
         /\ \A m \in Headers : m # l => head'[m] = head[m] /\ tail'[m] = tail[m]
    BY <1>4, <1>8, <1>11 DEF L!RemEntry
  <1>17. head'[l] = At(p[l], 1) /\ tail'[l] = At(p[l], Len(p[l]))
    <2>1. i = 1 => i + 1 = 2
      OBVIOUS
    <2>2. QED
      BY <1>2, <1>5, <1>7, <1>8, <1>10, <1>11, <1>16, <2>1
  <1>18. Holds(p, head', tail', next', prev', ready)
    BY <1>2, <1>10, <1>13, <1>14, <1>15, <1>16, <1>17, HoldsAgain
  <1>19. QED
    BY <1>1, <1>2, <1>5, <1>6, <1>9, <1>18

LEMMA ListInit ==
  ASSUME NEW q, kind = "list", Holds(q, head, tail, next, prev, ready),
         NEW l \in Headers, L!ListInit(l)
  PROVE  /\ l \in Ordered
         /\ \E p : Becomes(q, p, l, <<>>) /\ Holds(p, head', tail', next', prev', ready')
  <1>1. /\ head' = [head EXCEPT ![l] = NULL] /\ tail' = [tail EXCEPT ![l] = NULL]
        /\ ready' = ready \cup {l} /\ next' = next /\ prev' = prev
    BY DEF L!ListInit
  <1>2. l \in Ordered /\ Lay(q) /\ AllOnward(q, next) /\ AllBack(q, prev)
    BY DEF Holds, Ordered
  <1>3. /\ next \in Link /\ prev \in Link /\ ready \subseteq Headers
        /\ head \in [Headers -> Pointer] /\ tail \in [Headers -> Pointer]
    BY DEF Holds
  <1>4. PICK p : Becomes(q, p, l, <<>>)
    BY DEF Becomes
  <1>5. /\ Lay(p) /\ p[l] = <<>> /\ \A m \in Ordered : m # l => p[m] = q[m]
        /\ AllOnward(p, next) /\ AllBack(p, prev)
    BY <1>2, <1>4, Emptied DEF Cleared
  <1>6. At(p[l], 1) = NULL /\ At(p[l], Len(p[l])) = NULL
    BY <1>5 DEF At
  <1>7. /\ head' \in [Headers -> Pointer] /\ head'[l] = NULL
        /\ tail' \in [Headers -> Pointer] /\ tail'[l] = NULL
        /\ \A m \in Headers : m # l => head'[m] = head[m] /\ tail'[m] = tail[m]
    BY <1>1, <1>3, Pointers
  <1>8. /\ \A m \in ready : head[m] = At(q[m], 1) /\ tail[m] = At(q[m], Len(q[m]))
        /\ \A m \in Ordered : m \notin ready => q[m] = <<>>
    BY DEF Holds
  <1>9. /\ \A m \in ready' : head'[m] = At(p[m], 1) /\ tail'[m] = At(p[m], Len(p[m]))
        /\ \A m \in Ordered : m \notin ready' => p[m] = <<>>
        /\ ready' \subseteq Headers
    BY <1>1, <1>3, <1>5, <1>6, <1>7, <1>8 DEF Ordered
  <1>10. Holds(p, head', tail', next', prev', ready')
    BY <1>1, <1>3, <1>5, <1>7, <1>9 DEF Holds
  <1>11. QED
    BY <1>2, <1>4, <1>10

LEMMA ListConcat ==
  ASSUME NEW q, kind = "list", Holds(q, head, tail, next, prev, ready),
         NEW l \in Headers, NEW n \in Headers, L!Concat(l, n)
  PROVE  /\ l \in Ordered /\ n \in Ordered /\ l # n
         /\ \E p : /\ Concatenated(q, p, l, n)
                   /\ Holds(p, head', tail', next', prev', ready')
  <1>1. l \in ready /\ n \in ready /\ l # n /\ ready' = ready \ {n}
    BY DEF L!Concat
  <1>2. /\ l \in Ordered /\ n \in Ordered
        /\ head[l] = At(q[l], 1) /\ tail[l] = At(q[l], Len(q[l]))
        /\ head[n] = At(q[n], 1) /\ tail[n] = At(q[n], Len(q[n]))
    BY <1>1, ListCaller
  <1>3. Lay(q) /\ AllOnward(q, next) /\ AllBack(q, prev)
    BY DEF Holds
  <1>4. /\ next \in Link /\ prev \in Link /\ ready \subseteq Headers
        /\ head \in [Headers -> Pointer] /\ tail \in [Headers -> Pointer]
    BY DEF Holds
  <1>5. PICK p : Concatenated(q, p, l, n)
    BY DEF Concatenated
  <1>6. /\ Lay(p) /\ p[n] = <<>> /\ \A m \in Ordered : m # l /\ m # n => p[m] = q[m]
        /\ \A f, g : AllOnward(q, f) /\ Bypassed(f, g, tail[l], head[n]) => AllOnward(p, g)
        /\ \A b, c : AllBack(q, b) /\ Bypassed(b, c, head[n], tail[l]) => AllBack(p, c)
        /\ At(p[l], 1) = IF q[l] = <<>> THEN head[n] ELSE head[l]
        /\ At(p[l], Len(p[l])) = IF q[n] = <<>> THEN tail[l] ELSE tail[n]
    <2>1. Merged(q, p, l, n)
      BY ONLY <1>1, <1>2, <1>3, <1>5, PutBehind
    <2>2. QED
      BY <1>2, <2>1, Zenon DEF Merged
  <1>7. /\ q[n] = <<>> <=> head[n] = NULL
        /\ q[l] = <<>> <=> head[l] = NULL
    <2>1. \A m \in Ordered : q[m] = <<>> <=> At(q[m], 1) = NULL
      <3>1. SUFFICES ASSUME NEW m \in Ordered PROVE q[m] = <<>> <=> At(q[m], 1) = NULL
        OBVIOUS
      <3>2. q[m] \in Seq(Entry) /\ (At(q[m], 1) # NULL <=> 1 \in 1 .. Len(q[m]))
        BY <1>3, OnList
      <3>3. QED
        BY <3>2
    <2>2. QED
      BY <1>2, <2>1
  <1>8. tail[l] \in Pointer /\ head[n] \in Pointer /\ tail[n] \in Pointer
    BY <1>4
  <1>9. /\ next' \in Link /\ prev' \in Link
        /\ Bypassed(next, next', tail[l], head[n]) /\ Bypassed(prev, prev', head[n], tail[l])
    <2>1. CASE head[n] = NULL
      <3>1. next' = next /\ prev' = prev
        BY <2>1 DEF L!Concat
      <3>2. Onward(q[l], next) /\ Len(q[l]) + 1 \notin 1 .. Len(q[l]) /\ Len(q[l]) \in Int /\ Len(q[l]) + 1 \in Int
        BY <1>2, <1>3, OnList DEF AllOnward
      <3>3. At(q[l], Len(q[l]) + 1) = NULL
        BY <1>2, <1>3, <3>2, OnList, Zenon
      <3>4. tail[l] # NULL => next[tail[l]] = NULL
        BY <1>2, <3>2, <3>3, Zenon DEF Onward
      <3>5. QED
        BY <1>4, <2>1, <3>1, <3>4 DEF Bypassed
    <2>2. CASE head[n] # NULL
      <3>1. /\ next' = L!Set(next, tail[l], head[n])
            /\ prev' = [prev EXCEPT ![head[n]] = tail[l]]
        BY <2>2 DEF L!Concat
      <3>2. QED
        BY <1>4, <1>8, <2>2, <3>1, JoinedUp DEF L!Set
    <2>3. QED
      BY <2>1, <2>2
  <1>10. AllOnward(p, next') /\ AllBack(p, prev')
    BY <1>3, <1>6, <1>9
  <1>11. /\ head' \in [Headers -> Pointer] /\ head'[l] = IF head[l] # NULL THEN head[l] ELSE head[n]
         /\ tail' \in [Headers -> Pointer] /\ tail'[l] = IF head[n] = NULL THEN tail[l] ELSE tail[n]
         /\ \A m \in Headers : m # l => head'[m] = head[m] /\ tail'[m] = tail[m]
    <2>1. CASE head[n] = NULL
      <3>1. head' = head /\ tail' = tail
        BY <2>1 DEF L!Concat
      <3>2. QED
        BY <1>4, <2>1, <3>1
    <2>2. CASE head[n] # NULL
      <3>1. /\ head' = [head EXCEPT ![l] = IF @ # NULL THEN @ ELSE head[n]]
            /\ tail' = [tail EXCEPT ![l] = tail[n]]
        BY <2>2 DEF L!Concat
      <3>2. QED
        BY <1>4, <1>8, <2>2, <3>1
    <2>3. QED
      BY <2>1, <2>2
  <1>12. head'[l] = At(p[l], 1) /\ tail'[l] = At(p[l], Len(p[l]))
    BY <1>6, <1>7, <1>11
  <1>13. /\ \A m \in ready : head[m] = At(q[m], 1) /\ tail[m] = At(q[m], Len(q[m]))
         /\ \A m \in Ordered : m \notin ready => q[m] = <<>>
    BY DEF Holds
  <1>14. /\ \A m \in ready' : head'[m] = At(p[m], 1) /\ tail'[m] = At(p[m], Len(p[m]))
         /\ \A m \in Ordered : m \notin ready' => p[m] = <<>>
         /\ ready' \subseteq Headers
    BY <1>1, <1>4, <1>6, <1>11, <1>12, <1>13 DEF Ordered
  <1>15. Holds(p, head', tail', next', prev', ready')
    BY <1>6, <1>9, <1>10, <1>11, <1>14 DEF Holds
  <1>16. QED
    BY <1>1, <1>2, <1>5, <1>15

ListView == \A q : kind = "list" /\ Holds(q, head, tail, next, prev, ready) => Sequences = q

LEMMA ListViewRight == ListView
  BY ListSequences DEF ListView

LEMMA ListSequencesNext ==
  ASSUME NEW q, kind' = "list", Holds(q, head', tail', next', prev', ready')
  PROVE  Sequences' = q
  <1>1. ListView'
    BY ListViewRight, PTL
  <1>2. QED
    BY <1>1, Zenon DEF ListView

-----------------------------------------------------------------------------
(* a step on the sequences is a step of ListSpec *)

LEMMA PromiseOperators ==
  /\ \A s : Promise!ToSet(s) = ToSet(s)
  /\ \A s, i, e : Promise!InsertAt(s, i, e) = InsertAt(s, i, e)
  /\ \A s, i : Promise!RemoveAt(s, i) = RemoveAt(s, i)
  BY Zenon DEF Promise!ToSet, ToSet, Promise!InsertAt, InsertAt, Promise!RemoveAt, RemoveAt

LEMMA PromiseInsert ==
  ASSUME NEW q, Lay(q), Sequences = q, NEW p, Sequences' = p,
         NEW l \in Ordered, NEW e \in Entry, NEW i, Free(e, q), Becomes(q, p, l, InsertAt(q[l], i, e))
  PROVE  Promise!Insert(l, e, i)
  <1>1. \A m \in Ordered : e \notin ToSet(q[m])
    BY OnList DEF Free, Absent
  <1>2. Promise!Unlinked(e)
    BY <1>1, PromiseOperators DEF Promise!Unlinked
  <1>3. Sequences' = [Sequences EXCEPT ![l] = Promise!InsertAt(Sequences[l], i, e)]
    BY PromiseOperators DEF Becomes
  <1>4. QED
    BY <1>2, <1>3, Zenon DEF Promise!Insert

LEMMA PromiseDelete ==
  ASSUME NEW q, Lay(q), Sequences = q, NEW p, Sequences' = p,
         NEW l \in Ordered, NEW i \in 1 .. Len(q[l]), Becomes(q, p, l, RemoveAt(q[l], i))
  PROVE  Promise!Delete(l, i)
  <1>1. i \in DOMAIN Sequences[l]
    BY OnList
  <1>2. Sequences' = [Sequences EXCEPT ![l] = Promise!RemoveAt(Sequences[l], i)]
    BY PromiseOperators DEF Becomes
  <1>3. QED
    BY <1>1, <1>2, Zenon DEF Promise!Delete

(* with the rest of what L!Next does to a state *)
ListHolds(q) == kind = "list" /\ Holds(q, head, tail, next, prev, ready)

LEMMA ListStep ==
  ASSUME NEW q, ListHolds(q), L!Next, kind' = kind
  PROVE  \E p : ListHolds(p)' /\ Sequences' = p /\ Promise!Next
  <1>1. kind = "list" /\ kind' = "list" /\ Holds(q, head, tail, next, prev, ready)
    BY DEF ListHolds
  <1>2. Sequences = q /\ Lay(q)
    BY <1>1, ListSequences DEF Holds
  <1>3. \A p : Holds(p, head', tail', next', prev', ready') => ListHolds(p)' /\ Sequences' = p
    BY <1>1, ListSequencesNext DEF ListHolds
  <1>4. CASE \E l \in Headers : L!ListInit(l)
    <2>1. PICK l \in Headers : L!ListInit(l)
      BY <1>4
    <2>2. PICK p : l \in Ordered /\ Becomes(q, p, l, <<>>) /\ Holds(p, head', tail', next', prev', ready')
      BY <1>1, <2>1, ListInit
    <2>3. call' = Promise!Call("init", l, NULL, NULL)
      BY <2>1, CallsAgree DEF L!ListInit
    <2>4. Promise!Clear(l)
      BY <1>2, <1>3, <2>2, <2>3 DEF Promise!Clear, Becomes
    <2>5. QED
      BY <1>3, <2>2, <2>4 DEF Promise!Next
  <1>5. CASE \E l \in Headers : L!RemHead(l)
    <2>1. PICK l \in Headers : L!RemHead(l)
      BY <1>5
    <2>2. PICK p : /\ l \in Ordered /\ 1 \in 1 .. Len(q[l]) /\ Becomes(q, p, l, RemoveAt(q[l], 1))
                   /\ Holds(p, head', tail', next', prev', ready')
      BY <1>1, <2>1, ListRemHead
    <2>3. call' = Promise!Call("rem_head", l, NULL, NULL)
      BY <2>1, CallsAgree DEF L!RemHead
    <2>4. Promise!RemHead(l)
      BY <1>2, <1>3, <2>2, <2>3, PromiseDelete DEF Promise!RemHead
    <2>5. QED
      BY <1>3, <2>2, <2>4 DEF Promise!Next
  <1>6. CASE \E l \in Headers : L!RemTail(l)
    <2>1. PICK l \in Headers : L!RemTail(l)
      BY <1>6
    <2>2. PICK p : /\ l \in Ordered /\ Len(q[l]) \in 1 .. Len(q[l]) /\ Becomes(q, p, l, RemoveAt(q[l], Len(q[l])))
                   /\ Holds(p, head', tail', next', prev', ready')
      BY <1>1, <2>1, ListRemTail
    <2>3. call' = Promise!Call("rem_tail", l, NULL, NULL)
      BY <2>1, CallsAgree DEF L!RemTail
    <2>4. Promise!RemTail(l)
      BY <1>2, <1>3, <2>2, <2>3, PromiseDelete DEF Promise!RemTail
    <2>5. QED
      BY <1>3, <2>2, <2>4 DEF Promise!Next
  <1>7. CASE \E l \in Headers, e \in Entry : L!AddHead(l, e)
    <2>1. PICK l \in Headers, e \in Entry : L!AddHead(l, e)
      BY <1>7
    <2>2. PICK p : /\ l \in Ordered /\ Free(e, q) /\ Becomes(q, p, l, InsertAt(q[l], 1, e))
                   /\ Holds(p, head', tail', next', prev', ready')
      BY <1>1, <2>1, ListAddHead
    <2>3. call' = Promise!Call("add_head", l, e, NULL)
      BY <2>1, CallsAgree DEF L!AddHead
    <2>4. Promise!AddHead(l, e)
      BY <1>2, <1>3, <2>2, <2>3, PromiseInsert DEF Promise!AddHead
    <2>5. QED
      BY <1>3, <2>2, <2>4 DEF Promise!Next
  <1>8. CASE \E l \in Headers, e \in Entry : L!AddTail(l, e)
    <2>1. PICK l \in Headers, e \in Entry : L!AddTail(l, e)
      BY <1>8
    <2>2. PICK p : /\ l \in Ordered /\ Free(e, q) /\ Becomes(q, p, l, InsertAt(q[l], Len(q[l]) + 1, e))
                   /\ Holds(p, head', tail', next', prev', ready')
      BY <1>1, <2>1, ListAddTail
    <2>3. call' = Promise!Call("add_tail", l, e, NULL)
      BY <2>1, CallsAgree DEF L!AddTail
    <2>4. Promise!AddTail(l, e)
      BY <1>2, <1>3, <2>2, <2>3, PromiseInsert DEF Promise!AddTail
    <2>5. QED
      BY <1>3, <2>2, <2>4 DEF Promise!Next
  <1>9. CASE \E l \in Headers, e \in Entry : L!RemEntry(l, e)
    <2>1. PICK l \in Headers, e \in Entry : L!RemEntry(l, e)
      BY <1>9
    <2>2. PICK i, p :
              /\ i \in 1 .. Len(q[l]) /\ l \in Ordered /\ e \in ToSet(q[l]) /\ i = CHOOSE k \in DOMAIN q[l] : q[l][k] = e
              /\ Becomes(q, p, l, RemoveAt(q[l], i)) /\ Holds(p, head', tail', next', prev', ready')
      BY <1>1, <2>1, ListRemEntry
    <2>3. call' = Promise!Call("rem_entry", l, e, NULL)
      BY <2>1, CallsAgree DEF L!RemEntry
    <2>4. Promise!Position(l, e) = i /\ e \in Promise!ToSet(Sequences[l])
      BY <1>2, <2>2, PromiseOperators, Zenon DEF Promise!Position
    <2>5. Promise!RemEntry(l, e)
      BY <1>2, <1>3, <2>2, <2>3, <2>4, PromiseDelete DEF Promise!RemEntry
    <2>6. QED
      BY <1>3, <2>2, <2>5 DEF Promise!Next
  <1>10. CASE \E l \in Headers, e, at \in Entry : L!InsertAfter(l, at, e)
    <2>1. PICK l \in Headers, e \in Entry, at \in Entry : L!InsertAfter(l, at, e)
      BY <1>10
    <2>2. PICK i, p :
              /\ i \in 1 .. Len(q[l]) /\ l \in Ordered /\ Free(e, q) /\ at \in ToSet(q[l])
              /\ i = CHOOSE k \in DOMAIN q[l] : q[l][k] = at
              /\ Becomes(q, p, l, InsertAt(q[l], i + 1, e)) /\ Holds(p, head', tail', next', prev', ready')
      BY <1>1, <2>1, ListInsertAfter
    <2>3. call' = Promise!Call("insert_after", l, e, at)
      BY <2>1, CallsAgree DEF L!InsertAfter
    <2>4. Promise!Position(l, at) = i /\ at \in Promise!ToSet(Sequences[l])
      BY <1>2, <2>2, PromiseOperators, Zenon DEF Promise!Position
    <2>5. Promise!InsertAfter(l, at, e)
      BY <1>2, <1>3, <2>2, <2>3, <2>4, PromiseInsert DEF Promise!InsertAfter
    <2>6. QED
      BY <1>3, <2>2, <2>5 DEF Promise!Next
  <1>11. CASE \E l \in Headers, e, at \in Entry : L!InsertBefore(l, at, e)
    <2>1. PICK l \in Headers, e \in Entry, at \in Entry : L!InsertBefore(l, at, e)
      BY <1>11
    <2>2. PICK i, p :
              /\ i \in 1 .. Len(q[l]) /\ l \in Ordered /\ Free(e, q) /\ at \in ToSet(q[l])
              /\ i = CHOOSE k \in DOMAIN q[l] : q[l][k] = at
              /\ Becomes(q, p, l, InsertAt(q[l], i, e)) /\ Holds(p, head', tail', next', prev', ready')
      BY <1>1, <2>1, ListInsertBefore
    <2>3. call' = Promise!Call("insert_before", l, e, at)
      BY <2>1, CallsAgree DEF L!InsertBefore
    <2>4. Promise!Position(l, at) = i /\ at \in Promise!ToSet(Sequences[l])
      BY <1>2, <2>2, PromiseOperators, Zenon DEF Promise!Position
    <2>5. Promise!InsertBefore(l, at, e)
      BY <1>2, <1>3, <2>2, <2>3, <2>4, PromiseInsert DEF Promise!InsertBefore
    <2>6. QED
      BY <1>3, <2>2, <2>5 DEF Promise!Next
  <1>12. CASE \E l, n \in Headers : L!Concat(l, n)
    <2>1. PICK l \in Headers, n \in Headers : L!Concat(l, n)
      BY <1>12
    <2>2. PICK p : /\ l \in Ordered /\ n \in Ordered /\ l # n /\ Concatenated(q, p, l, n)
                   /\ Holds(p, head', tail', next', prev', ready')
      BY <1>1, <2>1, ListConcat
    <2>3. call' = Promise!Call("concat", l, n, NULL)
      BY <2>1, CallsAgree DEF L!Concat
    <2>4. Promise!Concat(l, n)
      BY <1>2, <1>3, <2>2, <2>3 DEF Promise!Concat, Concatenated
    <2>5. QED
      BY <1>3, <2>2, <2>4 DEF Promise!Next
  <1>13. QED
    BY <1>4, <1>5, <1>6, <1>7, <1>8, <1>9, <1>10, <1>11, <1>12, Zenon DEF L!Next

-----------------------------------------------------------------------------
(* HEAP *)

HeapHolds(q, h, f, b, r) ==
  /\ h \in Pointer /\ f \in Link /\ b \in Link /\ r \in BOOLEAN
  /\ Lay(q) /\ AllOnward(q, f) /\ AllBack(q, b)
  /\ r => h = At(q["heap"], 1)
  /\ \A l \in Ordered : l # "heap" \/ ~ r => q[l] = <<>>

LEMMA HeapChain == \A e, f : H!Chain(e, f) = Chain(e, f)
  <1>1. H!Cardinality(Entry) = Cardinality(Entry)
    BY Zenon DEF H!Cardinality, Cardinality
  <1>2. QED
    BY <1>1, Zenon DEF H!Chain, Chain, H!Pointer, Pointer

LEMMA HeapCalls == \A op, l, e, at : H!Call(op, l, e, at) = Call(op, l, e, at)
  BY DEF H!Call, Call

LEMMA HeapOrdered == "heap" \in Ordered
  BY DEF Ordered

(* the heap is its sequence *)
LEMMA HeapSequences ==
  ASSUME NEW q, kind = "heap", HeapHolds(q, head, next, prev, ready)
  PROVE  Sequences = q /\ H!Heap = q["heap"]
  <1>1. Lay(q) /\ AllOnward(q, next) /\ (ready => head = At(q["heap"], 1))
    BY DEF HeapHolds
  <1>2. \A l \in Ordered : l # "heap" \/ ~ ready => q[l] = <<>>
    BY DEF HeapHolds
  <1>3. Chain(At(q["heap"], 1), next) = q["heap"]
    BY <1>1, HeapOrdered, WalkOn
  <1>4. H!Heap = q["heap"]
    BY <1>1, <1>2, <1>3, HeapChain, HeapOrdered, Zenon DEF H!Heap
  <1>5. \A l \in Ordered : Sequence(l) = q[l]
    <2>1. SUFFICES ASSUME NEW l \in Ordered PROVE Sequence(l) = q[l]
      OBVIOUS
    <2>2. CASE l = "heap"
      BY <1>4, <2>2 DEF Sequence
    <2>3. CASE l # "heap"
      <3>1. Sequence(l) = <<>>
        BY <2>3 DEF Sequence
      <3>2. QED
        BY <1>2, <2>3, <3>1
    <2>4. QED
      BY <2>2, <2>3
  <1>6. q = [l \in Ordered |-> q[l]]
    BY <1>1 DEF Lay
  <1>7. QED
    BY <1>4, <1>5, <1>6, Zenon DEF Sequences

HeapView == \A q : kind = "heap" /\ HeapHolds(q, head, next, prev, ready) => Sequences = q

LEMMA HeapViewRight == HeapView
  BY HeapSequences DEF HeapView

LEMMA HeapSequencesNext ==
  ASSUME NEW q, kind' = "heap", HeapHolds(q, head', next', prev', ready')
  PROVE  Sequences' = q
  <1>1. HeapView'
    BY HeapViewRight, PTL
  <1>2. QED
    BY <1>1, Zenon DEF HeapView

(* the rules callers keep *)
LEMMA HeapCaller ==
  ASSUME NEW q, kind = "heap", HeapHolds(q, head, next, prev, ready), NEW l, l = "heap"
  PROVE  /\ l \in Ordered
         /\ ready => head = At(q[l], 1)
         /\ \A e \in Entry : e \notin H!On => Free(e, q)
         /\ \A e \in H!On :
              /\ ready /\ e \in ToSet(q[l])
              /\ \E i \in 1 .. Len(q[l]) : /\ At(q[l], i) = e /\ e \in Entry
                                           /\ i = CHOOSE k \in DOMAIN q[l] : q[l][k] = e
  <1>1. H!On = ToSet(q[l])
    BY HeapSequences DEF H!On, H!ToSet, ToSet
  <1>2. Lay(q) /\ (\A m \in Ordered : m # l \/ ~ ready => q[m] = <<>>) /\ (ready => head = At(q[l], 1))
    BY DEF HeapHolds
  <1>3. l \in Ordered
    BY HeapOrdered
  <1>4. ToSet(<<>>) = {} /\ \A i \in Int : At(<<>>, i) = NULL
    BY DEF ToSet, At
  <1>5. ASSUME NEW e \in Entry, e \notin H!On PROVE Free(e, q)
    <2>1. SUFFICES ASSUME NEW m \in Ordered, NEW j \in Int, At(q[m], j) = e PROVE FALSE
      BY DEF Free, Absent
    <2>2. CASE m = l
      <3>1. ToSet(q[m]) = {x \in Entry : \E k \in Int : At(q[m], k) = x}
        BY <1>2, <2>1, OnList, Zenon
      <3>2. QED
        BY <1>1, <1>5, <2>1, <2>2, <3>1
    <2>3. CASE m # l
      BY <1>2, <1>4, <2>1, <2>3, Pointers
    <2>4. QED
      BY <2>2, <2>3
  <1>6. ASSUME NEW e \in H!On PROVE ready /\ e \in ToSet(q[l])
    BY <1>1, <1>2, <1>3, <1>4
  <1>7. ASSUME NEW e \in H!On
        PROVE  \E i \in 1 .. Len(q[l]) : /\ At(q[l], i) = e /\ e \in Entry
                                         /\ i = CHOOSE k \in DOMAIN q[l] : q[l][k] = e
    BY <1>2, <1>3, <1>6, Standing
  <1>8. QED
    BY <1>2, <1>3, <1>5, <1>6, <1>7, Zenon

LEMMA HeapHoldsAgain ==
  ASSUME NEW q, NEW h, NEW f, NEW b, HeapHolds(q, h, f, b, TRUE), NEW l, l = "heap",
         NEW p, Lay(p), \A m \in Ordered : m # l => p[m] = q[m],
         NEW g \in Link, AllOnward(p, g), NEW c \in Link, AllBack(p, c),
         NEW u \in Pointer, u = At(p[l], 1)
  PROVE  HeapHolds(p, u, g, c, TRUE)
  BY DEF HeapHolds

(* what a step starts from *)
LEMMA HeapBefore ==
  ASSUME NEW q, HeapHolds(q, head, next, prev, ready), NEW l, l = "heap"
  PROVE  /\ l \in Ordered /\ head \in Pointer /\ next \in Link /\ prev \in Link
         /\ Lay(q) /\ AllOnward(q, next) /\ AllBack(q, prev)
         /\ Onward(q[l], next) /\ Back(q[l], prev)
         /\ \E n \in Nat : /\ n = Len(q[l])
                           /\ \A i \in Int : /\ At(q[l], i) # NULL <=> i \in 1 .. n
                                             /\ At(q[l], i) \in Pointer
  <1>1. /\ l \in Ordered /\ head \in Pointer /\ next \in Link /\ prev \in Link
        /\ Lay(q) /\ AllOnward(q, next) /\ AllBack(q, prev)
    BY HeapOrdered DEF HeapHolds
  <1>2. Onward(q[l], next) /\ Back(q[l], prev)
    BY <1>1 DEF AllOnward, AllBack
  <1>3. Len(q[l]) \in Nat /\ \A i \in Int : /\ At(q[l], i) # NULL <=> i \in 1 .. Len(q[l])
                                            /\ At(q[l], i) \in Pointer
    BY <1>1, OnList, Zenon
  <1>4. QED
    BY <1>1, <1>2, <1>3

LEMMA HeapAddHead ==
  ASSUME NEW q, kind = "heap", HeapHolds(q, head, next, prev, ready), NEW l, l = "heap",
         NEW e \in Entry, H!AddHead(e)
  PROVE  /\ Free(e, q)
         /\ \E p : Becomes(q, p, l, InsertAt(q[l], 1, e)) /\ HeapHolds(p, head', next', prev', ready')
  <1>1. ready /\ e \notin H!On /\ ready' = ready
    BY DEF H!AddHead
  <1>2. Free(e, q) /\ head = At(q[l], 1) /\ ready = TRUE
    BY <1>1, HeapCaller DEF HeapHolds
  <1>3. /\ l \in Ordered /\ head \in Pointer /\ next \in Link /\ prev \in Link
        /\ Lay(q) /\ AllOnward(q, next) /\ AllBack(q, prev)
    BY HeapBefore
  <1>4. PICK n \in Nat : n = Len(q[l]) /\ \A i \in Int : At(q[l], i) # NULL <=> i \in 1 .. n
    BY HeapBefore
  <1>5. At(q[l], 0) = NULL /\ 1 - 1 = 0 /\ 1 \in 1 .. n + 1
    BY <1>4
  <1>6. PICK p : Becomes(q, p, l, InsertAt(q[l], 1, e))
    BY DEF Becomes
  <1>7. /\ Lay(p) /\ \A m \in Ordered : m # l => p[m] = q[m]
        /\ \A f, g : AllOnward(q, f) /\ Rewired(f, g, e, At(q[l], 1), At(q[l], 0)) => AllOnward(p, g)
        /\ \A b, c : AllBack(q, b) /\ Rewired(b, c, e, At(q[l], 0), At(q[l], 1)) => AllBack(p, c)
        /\ At(p[l], 1) = e
    BY <1>2, <1>3, <1>4, <1>5, <1>6, PutIn DEF Grown
  <1>8. head # e
    BY <1>2, <1>3 DEF Free, Absent
  <1>9. next' = [next EXCEPT ![e] = head] /\ prev' = H!Set([prev EXCEPT ![e] = NULL], head, e) /\ head' = e
    BY DEF H!AddHead
  <1>10. next' \in Link /\ Rewired(next, next', e, At(q[l], 1), At(q[l], 0))
    BY <1>2, <1>3, <1>5, <1>8, <1>9, Pointers, PutBetween
  <1>11. prev' \in Link /\ Rewired(prev, prev', e, At(q[l], 0), At(q[l], 1))
    BY <1>2, <1>3, <1>5, <1>8, <1>9, Pointers, PutBetween DEF H!Set
  <1>12. AllOnward(p, next') /\ AllBack(p, prev') /\ head' \in Pointer
    BY <1>3, <1>7, <1>9, <1>10, <1>11, Pointers
  <1>13. HeapHolds(p, head', next', prev', TRUE)
    BY <1>2, <1>7, <1>9, <1>10, <1>11, <1>12, HeapHoldsAgain
  <1>14. QED
    BY <1>1, <1>2, <1>6, <1>13

LEMMA HeapRemHead ==
  ASSUME NEW q, kind = "heap", HeapHolds(q, head, next, prev, ready), NEW l, l = "heap", H!RemHead
  PROVE  /\ 1 \in 1 .. Len(q[l])
         /\ \E p : Becomes(q, p, l, RemoveAt(q[l], 1)) /\ HeapHolds(p, head', next', prev', ready')
  <1>1. ready /\ head # NULL /\ ready' = ready
    BY DEF H!RemHead
  <1>2. head = At(q[l], 1) /\ ready = TRUE
    BY <1>1, HeapCaller DEF HeapHolds
  <1>3. /\ l \in Ordered /\ head \in Pointer /\ next \in Link /\ prev \in Link
        /\ Lay(q) /\ AllOnward(q, next) /\ AllBack(q, prev) /\ Onward(q[l], next)
    BY HeapBefore
  <1>4. PICK n \in Nat : /\ n = Len(q[l])
                         /\ \A i \in Int : (At(q[l], i) # NULL <=> i \in 1 .. n) /\ At(q[l], i) \in Pointer
    BY HeapBefore
  <1>5. 1 \in Int /\ 2 \in Int /\ 0 \in Int /\ 0 \notin 1 .. n /\ 1 - 1 = 0 /\ 1 + 1 = 2
    OBVIOUS
  <1>6. 1 \in 1 .. Len(q[l]) /\ At(q[l], 0) = NULL /\ At(q[l], 2) \in Pointer
    BY <1>1, <1>2, <1>4, <1>5
  <1>7. PICK p : Becomes(q, p, l, RemoveAt(q[l], 1))
    BY DEF Becomes
  <1>8. /\ Lay(p) /\ \A m \in Ordered : m # l => p[m] = q[m]
        /\ \A f, g : AllOnward(q, f) /\ Bypassed(f, g, NULL, At(q[l], 2)) => AllOnward(p, g)
        /\ \A b, c : AllBack(q, b) /\ Bypassed(b, c, At(q[l], 2), NULL) => AllBack(p, c)
        /\ At(p[l], 1) = At(q[l], 2)
    <2>1. Shrunk(q, p, l, 1)
      BY ONLY <1>3, <1>6, <1>7, TakenOut
    <2>2. QED
      BY <1>5, <1>6, <2>1, Zenon DEF Shrunk
  <1>9. next[head] = At(q[l], 2)
    BY <1>1, <1>2, <1>3, <1>5, Zenon DEF Onward
  <1>10. head' = At(q[l], 2) /\ next' = next /\ prev' = H!Set(prev, At(q[l], 2), NULL)
    BY <1>9 DEF H!RemHead
  <1>11. Bypassed(next, next', NULL, At(q[l], 2)) /\ next' \in Link
    BY <1>3, <1>10 DEF Bypassed
  <1>12. prev' \in Link /\ Bypassed(prev, prev', At(q[l], 2), NULL)
    BY <1>3, <1>6, <1>10, Pointers, JoinedUp DEF H!Set
  <1>13. AllOnward(p, next') /\ AllBack(p, prev') /\ head' \in Pointer
    BY <1>3, <1>6, <1>8, <1>10, <1>11, <1>12
  <1>14. HeapHolds(p, head', next', prev', TRUE)
    <2>1. HeapHolds(q, head, next, prev, TRUE) /\ head' = At(p[l], 1)
      BY <1>2, <1>8, <1>10
    <2>2. QED
      BY <1>8, <1>11, <1>12, <1>13, <2>1, HeapHoldsAgain
  <1>15. QED
    BY <1>1, <1>2, <1>6, <1>7, <1>14

LEMMA HeapInsertAfter ==
  ASSUME NEW q, kind = "heap", HeapHolds(q, head, next, prev, ready), NEW l, l = "heap",
         NEW at \in Entry, NEW e \in Entry, H!InsertAfter(at, e)
  PROVE  /\ Free(e, q) /\ at \in ToSet(q[l])
         /\ \E i \in 1 .. Len(q[l]) : \E p :
              /\ i = CHOOSE k \in DOMAIN q[l] : q[l][k] = at
              /\ Becomes(q, p, l, InsertAt(q[l], i + 1, e)) /\ HeapHolds(p, head', next', prev', ready')
  <1>1. at \in H!On /\ e \notin H!On /\ ready' = ready
    BY DEF H!InsertAfter
  <1>2. Free(e, q) /\ at \in ToSet(q[l]) /\ head = At(q[l], 1) /\ ready = TRUE
    BY <1>1, HeapCaller DEF HeapHolds
  <1>3. /\ l \in Ordered /\ head \in Pointer /\ next \in Link /\ prev \in Link
        /\ Lay(q) /\ AllOnward(q, next) /\ AllBack(q, prev) /\ Onward(q[l], next)
    BY HeapBefore
  <1>4. PICK n \in Nat : /\ n = Len(q[l])
                         /\ \A i \in Int : (At(q[l], i) # NULL <=> i \in 1 .. n) /\ At(q[l], i) \in Pointer
    BY HeapBefore
  <1>5. PICK i \in 1 .. n : At(q[l], i) = at /\ i = CHOOSE k \in DOMAIN q[l] : q[l][k] = at
    BY <1>1, <1>4, HeapCaller
  <1>6. i \in Int /\ i + 1 \in Int /\ (i + 1) - 1 = i /\ i + 1 # 1 /\ i + 1 \in 1 .. n + 1
    OBVIOUS
  <1>7. PICK p : Becomes(q, p, l, InsertAt(q[l], i + 1, e))
    BY DEF Becomes
  <1>8. /\ Lay(p) /\ \A m \in Ordered : m # l => p[m] = q[m]
        /\ \A f, g : AllOnward(q, f) /\ Rewired(f, g, e, At(q[l], i + 1), at) => AllOnward(p, g)
        /\ \A b, c : AllBack(q, b) /\ Rewired(b, c, e, at, At(q[l], i + 1)) => AllBack(p, c)
        /\ At(p[l], 1) = At(q[l], 1)
    <2>1. i + 1 \in 1 .. Len(q[l]) + 1
      BY <1>4, <1>6
    <2>2. Grown(q, p, l, i + 1, e)
      BY ONLY <1>2, <1>3, <1>7, <2>1, PutIn
    <2>3. QED
      BY <1>5, <1>6, <2>2, Zenon DEF Grown
  <1>9. next[at] = At(q[l], i + 1)
    BY <1>3, <1>5, <1>6, Pointers DEF Onward
  <1>10. at # e /\ next[at] # e /\ at # NULL /\ At(q[l], i + 1) \in Pointer
    BY <1>2, <1>3, <1>4, <1>5, <1>6, <1>9, Pointers DEF Free, Absent
  <1>11. /\ next' = [next EXCEPT ![e] = next[at], ![at] = e]
         /\ prev' = H!Set([prev EXCEPT ![e] = at], next[at], e) /\ head' = head
    BY DEF H!InsertAfter
  <1>12. next' \in Link /\ Rewired(next, next', e, At(q[l], i + 1), at)
    BY <1>3, <1>9, <1>10, <1>11, Pointers, PutBetween
  <1>13. prev' \in Link /\ Rewired(prev, prev', e, at, At(q[l], i + 1))
    BY <1>3, <1>9, <1>10, <1>11, Pointers, PutBetween DEF H!Set
  <1>14. AllOnward(p, next') /\ AllBack(p, prev')
    BY <1>3, <1>8, <1>12, <1>13
  <1>15. HeapHolds(p, head', next', prev', TRUE)
    BY <1>2, <1>3, <1>8, <1>11, <1>12, <1>13, <1>14, HeapHoldsAgain
  <1>16. QED
    BY <1>1, <1>2, <1>4, <1>5, <1>7, <1>15

LEMMA HeapInsertBefore ==
  ASSUME NEW q, kind = "heap", HeapHolds(q, head, next, prev, ready), NEW l, l = "heap",
         NEW at \in Entry, NEW e \in Entry, H!InsertBefore(at, e)
  PROVE  /\ Free(e, q) /\ at \in ToSet(q[l])
         /\ \E i \in 1 .. Len(q[l]) : \E p :
              /\ i = CHOOSE k \in DOMAIN q[l] : q[l][k] = at
              /\ Becomes(q, p, l, InsertAt(q[l], i, e)) /\ HeapHolds(p, head', next', prev', ready')
  <1>1. at \in H!On /\ e \notin H!On /\ ready' = ready
    BY DEF H!InsertBefore
  <1>2. Free(e, q) /\ at \in ToSet(q[l]) /\ head = At(q[l], 1) /\ ready = TRUE
    BY <1>1, HeapCaller DEF HeapHolds
  <1>3. /\ l \in Ordered /\ head \in Pointer /\ next \in Link /\ prev \in Link
        /\ Lay(q) /\ AllOnward(q, next) /\ AllBack(q, prev) /\ Back(q[l], prev)
    BY HeapBefore
  <1>4. PICK n \in Nat : /\ n = Len(q[l])
                         /\ \A i \in Int : (At(q[l], i) # NULL <=> i \in 1 .. n) /\ At(q[l], i) \in Pointer
    BY HeapBefore
  <1>5. PICK i \in 1 .. n : At(q[l], i) = at /\ i = CHOOSE k \in DOMAIN q[l] : q[l][k] = at
    BY <1>1, <1>4, HeapCaller
  <1>6. i \in Int /\ i - 1 \in Int /\ i \in 1 .. n + 1 /\ (i - 1 \in 1 .. n <=> i # 1)
    OBVIOUS
  <1>7. PICK p : Becomes(q, p, l, InsertAt(q[l], i, e))
    BY DEF Becomes
  <1>8. /\ Lay(p) /\ \A m \in Ordered : m # l => p[m] = q[m]
        /\ \A f, g : AllOnward(q, f) /\ Rewired(f, g, e, at, At(q[l], i - 1)) => AllOnward(p, g)
        /\ \A b, c : AllBack(q, b) /\ Rewired(b, c, e, At(q[l], i - 1), at) => AllBack(p, c)
        /\ At(p[l], 1) = IF i = 1 THEN e ELSE At(q[l], 1)
    <2>1. i \in 1 .. Len(q[l]) + 1
      BY <1>4, <1>6
    <2>2. Grown(q, p, l, i, e)
      BY ONLY <1>2, <1>3, <1>7, <2>1, PutIn
    <2>3. QED
      BY <1>5, <2>2, Zenon DEF Grown
  <1>9. prev[at] = At(q[l], i - 1)
    BY <1>3, <1>5, <1>6, Pointers DEF Back
  <1>10. at # e /\ prev[at] # e /\ at # NULL /\ At(q[l], i - 1) \in Pointer
    BY <1>2, <1>3, <1>4, <1>5, <1>6, <1>9, Pointers DEF Free, Absent
  <1>11. /\ prev' = [prev EXCEPT ![e] = prev[at], ![at] = e]
         /\ next' = H!Set([next EXCEPT ![e] = at], prev[at], e)
         /\ head' = IF prev[at] # NULL THEN head ELSE e
    BY DEF H!InsertBefore
  <1>12. prev' \in Link /\ Rewired(prev, prev', e, At(q[l], i - 1), at)
    BY <1>3, <1>9, <1>10, <1>11, Pointers, PutBetween
  <1>13. next' \in Link /\ Rewired(next, next', e, at, At(q[l], i - 1))
    BY <1>3, <1>9, <1>10, <1>11, Pointers, PutBetween DEF H!Set
  <1>14. AllOnward(p, next') /\ AllBack(p, prev')
    BY <1>3, <1>8, <1>12, <1>13
  <1>15. head' = At(p[l], 1) /\ head' \in Pointer
    BY <1>2, <1>3, <1>4, <1>6, <1>8, <1>9, <1>11, Pointers
  <1>16. HeapHolds(p, head', next', prev', TRUE)
    BY <1>2, <1>8, <1>12, <1>13, <1>14, <1>15, HeapHoldsAgain
  <1>17. QED
    BY <1>1, <1>2, <1>4, <1>5, <1>7, <1>16

LEMMA HeapRemEntry ==
  ASSUME NEW q, kind = "heap", HeapHolds(q, head, next, prev, ready), NEW l, l = "heap",
         NEW e \in Entry, H!RemEntry(e)
  PROVE  /\ e \in ToSet(q[l])
         /\ \E i \in 1 .. Len(q[l]) : \E p :
              /\ i = CHOOSE k \in DOMAIN q[l] : q[l][k] = e
              /\ Becomes(q, p, l, RemoveAt(q[l], i)) /\ HeapHolds(p, head', next', prev', ready')
  <1>1. e \in H!On /\ ready' = ready
    BY DEF H!RemEntry
  <1>2. e \in ToSet(q[l]) /\ head = At(q[l], 1) /\ ready = TRUE
    BY <1>1, HeapCaller DEF HeapHolds
  <1>3. /\ l \in Ordered /\ head \in Pointer /\ next \in Link /\ prev \in Link
        /\ Lay(q) /\ AllOnward(q, next) /\ AllBack(q, prev) /\ Onward(q[l], next) /\ Back(q[l], prev)
    BY HeapBefore
  <1>4. PICK n \in Nat : /\ n = Len(q[l])
                         /\ \A i \in Int : (At(q[l], i) # NULL <=> i \in 1 .. n) /\ At(q[l], i) \in Pointer
    BY HeapBefore
  <1>5. PICK i \in 1 .. n : At(q[l], i) = e /\ i = CHOOSE k \in DOMAIN q[l] : q[l][k] = e
    BY <1>1, <1>4, HeapCaller
  <1>6. i \in Int /\ i - 1 \in Int /\ i + 1 \in Int /\ (i - 1 \in 1 .. n <=> i # 1) /\ (i = 1 => i + 1 = 2)
    OBVIOUS
  <1>7. PICK p : Becomes(q, p, l, RemoveAt(q[l], i))
    BY DEF Becomes
  <1>8. /\ Lay(p) /\ \A m \in Ordered : m # l => p[m] = q[m]
        /\ \A f, g : AllOnward(q, f) /\ Bypassed(f, g, At(q[l], i - 1), At(q[l], i + 1)) => AllOnward(p, g)
        /\ \A b, c : AllBack(q, b) /\ Bypassed(b, c, At(q[l], i + 1), At(q[l], i - 1)) => AllBack(p, c)
        /\ At(p[l], 1) = IF i = 1 THEN At(q[l], 2) ELSE At(q[l], 1)
        /\ At(p[l], Len(p[l])) = IF i = Len(q[l]) THEN At(q[l], i - 1) ELSE At(q[l], Len(q[l]))
    <2>1. i \in 1 .. Len(q[l])
      BY <1>4
    <2>2. Shrunk(q, p, l, i)
      BY ONLY <1>3, <1>7, <2>1, TakenOut
    <2>3. QED
      BY <2>2, Zenon DEF Shrunk
  <1>9. prev[e] = At(q[l], i - 1) /\ next[e] = At(q[l], i + 1)
    BY <1>3, <1>5, <1>6, Pointers DEF Back, Onward
  <1>10. At(q[l], i - 1) \in Pointer /\ At(q[l], i + 1) \in Pointer /\ (At(q[l], i - 1) # NULL <=> i # 1)
    BY <1>4, <1>6
  <1>11. /\ next' = H!Set(next, prev[e], next[e])
         /\ prev' = H!Set(prev, next[e], prev[e])
         /\ head' = IF prev[e] # NULL THEN head ELSE next[e]
    BY DEF H!RemEntry
  <1>12. next' \in Link /\ Bypassed(next, next', At(q[l], i - 1), At(q[l], i + 1))
    BY <1>3, <1>9, <1>10, <1>11, Pointers, JoinedUp DEF H!Set
  <1>13. prev' \in Link /\ Bypassed(prev, prev', At(q[l], i + 1), At(q[l], i - 1))
    BY <1>3, <1>9, <1>10, <1>11, Pointers, JoinedUp DEF H!Set
  <1>14. AllOnward(p, next') /\ AllBack(p, prev')
    BY <1>3, <1>8, <1>12, <1>13
  <1>15. head' = At(p[l], 1) /\ head' \in Pointer
    BY <1>2, <1>3, <1>6, <1>8, <1>9, <1>10, <1>11
  <1>16. HeapHolds(p, head', next', prev', TRUE)
    BY <1>2, <1>8, <1>12, <1>13, <1>14, <1>15, HeapHoldsAgain
  <1>17. QED
    BY <1>1, <1>2, <1>4, <1>5, <1>7, <1>16

LEMMA HeapInit ==
  ASSUME NEW q, kind = "heap", HeapHolds(q, head, next, prev, ready), NEW l, l = "heap", H!HeapInit
  PROVE  \E p : Becomes(q, p, l, <<>>) /\ HeapHolds(p, head', next', prev', ready')
  <1>1. head' = NULL /\ ready' = TRUE /\ next' = next /\ prev' = prev
    BY DEF H!HeapInit
  <1>2. /\ l \in Ordered /\ next \in Link /\ prev \in Link
        /\ Lay(q) /\ AllOnward(q, next) /\ AllBack(q, prev)
    BY HeapBefore
  <1>3. PICK p : Becomes(q, p, l, <<>>)
    BY DEF Becomes
  <1>4. /\ Lay(p) /\ p[l] = <<>> /\ \A m \in Ordered : m # l => p[m] = q[m]
        /\ AllOnward(p, next) /\ AllBack(p, prev)
    <2>1. Cleared(q, p, l)
      BY ONLY <1>2, <1>3, Emptied
    <2>2. QED
      BY <1>2, <2>1 DEF Cleared
  <1>5. At(p[l], 1) = NULL
    BY <1>4 DEF At
  <1>6. \A m \in Ordered : m # l => q[m] = <<>>
    BY DEF HeapHolds
  <1>7. HeapHolds(p, NULL, next, prev, TRUE)
    BY <1>2, <1>4, <1>5, <1>6, Pointers DEF HeapHolds
  <1>8. QED
    BY <1>1, <1>3, <1>7

LEMMA HeapStep ==
  ASSUME NEW q, kind = "heap", HeapHolds(q, head, next, prev, ready), H!Next, kind' = kind
  PROVE  \E p : HeapHolds(p, head', next', prev', ready') /\ Sequences' = p /\ Promise!Next
  <1> DEFINE l == "heap"
  <1>0. kind = "heap" /\ HeapHolds(q, head, next, prev, ready)
    OBVIOUS
  <1>1. kind' = "heap" /\ l = "heap" /\ l \in Ordered
    BY HeapOrdered
  <1>2. Sequences = q /\ Lay(q)
    BY HeapSequences DEF HeapHolds
  <1>3. \A p : HeapHolds(p, head', next', prev', ready') => Sequences' = p
    BY <1>1, HeapSequencesNext
  <1> HIDE DEF l
  <1>4. CASE H!HeapInit
    <2>1. PICK p : Becomes(q, p, l, <<>>) /\ HeapHolds(p, head', next', prev', ready')
      BY <1>1, <1>4, HeapInit
    <2>2. call' = Promise!Call("init", l, NULL, NULL)
      BY <1>1, <1>4, CallsAgree, HeapCalls DEF H!HeapInit
    <2>3. Promise!Clear(l)
      BY <1>2, <1>3, <2>1, <2>2 DEF Promise!Clear, Becomes
    <2>4. QED
      BY <1>1, <1>3, <2>1, <2>3 DEF Promise!Next
  <1>5. CASE H!RemHead
    <2>1. PICK p : /\ 1 \in 1 .. Len(q[l]) /\ Becomes(q, p, l, RemoveAt(q[l], 1))
                   /\ HeapHolds(p, head', next', prev', ready')
      BY <1>1, <1>5, HeapRemHead
    <2>2. call' = Promise!Call("rem_head", l, NULL, NULL)
      BY <1>1, <1>5, CallsAgree, HeapCalls DEF H!RemHead
    <2>3. Promise!RemHead(l)
      BY <1>1, <1>2, <1>3, <2>1, <2>2, PromiseDelete DEF Promise!RemHead
    <2>4. QED
      BY <1>1, <1>3, <2>1, <2>3 DEF Promise!Next
  <1>6. CASE \E e \in Entry : H!AddHead(e)
    <2>1. PICK e \in Entry : H!AddHead(e)
      BY <1>6
    <2>2. PICK p : /\ Free(e, q) /\ Becomes(q, p, l, InsertAt(q[l], 1, e))
                   /\ HeapHolds(p, head', next', prev', ready')
      BY <1>1, <2>1, HeapAddHead
    <2>3. call' = Promise!Call("add_head", l, e, NULL)
      BY <1>1, <2>1, CallsAgree, HeapCalls DEF H!AddHead
    <2>4. Promise!AddHead(l, e)
      BY <1>1, <1>2, <1>3, <2>2, <2>3, PromiseInsert DEF Promise!AddHead
    <2>5. QED
      BY <1>1, <1>3, <2>2, <2>4 DEF Promise!Next
  <1>7. CASE \E e \in Entry : H!RemEntry(e)
    <2>1. PICK e \in Entry : H!RemEntry(e)
      BY <1>7
    <2>2. PICK i, p :
              /\ i \in 1 .. Len(q[l]) /\ e \in ToSet(q[l]) /\ i = CHOOSE k \in DOMAIN q[l] : q[l][k] = e
              /\ Becomes(q, p, l, RemoveAt(q[l], i)) /\ HeapHolds(p, head', next', prev', ready')
      BY <1>1, <2>1, HeapRemEntry
    <2>3. call' = Promise!Call("rem_entry", l, e, NULL)
      BY <1>1, <2>1, CallsAgree, HeapCalls DEF H!RemEntry
    <2>4. Promise!Position(l, e) = i /\ e \in Promise!ToSet(Sequences[l])
      BY <1>2, <2>2, PromiseOperators, Zenon DEF Promise!Position
    <2>5. Promise!RemEntry(l, e)
      BY <1>1, <1>2, <1>3, <2>2, <2>3, <2>4, PromiseDelete DEF Promise!RemEntry
    <2>6. QED
      BY <1>1, <1>3, <2>2, <2>5 DEF Promise!Next
  <1>8. CASE \E e, at \in Entry : H!InsertAfter(at, e)
    <2>1. PICK e \in Entry, at \in Entry : H!InsertAfter(at, e)
      BY <1>8
    <2>2. PICK i, p :
              /\ i \in 1 .. Len(q[l]) /\ Free(e, q) /\ at \in ToSet(q[l])
              /\ i = CHOOSE k \in DOMAIN q[l] : q[l][k] = at
              /\ Becomes(q, p, l, InsertAt(q[l], i + 1, e)) /\ HeapHolds(p, head', next', prev', ready')
      <3>1. /\ Free(e, q) /\ at \in ToSet(q[l])
            /\ \E i \in 1 .. Len(q[l]) : \E p :
                 /\ i = CHOOSE k \in DOMAIN q[l] : q[l][k] = at
                 /\ Becomes(q, p, l, InsertAt(q[l], i + 1, e)) /\ HeapHolds(p, head', next', prev', ready')
        BY ONLY <1>0, <1>1, <2>1, HeapInsertAfter
      <3>2. QED
        BY <3>1, Zenon
    <2>3. call' = Promise!Call("insert_after", l, e, at)
      BY <1>1, <2>1, CallsAgree, HeapCalls DEF H!InsertAfter
    <2>4. Promise!Position(l, at) = i /\ at \in Promise!ToSet(Sequences[l])
      BY <1>2, <2>2, PromiseOperators, Zenon DEF Promise!Position
    <2>5. Promise!InsertAfter(l, at, e)
      BY <1>1, <1>2, <1>3, <2>2, <2>3, <2>4, PromiseInsert DEF Promise!InsertAfter
    <2>6. QED
      BY <1>1, <1>3, <2>2, <2>5 DEF Promise!Next
  <1>9. CASE \E e, at \in Entry : H!InsertBefore(at, e)
    <2>1. PICK e \in Entry, at \in Entry : H!InsertBefore(at, e)
      BY <1>9
    <2>2. PICK i, p :
              /\ i \in 1 .. Len(q[l]) /\ Free(e, q) /\ at \in ToSet(q[l])
              /\ i = CHOOSE k \in DOMAIN q[l] : q[l][k] = at
              /\ Becomes(q, p, l, InsertAt(q[l], i, e)) /\ HeapHolds(p, head', next', prev', ready')
      <3>1. /\ Free(e, q) /\ at \in ToSet(q[l])
            /\ \E i \in 1 .. Len(q[l]) : \E p :
                 /\ i = CHOOSE k \in DOMAIN q[l] : q[l][k] = at
                 /\ Becomes(q, p, l, InsertAt(q[l], i, e)) /\ HeapHolds(p, head', next', prev', ready')
        BY ONLY <1>0, <1>1, <2>1, HeapInsertBefore
      <3>2. QED
        BY <3>1, Zenon
    <2>3. call' = Promise!Call("insert_before", l, e, at)
      BY <1>1, <2>1, CallsAgree, HeapCalls DEF H!InsertBefore
    <2>4. Promise!Position(l, at) = i /\ at \in Promise!ToSet(Sequences[l])
      BY <1>2, <2>2, PromiseOperators, Zenon DEF Promise!Position
    <2>5. Promise!InsertBefore(l, at, e)
      BY <1>1, <1>2, <1>3, <2>2, <2>3, <2>4, PromiseInsert DEF Promise!InsertBefore
    <2>6. QED
      BY <1>1, <1>3, <2>2, <2>5 DEF Promise!Next
  <1>10. QED
    BY <1>4, <1>5, <1>6, <1>7, <1>8, <1>9, Zenon DEF H!Next

-----------------------------------------------------------------------------
(* QUEUE and STACK *)

QueueHolds(q, h, t, o, f, r) ==
  /\ h \in Pointer /\ t \in Pointer /\ o \in Pointer /\ f \in Link /\ r \subseteq {"queue", "stack"}
  /\ Lay(q) /\ AllOnward(q, f)
  /\ "queue" \in r => h = At(q["queue"], 1) /\ t = At(q["queue"], Len(q["queue"]))
  /\ "stack" \in r => o = At(q["stack"], 1)
  /\ \A l \in Ordered : l \notin r => q[l] = <<>>

LEMMA QueueChain == \A e, f : Q!Chain(e, f) = Chain(e, f)
  <1>1. Q!Cardinality(Entry) = Cardinality(Entry)
    BY Zenon DEF Q!Cardinality, Cardinality
  <1>2. QED
    BY <1>1, Zenon DEF Q!Chain, Chain, Q!Pointer, Pointer

LEMMA QueueCalls == \A op, l, e, at : Q!Call(op, l, e, at) = Call(op, l, e, at)
  BY DEF Q!Call, Call

LEMMA QueueOrdered == "queue" \in Ordered /\ "stack" \in Ordered /\ "queue" # "stack"
  BY DEF Ordered

(* each is its sequence, whatever the tail pointer is *)
LEMMA QueueSequences ==
  ASSUME NEW q, NEW t, kind = "queue", QueueHolds(q, head, t, top, next, ready)
  PROVE  Sequences = q /\ Q!Seqn("queue") = q["queue"] /\ Q!Seqn("stack") = q["stack"]
  <1>1. /\ Lay(q) /\ AllOnward(q, next) /\ ready \subseteq {"queue", "stack"}
        /\ ("queue" \in ready => head = At(q["queue"], 1))
        /\ ("stack" \in ready => top = At(q["stack"], 1))
        /\ \A l \in Ordered : l \notin ready => q[l] = <<>>
    BY Zenon DEF QueueHolds
  <1>2. Chain(At(q["queue"], 1), next) = q["queue"] /\ Chain(At(q["stack"], 1), next) = q["stack"]
    BY <1>1, QueueOrdered, WalkOn
  <1>3. Q!Seqn("queue") = q["queue"]
    BY <1>1, <1>2, QueueChain, QueueOrdered, Zenon DEF Q!Seqn, Q!Queue
  <1>4. Q!Seqn("stack") = q["stack"]
    BY <1>1, <1>2, QueueChain, QueueOrdered, Zenon DEF Q!Seqn, Q!Stack
  <1>5. \A l \in Ordered : Sequence(l) = q[l]
    <2>1. SUFFICES ASSUME NEW l \in Ordered PROVE Sequence(l) = q[l]
      OBVIOUS
    <2>2. CASE l \in {"queue", "stack"}
      <3>1. Sequence(l) = Q!Seqn(l)
        BY <2>2 DEF Sequence
      <3>2. QED
        BY <1>3, <1>4, <2>2, <3>1
    <2>3. CASE l \notin {"queue", "stack"}
      <3>1. Sequence(l) = <<>>
        BY <2>3 DEF Sequence
      <3>2. QED
        BY <1>1, <2>3, <3>1
    <2>4. QED
      BY <2>2, <2>3
  <1>6. q = [l \in Ordered |-> q[l]]
    BY <1>1 DEF Lay
  <1>7. QED
    BY <1>3, <1>4, <1>5, <1>6, Zenon DEF Sequences

QueueView == \A q, t : kind = "queue" /\ QueueHolds(q, head, t, top, next, ready) => Sequences = q

LEMMA QueueViewRight == QueueView
  BY QueueSequences DEF QueueView

LEMMA QueueSequencesNext ==
  ASSUME NEW q, NEW t, kind' = "queue", QueueHolds(q, head', t, top', next', ready')
  PROVE  Sequences' = q
  <1>1. QueueView'
    BY QueueViewRight, PTL
  <1>2. QED
    BY <1>1, Zenon DEF QueueView

(* the rules callers keep *)
LEMMA QueueCaller ==
  ASSUME NEW q, kind = "queue", QueueHolds(q, head, tail, top, next, ready), NEW l \in {"queue", "stack"}
  PROVE  /\ l \in Ordered
         /\ l \in ready => /\ l = "queue" => head = At(q[l], 1) /\ tail = At(q[l], Len(q[l]))
                           /\ l = "stack" => top = At(q[l], 1)
         /\ \A e \in Entry : Q!Unlinked(e) => Free(e, q)
         /\ \A e \in Q!On(l) :
              /\ l \in ready /\ e \in ToSet(q[l])
              /\ \E i \in 1 .. Len(q[l]) : /\ At(q[l], i) = e /\ e \in Entry
                                           /\ i = CHOOSE k \in DOMAIN q[l] : q[l][k] = e
  <1>1. \A m \in {"queue", "stack"} : Q!On(m) = ToSet(q[m])
    BY QueueSequences DEF Q!On, Q!ToSet, ToSet
  <1>2. Lay(q) /\ (\A m \in Ordered : m \notin ready => q[m] = <<>>) /\ ready \subseteq {"queue", "stack"}
    BY DEF QueueHolds
  <1>3. l \in Ordered
    BY QueueOrdered
  <1>4. ToSet(<<>>) = {} /\ \A i \in Int : At(<<>>, i) = NULL
    BY DEF ToSet, At
  <1>5. ASSUME NEW e \in Entry, Q!Unlinked(e) PROVE Free(e, q)
    <2>1. SUFFICES ASSUME NEW m \in Ordered, NEW j \in Int, At(q[m], j) = e PROVE FALSE
      BY DEF Free, Absent
    <2>2. CASE m \in {"queue", "stack"}
      <3>1. ToSet(q[m]) = {x \in Entry : \E k \in Int : At(q[m], k) = x}
        BY <1>2, <2>1, OnList, Zenon
      <3>2. e \notin Q!On("queue") \cup Q!On("stack")
        BY <1>5 DEF Q!Unlinked
      <3>3. QED
        BY <1>1, <2>1, <2>2, <3>1, <3>2
    <2>3. CASE m \notin {"queue", "stack"}
      BY <1>2, <1>4, <2>1, <2>3, Pointers
    <2>4. QED
      BY <2>2, <2>3
  <1>6. ASSUME NEW e \in Q!On(l) PROVE l \in ready /\ e \in ToSet(q[l])
    BY <1>1, <1>2, <1>3, <1>4
  <1>7. ASSUME NEW e \in Q!On(l)
        PROVE  \E i \in 1 .. Len(q[l]) : /\ At(q[l], i) = e /\ e \in Entry
                                         /\ i = CHOOSE k \in DOMAIN q[l] : q[l][k] = e
    BY <1>2, <1>3, <1>6, Standing
  <1>8. /\ l \in ready /\ l = "queue" => head = At(q[l], 1) /\ tail = At(q[l], Len(q[l]))
        /\ l \in ready /\ l = "stack" => top = At(q[l], 1)
    BY Zenon DEF QueueHolds
  <1>9. QED
    BY <1>3, <1>5, <1>6, <1>7, <1>8, Zenon

LEMMA QueueHoldsAgain ==
  ASSUME NEW q, NEW h, NEW t, NEW o, NEW f, NEW r, QueueHolds(q, h, t, o, f, r), NEW l \in r,
         NEW p, Lay(p), \A m \in Ordered : m # l => p[m] = q[m], NEW g \in Link, AllOnward(p, g),
         NEW u \in Pointer, NEW v \in Pointer, NEW w \in Pointer,
         l = "queue" => u = At(p[l], 1) /\ v = At(p[l], Len(p[l])) /\ w = o,
         l = "stack" => u = h /\ v = t /\ w = At(p[l], 1)
  PROVE  QueueHolds(p, u, v, w, g, r)
  <1>1. l \in {"queue", "stack"}
    BY DEF QueueHolds
  <1>2. CASE l = "queue"
    BY <1>2, QueueOrdered DEF QueueHolds
  <1>3. CASE l = "stack"
    BY <1>3, QueueOrdered DEF QueueHolds
  <1>4. QED
    BY <1>1, <1>2, <1>3

(* what a step starts from *)
LEMMA QueueBefore ==
  ASSUME NEW q, QueueHolds(q, head, tail, top, next, ready), NEW l \in {"queue", "stack"}
  PROVE  /\ l \in Ordered /\ head \in Pointer /\ tail \in Pointer /\ top \in Pointer /\ next \in Link
         /\ Lay(q) /\ AllOnward(q, next) /\ Onward(q[l], next)
         /\ \E n \in Nat : /\ n = Len(q[l])
                           /\ \A i \in Int : /\ At(q[l], i) # NULL <=> i \in 1 .. n
                                             /\ At(q[l], i) \in Pointer
  <1>1. /\ l \in Ordered /\ head \in Pointer /\ tail \in Pointer /\ top \in Pointer /\ next \in Link
        /\ Lay(q) /\ AllOnward(q, next)
    BY QueueOrdered DEF QueueHolds
  <1>2. Onward(q[l], next)
    BY <1>1 DEF AllOnward
  <1>3. Len(q[l]) \in Nat /\ \A i \in Int : /\ At(q[l], i) # NULL <=> i \in 1 .. Len(q[l])
                                            /\ At(q[l], i) \in Pointer
    BY <1>1, OnList, Zenon
  <1>4. QED
    BY <1>1, <1>2, <1>3

LEMMA QueueInit ==
  ASSUME NEW q, kind = "queue", QueueHolds(q, head, tail, top, next, ready), NEW l \in {"queue", "stack"},
         \/ l = "queue" /\ Q!QueueInit
         \/ l = "stack" /\ Q!StackInit
  PROVE  \E p : Becomes(q, p, l, <<>>) /\ QueueHolds(p, head', tail', top', next', ready')
  <1>1. /\ ready' = ready \cup {l} /\ next' = next
        /\ l = "queue" => head' = NULL /\ tail' = NULL /\ top' = top
        /\ l = "stack" => head' = head /\ tail' = tail /\ top' = NULL
    BY QueueOrdered DEF Q!QueueInit, Q!StackInit
  <1>2. /\ l \in Ordered /\ head \in Pointer /\ tail \in Pointer /\ top \in Pointer /\ next \in Link
        /\ Lay(q) /\ AllOnward(q, next)
    BY QueueBefore
  <1>3. PICK p : Becomes(q, p, l, <<>>)
    BY DEF Becomes
  <1>4. /\ Lay(p) /\ p[l] = <<>> /\ \A m \in Ordered : m # l => p[m] = q[m]
        /\ \A f : AllOnward(q, f) => AllOnward(p, f)
    <2>1. Cleared(q, p, l)
      BY ONLY <1>2, <1>3, Emptied
    <2>2. QED
      BY <2>1 DEF Cleared
  <1>5. AllOnward(p, next) /\ At(p[l], 1) = NULL /\ At(p[l], Len(p[l])) = NULL
    BY <1>2, <1>4 DEF At
  <1>6. /\ ready \subseteq {"queue", "stack"}
        /\ "queue" \in ready => head = At(q["queue"], 1) /\ tail = At(q["queue"], Len(q["queue"]))
        /\ "stack" \in ready => top = At(q["stack"], 1)
        /\ \A m \in Ordered : m \notin ready => q[m] = <<>>
    BY Zenon DEF QueueHolds
  <1>7. \A m \in Ordered : m \notin ready' => p[m] = <<>>
    BY <1>1, <1>4, <1>6
  <1>8. ready' \subseteq {"queue", "stack"} /\ NULL \in Pointer
    BY <1>1, <1>6, Pointers
  <1>9. CASE l = "queue"
    <2>1. head' = NULL /\ tail' = NULL /\ top' = top /\ p["queue"] = <<>> /\ p["stack"] = q["stack"]
      BY <1>1, <1>4, <1>9, QueueOrdered
    <2>2. head' = At(p["queue"], 1) /\ tail' = At(p["queue"], Len(p["queue"]))
      BY <1>5, <1>9, <2>1
    <2>3. "stack" \in ready' => top' = At(p["stack"], 1)
      BY <1>1, <1>6, <1>9, <2>1
    <2>4. QED
      BY <1>1, <1>2, <1>3, <1>4, <1>5, <1>7, <1>8, <2>1, <2>2, <2>3, Zenon DEF QueueHolds
  <1>10. CASE l = "stack"
    <2>1. head' = head /\ tail' = tail /\ top' = NULL /\ p["stack"] = <<>> /\ p["queue"] = q["queue"]
      BY <1>1, <1>4, <1>10, QueueOrdered
    <2>2. top' = At(p["stack"], 1)
      BY <1>5, <1>10, <2>1
    <2>3. "queue" \in ready' => head' = At(p["queue"], 1) /\ tail' = At(p["queue"], Len(p["queue"]))
      BY <1>1, <1>6, <1>10, <2>1
    <2>4. QED
      BY <1>1, <1>2, <1>3, <1>4, <1>5, <1>7, <1>8, <2>1, <2>2, <2>3, Zenon DEF QueueHolds
  <1>11. QED
    BY <1>9, <1>10

LEMMA QueueAddTail ==
  ASSUME NEW q, kind = "queue", QueueHolds(q, head, tail, top, next, ready), NEW l, l = "queue",
         NEW e \in Entry, Q!AddTail(e)
  PROVE  /\ Free(e, q)
         /\ \E p : /\ Becomes(q, p, l, InsertAt(q[l], Len(q[l]) + 1, e))
                   /\ QueueHolds(p, head', tail', top', next', ready')
  <1>0. l \in {"queue", "stack"}
    OBVIOUS
  <1>1. l \in ready /\ Q!Unlinked(e) /\ ready' = ready /\ top' = top /\ tail' = e
    BY DEF Q!AddTail
  <1>2. Free(e, q) /\ head = At(q[l], 1) /\ tail = At(q[l], Len(q[l]))
    BY <1>0, <1>1, QueueCaller
  <1>3. /\ l \in Ordered /\ head \in Pointer /\ tail \in Pointer /\ top \in Pointer /\ next \in Link
        /\ Lay(q) /\ AllOnward(q, next)
    BY <1>0, QueueBefore
  <1>4. PICK n \in Nat : /\ n = Len(q[l])
                         /\ \A i \in Int : (At(q[l], i) # NULL <=> i \in 1 .. n) /\ At(q[l], i) \in Pointer
    BY <1>0, QueueBefore
  <1>5. /\ n \in Int /\ n + 1 \in Int /\ n + 1 \notin 1 .. n /\ (n + 1) - 1 = n /\ n + 1 \in 1 .. n + 1
        /\ (n + 1 = 1 <=> n \notin 1 .. n)
    OBVIOUS
  <1>6. At(q[l], n + 1) = NULL
    BY <1>4, <1>5
  <1>7. PICK p : Becomes(q, p, l, InsertAt(q[l], n + 1, e))
    BY DEF Becomes
  <1>8. /\ Lay(p) /\ \A m \in Ordered : m # l => p[m] = q[m]
        /\ \A f, g : AllOnward(q, f) /\ Rewired(f, g, e, NULL, tail) => AllOnward(p, g)
        /\ At(p[l], 1) = IF n + 1 = 1 THEN e ELSE At(q[l], 1)
        /\ At(p[l], Len(p[l])) = e
    <2>1. n + 1 \in 1 .. Len(q[l]) + 1
      BY <1>4, <1>5
    <2>2. Grown(q, p, l, n + 1, e)
      BY ONLY <1>2, <1>3, <1>7, <2>1, PutIn
    <2>3. QED
      BY <1>2, <1>4, <1>5, <1>6, <2>2, Zenon DEF Grown
  <1>9. tail # e
    BY <1>2, <1>3, <1>4, <1>5 DEF Free, Absent
  <1>10. /\ next' = IF tail = NULL THEN [next EXCEPT ![e] = NULL] ELSE [next EXCEPT ![e] = NULL, ![tail] = e]
         /\ head' = IF tail = NULL THEN e ELSE head
    BY DEF Q!AddTail
  <1>11. next' \in Link /\ Rewired(next, next', e, NULL, tail)
    BY <1>3, <1>9, <1>10, Pointers, PutBetween
  <1>12. AllOnward(p, next')
    BY <1>3, <1>8, <1>11
  <1>13. head' = At(p[l], 1) /\ tail' = At(p[l], Len(p[l])) /\ head' \in Pointer /\ tail' \in Pointer
    BY <1>1, <1>2, <1>3, <1>4, <1>5, <1>8, <1>10, Pointers
  <1>14. QueueHolds(p, head', tail', top', next', ready)
    BY <1>0, <1>1, <1>3, <1>8, <1>11, <1>12, <1>13, QueueOrdered, QueueHoldsAgain
  <1>15. QED
    BY <1>1, <1>2, <1>4, <1>7, <1>14

(* QUEUE_REM_HEAD, and QUEUE_REM_AFTER without a preceding entry *)
LEMMA QueueRemHead ==
  ASSUME NEW q, kind = "queue", QueueHolds(q, head, tail, top, next, ready), NEW l, l = "queue",
         "queue" \in ready, head # NULL, head' = next[head], tail' = IF head' = NULL THEN NULL ELSE tail,
         top' = top, next' = next, ready' = ready
  PROVE  /\ 1 \in 1 .. Len(q[l]) /\ head = At(q[l], 1)
         /\ \E p : Becomes(q, p, l, RemoveAt(q[l], 1)) /\ QueueHolds(p, head', tail', top', next', ready')
  <1>0. l \in {"queue", "stack"}
    OBVIOUS
  <1>1. l \in ready
    OBVIOUS
  <1>2. head = At(q[l], 1) /\ tail = At(q[l], Len(q[l]))
    BY <1>0, <1>1, QueueCaller
  <1>3. /\ l \in Ordered /\ head \in Pointer /\ tail \in Pointer /\ top \in Pointer /\ next \in Link
        /\ Lay(q) /\ AllOnward(q, next) /\ Onward(q[l], next)
    BY <1>0, QueueBefore
  <1>4. PICK n \in Nat : /\ n = Len(q[l])
                         /\ \A i \in Int : (At(q[l], i) # NULL <=> i \in 1 .. n) /\ At(q[l], i) \in Pointer
    BY <1>0, QueueBefore
  <1>5. /\ 1 \in Int /\ 2 \in Int /\ 0 \in Int /\ 0 \notin 1 .. n /\ 1 - 1 = 0 /\ 1 + 1 = 2
        /\ (2 \in 1 .. n <=> n # 1 /\ 1 \in 1 .. n)
    OBVIOUS
  <1>6. 1 \in 1 .. Len(q[l]) /\ At(q[l], 0) = NULL /\ At(q[l], 2) \in Pointer /\ (At(q[l], 2) = NULL <=> n = 1)
    BY <1>2, <1>4, <1>5
  <1>7. PICK p : Becomes(q, p, l, RemoveAt(q[l], 1))
    BY DEF Becomes
  <1>8. /\ Lay(p) /\ \A m \in Ordered : m # l => p[m] = q[m]
        /\ \A f, g : AllOnward(q, f) /\ Bypassed(f, g, NULL, At(q[l], 2)) => AllOnward(p, g)
        /\ At(p[l], 1) = At(q[l], 2)
        /\ At(p[l], Len(p[l])) = IF 1 = n THEN NULL ELSE tail
    <2>1. Shrunk(q, p, l, 1)
      BY ONLY <1>3, <1>6, <1>7, TakenOut
    <2>2. QED
      BY <1>2, <1>4, <1>5, <1>6, <2>1, Zenon DEF Shrunk
  <1>9. next[head] = At(q[l], 2)
    BY <1>2, <1>3, <1>5, Zenon DEF Onward
  <1>10. Bypassed(next, next, NULL, At(q[l], 2))
    BY DEF Bypassed
  <1>11. AllOnward(p, next)
    BY <1>3, <1>8, <1>10
  <1>12. head' = At(p[l], 1) /\ tail' = At(p[l], Len(p[l])) /\ head' \in Pointer /\ tail' \in Pointer
    BY <1>3, <1>6, <1>8, <1>9, Pointers
  <1>13. QueueHolds(p, head', tail', top, next, ready)
    BY <1>0, <1>1, <1>3, <1>8, <1>11, <1>12, QueueOrdered, QueueHoldsAgain
  <1>14. QED
    BY <1>2, <1>6, <1>7, <1>13

LEMMA StackAddHead ==
  ASSUME NEW q, kind = "queue", QueueHolds(q, head, tail, top, next, ready), NEW l, l = "stack",
         NEW e \in Entry, Q!StackAddHead(e)
  PROVE  /\ Free(e, q)
         /\ \E p : Becomes(q, p, l, InsertAt(q[l], 1, e)) /\ QueueHolds(p, head', tail', top', next', ready')
  <1>0. l \in {"queue", "stack"}
    OBVIOUS
  <1>1. l \in ready /\ Q!Unlinked(e) /\ ready' = ready /\ head' = head /\ tail' = tail
    BY DEF Q!StackAddHead
  <1>2. Free(e, q) /\ top = At(q[l], 1)
    BY <1>0, <1>1, QueueCaller
  <1>3. /\ l \in Ordered /\ head \in Pointer /\ tail \in Pointer /\ top \in Pointer /\ next \in Link
        /\ Lay(q) /\ AllOnward(q, next)
    BY <1>0, QueueBefore
  <1>4. PICK n \in Nat : n = Len(q[l]) /\ \A i \in Int : At(q[l], i) # NULL <=> i \in 1 .. n
    BY <1>0, QueueBefore
  <1>5. At(q[l], 0) = NULL /\ 1 - 1 = 0 /\ 1 \in 1 .. n + 1
    BY <1>4
  <1>6. PICK p : Becomes(q, p, l, InsertAt(q[l], 1, e))
    BY DEF Becomes
  <1>7. /\ Lay(p) /\ \A m \in Ordered : m # l => p[m] = q[m]
        /\ \A f, g : AllOnward(q, f) /\ Rewired(f, g, e, top, NULL) => AllOnward(p, g)
        /\ At(p[l], 1) = e
    <2>1. 1 \in 1 .. Len(q[l]) + 1
      BY <1>4, <1>5
    <2>2. Grown(q, p, l, 1, e)
      BY ONLY <1>2, <1>3, <1>6, <2>1, PutIn
    <2>3. QED
      BY <1>2, <1>5, <2>2, Zenon DEF Grown
  <1>8. next' = [next EXCEPT ![e] = top] /\ top' = e
    BY DEF Q!StackAddHead
  <1>9. next' \in Link /\ Rewired(next, next', e, top, NULL)
    BY <1>3, <1>8, Pointers, PutBetween
  <1>10. AllOnward(p, next') /\ top' = At(p[l], 1) /\ top' \in Pointer
    BY <1>3, <1>7, <1>8, <1>9, Pointers
  <1>11. QueueHolds(p, head', tail', top', next', ready)
    BY <1>0, <1>1, <1>3, <1>7, <1>9, <1>10, QueueOrdered, QueueHoldsAgain
  <1>12. QED
    BY <1>1, <1>2, <1>6, <1>11

LEMMA StackRemHead ==
  ASSUME NEW q, kind = "queue", QueueHolds(q, head, tail, top, next, ready), NEW l, l = "stack", Q!StackRemHead
  PROVE  /\ 1 \in 1 .. Len(q[l])
         /\ \E p : Becomes(q, p, l, RemoveAt(q[l], 1)) /\ QueueHolds(p, head', tail', top', next', ready')
  <1>0. l \in {"queue", "stack"}
    OBVIOUS
  <1>1. l \in ready /\ top # NULL /\ ready' = ready /\ head' = head /\ tail' = tail /\ next' = next
    BY DEF Q!StackRemHead
  <1>2. top = At(q[l], 1)
    BY <1>0, <1>1, QueueCaller
  <1>3. /\ l \in Ordered /\ head \in Pointer /\ tail \in Pointer /\ top \in Pointer /\ next \in Link
        /\ Lay(q) /\ AllOnward(q, next) /\ Onward(q[l], next)
    BY <1>0, QueueBefore
  <1>4. PICK n \in Nat : /\ n = Len(q[l])
                         /\ \A i \in Int : (At(q[l], i) # NULL <=> i \in 1 .. n) /\ At(q[l], i) \in Pointer
    BY <1>0, QueueBefore
  <1>5. 1 \in Int /\ 2 \in Int /\ 0 \in Int /\ 0 \notin 1 .. n /\ 1 - 1 = 0 /\ 1 + 1 = 2
    OBVIOUS
  <1>6. 1 \in 1 .. Len(q[l]) /\ At(q[l], 0) = NULL /\ At(q[l], 2) \in Pointer
    BY <1>1, <1>2, <1>4, <1>5
  <1>7. PICK p : Becomes(q, p, l, RemoveAt(q[l], 1))
    BY DEF Becomes
  <1>8. /\ Lay(p) /\ \A m \in Ordered : m # l => p[m] = q[m]
        /\ \A f, g : AllOnward(q, f) /\ Bypassed(f, g, NULL, At(q[l], 2)) => AllOnward(p, g)
        /\ At(p[l], 1) = At(q[l], 2)
    <2>1. Shrunk(q, p, l, 1)
      BY ONLY <1>3, <1>6, <1>7, TakenOut
    <2>2. QED
      BY <1>5, <1>6, <2>1, Zenon DEF Shrunk
  <1>9. next[top] = At(q[l], 2)
    BY <1>1, <1>2, <1>3, <1>5, Zenon DEF Onward
  <1>10. Bypassed(next, next, NULL, At(q[l], 2)) /\ top' = next[top]
    BY DEF Bypassed, Q!StackRemHead
  <1>11. AllOnward(p, next) /\ top' = At(p[l], 1) /\ top' \in Pointer
    BY <1>3, <1>6, <1>8, <1>9, <1>10
  <1>12. QueueHolds(p, head', tail', top', next', ready)
    BY <1>0, <1>1, <1>3, <1>8, <1>11, QueueOrdered, QueueHoldsAgain
  <1>13. QED
    BY <1>1, <1>6, <1>7, <1>12

(* QUEUE_INSERT_AFTER and STACK_INSERT_AFTER *)
LEMMA QueueInsertAfter ==
  ASSUME NEW q, kind = "queue", QueueHolds(q, head, tail, top, next, ready), NEW l \in {"queue", "stack"},
         NEW at \in Entry, NEW e \in Entry,
         \/ l = "queue" /\ Q!InsertAfter(at, e)
         \/ l = "stack" /\ Q!StackInsertAfter(at, e)
  PROVE  /\ Free(e, q) /\ at \in ToSet(q[l])
         /\ \E i \in 1 .. Len(q[l]) : \E p :
              /\ i = CHOOSE k \in DOMAIN q[l] : q[l][k] = at
              /\ Becomes(q, p, l, InsertAt(q[l], i + 1, e)) /\ QueueHolds(p, head', tail', top', next', ready')
  <1>1. /\ at \in Q!On(l) /\ Q!Unlinked(e) /\ ready' = ready /\ head' = head /\ top' = top
        /\ next' = [next EXCEPT ![e] = next[at], ![at] = e]
        /\ l = "queue" => tail' = IF next[at] = NULL THEN e ELSE tail
        /\ l = "stack" => tail' = tail
    BY QueueOrdered DEF Q!InsertAfter, Q!StackInsertAfter
  <1>2. /\ Free(e, q) /\ at \in ToSet(q[l]) /\ l \in ready
        /\ l = "queue" => head = At(q[l], 1) /\ tail = At(q[l], Len(q[l]))
        /\ l = "stack" => top = At(q[l], 1)
    BY <1>1, QueueCaller
  <1>3. /\ l \in Ordered /\ head \in Pointer /\ tail \in Pointer /\ top \in Pointer /\ next \in Link
        /\ Lay(q) /\ AllOnward(q, next) /\ Onward(q[l], next)
    BY QueueBefore
  <1>4. PICK n \in Nat : /\ n = Len(q[l])
                         /\ \A i \in Int : (At(q[l], i) # NULL <=> i \in 1 .. n) /\ At(q[l], i) \in Pointer
    BY QueueBefore
  <1>5. PICK i \in 1 .. n : At(q[l], i) = at /\ i = CHOOSE k \in DOMAIN q[l] : q[l][k] = at
    BY <1>1, <1>4, QueueCaller
  <1>6. /\ i \in Int /\ i + 1 \in Int /\ (i + 1) - 1 = i /\ i + 1 # 1 /\ i + 1 \in 1 .. n + 1
        /\ (i + 1 \in 1 .. n <=> ~ i + 1 = n + 1)
    OBVIOUS
  <1>7. PICK p : Becomes(q, p, l, InsertAt(q[l], i + 1, e))
    BY DEF Becomes
  <1>8. /\ Lay(p) /\ \A m \in Ordered : m # l => p[m] = q[m]
        /\ \A f, g : AllOnward(q, f) /\ Rewired(f, g, e, At(q[l], i + 1), at) => AllOnward(p, g)
        /\ At(p[l], 1) = At(q[l], 1)
        /\ At(p[l], Len(p[l])) = IF i + 1 = n + 1 THEN e ELSE At(q[l], Len(q[l]))
    <2>1. i + 1 \in 1 .. Len(q[l]) + 1
      BY <1>4, <1>6
    <2>2. Grown(q, p, l, i + 1, e)
      BY ONLY <1>2, <1>3, <1>7, <2>1, PutIn
    <2>3. QED
      BY <1>4, <1>5, <1>6, <2>2, Zenon DEF Grown
  <1>9. next[at] = At(q[l], i + 1)
    BY <1>3, <1>5, <1>6, Pointers DEF Onward
  <1>10. /\ at # e /\ next[at] # e /\ at # NULL /\ At(q[l], i + 1) \in Pointer
         /\ (next[at] = NULL <=> i + 1 = n + 1)
    BY <1>2, <1>3, <1>4, <1>5, <1>6, <1>9, Pointers DEF Free, Absent
  <1>11. next' \in Link /\ Rewired(next, next', e, At(q[l], i + 1), at)
    BY <1>1, <1>3, <1>9, <1>10, Pointers, PutBetween
  <1>12. AllOnward(p, next')
    BY <1>3, <1>8, <1>11
  <1>13. /\ head' \in Pointer /\ tail' \in Pointer /\ top' \in Pointer
         /\ l = "queue" => head' = At(p[l], 1) /\ tail' = At(p[l], Len(p[l])) /\ top' = top
         /\ l = "stack" => head' = head /\ tail' = tail /\ top' = At(p[l], 1)
    BY <1>1, <1>2, <1>3, <1>8, <1>10, Pointers
  <1>14. QueueHolds(p, head', tail', top', next', ready)
    BY <1>2, <1>8, <1>11, <1>12, <1>13, QueueHoldsAgain
  <1>15. QED
    BY <1>1, <1>2, <1>4, <1>5, <1>7, <1>14

(* QUEUE_REM_AFTER: the queue is that of its entries without e; tail names the
   last of them unless e was it. *)
LEMMA QueueRemAfter ==
  ASSUME NEW q, kind = "queue", QueueHolds(q, head, tail, top, next, ready), NEW l, l = "queue",
         NEW prec \in Entry, NEW e \in Entry, Q!RemAfter(prec, e)
  PROVE  /\ e \in ToSet(q[l])
         /\ \E i \in 1 .. Len(q[l]) : \E p :
              /\ i = CHOOSE k \in DOMAIN q[l] : q[l][k] = e
              /\ Becomes(q, p, l, RemoveAt(q[l], i))
              /\ \E t : /\ QueueHolds(p, head', t, top', next', ready')
                        /\ next[e] # NULL => t = tail'
  <1>0. l \in {"queue", "stack"}
    OBVIOUS
  <1>1. /\ prec \in Q!On(l) /\ next[prec] = e
        /\ ready' = ready /\ head' = head /\ tail' = tail /\ top' = top
        /\ next' = [next EXCEPT ![prec] = next[e]]
    BY DEF Q!RemAfter
  <1>2. l \in ready /\ head = At(q[l], 1) /\ tail = At(q[l], Len(q[l]))
    BY <1>0, <1>1, QueueCaller
  <1>3. /\ l \in Ordered /\ head \in Pointer /\ tail \in Pointer /\ top \in Pointer /\ next \in Link
        /\ Lay(q) /\ AllOnward(q, next) /\ Onward(q[l], next)
    BY <1>0, QueueBefore
  <1>4. PICK n \in Nat : /\ n = Len(q[l])
                         /\ \A i \in Int : (At(q[l], i) # NULL <=> i \in 1 .. n) /\ At(q[l], i) \in Pointer
    BY <1>0, QueueBefore
  <1>5. PICK j \in 1 .. n : At(q[l], j) = prec
    BY <1>0, <1>1, <1>4, QueueCaller
  <1>6. PICK i \in Int : i = j + 1 /\ i - 1 = j /\ i # 1 /\ i + 1 \in Int /\ j \in Int
    OBVIOUS
  <1>7. At(q[l], i) = e /\ e # NULL
    BY <1>1, <1>3, <1>5, <1>6, Pointers DEF Onward
  <1>8. i \in 1 .. Len(q[l]) /\ i \in 1 .. n
    BY <1>4, <1>6, <1>7
  <1>9. e \in ToSet(q[l]) /\ i = CHOOSE k \in DOMAIN q[l] : q[l][k] = e
    <2>1. ToSet(q[l]) = {x \in Entry : \E k \in Int : At(q[l], k) = x} /\ Distinct(q[l])
      BY <1>3, OnList DEF Lay
    <2>2. e \in ToSet(q[l])
      BY <1>6, <1>7, <2>1
    <2>3. PICK k \in 1 .. Len(q[l]) : At(q[l], k) = e /\ k = CHOOSE o \in DOMAIN q[l] : q[l][o] = e
      BY <1>3, <2>2, Standing
    <2>4. k = i
      BY <1>4, <1>6, <1>7, <2>1, <2>3 DEF Distinct
    <2>5. QED
      BY <2>2, <2>3, <2>4
  <1>10. PICK p : Becomes(q, p, l, RemoveAt(q[l], i))
    BY DEF Becomes
  <1>11. /\ Lay(p) /\ \A m \in Ordered : m # l => p[m] = q[m]
         /\ \A f, g : AllOnward(q, f) /\ Bypassed(f, g, prec, At(q[l], i + 1)) => AllOnward(p, g)
         /\ At(p[l], 1) = At(q[l], 1)
         /\ i # n => At(p[l], Len(p[l])) = At(q[l], Len(q[l]))
    <2>1. Shrunk(q, p, l, i)
      BY ONLY <1>3, <1>8, <1>10, TakenOut
    <2>2. QED
      BY <1>4, <1>5, <1>6, <1>8, <2>1, Zenon DEF Shrunk
  <1>12. next[e] = At(q[l], i + 1) /\ At(q[l], i + 1) \in Pointer /\ prec # NULL /\ (next[e] # NULL => i # n)
    BY <1>3, <1>4, <1>6, <1>7, Pointers DEF Onward
  <1>13. next' \in Link /\ Bypassed(next, next', prec, At(q[l], i + 1))
    BY <1>1, <1>3, <1>12, Pointers, JoinedUp
  <1>14. AllOnward(p, next')
    BY <1>3, <1>11, <1>13
  <1>15. PICK t : t = At(p[l], Len(p[l]))
    OBVIOUS
  <1>16. t \in Pointer
    BY <1>3, <1>11, <1>15, OnList
  <1>17. QueueHolds(p, head', t, top', next', ready)
    BY <1>0, <1>1, <1>2, <1>3, <1>11, <1>13, <1>14, <1>15, <1>16, QueueOrdered, QueueHoldsAgain
  <1>18. next[e] # NULL => t = tail'
    BY <1>1, <1>2, <1>11, <1>12, <1>15
  <1>19. QED
    BY <1>1, <1>8, <1>9, <1>10, <1>17, <1>18

LEMMA QueueStep ==
  ASSUME NEW q, kind = "queue", QueueHolds(q, head, tail, top, next, ready), Q!Next, kind' = kind
  PROVE  Promise!Next /\ (strayed' \/ \E p : QueueHolds(p, head', tail', top', next', ready'))
  <1>0. kind = "queue" /\ QueueHolds(q, head, tail, top, next, ready)
    OBVIOUS
  <1>1. kind' = "queue" /\ \A l \in {"queue", "stack"} : l \in Ordered
    BY QueueOrdered
  <1>2. Sequences = q /\ Lay(q)
    BY QueueSequences DEF QueueHolds
  <1>3. \A p, t : QueueHolds(p, head', t, top', next', ready') => Sequences' = p
    BY <1>1, QueueSequencesNext, Zenon
  <1>4. CASE Q!QueueInit \/ Q!StackInit
    <2>1. PICK l \in {"queue", "stack"} : (l = "queue" /\ Q!QueueInit) \/ (l = "stack" /\ Q!StackInit)
      BY <1>4
    <2>2. PICK p : Becomes(q, p, l, <<>>) /\ QueueHolds(p, head', tail', top', next', ready')
      BY <1>0, <2>1, QueueInit
    <2>3. call' = Promise!Call("init", l, NULL, NULL)
      BY <2>1, CallsAgree, QueueCalls DEF Q!QueueInit, Q!StackInit
    <2>4. Promise!Clear(l)
      BY <1>2, <1>3, <2>2, <2>3 DEF Promise!Clear, Becomes
    <2>5. QED
      BY <1>1, <1>3, <2>2, <2>4 DEF Promise!Next
  <1>5. CASE \E e, at \in Entry : Q!InsertAfter(at, e) \/ Q!StackInsertAfter(at, e)
    <2>1. PICK e \in Entry, at \in Entry : Q!InsertAfter(at, e) \/ Q!StackInsertAfter(at, e)
      BY <1>5
    <2>2. PICK l \in {"queue", "stack"} : (l = "queue" /\ Q!InsertAfter(at, e)) \/ (l = "stack" /\ Q!StackInsertAfter(at, e))
      BY <2>1
    <2>3. PICK i, p :
              /\ i \in 1 .. Len(q[l]) /\ Free(e, q) /\ at \in ToSet(q[l])
              /\ i = CHOOSE k \in DOMAIN q[l] : q[l][k] = at
              /\ Becomes(q, p, l, InsertAt(q[l], i + 1, e)) /\ QueueHolds(p, head', tail', top', next', ready')
      <3>1. /\ Free(e, q) /\ at \in ToSet(q[l])
            /\ \E i \in 1 .. Len(q[l]) : \E p :
                 /\ i = CHOOSE k \in DOMAIN q[l] : q[l][k] = at
                 /\ Becomes(q, p, l, InsertAt(q[l], i + 1, e)) /\ QueueHolds(p, head', tail', top', next', ready')
        BY ONLY <1>0, <2>2, QueueInsertAfter
      <3>2. QED
        BY <3>1, Zenon
    <2>4. call' = Promise!Call("insert_after", l, e, at)
      BY <2>2, CallsAgree, QueueCalls DEF Q!InsertAfter, Q!StackInsertAfter
    <2>5. Promise!Position(l, at) = i /\ at \in Promise!ToSet(Sequences[l])
      BY <1>2, <2>3, PromiseOperators, Zenon DEF Promise!Position
    <2>6. Promise!InsertAfter(l, at, e)
      BY <1>1, <1>2, <1>3, <2>3, <2>4, <2>5, PromiseInsert DEF Promise!InsertAfter
    <2>7. QED
      BY <1>1, <1>3, <2>3, <2>6 DEF Promise!Next
  <1>6. CASE \E e \in Entry : Q!AddTail(e)
    <2>1. PICK e \in Entry : Q!AddTail(e)
      BY <1>6
    <2>2. PICK l : l = "queue" /\ l \in {"queue", "stack"}
      OBVIOUS
    <2>3. PICK p : /\ Free(e, q) /\ Becomes(q, p, l, InsertAt(q[l], Len(q[l]) + 1, e))
                   /\ QueueHolds(p, head', tail', top', next', ready')
      BY <1>0, <2>1, <2>2, QueueAddTail
    <2>4. call' = Promise!Call("add_tail", l, e, NULL)
      BY <2>1, <2>2, CallsAgree, QueueCalls DEF Q!AddTail
    <2>5. Promise!AddTail(l, e)
      BY <1>1, <1>2, <1>3, <2>2, <2>3, <2>4, PromiseInsert DEF Promise!AddTail
    <2>6. QED
      BY <1>1, <1>3, <2>2, <2>3, <2>5 DEF Promise!Next
  <1>7. CASE \E e \in Entry : Q!StackAddHead(e)
    <2>1. PICK e \in Entry : Q!StackAddHead(e)
      BY <1>7
    <2>2. PICK l : l = "stack" /\ l \in {"queue", "stack"}
      OBVIOUS
    <2>3. PICK p : /\ Free(e, q) /\ Becomes(q, p, l, InsertAt(q[l], 1, e))
                   /\ QueueHolds(p, head', tail', top', next', ready')
      BY <1>0, <2>1, <2>2, StackAddHead
    <2>4. call' = Promise!Call("add_head", l, e, NULL)
      BY <2>1, <2>2, CallsAgree, QueueCalls DEF Q!StackAddHead
    <2>5. Promise!AddHead(l, e)
      BY <1>1, <1>2, <1>3, <2>2, <2>3, <2>4, PromiseInsert DEF Promise!AddHead
    <2>6. QED
      BY <1>1, <1>3, <2>2, <2>3, <2>5 DEF Promise!Next
  <1>8. CASE Q!RemHead
    <2>1. PICK l : l = "queue" /\ l \in {"queue", "stack"}
      OBVIOUS
    <2>2. /\ "queue" \in ready /\ head # NULL /\ head' = next[head] /\ tail' = IF head' = NULL THEN NULL ELSE tail
          /\ top' = top /\ next' = next /\ ready' = ready
      BY <1>8 DEF Q!RemHead
    <2>3. PICK p : /\ 1 \in 1 .. Len(q[l]) /\ Becomes(q, p, l, RemoveAt(q[l], 1))
                   /\ QueueHolds(p, head', tail', top', next', ready')
      BY <1>0, <2>1, <2>2, QueueRemHead
    <2>4. call' = Promise!Call("rem_head", l, NULL, NULL)
      BY <1>8, <2>1, CallsAgree, QueueCalls DEF Q!RemHead
    <2>5. Promise!RemHead(l)
      BY <1>1, <1>2, <1>3, <2>1, <2>3, <2>4, PromiseDelete DEF Promise!RemHead
    <2>6. QED
      BY <1>1, <1>3, <2>1, <2>3, <2>5 DEF Promise!Next
  <1>9. CASE Q!StackRemHead
    <2>1. PICK l : l = "stack" /\ l \in {"queue", "stack"}
      OBVIOUS
    <2>2. PICK p : /\ 1 \in 1 .. Len(q[l]) /\ Becomes(q, p, l, RemoveAt(q[l], 1))
                   /\ QueueHolds(p, head', tail', top', next', ready')
      BY <1>0, <1>9, <2>1, StackRemHead
    <2>3. call' = Promise!Call("rem_head", l, NULL, NULL)
      BY <1>9, <2>1, CallsAgree, QueueCalls DEF Q!StackRemHead
    <2>4. Promise!RemHead(l)
      BY <1>1, <1>2, <1>3, <2>1, <2>2, <2>3, PromiseDelete DEF Promise!RemHead
    <2>5. QED
      BY <1>1, <1>3, <2>1, <2>2, <2>4 DEF Promise!Next
  <1>10. CASE \E e \in Entry : Q!RemAfterNull(e)
    <2>1. PICK e \in Entry : Q!RemAfterNull(e)
      BY <1>10
    <2>2. PICK l : l = "queue" /\ l \in {"queue", "stack"} /\ l \in Ordered
      BY <1>1
    <2>3. /\ "queue" \in ready /\ head # NULL /\ head' = next[head] /\ tail' = IF head' = NULL THEN NULL ELSE tail
          /\ top' = top /\ next' = next /\ ready' = ready /\ head = e
      BY <2>1, Pointers DEF Q!RemAfterNull
    <2>4. PICK p : /\ 1 \in 1 .. Len(q[l]) /\ head = At(q[l], 1) /\ Becomes(q, p, l, RemoveAt(q[l], 1))
                   /\ QueueHolds(p, head', tail', top', next', ready')
      BY <1>0, <2>2, <2>3, QueueRemHead
    <2>5. e \in ToSet(q[l]) /\ Distinct(q[l]) /\ 1 \in Int
      <3>1. ToSet(q[l]) = {x \in Entry : \E k \in Int : At(q[l], k) = x} /\ 1 \in Int
        BY <1>2, <2>2, OnList
      <3>2. QED
        BY <1>2, <2>2, <2>3, <2>4, <3>1 DEF Lay
    <2>6. PICK k \in 1 .. Len(q[l]) : At(q[l], k) = e /\ k = CHOOSE o \in DOMAIN q[l] : q[l][o] = e
      BY <1>2, <2>2, <2>5, Standing
    <2>7. k = 1
      BY <2>3, <2>4, <2>5, <2>6, Pointers DEF Distinct
    <2>8. call' = Promise!Call("rem_entry", l, e, NULL)
      BY <2>1, <2>2, CallsAgree, QueueCalls DEF Q!RemAfterNull
    <2>9. Promise!Position(l, e) = 1 /\ e \in Promise!ToSet(Sequences[l])
      BY <1>2, <2>5, <2>6, <2>7, PromiseOperators, Zenon DEF Promise!Position
    <2>10. Promise!RemEntry(l, e)
      BY <1>2, <1>3, <2>2, <2>4, <2>8, <2>9, PromiseDelete DEF Promise!RemEntry
    <2>11. QED
      BY <1>3, <2>2, <2>4, <2>10 DEF Promise!Next
  <1>11. CASE \E e, at \in Entry : Q!RemAfter(at, e)
    <2>1. PICK e \in Entry, at \in Entry : Q!RemAfter(at, e)
      BY <1>11
    <2>2. PICK l : l = "queue" /\ l \in Ordered
      BY <1>1
    <2>3. PICK i, p, t :
              /\ i \in 1 .. Len(q[l]) /\ e \in ToSet(q[l]) /\ i = CHOOSE k \in DOMAIN q[l] : q[l][k] = e
              /\ Becomes(q, p, l, RemoveAt(q[l], i)) /\ QueueHolds(p, head', t, top', next', ready')
              /\ next[e] # NULL => t = tail'
      <3>1. /\ e \in ToSet(q[l])
            /\ \E i \in 1 .. Len(q[l]) : \E p :
                 /\ i = CHOOSE k \in DOMAIN q[l] : q[l][k] = e
                 /\ Becomes(q, p, l, RemoveAt(q[l], i))
                 /\ \E t : /\ QueueHolds(p, head', t, top', next', ready')
                           /\ next[e] # NULL => t = tail'
        BY ONLY <1>0, <2>1, <2>2, QueueRemAfter
      <3>2. PICK i, p :
              /\ i \in 1 .. Len(q[l])
              /\ i = CHOOSE k \in DOMAIN q[l] : q[l][k] = e
              /\ Becomes(q, p, l, RemoveAt(q[l], i))
              /\ \E t : /\ QueueHolds(p, head', t, top', next', ready')
                        /\ next[e] # NULL => t = tail'
        BY ONLY <3>1, Zenon
      <3>3. PICK t : QueueHolds(p, head', t, top', next', ready') /\ (next[e] # NULL => t = tail')
        BY <3>2, Zenon
      <3>4. QED
        BY ONLY <3>1, <3>2, <3>3, Zenon
    <2>4. call' = Promise!Call("rem_entry", l, e, NULL)
      BY <2>1, <2>2, CallsAgree, QueueCalls DEF Q!RemAfter
    <2>5. Promise!Position(l, e) = i /\ e \in Promise!ToSet(Sequences[l])
      BY <1>2, <2>3, PromiseOperators, Zenon DEF Promise!Position
    <2>6. Promise!RemEntry(l, e)
      BY <1>2, <1>3, <2>2, <2>3, <2>4, <2>5, PromiseDelete DEF Promise!RemEntry
    <2>7. Promise!Next
      BY <2>2, <2>6, Zenon DEF Promise!Next
    <2>8. strayed' = (strayed \/ next[e] = NULL)
      BY <2>1 DEF Q!RemAfter
    <2>9. strayed' \/ t = tail'
      BY <2>3, <2>8, Zenon
    <2>10. QED
      BY <2>3, <2>7, <2>9, Zenon
  <1>12. QED
    BY <1>4, <1>5, <1>6, <1>7, <1>8, <1>9, <1>10, <1>11, Zenon DEF Q!Next

-----------------------------------------------------------------------------
(* CIRCLEQ *)

(* what the circle stands for, and the other headers for nothing *)
Only(s) == [l \in Ordered |-> IF l = "circle" THEN s ELSE <<>>]

CircleHolds(s, h, f, b, r) ==
  /\ s \in Seq(Entry) /\ Distinct(s) /\ RingOn(s, f) /\ RingBack(s, b)
  /\ h \in Pointer /\ f \in Link /\ b \in Link /\ r \in BOOLEAN
  /\ r => h = At(s, 1)
  /\ ~ r => s = <<>>

LEMMA CircleCalls == \A op, l, e, at : C!Call(op, l, e, at) = Call(op, l, e, at)
  BY DEF C!Call, Call

LEMMA CircleRound == \A link : C!Around(link) = Round(head, link)
  <1>1. C!Cardinality(Entry) = Cardinality(Entry)
    BY Zenon DEF C!Cardinality, Cardinality
  <1>2. \A e, f : C!Chain(e, f) = Chain(e, f)
    BY <1>1, Zenon DEF C!Chain, Chain, C!Pointer, Pointer
  <1>3. \A link : C!Around(link) = OnceAround(C!Chain(head, link), head)
    BY DEF C!Around, OnceAround
  <1>4. QED
    BY <1>2, <1>3, Zenon DEF Round

LEMMA OnlyIs ==
  ASSUME NEW s \in Seq(Entry), Distinct(s)
  PROVE  /\ Lay(Only(s)) /\ "circle" \in Ordered /\ Only(s)["circle"] = s
         /\ \A e : Absent(e, s) /\ e # NULL => Free(e, Only(s))
         /\ \A r : Becomes(Only(s), Only(r), "circle", r)
  <1>1. "circle" \in Ordered
    BY DEF Ordered
  <1>2. <<>> \in Seq(Entry) /\ \A i \in Int : At(<<>>, i) = NULL
    BY DEF At
  <1>3. Only(s)["circle"] = s /\ \A l \in Ordered : l # "circle" => Only(s)[l] = <<>>
    BY <1>1 DEF Only
  <1>4. Only(s) \in [Ordered -> Seq(Entry)]
    BY <1>2 DEF Only
  <1>5. Distinct(<<>>)
    BY <1>2 DEF Distinct
  <1>6. \A l \in Ordered : Distinct(Only(s)[l])
    BY <1>3, <1>5
  <1>7. Apart(Only(s))
    <2>1. SUFFICES ASSUME NEW l \in Ordered, NEW m \in Ordered, l # m, NEW i \in Int, NEW j \in Int,
                          At(Only(s)[l], i) # NULL
                   PROVE  At(Only(s)[l], i) # At(Only(s)[m], j)
      BY DEF Apart
    <2>2. l = "circle" /\ m # "circle"
      BY <1>2, <1>3, <2>1
    <2>3. QED
      BY <1>2, <1>3, <2>1, <2>2
  <1>8. Lay(Only(s))
    BY <1>4, <1>6, <1>7 DEF Lay
  <1>9. ASSUME NEW e, Absent(e, s), e # NULL PROVE Free(e, Only(s))
    BY <1>2, <1>3, <1>9 DEF Free, Absent
  <1>10. ASSUME NEW r PROVE Becomes(Only(s), Only(r), "circle", r)
    BY DEF Becomes, Only
  <1>11. QED
    BY <1>1, <1>3, <1>8, <1>9, <1>10

(* the circle is its sequence *)
LEMMA CircleSequences ==
  ASSUME NEW s, kind = "circle", CircleHolds(s, head, next, prev, ready)
  PROVE  Sequences = Only(s) /\ C!Circle = s
  <1>1. s \in Seq(Entry) /\ Distinct(s) /\ RingOn(s, next) /\ next \in Link
    BY DEF CircleHolds
  <1>2. (ready => head = At(s, 1)) /\ (~ ready => s = <<>>)
    BY DEF CircleHolds
  <1>3. Round(At(s, 1), next) = s
    BY <1>1, RoundIs
  <1>4. C!Circle = s
    BY <1>2, <1>3, CircleRound, Zenon DEF C!Circle
  <1>5. \A l \in Ordered : Sequence(l) = IF l = "circle" THEN s ELSE <<>>
    <2>1. SUFFICES ASSUME NEW l \in Ordered PROVE Sequence(l) = IF l = "circle" THEN s ELSE <<>>
      OBVIOUS
    <2>2. CASE l = "circle"
      BY <1>4, <2>2 DEF Sequence
    <2>3. CASE l # "circle"
      BY <2>3 DEF Sequence
    <2>4. QED
      BY <2>2, <2>3
  <1>6. QED
    BY <1>4, <1>5, Zenon DEF Sequences, Only

CircleView == \A s : kind = "circle" /\ CircleHolds(s, head, next, prev, ready) => Sequences = Only(s)

LEMMA CircleViewRight == CircleView
  BY CircleSequences DEF CircleView

LEMMA CircleSequencesNext ==
  ASSUME NEW s, kind' = "circle", CircleHolds(s, head', next', prev', ready')
  PROVE  Sequences' = Only(s)
  <1>1. CircleView'
    BY CircleViewRight, PTL
  <1>2. QED
    BY <1>1, Zenon DEF CircleView

(* what a step starts from *)
LEMMA CircleBefore ==
  ASSUME NEW s, kind = "circle", CircleHolds(s, head, next, prev, ready)
  PROVE  /\ s \in Seq(Entry) /\ Distinct(s) /\ RingOn(s, next) /\ RingBack(s, prev)
         /\ head \in Pointer /\ next \in Link /\ prev \in Link /\ ready \in BOOLEAN
         /\ ready => head = At(s, 1) /\ (head = NULL <=> s = <<>>)
         /\ \A e \in Entry : e \notin C!On => Absent(e, s)
         /\ \A e \in C!On : /\ ready /\ e \in ToSet(s) /\ e \in Entry
                            /\ \E i \in 1 .. Len(s) : /\ At(s, i) = e
                                                      /\ i = CHOOSE k \in DOMAIN s : s[k] = e
  <1>1. /\ s \in Seq(Entry) /\ Distinct(s) /\ RingOn(s, next) /\ RingBack(s, prev)
        /\ head \in Pointer /\ next \in Link /\ prev \in Link /\ ready \in BOOLEAN
        /\ (ready => head = At(s, 1)) /\ (~ ready => s = <<>>)
    BY DEF CircleHolds
  <1>2. At(s, 1) = NULL <=> s = <<>>
    <2>1. PICK n \in Nat : /\ n = Len(s) /\ (n = 0 <=> s = <<>>)
                           /\ \A i \in Int : At(s, i) # NULL <=> i \in 1 .. n
      BY <1>1, Positions
    <2>2. 1 \in Int /\ (1 \in 1 .. n <=> n # 0)
      OBVIOUS
    <2>3. QED
      BY <2>1, <2>2, Zenon
  <1>3. C!On = ToSet(s)
    BY CircleSequences DEF C!On, C!ToSet, ToSet
  <1>4. ToSet(s) = {x \in Entry : \E k \in Int : At(s, k) = x}
    BY <1>1, AtIs
  <1>5. ASSUME NEW e \in Entry, e \notin C!On PROVE Absent(e, s)
    BY <1>3, <1>4, <1>5 DEF Absent
  <1>6. ASSUME NEW e \in C!On PROVE ready /\ e \in ToSet(s) /\ e \in Entry
    <2>1. e \in ToSet(s) /\ e \in Entry
      BY <1>3, <1>4
    <2>2. s # <<>>
      BY <2>1 DEF ToSet
    <2>3. QED
      BY <1>1, <2>1, <2>2
  <1>7. ASSUME NEW e \in C!On
        PROVE  \E i \in 1 .. Len(s) : At(s, i) = e /\ i = CHOOSE k \in DOMAIN s : s[k] = e
    <2>1. PICK q, l : q = Only(s) /\ l = "circle"
      OBVIOUS
    <2>2. Lay(q) /\ l \in Ordered /\ q[l] = s
      BY <1>1, <2>1, OnlyIs
    <2>3. e \in ToSet(q[l])
      BY <1>6, <2>2
    <2>4. PICK i \in 1 .. Len(q[l]) : At(q[l], i) = e /\ i = CHOOSE k \in DOMAIN q[l] : q[l][k] = e
      BY ONLY <2>2, <2>3, Standing, SMTT(30)
    <2>5. QED
      BY <2>2, <2>4, Zenon
  <1>8. QED
    BY <1>1, <1>2, <1>5, <1>6, <1>7

(* what a step leads to *)
LEMMA CircleAgain ==
  ASSUME NEW s \in Seq(Entry), Distinct(s), NEW f \in Link, RingOn(s, f), NEW b \in Link, RingBack(s, b),
         NEW h \in Pointer, h = At(s, 1), NEW r, r = TRUE
  PROVE  CircleHolds(s, h, f, b, r)
  BY DEF CircleHolds

LEMMA CircleInit ==
  ASSUME NEW s, kind = "circle", CircleHolds(s, head, next, prev, ready), C!CircleInit
  PROVE  CircleHolds(<<>>, head', next', prev', ready')
  <1>1. head' = NULL /\ ready' = TRUE /\ next' = next /\ prev' = prev
    BY DEF C!CircleInit
  <1>2. <<>> \in Seq(Entry) /\ Len(<<>>) = 0 /\ \A i \in Int : At(<<>>, i) = NULL
    BY DEF At
  <1>3. Distinct(<<>>) /\ \A f : RingOn(<<>>, f) /\ RingBack(<<>>, f)
    BY <1>2 DEF Distinct, RingOn, RingBack
  <1>4. next \in Link /\ prev \in Link /\ NULL \in Pointer /\ NULL = At(<<>>, 1)
    BY <1>2, CircleBefore, Pointers
  <1>5. QED
    BY <1>1, <1>2, <1>3, <1>4, CircleAgain

(* both ways of adding an entry link it in between the last and the first *)
LEMMA CircleLinkIn ==
  ASSUME NEW s, kind = "circle", CircleHolds(s, head, next, prev, ready), NEW e \in Entry, C!LinkIn(e)
  PROVE  /\ ready = TRUE /\ Absent(e, s) /\ next' \in Link /\ prev' \in Link
         /\ LinkedIn(s, next, next', e) /\ LinkedInBack(s, prev, prev', e)
  <1>1. ready /\ e \notin C!On
    BY DEF C!LinkIn
  <1>2. /\ s \in Seq(Entry) /\ Distinct(s) /\ RingOn(s, next) /\ RingBack(s, prev)
        /\ head \in Pointer /\ next \in Link /\ prev \in Link /\ ready \in BOOLEAN
        /\ head = At(s, 1) /\ (head = NULL <=> s = <<>>) /\ Absent(e, s)
    BY <1>1, CircleBefore
  <1>3. PICK n \in Nat : /\ n = Len(s) /\ (n = 0 <=> s = <<>>)
                         /\ \A i \in 1 .. n : At(s, i) \in Entry
    BY <1>2, Positions
  <1>4. CASE head = NULL
    <2>1. next' = [next EXCEPT ![e] = e] /\ prev' = [prev EXCEPT ![e] = e]
      BY <1>4 DEF C!LinkIn
    <2>2. s = <<>> /\ \A x \in {At(s, 1), At(s, Len(s))} : x = NULL
      BY <1>2, <1>4 DEF At
    <2>3. QED
      BY <1>1, <1>2, <2>1, <2>2, Pointers DEF LinkedIn, LinkedInBack, Link
  <1>5. CASE head # NULL
    <2>1. PICK last \in Entry : last = At(s, Len(s)) /\ last # e
      <3>1. n \in 1 .. n /\ n \in Int
        BY <1>2, <1>3, <1>5
      <3>2. QED
        BY <1>2, <1>3, <3>1 DEF Absent
    <2>2. head \in Entry /\ head # e
      <3>1. 1 \in 1 .. n /\ 1 \in Int
        BY <1>2, <1>3, <1>5
      <3>2. QED
        BY <1>2, <1>3, <3>1 DEF Absent
    <2>3. prev[head] = last
      <3>1. 1 \in 1 .. Len(s)
        BY <1>2, <1>3, <1>5
      <3>2. prev[At(s, 1)] = Pred(s, 1)
        BY <1>2, <3>1 DEF RingBack
      <3>3. QED
        BY <1>2, <2>1, <3>2 DEF Pred
    <2>4. /\ next' = [next EXCEPT ![e] = head, ![last] = e]
          /\ prev' = [prev EXCEPT ![e] = last, ![head] = e]
      BY <1>5, <2>3 DEF C!LinkIn
    <2>5. s # <<>>
      BY <1>2, <1>5
    <2>6. next' \in Link /\ prev' \in Link
      BY <1>2, <2>1, <2>2, <2>4, Pointers DEF Link
    <2>7. LinkedIn(s, next, next', e)
      BY <1>2, <2>1, <2>2, <2>4, <2>5 DEF LinkedIn, Link
    <2>8. LinkedInBack(s, prev, prev', e)
      BY <1>2, <2>1, <2>2, <2>4, <2>5 DEF LinkedInBack, Link
    <2>9. QED
      BY <1>1, <1>2, <2>6, <2>7, <2>8
  <1>6. QED
    BY <1>4, <1>5

LEMMA CircleGrown ==
  ASSUME NEW s \in Seq(Entry), Distinct(s), NEW e \in Entry, Absent(e, s), NEW i, i = 1 \/ i = Len(s) + 1,
         NEW f, RingOn(s, f), NEW g, LinkedIn(s, f, g, e),
         NEW b, RingBack(s, b), NEW c, LinkedInBack(s, b, c, e),
         NEW r, r = InsertAt(s, i, e)
  PROVE  /\ r \in Seq(Entry) /\ Distinct(r) /\ RingOn(r, g) /\ RingBack(r, c)
         /\ At(r, 1) = IF i = 1 \/ s = <<>> THEN e ELSE At(s, 1)
  <1>1. Len(s) \in Nat /\ i \in 1 .. Len(s) + 1 /\ i \in Int
    OBVIOUS
  <1>2. r \in Seq(Entry) /\ Len(r) = Len(s) + 1 /\ Widened(s, r, i, e)
    BY <1>1, Inserted DEF Widened
  <1>3. Distinct(r)
    BY <1>1, <1>2, WidenedDistinct
  <1>4. RingOn(r, g)
    BY ONLY s \in Seq(Entry), Distinct(s), e \in Entry, Absent(e, s), i = 1 \/ i = Len(s) + 1,
            RingOn(s, f), LinkedIn(s, f, g, e), <1>2, RingGrown
  <1>5. RingBack(r, c)
    BY ONLY s \in Seq(Entry), Distinct(s), e \in Entry, Absent(e, s), i = 1 \/ i = Len(s) + 1,
            RingBack(s, b), LinkedInBack(s, b, c, e), <1>2, RingGrownBack
  <1>6. At(r, 1) = IF i = 1 \/ s = <<>> THEN e ELSE At(s, 1)
    <2>1. (Len(s) = 0 <=> s = <<>>) /\ (i = 1 <=> ~ (1 < i)) /\ 1 \in Int
      BY <1>1
    <2>2. At(r, 1) = IF 1 < i THEN At(s, 1) ELSE IF 1 = i THEN e ELSE At(s, 1 - 1)
      BY <1>2, <2>1, Zenon DEF Widened
    <2>3. i = 1 <=> (i = 1 \/ s = <<>>)
      BY <1>1, <2>1
    <2>4. QED
      BY <2>1, <2>2, <2>3
  <1>7. QED
    BY <1>2, <1>3, <1>4, <1>5, <1>6

LEMMA CircleAdd ==
  ASSUME NEW s, kind = "circle", CircleHolds(s, head, next, prev, ready), NEW e \in Entry,
         NEW i, (i = 1 /\ C!AddHead(e)) \/ (i = Len(s) + 1 /\ C!AddTail(e))
  PROVE  Absent(e, s) /\ i \in 1 .. Len(s) + 1 /\ CircleHolds(InsertAt(s, i, e), head', next', prev', ready')
  <1>1. C!LinkIn(e) /\ ready' = ready
    BY DEF C!AddHead, C!AddTail
  <1>2. /\ ready = TRUE /\ Absent(e, s) /\ next' \in Link /\ prev' \in Link
        /\ LinkedIn(s, next, next', e) /\ LinkedInBack(s, prev, prev', e)
    BY <1>1, CircleLinkIn
  <1>3. /\ s \in Seq(Entry) /\ Distinct(s) /\ RingOn(s, next) /\ RingBack(s, prev)
        /\ head \in Pointer /\ head = At(s, 1) /\ (head = NULL <=> s = <<>>)
    BY <1>2, CircleBefore
  <1>4. i = 1 \/ i = Len(s) + 1
    OBVIOUS
  <1>5. PICK r : r = InsertAt(s, i, e)
    OBVIOUS
  <1>6. /\ r \in Seq(Entry) /\ Distinct(r) /\ RingOn(r, next') /\ RingBack(r, prev')
        /\ At(r, 1) = IF i = 1 \/ s = <<>> THEN e ELSE At(s, 1)
    BY ONLY <1>2, <1>3, <1>4, <1>5, e \in Entry, CircleGrown
  <1>7. Len(s) \in Nat /\ (Len(s) = 0 <=> s = <<>>)
    BY <1>3
  <1>8. head' = (IF i = 1 \/ s = <<>> THEN e ELSE head)
    <2>1. CASE i = 1 /\ C!AddHead(e)
      BY <2>1 DEF C!AddHead
    <2>2. CASE i = Len(s) + 1 /\ C!AddTail(e)
      BY <1>3, <1>7, <2>2 DEF C!AddTail
    <2>3. QED
      BY <2>1, <2>2
  <1>9. head' = At(r, 1) /\ head' \in Pointer
    BY <1>3, <1>6, <1>8, Pointers
  <1>10. CircleHolds(r, head', next', prev', ready')
    BY <1>1, <1>2, <1>6, <1>9, CircleAgain
  <1>11. QED
    BY <1>2, <1>4, <1>5, <1>7, <1>10

(* what one finds beside an entry *)
LEMMA CircleBeside ==
  ASSUME NEW s, kind = "circle", CircleHolds(s, head, next, prev, ready), NEW i \in 1 .. Len(s)
  PROVE  /\ next[At(s, i)] = Succ(s, i) /\ prev[At(s, i)] = Pred(s, i)
         /\ At(s, i) \in Entry /\ Succ(s, i) \in Entry /\ Pred(s, i) \in Entry
         /\ Succ(s, i) = At(s, i) <=> Len(s) = 1
         /\ At(s, 1) \in Entry /\ prev[At(s, 1)] = At(s, Len(s)) /\ next[At(s, Len(s))] = At(s, 1)
         /\ Pred(s, 1) = At(s, Len(s)) /\ Succ(s, Len(s)) = At(s, 1)
  <1>1. s \in Seq(Entry) /\ Distinct(s) /\ RingOn(s, next) /\ RingBack(s, prev)
    BY CircleBefore
  <1>2. PICK n \in Nat : /\ n = Len(s) /\ \A j \in 1 .. n : At(s, j) \in Entry
                         /\ \A j, k \in 1 .. n : At(s, j) = At(s, k) => j = k
    BY <1>1, Positions
  <1>3. i \in 1 .. n /\ 1 \in 1 .. n /\ n \in 1 .. n
    BY <1>2
  <1>4. PICK j \in 1 .. n : j = IF i = n THEN 1 ELSE i + 1
    BY <1>3
  <1>5. PICK k \in 1 .. n : k = IF i = 1 THEN n ELSE i - 1
    BY <1>3
  <1>6. Succ(s, i) = At(s, j) /\ Pred(s, i) = At(s, k)
    BY <1>2, <1>4, <1>5 DEF Succ, Pred
  <1>7. j = i <=> n = 1
    BY <1>3, <1>4
  <1>8. Pred(s, 1) = At(s, n) /\ Succ(s, n) = At(s, 1)
    BY <1>2 DEF Succ, Pred
  <1>9. next[At(s, i)] = Succ(s, i) /\ prev[At(s, i)] = Pred(s, i)
    BY <1>1, <1>2 DEF RingOn, RingBack
  <1>10. prev[At(s, 1)] = At(s, n) /\ next[At(s, n)] = At(s, 1)
    BY <1>1, <1>2, <1>3, <1>8 DEF RingOn, RingBack
  <1>11. Succ(s, i) = At(s, i) <=> n = 1
    BY <1>2, <1>3, <1>6, <1>7
  <1>12. QED
    BY <1>2, <1>3, <1>6, <1>8, <1>9, <1>10, <1>11

(* every macro that takes out an entry, but the only one, joins its neighbours *)
LEMMA CircleShrunk ==
  ASSUME NEW s \in Seq(Entry), Distinct(s), Len(s) # 1, NEW i \in 1 .. Len(s),
         NEW f, RingOn(s, f), NEW g, Bypassed(f, g, Pred(s, i), Succ(s, i)),
         NEW b, RingBack(s, b), NEW c, Bypassed(b, c, Succ(s, i), Pred(s, i)),
         NEW r, r = RemoveAt(s, i)
  PROVE  /\ r \in Seq(Entry) /\ Distinct(r) /\ RingOn(r, g) /\ RingBack(r, c)
         /\ At(r, 1) = IF i = 1 THEN Succ(s, i) ELSE At(s, 1)
  <1>1. Len(s) \in Nat /\ i \in Int
    OBVIOUS
  <1>2. r \in Seq(Entry) /\ Len(r) = Len(s) - 1 /\ Narrowed(s, r, i)
    BY Removed DEF Narrowed
  <1>3. Distinct(r)
    BY <1>1, <1>2, NarrowedDistinct
  <1>4. RingOn(r, g)
    BY ONLY s \in Seq(Entry), Distinct(s), Len(s) # 1, i \in 1 .. Len(s), RingOn(s, f),
            Bypassed(f, g, Pred(s, i), Succ(s, i)), <1>2, RingShrunk
  <1>5. RingBack(r, c)
    BY ONLY s \in Seq(Entry), Distinct(s), Len(s) # 1, i \in 1 .. Len(s), RingBack(s, b),
            Bypassed(b, c, Succ(s, i), Pred(s, i)), <1>2, RingShrunkBack
  <1>6. At(r, 1) = IF i = 1 THEN Succ(s, i) ELSE At(s, 1)
    <2>1. 1 \in Int /\ (1 < i <=> i # 1) /\ (i = 1 => i # Len(s) /\ i + 1 = 1 + 1)
      <3>1. PICK n \in Nat : n = Len(s) /\ i \in 1 .. n /\ n # 1
        BY <1>1
      <3>2. 1 \in Int /\ (1 < i <=> i # 1) /\ (i = 1 => i # n /\ i + 1 = 1 + 1)
        <4>1. i \in Int /\ i >= 1 /\ n # 1
          BY <3>1
        <4>2. 1 \in Int /\ (1 < i <=> i # 1)
          BY ONLY <4>1
        <4>3. i = 1 => i # n /\ i + 1 = 1 + 1
          BY ONLY <4>1
        <4>4. QED
          BY <4>2, <4>3, Zenon
      <3>3. QED
        BY <3>1, <3>2, Zenon
    <2>2. At(r, 1) = IF 1 < i THEN At(s, 1) ELSE At(s, 1 + 1)
      BY <1>2, <2>1, Zenon DEF Narrowed
    <2>3. QED
      BY <2>1, <2>2, Zenon DEF Succ
  <1>7. QED
    BY <1>2, <1>3, <1>4, <1>5, <1>6

LEMMA CircleTakenOut ==
  ASSUME NEW s, kind = "circle", CircleHolds(s, head, next, prev, ready), ready, ready' = ready,
         NEW i \in 1 .. Len(s), Len(s) # 1,
         next' = [next EXCEPT ![Pred(s, i)] = Succ(s, i)], prev' = [prev EXCEPT ![Succ(s, i)] = Pred(s, i)],
         head' = IF i = 1 THEN Succ(s, i) ELSE head
  PROVE  CircleHolds(RemoveAt(s, i), head', next', prev', ready')
  <1>1. /\ s \in Seq(Entry) /\ Distinct(s) /\ RingOn(s, next) /\ RingBack(s, prev)
        /\ head \in Pointer /\ next \in Link /\ prev \in Link /\ ready = TRUE /\ head = At(s, 1)
    BY CircleBefore
  <1>2. PICK u \in Entry, v \in Entry : u = Pred(s, i) /\ v = Succ(s, i)
    BY CircleBeside
  <1>3. next' \in Link /\ Bypassed(next, next', u, v)
    BY <1>1, <1>2, Pointers DEF Link, Bypassed
  <1>4. prev' \in Link /\ Bypassed(prev, prev', v, u)
    BY <1>1, <1>2, Pointers DEF Link, Bypassed
  <1>5. PICK r : r = RemoveAt(s, i)
    OBVIOUS
  <1>6. /\ r \in Seq(Entry) /\ Distinct(r) /\ RingOn(r, next') /\ RingBack(r, prev')
        /\ At(r, 1) = IF i = 1 THEN Succ(s, i) ELSE At(s, 1)
    BY ONLY <1>1, <1>2, <1>3, <1>4, <1>5, i \in 1 .. Len(s), Len(s) # 1, CircleShrunk
  <1>7. head' = At(r, 1) /\ head' \in Pointer
    BY <1>1, <1>2, <1>6, Pointers
  <1>8. CircleHolds(r, head', next', prev', ready')
    BY <1>1, <1>3, <1>4, <1>6, <1>7, CircleAgain
  <1>9. QED
    BY <1>5, <1>8

(* the only entry *)
LEMMA CircleLastOut ==
  ASSUME NEW s, kind = "circle", CircleHolds(s, head, next, prev, ready), ready, ready' = ready,
         NEW i \in 1 .. Len(s), Len(s) = 1, next' = next, prev' = prev, head' = NULL
  PROVE  CircleHolds(RemoveAt(s, i), head', next', prev', ready')
  <1>1. s \in Seq(Entry) /\ next \in Link /\ prev \in Link /\ ready = TRUE
    BY CircleBefore
  <1>2. PICK r : r = RemoveAt(s, i)
    OBVIOUS
  <1>3. r \in Seq(Entry) /\ Len(r) = 0
    <2>1. r \in Seq(Entry) /\ Len(r) = Len(s) - 1
      BY <1>1, <1>2, Removed
    <2>2. QED
      BY <2>1
  <1>4. \A j \in Int : At(r, j) = NULL
    BY <1>3 DEF At
  <1>5. Distinct(r) /\ RingOn(r, next) /\ RingBack(r, prev)
    BY <1>3, <1>4 DEF Distinct, RingOn, RingBack
  <1>6. head' \in Pointer /\ head' = At(r, 1) /\ ready' = TRUE
    BY <1>1, <1>4, Pointers
  <1>7. CircleHolds(r, head', next', prev', ready')
    BY <1>1, <1>3, <1>5, <1>6, CircleAgain
  <1>8. QED
    BY <1>2, <1>7

LEMMA CircleRemHead ==
  ASSUME NEW s, kind = "circle", CircleHolds(s, head, next, prev, ready), C!RemHead
  PROVE  1 \in 1 .. Len(s) /\ CircleHolds(RemoveAt(s, 1), head', next', prev', ready')
  <1>1. ready /\ head # NULL /\ ready' = ready
    BY DEF C!RemHead
  <1>2. s \in Seq(Entry) /\ s # <<>> /\ head = At(s, 1)
    BY <1>1, CircleBefore
  <1>3. 1 \in 1 .. Len(s)
    BY <1>2
  <1>4. /\ next[head] = Succ(s, 1) /\ prev[head] = Pred(s, 1) /\ (Succ(s, 1) = head <=> Len(s) = 1)
    BY <1>2, <1>3, CircleBeside
  <1>5. CASE Len(s) = 1
    <2>1. head' = NULL /\ next' = next /\ prev' = prev
      BY <1>4, <1>5 DEF C!RemHead, C!Alone
    <2>2. QED
      BY <1>1, <1>3, <1>5, <2>1, CircleLastOut
  <1>6. CASE Len(s) # 1
    <2>1. /\ next' = [next EXCEPT ![Pred(s, 1)] = Succ(s, 1)] /\ prev' = [prev EXCEPT ![Succ(s, 1)] = Pred(s, 1)]
          /\ head' = Succ(s, 1)
      BY <1>4, <1>6 DEF C!RemHead, C!Alone
    <2>2. QED
      BY <1>1, <1>3, <1>6, <2>1, CircleTakenOut
  <1>7. QED
    BY <1>5, <1>6

LEMMA CircleRemTail ==
  ASSUME NEW s, kind = "circle", CircleHolds(s, head, next, prev, ready), C!RemTail, NEW n, n = Len(s)
  PROVE  n \in 1 .. Len(s) /\ CircleHolds(RemoveAt(s, n), head', next', prev', ready')
  <1>1. ready /\ head # NULL /\ ready' = ready
    BY DEF C!RemTail
  <1>2. s \in Seq(Entry) /\ s # <<>> /\ head = At(s, 1)
    BY <1>1, CircleBefore
  <1>3. n \in 1 .. Len(s) /\ 1 \in 1 .. Len(s)
    BY <1>2
  <1>4. /\ next[head] = Succ(s, 1) /\ (Succ(s, 1) = head <=> Len(s) = 1) /\ prev[head] = At(s, n)
    BY <1>2, <1>3, CircleBeside
  <1>5. prev[At(s, n)] = Pred(s, n) /\ Succ(s, n) = head
    BY <1>2, <1>3, CircleBeside
  <1>6. CASE Len(s) = 1
    <2>1. head' = NULL /\ next' = next /\ prev' = prev
      BY <1>4, <1>6 DEF C!RemTail, C!Alone
    <2>2. QED
      BY <1>1, <1>3, <1>6, <2>1, CircleLastOut
  <1>7. CASE Len(s) # 1
    <2>1. /\ next' = [next EXCEPT ![Pred(s, n)] = Succ(s, n)] /\ prev' = [prev EXCEPT ![Succ(s, n)] = Pred(s, n)]
          /\ head' = head
      BY <1>4, <1>5, <1>7 DEF C!RemTail, C!Alone
    <2>2. head' = IF n = 1 THEN Succ(s, n) ELSE head
      BY <1>7, <2>1
    <2>3. QED
      BY <1>1, <1>3, <1>7, <2>1, <2>2, CircleTakenOut
  <1>8. QED
    BY <1>6, <1>7

LEMMA CircleRemEntry ==
  ASSUME NEW s, kind = "circle", CircleHolds(s, head, next, prev, ready), NEW e \in Entry, C!RemEntry(e)
  PROVE  /\ e \in ToSet(s)
         /\ \E i \in 1 .. Len(s) : /\ i = CHOOSE k \in DOMAIN s : s[k] = e
                                   /\ CircleHolds(RemoveAt(s, i), head', next', prev', ready')
  <1>1. e \in C!On /\ ready' = ready
    BY DEF C!RemEntry
  <1>2. ready /\ e \in ToSet(s)
    BY <1>1, CircleBefore
  <1>3. PICK i \in 1 .. Len(s) : At(s, i) = e /\ i = CHOOSE k \in DOMAIN s : s[k] = e
    BY <1>1, CircleBefore
  <1>4. /\ s \in Seq(Entry) /\ Distinct(s) /\ head = At(s, 1)
    BY <1>2, CircleBefore
  <1>5. next[e] = Succ(s, i) /\ prev[e] = Pred(s, i) /\ (Succ(s, i) = e <=> Len(s) = 1)
    BY <1>3, CircleBeside
  <1>6. head = e <=> i = 1
    <2>1. PICK n \in Nat : n = Len(s) /\ \A j, k \in 1 .. n : At(s, j) = At(s, k) => j = k
      BY <1>4, Positions
    <2>2. 1 \in 1 .. n /\ i \in 1 .. n
      BY <2>1
    <2>3. QED
      BY <1>3, <1>4, <2>1, <2>2
  <1>7. CircleHolds(RemoveAt(s, i), head', next', prev', ready')
    <2>1. CASE Len(s) = 1
      <3>1. head' = NULL /\ next' = next /\ prev' = prev
        BY <1>5, <2>1 DEF C!RemEntry
      <3>2. QED
        BY <1>1, <1>2, <2>1, <3>1, CircleLastOut
    <2>2. CASE Len(s) # 1
      <3>1. /\ next' = [next EXCEPT ![Pred(s, i)] = Succ(s, i)] /\ prev' = [prev EXCEPT ![Succ(s, i)] = Pred(s, i)]
            /\ head' = IF i = 1 THEN Succ(s, i) ELSE head
        BY <1>5, <1>6, <2>2 DEF C!RemEntry
      <3>2. QED
        BY <1>1, <1>2, <2>2, <3>1, CircleTakenOut
    <2>3. QED
      BY <2>1, <2>2
  <1>8. QED
    BY <1>2, <1>3, <1>7

(* the head is moved to another entry *)
LEMMA CircleRotate ==
  ASSUME NEW s, kind = "circle", CircleHolds(s, head, next, prev, ready), NEW e \in Entry,
         C!SetHead(e) \/ (e = next[head] /\ (C!Forward \/ C!ReverseHead))
  PROVE  /\ e \in ToSet(s)
         /\ \E i \in 1 .. Len(s) : /\ i = CHOOSE k \in DOMAIN s : s[k] = e
                                   /\ CircleHolds(Turned(s, i), head', next', prev', ready')
  <1>1. head' = e /\ next' = next /\ prev' = prev /\ ready' = ready
    BY DEF C!SetHead, C!Forward, C!ReverseHead
  <1>2. s \in Seq(Entry) /\ Distinct(s)
    BY CircleBefore
  <1>3. ready /\ e \in C!On
    <2>1. CASE C!SetHead(e)
      BY <2>1, CircleBefore DEF C!SetHead
    <2>2. CASE e = next[head] /\ (C!Forward \/ C!ReverseHead)
      <3>1. ready /\ head # NULL
        BY <2>2 DEF C!Forward, C!ReverseHead
      <3>2. s # <<>> /\ head = At(s, 1)
        BY <3>1, CircleBefore
      <3>3. PICK n \in Nat : n = Len(s) /\ 1 \in 1 .. n
        BY <1>2, <3>2
      <3>4. e = Succ(s, 1)
        BY <2>2, <3>2, <3>3, CircleBeside
      <3>5. \E j \in Int : At(s, j) = e
        BY <3>4 DEF Succ
      <3>6. ToSet(s) = {x \in Entry : \E k \in Int : At(s, k) = x}
        BY <1>2, AtIs
      <3>7. C!On = ToSet(s)
        BY CircleSequences DEF C!On, C!ToSet, ToSet
      <3>8. QED
        BY <3>1, <3>5, <3>6, <3>7
    <2>3. QED
      BY <2>1, <2>2
  <1>4. PICK i \in 1 .. Len(s) : At(s, i) = e /\ i = CHOOSE k \in DOMAIN s : s[k] = e
    <2>1. \A x \in C!On : \E i \in 1 .. Len(s) : At(s, i) = x /\ i = CHOOSE k \in DOMAIN s : s[k] = x
      <3>1. SUFFICES ASSUME NEW x \in C!On
                     PROVE  \E i \in 1 .. Len(s) : At(s, i) = x /\ i = CHOOSE k \in DOMAIN s : s[k] = x
        OBVIOUS
      <3>2. QED
        BY <3>1, CircleBefore
    <2>2. QED
      BY <1>3, <2>1, Zenon
  <1>5. e \in ToSet(s) /\ ready = TRUE /\ RingOn(s, next) /\ RingBack(s, prev) /\ next \in Link /\ prev \in Link
    <2>1. e \in ToSet(s)
      BY <1>3, CircleBefore
    <2>2. ready \in BOOLEAN /\ RingOn(s, next) /\ RingBack(s, prev) /\ next \in Link /\ prev \in Link
      BY CircleBefore
    <2>3. QED
      BY <1>3, <2>1, <2>2
  <1>6. PICK r : r = Turned(s, i)
    OBVIOUS
  <1>7. r \in Seq(Entry) /\ Distinct(r) /\ RingOn(r, next) /\ RingBack(r, prev) /\ At(r, 1) = At(s, i)
    BY ONLY <1>2, <1>4, <1>5, <1>6, RingTurned
  <1>8. CircleHolds(r, head', next', prev', ready')
    BY <1>1, <1>4, <1>5, <1>7, Pointers, CircleAgain
  <1>9. QED
    BY <1>4, <1>5, <1>6, <1>8

LEMMA PromiseTurn ==
  ASSUME NEW s \in Seq(Entry), Distinct(s), Sequences = Only(s), NEW i \in 1 .. Len(s), NEW e \in Entry,
         e \in ToSet(s), i = CHOOSE k \in DOMAIN s : s[k] = e, Sequences' = Only(Turned(s, i))
  PROVE  Promise!Turn("circle", e)
  <1>1. "circle" \in Ordered /\ Sequences["circle"] = s
    BY OnlyIs
  <1>2. e \in Promise!ToSet(Sequences["circle"]) /\ Promise!Position("circle", e) = i
    BY <1>1, PromiseOperators, Zenon DEF Promise!Position
  <1>3. Sequences' = [Sequences EXCEPT !["circle"] = Turned(s, i)]
    BY <1>1 DEF Only
  <1>4. Turned(s, i) = SubSeq(s, i, Len(s)) \o SubSeq(s, 1, i - 1)
    BY DEF Turned
  <1>5. Sequences' = [Sequences EXCEPT !["circle"] = SubSeq(@, i, Len(@)) \o SubSeq(@, 1, i - 1)]
    BY <1>1, <1>3, <1>4, Zenon
  <1>6. QED
    BY <1>2, <1>5, Zenon DEF Promise!Turn

LEMMA CircleStep ==
  ASSUME NEW s, kind = "circle", CircleHolds(s, head, next, prev, ready), C!Next, kind' = kind
  PROVE  /\ WrongWay \/ Promise!Next
         /\ \E r : CircleHolds(r, head', next', prev', ready')
  <1>0. kind = "circle" /\ CircleHolds(s, head, next, prev, ready)
    OBVIOUS
  <1>1. s \in Seq(Entry) /\ Distinct(s) /\ Sequences = Only(s)
    BY CircleBefore, CircleSequences
  <1>2. \A r : CircleHolds(r, head', next', prev', ready') => Sequences' = Only(r)
    BY CircleSequencesNext
  <1>3. PICK q, l : q = Only(s) /\ l = "circle"
    OBVIOUS
  <1>4. /\ Sequences = q /\ Lay(q) /\ l \in Ordered /\ q[l] = s
        /\ \A e : Absent(e, s) /\ e # NULL => Free(e, q)
        /\ \A r : Becomes(q, Only(r), l, r)
    BY <1>1, <1>3, OnlyIs
  <1>5. CASE C!CircleInit
    <2>1. CircleHolds(<<>>, head', next', prev', ready')
      BY <1>0, <1>5, CircleInit
    <2>2. call' = Promise!Call("init", l, NULL, NULL)
      BY <1>3, <1>5, CallsAgree, CircleCalls DEF C!CircleInit
    <2>3. Promise!Clear(l)
      BY <1>2, <1>4, <2>1, <2>2 DEF Promise!Clear, Becomes
    <2>4. QED
      BY <1>2, <1>4, <2>1, <2>3 DEF Promise!Next
  <1>6. CASE C!RemHead
    <2>1. 1 \in 1 .. Len(s) /\ CircleHolds(RemoveAt(s, 1), head', next', prev', ready')
      BY <1>0, <1>6, CircleRemHead
    <2>2. call' = Promise!Call("rem_head", l, NULL, NULL)
      BY <1>3, <1>6, CallsAgree, CircleCalls DEF C!RemHead
    <2>3. PICK p : p = Only(RemoveAt(s, 1)) /\ Sequences' = p /\ Becomes(q, p, l, RemoveAt(q[l], 1))
      BY <1>2, <1>4, <2>1
    <2>4. Promise!RemHead(l)
      BY <1>4, <2>1, <2>2, <2>3, PromiseDelete DEF Promise!RemHead
    <2>5. QED
      BY <1>2, <1>4, <2>1, <2>4 DEF Promise!Next
  <1>7. CASE C!RemTail
    <2>1. PICK n : n = Len(s)
      OBVIOUS
    <2>2. n \in 1 .. Len(s) /\ CircleHolds(RemoveAt(s, n), head', next', prev', ready')
      BY <1>0, <1>7, <2>1, CircleRemTail
    <2>3. call' = Promise!Call("rem_tail", l, NULL, NULL)
      BY <1>3, <1>7, CallsAgree, CircleCalls DEF C!RemTail
    <2>4. PICK p : p = Only(RemoveAt(s, n)) /\ Sequences' = p /\ Becomes(q, p, l, RemoveAt(q[l], n))
      BY <1>2, <1>4, <2>2
    <2>5. Promise!Delete(l, n) /\ n = Len(Sequences[l])
      BY <1>4, <2>1, <2>2, <2>4, PromiseDelete
    <2>6. Promise!RemTail(l)
      BY <2>3, <2>5 DEF Promise!RemTail
    <2>7. QED
      BY <1>2, <1>4, <2>2, <2>6 DEF Promise!Next
  <1>8. CASE \E e \in Entry : C!AddHead(e)
    <2>1. PICK e \in Entry : C!AddHead(e)
      BY <1>8
    <2>2. PICK i : i = 1 /\ C!AddHead(e)
      BY <2>1
    <2>3. Absent(e, s) /\ CircleHolds(InsertAt(s, i, e), head', next', prev', ready')
      BY ONLY <1>0, <2>2, e \in Entry, CircleAdd
    <2>4. call' = Promise!Call("add_head", l, e, NULL)
      BY <1>3, <2>1, CallsAgree, CircleCalls DEF C!AddHead
    <2>5. PICK p : p = Only(InsertAt(s, i, e)) /\ Sequences' = p /\ Becomes(q, p, l, InsertAt(q[l], i, e))
      BY <1>2, <1>4, <2>3
    <2>6. Free(e, q)
      BY <1>4, <2>3, Pointers
    <2>7. Promise!Insert(l, e, i)
      BY <1>4, <2>5, <2>6, PromiseInsert
    <2>8. Promise!AddHead(l, e)
      BY <2>2, <2>4, <2>7 DEF Promise!AddHead
    <2>9. QED
      BY <1>2, <1>4, <2>3, <2>8 DEF Promise!Next
  <1>9. CASE \E e \in Entry : C!AddTail(e)
    <2>1. PICK e \in Entry : C!AddTail(e)
      BY <1>9
    <2>2. PICK i : i = Len(s) + 1 /\ C!AddTail(e)
      BY <2>1
    <2>3. Absent(e, s) /\ CircleHolds(InsertAt(s, i, e), head', next', prev', ready')
      BY ONLY <1>0, <2>2, e \in Entry, CircleAdd
    <2>4. call' = Promise!Call("add_tail", l, e, NULL)
      BY <1>3, <2>1, CallsAgree, CircleCalls DEF C!AddTail
    <2>5. PICK p : p = Only(InsertAt(s, i, e)) /\ Sequences' = p /\ Becomes(q, p, l, InsertAt(q[l], i, e))
      BY <1>2, <1>4, <2>3
    <2>6. Free(e, q)
      BY <1>4, <2>3, Pointers
    <2>7. Promise!Insert(l, e, i) /\ i = Len(Sequences[l]) + 1
      BY <1>4, <2>2, <2>5, <2>6, PromiseInsert
    <2>8. Promise!AddTail(l, e)
      BY <2>4, <2>7 DEF Promise!AddTail
    <2>9. QED
      BY <1>2, <1>4, <2>3, <2>8 DEF Promise!Next
  <1>10. CASE \E e \in Entry : C!RemEntry(e)
    <2>1. PICK e \in Entry : C!RemEntry(e)
      BY <1>10
    <2>2. PICK i \in 1 .. Len(s) : /\ e \in ToSet(s) /\ i = CHOOSE k \in DOMAIN s : s[k] = e
                                   /\ CircleHolds(RemoveAt(s, i), head', next', prev', ready')
      BY <1>0, <2>1, CircleRemEntry
    <2>3. call' = Promise!Call("rem_entry", l, e, NULL)
      BY <1>3, <2>1, CallsAgree, CircleCalls DEF C!RemEntry
    <2>4. PICK p : p = Only(RemoveAt(s, i)) /\ Sequences' = p /\ Becomes(q, p, l, RemoveAt(q[l], i))
      <3>1. CircleHolds(RemoveAt(s, i), head', next', prev', ready')
        BY <2>2
      <3>2. Sequences' = Only(RemoveAt(s, i))
        BY <1>2, <3>1, Zenon
      <3>3. Becomes(q, Only(RemoveAt(s, i)), l, RemoveAt(q[l], i))
        BY <1>4, Zenon
      <3>4. QED
        BY <3>2, <3>3, Zenon
    <2>5. Promise!Position(l, e) = i /\ e \in Promise!ToSet(Sequences[l])
      BY <1>4, <2>2, PromiseOperators, Zenon DEF Promise!Position
    <2>6. Promise!Delete(l, i)
      BY <1>4, <2>2, <2>4, PromiseDelete
    <2>7. Promise!RemEntry(l, e)
      BY <2>3, <2>5, <2>6 DEF Promise!RemEntry
    <2>8. QED
      BY <1>2, <1>4, <2>2, <2>7 DEF Promise!Next
  <1>11. ASSUME NEW e \in Entry, C!SetHead(e) \/ (e = next[head] /\ (C!Forward \/ C!ReverseHead))
         PROVE  Promise!Turn("circle", e) /\ \E r : CircleHolds(r, head', next', prev', ready')
    <2>1. PICK i \in 1 .. Len(s) : /\ e \in ToSet(s) /\ i = CHOOSE k \in DOMAIN s : s[k] = e
                                   /\ CircleHolds(Turned(s, i), head', next', prev', ready')
      BY <1>0, <1>11, CircleRotate
    <2>2. Sequences' = Only(Turned(s, i))
      BY <1>2, <2>1
    <2>3. Promise!Turn("circle", e)
      BY <1>1, <1>11, <2>1, <2>2, PromiseTurn
    <2>4. QED
      BY <2>1, <2>3
  <1>12. CASE \E e \in Entry : C!SetHead(e)
    <2>1. PICK e \in Entry : C!SetHead(e)
      BY <1>12
    <2>2. call' = Promise!Call("set_head", "circle", e, NULL)
      BY <2>1, CallsAgree, CircleCalls DEF C!SetHead
    <2>3. Promise!Turn("circle", e) /\ \E r : CircleHolds(r, head', next', prev', ready')
      BY <1>11, <2>1, Zenon
    <2>4. Promise!SetHead("circle", e) /\ "circle" \in Ordered
      BY <1>3, <1>4, <2>2, <2>3, Zenon DEF Promise!SetHead
    <2>5. QED
      BY <2>3, <2>4, Zenon DEF Promise!Next
  <1>13. CASE C!Forward \/ C!ReverseHead
    <2>1. ready /\ head # NULL
      BY <1>13 DEF C!Forward, C!ReverseHead
    <2>2. s # <<>> /\ head = At(s, 1)
      BY <1>0, <2>1, CircleBefore
    <2>3. 1 \in 1 .. Len(s)
      BY <1>1, <2>2
    <2>4. next[head] \in Entry /\ next[head] = Succ(s, 1)
      BY <1>0, <2>2, <2>3, CircleBeside
    <2>5. PICK e \in Entry : e = next[head]
      BY <2>4
    <2>6. Promise!Turn("circle", e) /\ \E r : CircleHolds(r, head', next', prev', ready')
      BY <1>11, <1>13, <2>5, Zenon
    <2>7. CASE C!Forward
      <3>1. call' = Promise!Call("forward", "circle", NULL, NULL)
        BY <2>7, CallsAgree, CircleCalls DEF C!Forward
      <3>2. e = IF Len(s) = 1 THEN s[1] ELSE s[2]
        <4>1. PICK n \in Nat : n = Len(s) /\ 1 \in 1 .. n
          BY <1>1, <2>3
        <4>2. n = 1 => e = s[1]
          BY <2>4, <2>5, <4>1 DEF Succ, At
        <4>3. n # 1 => e = s[2]
          BY <2>4, <2>5, <4>1 DEF Succ, At
        <4>4. QED
          BY <4>1, <4>2, <4>3, Zenon
      <3>3. Sequences["circle"] = s /\ "circle" \in Ordered
        BY <1>3, <1>4, Zenon
      <3>4. Promise!Forward("circle")
        BY <2>2, <2>6, <3>1, <3>2, <3>3, Zenon DEF Promise!Forward
      <3>5. QED
        BY <2>6, <3>3, <3>4, Zenon DEF Promise!Next
    <2>8. CASE C!ReverseHead
      <3>1. call'.op = "reverse"
        BY <2>8 DEF C!ReverseHead, C!Call
      <3>2. QED
        BY <2>6, <3>1, Zenon DEF WrongWay
    <2>9. QED
      BY <1>13, <2>7, <2>8
  <1>14. QED
    BY <1>5, <1>6, <1>7, <1>8, <1>9, <1>10, <1>12, <1>13, Zenon DEF C!Next

-----------------------------------------------------------------------------
(* The inductive invariant: whatever kind is used, there are sequences of     *)
(* distinct entries which its links link and its headers enclose, unless it   *)
(* is a queue whose last entry QUEUE_REM_AFTER has removed.                   *)

Linked == \/ \E q : ListHolds(q)
          \/ \E q : kind = "heap" /\ HeapHolds(q, head, next, prev, ready)
          \/ \E q : kind = "queue" /\ QueueHolds(q, head, tail, top, next, ready)
          \/ \E s : kind = "circle" /\ CircleHolds(s, head, next, prev, ready)

Enclosed == Linked \/ (kind = "queue" /\ strayed)

Empty == [l \in Ordered |-> <<>>]

LEMMA EmptyLay == Lay(Empty) /\ (\A f : AllOnward(Empty, f) /\ AllBack(Empty, f)) /\ \A l \in Ordered : Empty[l] = <<>>
  <1>1. <<>> \in Seq(Entry) /\ \A i \in Int : At(<<>>, i) = NULL
    BY DEF At
  <1>2. Empty \in [Ordered -> Seq(Entry)] /\ \A l \in Ordered : Empty[l] = <<>>
    BY <1>1 DEF Empty
  <1>3. Distinct(<<>>) /\ \A f : Onward(<<>>, f) /\ Back(<<>>, f)
    BY <1>1 DEF Distinct, Onward, Back
  <1>4. (\A l \in Ordered : Distinct(Empty[l])) /\ \A f : AllOnward(Empty, f) /\ AllBack(Empty, f)
    BY <1>2, <1>3 DEF AllOnward, AllBack
  <1>5. Apart(Empty)
    BY <1>1, <1>2 DEF Apart
  <1>6. QED
    BY <1>2, <1>4, <1>5 DEF Lay

LEMMA LinkedStart == Init => Linked /\ Sequences = Empty /\ call = NoCall
  <1>1. Lay(Empty) /\ (\A f : AllOnward(Empty, f) /\ AllBack(Empty, f)) /\ \A l \in Ordered : Empty[l] = <<>>
    BY EmptyLay
  <1>2. ASSUME kind = "list", L!Init PROVE Linked /\ Sequences = Empty /\ call = NoCall
    <2>1. /\ head \in [Headers -> Pointer] /\ tail = head /\ next \in Link /\ prev = next /\ ready = {}
          /\ call = NoCall
      BY <1>2 DEF L!Init, L!Unwritten, L!Pointer, Pointer, Link, L!NoCall, NoCall, L!Call, Call
    <2>2. Holds(Empty, head, tail, next, prev, ready)
      BY <1>1, <2>1 DEF Holds
    <2>3. QED
      BY <1>2, <2>1, <2>2, ListSequences DEF Linked, ListHolds
  <1>3. ASSUME kind = "heap", H!Init PROVE Linked /\ Sequences = Empty /\ call = NoCall
    <2>1. head \in Pointer /\ next \in Link /\ prev = next /\ ready = FALSE /\ call = NoCall
      BY <1>3 DEF H!Init, H!Unwritten, H!Pointer, Pointer, Link, H!NoCall, NoCall, H!Call, Call
    <2>2. HeapHolds(Empty, head, next, prev, ready)
      BY <1>1, <2>1 DEF HeapHolds
    <2>3. QED
      BY <1>3, <2>1, <2>2, HeapSequences DEF Linked
  <1>4. ASSUME kind = "queue", Q!Init PROVE Linked /\ Sequences = Empty /\ call = NoCall
    <2>1. /\ head \in Pointer /\ tail = head /\ top = head /\ next \in Link /\ ready = {}
          /\ call = NoCall
      BY <1>4 DEF Q!Init, Q!Unwritten, Q!Pointer, Pointer, Link, Q!NoCall, NoCall, Q!Call, Call
    <2>2. QueueHolds(Empty, head, tail, top, next, ready)
      BY <1>1, <2>1 DEF QueueHolds
    <2>3. QED
      BY <1>4, <2>1, <2>2, QueueSequences DEF Linked
  <1>5. ASSUME kind = "circle", C!Init PROVE Linked /\ Sequences = Empty /\ call = NoCall
    <2>1. head \in Pointer /\ next \in Link /\ prev = next /\ ready = FALSE /\ call = NoCall
      BY <1>5 DEF C!Init, C!Unwritten, C!Pointer, Pointer, Link, C!NoCall, NoCall, C!Call, Call
    <2>2. <<>> \in Seq(Entry) /\ Len(<<>>) = 0 /\ \A i \in Int : At(<<>>, i) = NULL
      BY DEF At
    <2>3. Distinct(<<>>) /\ \A f : RingOn(<<>>, f) /\ RingBack(<<>>, f)
      BY <2>2 DEF Distinct, RingOn, RingBack
    <2>4. CircleHolds(<<>>, head, next, prev, ready)
      BY <2>1, <2>2, <2>3 DEF CircleHolds
    <2>5. Only(<<>>) = Empty
      BY DEF Only, Empty
    <2>6. QED
      BY <1>5, <2>1, <2>4, <2>5, CircleSequences DEF Linked
  <1>6. QED
    BY <1>2, <1>3, <1>4, <1>5 DEF Init

LEMMA LinkedStep == Linked /\ Next => Enclosed' /\ (WrongWay \/ Promise!Next)
  <1> SUFFICES ASSUME Linked, Next PROVE Enclosed' /\ (WrongWay \/ Promise!Next)
    OBVIOUS
  <1>0. kind' = kind
    BY DEF Next
  <1>1. CASE \E q : ListHolds(q)
    <2>1. PICK q : ListHolds(q)
      BY <1>1
    <2>2. kind = "list" /\ L!Next
      BY <2>1 DEF ListHolds, Next
    <2>3. \E p : ListHolds(p)' /\ Sequences' = p /\ Promise!Next
      BY <1>0, <2>1, <2>2, ListStep
    <2>4. QED
      BY <2>3, Zenon DEF Linked, Enclosed
  <1>2. CASE \E q : kind = "heap" /\ HeapHolds(q, head, next, prev, ready)
    <2>1. PICK q : kind = "heap" /\ HeapHolds(q, head, next, prev, ready)
      BY <1>2
    <2>2. H!Next
      BY <2>1 DEF Next
    <2>3. \E p : HeapHolds(p, head', next', prev', ready') /\ Sequences' = p /\ Promise!Next
      BY <1>0, <2>1, <2>2, HeapStep
    <2>4. QED
      BY <1>0, <2>1, <2>3, Zenon DEF Linked, Enclosed
  <1>3. CASE \E q : kind = "queue" /\ QueueHolds(q, head, tail, top, next, ready)
    <2>1. PICK q : kind = "queue" /\ QueueHolds(q, head, tail, top, next, ready)
      BY <1>3
    <2>2. Q!Next
      BY <2>1 DEF Next
    <2>3. Promise!Next /\ (strayed' \/ \E p : QueueHolds(p, head', tail', top', next', ready'))
      BY <1>0, <2>1, <2>2, QueueStep
    <2>4. QED
      BY <1>0, <2>1, <2>3, Zenon DEF Linked, Enclosed
  <1>4. CASE \E s : kind = "circle" /\ CircleHolds(s, head, next, prev, ready)
    <2>1. PICK s : kind = "circle" /\ CircleHolds(s, head, next, prev, ready)
      BY <1>4
    <2>2. C!Next
      BY <2>1 DEF Next
    <2>3. /\ WrongWay \/ Promise!Next
          /\ \E r : CircleHolds(r, head', next', prev', ready')
      BY <1>0, <2>1, <2>2, CircleStep
    <2>4. QED
      BY <1>0, <2>1, <2>3, Zenon DEF Linked, Enclosed
  <1>5. QED
    BY <1>1, <1>2, <1>3, <1>4 DEF Linked

LEMMA LinkedStutter == Linked /\ UNCHANGED vars => Linked' /\ UNCHANGED <<Sequences, call>>
  <1> SUFFICES ASSUME Linked, UNCHANGED vars PROVE Linked' /\ UNCHANGED <<Sequences, call>>
    OBVIOUS
  <1>0. /\ kind' = kind /\ head' = head /\ tail' = tail /\ top' = top
        /\ next' = next /\ prev' = prev /\ ready' = ready /\ call' = call
    BY DEF vars
  <1>1. CASE \E q : ListHolds(q)
    <2>1. PICK q : ListHolds(q)
      BY <1>1
    <2>2. kind' = "list" /\ Holds(q, head', tail', next', prev', ready')
      BY <1>0, <2>1 DEF ListHolds
    <2>3. Sequences = q /\ Sequences' = q
      BY <2>1, <2>2, ListSequences, ListSequencesNext DEF ListHolds
    <2>4. QED
      BY <1>0, <2>2, <2>3, Zenon DEF Linked, ListHolds
  <1>2. CASE \E q : kind = "heap" /\ HeapHolds(q, head, next, prev, ready)
    <2>1. PICK q : kind = "heap" /\ HeapHolds(q, head, next, prev, ready)
      BY <1>2
    <2>2. kind' = "heap" /\ HeapHolds(q, head', next', prev', ready')
      BY <1>0, <2>1
    <2>3. Sequences = q /\ Sequences' = q
      BY <2>1, <2>2, HeapSequences, HeapSequencesNext
    <2>4. QED
      BY <1>0, <2>2, <2>3, Zenon DEF Linked
  <1>3. CASE \E q : kind = "queue" /\ QueueHolds(q, head, tail, top, next, ready)
    <2>1. PICK q : kind = "queue" /\ QueueHolds(q, head, tail, top, next, ready)
      BY <1>3
    <2>2. kind' = "queue" /\ QueueHolds(q, head', tail', top', next', ready')
      BY <1>0, <2>1
    <2>3. Sequences = q /\ Sequences' = q
      BY <2>1, <2>2, QueueSequences, QueueSequencesNext
    <2>4. QED
      BY <1>0, <2>2, <2>3, Zenon DEF Linked
  <1>4. CASE \E s : kind = "circle" /\ CircleHolds(s, head, next, prev, ready)
    <2>1. PICK s : kind = "circle" /\ CircleHolds(s, head, next, prev, ready)
      BY <1>4
    <2>2. kind' = "circle" /\ CircleHolds(s, head', next', prev', ready')
      BY <1>0, <2>1
    <2>3. Sequences = Only(s) /\ Sequences' = Only(s)
      BY <2>1, <2>2, CircleSequences, CircleSequencesNext
    <2>4. QED
      BY <1>0, <2>2, <2>3, Zenon DEF Linked
  <1>5. QED
    BY <1>1, <1>2, <1>3, <1>4 DEF Linked

(* a queue that has gone astray stays so *)
LEMMA StrayedStep == kind = "queue" /\ strayed /\ [Next]_vars => kind' = "queue" /\ strayed'
  <1> SUFFICES ASSUME kind = "queue", strayed, [Next]_vars PROVE kind' = "queue" /\ strayed'
    OBVIOUS
  <1>1. CASE UNCHANGED vars
    BY <1>1 DEF vars
  <1>2. CASE Next
    <2>1. kind' = "queue" /\ Q!Next
      BY <1>2 DEF Next
    <2>2. \/ UNCHANGED strayed
          \/ \E e, at \in Entry : Q!RemAfter(at, e)
      BY <2>1, Zenon DEF Q!Next, Q!QueueInit, Q!AddTail, Q!RemHead, Q!InsertAfter, Q!RemAfterNull,
                  Q!StackInit, Q!StackAddHead, Q!StackRemHead, Q!StackInsertAfter
    <2>3. strayed'
      BY <2>2, Zenon DEF Q!RemAfter
    <2>4. QED
      BY <2>1, <2>3
  <1>3. QED
    BY <1>1, <1>2

LEMMA EnclosedStep ==
  Enclosed /\ [Next]_vars => Enclosed' /\ [strayed \/ WrongWay \/ Promise!Next]_<<Sequences, call>>
  <1> SUFFICES ASSUME Enclosed, [Next]_vars
               PROVE  Enclosed' /\ [strayed \/ WrongWay \/ Promise!Next]_<<Sequences, call>>
    OBVIOUS
  <1>1. CASE kind = "queue" /\ strayed
    <2>1. kind' = "queue" /\ strayed'
      BY <1>1, StrayedStep
    <2>2. QED
      BY <1>1, <2>1, Zenon DEF Enclosed
  <1>2. CASE Linked /\ Next
    BY <1>2, LinkedStep, Zenon
  <1>3. CASE Linked /\ UNCHANGED vars
    BY <1>3, LinkedStutter, Zenon DEF Enclosed
  <1>4. QED
    BY <1>1, <1>2, <1>3, Zenon DEF Enclosed

(* Every macro of every kind but CIRCLEQ_REVERSE does to the sequence its header
   stands for what ListSpec says of the call, and nothing to the others, for any
   number of entries and lists and any calls callers may make, as long as
   QUEUE_REM_AFTER has not removed the last entry of a queue; CIRCLEQ_REVERSE
   keeps the circular order. *)
THEOREM MacrosKeepPromise == Spec => IsSequence
  <1>1. Init => Enclosed /\ Promise!Init
    BY LinkedStart, CallsAgree DEF Promise!Init, Empty, NoCall, Promise!NoCall, Enclosed
  <1>2. QED
    BY <1>1, EnclosedStep, PTL DEF Spec, IsSequence

-----------------------------------------------------------------------------
(* what headers and ways back say of the sequences *)

LEMMA EnclosedRight == Enclosed => HeadersRight
  <1> SUFFICES ASSUME Enclosed PROVE HeadersRight
    OBVIOUS
  <1>1. CASE \E q : ListHolds(q)
    <2>1. PICK q : kind = "list" /\ Holds(q, head, tail, next, prev, ready)
      BY <1>1 DEF ListHolds
    <2>2. \A s : L!Reverse(s) = Reverse(s)
      BY Zenon DEF L!Reverse, Reverse
    <2>3. ASSUME NEW l \in ready
          PROVE  (head[l] = NULL <=> tail[l] = NULL) /\ L!Chain(tail[l], prev) = L!Reverse(L!Seqn(l))
      <3>1. l \in Headers /\ l \in Ordered
        BY <2>1 DEF Holds, Ordered
      <3>2. L!Seqn(l) = q[l] /\ L!Chain(tail[l], prev) = Reverse(q[l])
        BY <2>1, <3>1, ListFound, ListSequences
      <3>3. head[l] = At(q[l], 1) /\ tail[l] = At(q[l], Len(q[l])) /\ Lay(q)
        BY <2>1 DEF Holds
      <3>4. Len(q[l]) \in Nat /\ \A i \in Int : At(q[l], i) # NULL <=> i \in 1 .. Len(q[l])
        BY <3>1, <3>3, OnList
      <3>5. head[l] = NULL <=> tail[l] = NULL
        BY <3>3, <3>4
      <3>6. QED
        BY <2>2, <3>2, <3>5, Zenon
    <2>4. L!Mirrored
      BY <2>3, Zenon DEF L!Mirrored
    <2>5. QED
      BY <2>1, <2>4 DEF HeadersRight
  <1>2. CASE \E q : kind = "heap" /\ HeapHolds(q, head, next, prev, ready)
    <2>1. PICK q : kind = "heap" /\ HeapHolds(q, head, next, prev, ready)
      BY <1>2
    <2>2. PICK s : s = q["heap"] /\ H!Heap = s
      BY <2>1, HeapSequences
    <2>3. s \in Seq(Entry) /\ Back(s, prev)
      BY <2>1, <2>2, HeapOrdered DEF HeapHolds, Lay, AllBack
    <2>4. ASSUME NEW i \in DOMAIN s PROVE prev[s[i]] = IF i = 1 THEN NULL ELSE s[i - 1]
      <3>1. i \in 1 .. Len(s) /\ i \in Int /\ i - 1 \in Int
        BY <2>3
      <3>2. At(s, i) = s[i] /\ s[i] # NULL
        BY <2>3, <3>1, AtIs, Pointers
      <3>3. prev[s[i]] = At(s, i - 1)
        BY <2>3, <3>1, <3>2 DEF Back
      <3>4. At(s, i - 1) = IF i = 1 THEN NULL ELSE s[i - 1]
        BY <2>3, <3>1 DEF At
      <3>5. QED
        BY <3>3, <3>4
    <2>5. H!Mirrored
      BY <2>2, <2>4, Zenon DEF H!Mirrored
    <2>6. QED
      BY <2>1, <2>5 DEF HeadersRight
  <1>3. CASE \E q : kind = "queue" /\ QueueHolds(q, head, tail, top, next, ready)
    <2>1. PICK q : kind = "queue" /\ QueueHolds(q, head, tail, top, next, ready)
      BY <1>3
    <2>2. PICK s : s = q["queue"] /\ Q!Seqn("queue") = s
      BY <2>1, QueueSequences
    <2>3. ASSUME "queue" \in ready PROVE tail = IF Q!Queue = <<>> THEN NULL ELSE Q!Last(Q!Queue)
      <3>1. Q!Queue = s
        BY <2>2, <2>3 DEF Q!Seqn
      <3>2. s \in Seq(Entry) /\ tail = At(s, Len(s))
        BY <2>1, <2>2, <2>3, QueueOrdered DEF QueueHolds, Lay
      <3>3. At(s, Len(s)) = IF s = <<>> THEN NULL ELSE s[Len(s)]
        BY <3>2 DEF At
      <3>4. QED
        BY <3>1, <3>2, <3>3 DEF Q!Last
    <2>4. Q!TailIsLast
      BY <2>3 DEF Q!TailIsLast
    <2>5. QED
      BY <2>1, <2>4, Zenon DEF HeadersRight
  <1>4. CASE \E s : kind = "circle" /\ CircleHolds(s, head, next, prev, ready)
    <2>1. PICK s : kind = "circle" /\ CircleHolds(s, head, next, prev, ready)
      BY <1>4
    <2>2. C!Circle = s /\ \A l : C!Around(l) = Round(head, l)
      BY <2>1, CircleSequences, CircleRound
    <2>3. \A r : C!Reverse(r) = Reverse(r)
      BY Zenon DEF C!Reverse, Reverse
    <2>4. ASSUME ready
          PROVE  Round(head, prev) = IF head = NULL THEN <<>> ELSE <<head>> \o Reverse(Tail(s))
      <3>1. /\ s \in Seq(Entry) /\ Distinct(s) /\ RingBack(s, prev) /\ prev \in Link
            /\ head = At(s, 1) /\ (head = NULL <=> s = <<>>)
        BY <2>1, <2>4, CircleBefore
      <3>2. CASE head = NULL
        <4>1. s = <<>> /\ Len(s) = 0
          BY <3>1, <3>2
        <4>2. RingOn(s, prev)
          BY <4>1 DEF RingOn
        <4>3. Round(At(s, 1), prev) = s
          BY <3>1, <4>2, RoundIs
        <4>4. QED
          BY <3>1, <3>2, <4>1, <4>3
      <3>3. CASE head # NULL
        <4>1. Round(At(s, 1), prev) = <<At(s, 1)>> \o Reverse(Tail(s))
          BY <3>1, <3>3, RoundBackIs
        <4>2. QED
          BY <3>1, <3>3, <4>1
      <3>4. QED
        BY <3>2, <3>3
    <2>5. C!Mirrored
      BY <2>2, <2>3, <2>4, Zenon DEF C!Mirrored
    <2>6. QED
      BY <2>1, <2>5 DEF HeadersRight
  <1>5. CASE kind = "queue" /\ strayed
    BY <1>5 DEF HeadersRight
  <1>6. QED
    BY <1>1, <1>2, <1>3, <1>4, <1>5, Zenon DEF Linked, Enclosed

(* The tail pointer of a header and the links back name what one meets by
   following the links from the head, for every kind of list and any calls; the
   tail of a queue as long as QUEUE_REM_AFTER has not removed a last entry. *)
THEOREM HeadersAreRight == Spec => []HeadersRight
  <1>1. Init => Enclosed
    BY LinkedStart DEF Enclosed
  <1>2. Enclosed /\ [Next]_vars => Enclosed'
    BY EnclosedStep
  <1>3. QED
    BY <1>1, <1>2, EnclosedRight, PTL DEF Spec
=============================================================================
