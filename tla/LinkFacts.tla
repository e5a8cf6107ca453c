------------------------------ MODULE LinkFacts -------------------------------
(***************************************************************************)
(* Lemmas about linked entries, for any number of them: what one finds by  *)
(* following links, and what putting an entry in, taking one out, joining  *)
(* two lists or turning a ring does to the sequences that are linked.      *)
(***************************************************************************)
EXTENDS Links, FiniteSetTheorems, WellFoundedInduction, TLAPS

-----------------------------------------------------------------------------
(* Induction on the naturals, with a set in the place of a predicate *)

(* the order of the naturals as a relation, which is well founded *)
Less == {ss \in Nat \X Nat : ss[1] < ss[2]}

LEMMA LessWellFounded == IsWellFoundedOn(Less, Nat)
  BY NatLessThanWellFounded DEF OpToRel, Less

LEMMA LeastExists ==
  ASSUME NEW S \in SUBSET Nat, S # {}
  PROVE  \E x \in S : \A y \in S : x <= y
  <1>1. \E x \in S : \A y \in S : ~ (<<y, x>> \in Less)
    BY WFMin, LessWellFounded
  <1>2. \A x, y \in Nat : ~ (<<y, x>> \in Less) => x <= y
    BY DEF Less
  <1>3. QED
    BY <1>1, <1>2

(* a set that holds 0, and with every natural the next one, holds them all *)
LEMMA Induction ==
  ASSUME NEW S, 0 \in S, \A n \in Nat : n \in S => n + 1 \in S
  PROVE  Nat \subseteq S
  <1>1. SUFFICES ASSUME Nat \ S # {} PROVE FALSE
    OBVIOUS
  <1>2. PICK x \in Nat \ S : \A y \in Nat \ S : x <= y
    BY <1>1, LeastExists
  <1>3. x # 0 /\ x - 1 \in Nat
    BY <1>2
  <1>4. x - 1 \in S
    BY <1>2, <1>3
  <1>5. (x - 1) + 1 \in S
    BY <1>3, <1>4
  <1>6. QED
    BY <1>2, <1>3, <1>5


(* a pointer field of all entries *)
Link == [Entry -> Pointer]

LEMMA Pointers == NULL \in Pointer /\ Entry \subseteq Pointer /\ NULL \notin Entry
  BY LinksAssumption DEF Pointer

-----------------------------------------------------------------------------
(* Chain: the function it recurs by exists, and it finds what is linked *)

(* the entries met from e on, n of them at most, if g says it of one less *)
Further(g, link, n) ==
  [e \in Pointer |-> IF e = NULL \/ n = 0 THEN <<>> ELSE <<e>> \o g[n - 1][link[e]]]

Follows(g, link, k) == g = [n \in 0 .. k |-> Further(g, link, n)]

LEMMA FollowsExists ==
  ASSUME NEW link
  PROVE  \A k \in Nat : \E g : Follows(g, link, k)
  <1> DEFINE S == {k \in Nat : \E g : Follows(g, link, k)}
  <1>1. 0 \in S
    <2>1. PICK g : g = [n \in 0 .. 0 |-> [e \in Pointer |-> <<>>]]
      OBVIOUS
    <2>2. \A n \in 0 .. 0 : Further(g, link, n) = [e \in Pointer |-> <<>>]
      BY DEF Further
    <2>3. Follows(g, link, 0)
      BY <2>1, <2>2 DEF Follows
    <2>4. QED
      BY <2>3
  <1>2. ASSUME NEW k \in Nat, k \in S PROVE k + 1 \in S
    <2>1. PICK g : Follows(g, link, k)
      BY <1>2
    <2>2. PICK h : h = [n \in 0 .. k + 1 |-> Further(g, link, n)]
      OBVIOUS
    <2>3. ASSUME NEW n \in 0 .. k PROVE h[n] = g[n]
      <3>1. n \in 0 .. k + 1
        OBVIOUS
      <3>2. g[n] = Further(g, link, n)
        BY <2>1, Zenon DEF Follows
      <3>3. h[n] = Further(g, link, n)
        BY <2>2, <3>1, Zenon
      <3>4. QED
        BY <3>2, <3>3, Zenon
    <2>4. ASSUME NEW n \in 0 .. k + 1 PROVE Further(g, link, n) = Further(h, link, n)
      <3>1. CASE n = 0
        BY <3>1, Zenon DEF Further
      <3>2. CASE n # 0
        <4>1. n - 1 \in 0 .. k
          BY <3>2
        <4>2. h[n - 1] = g[n - 1]
          BY <2>3, <4>1, Zenon
        <4>3. QED
          BY <4>2, Zenon DEF Further
      <3>3. QED
        BY <3>1, <3>2, Zenon
    <2>5. Follows(h, link, k + 1)
      BY <2>2, <2>4, Zenon DEF Follows
    <2>6. k + 1 \in Nat
      OBVIOUS
    <2>7. QED
      BY <2>5, <2>6, Zenon
  <1>3. Nat \subseteq S
    <2> HIDE DEF S
    <2>1. \A k \in Nat : k \in S => k + 1 \in S
      BY <1>2
    <2>2. QED
      BY <1>1, <2>1, Induction
  <1>4. QED
    BY <1>3

LEMMA ChainFollows ==
  ASSUME NEW link, NEW first, NEW k \in Nat, k = Cardinality(Entry) + 1
  PROVE  \E g : Follows(g, link, k) /\ Chain(first, link) = g[k][first]
  <1> DEFINE F == CHOOSE g : Follows(g, link, k)
  <1>1. \E g : Follows(g, link, k)
    BY FollowsExists, Zenon
  <1>2. Follows(F, link, k)
    BY <1>1, Zenon
  <1>3. Chain(first, link) = F[k][first]
    BY k = Cardinality(Entry) + 1, Zenon DEF Chain, Follows, Further
  <1>4. QED
    BY <1>2, <1>3, Zenon

-----------------------------------------------------------------------------
(* Sequences without repetition, and the entry before or after one of them *)

Once(s) == s \in Seq(Entry) /\ \A i, j \in 1 .. Len(s) : s[i] = s[j] => i = j

At(s, i) == IF i \in 1 .. Len(s) THEN s[i] ELSE NULL

Forward(s, link) == \A i \in 1 .. Len(s) : link[s[i]] = At(s, i + 1)
Backward(s, link) == \A i \in 1 .. Len(s) : link[s[i]] = At(s, i - 1)

LEMMA SameSequence ==
  ASSUME NEW S, NEW s \in Seq(S), NEW t \in Seq(S), Len(s) = Len(t),
         \A i \in 1 .. Len(s) : s[i] = t[i]
  PROVE  s = t
  OBVIOUS

LEMMA OnceFits ==
  ASSUME NEW s, Once(s)
  PROVE  /\ Len(s) \in Nat /\ Cardinality(Entry) \in Nat /\ Len(s) <= Cardinality(Entry)
  <1>1. IsFiniteSet(Entry)
    BY LinksAssumption
  <1>2. s \in Seq(Entry) /\ Len(s) \in Nat /\ s \in [1 .. Len(s) -> Entry]
    BY DEF Once
  <1>3. s \in Injection(1 .. Len(s), Entry)
    BY <1>2, Zenon DEF Once, Injection, IsInjective
  <1>4. Cardinality(1 .. Len(s)) = Len(s)
    BY <1>2, FS_Interval
  <1>5. Cardinality(1 .. Len(s)) <= Cardinality(Entry)
    BY <1>1, <1>3, FS_Injection, Zenon
  <1>6. Cardinality(Entry) \in Nat
    BY <1>1, FS_CardinalityType
  <1>7. QED
    BY <1>2, <1>4, <1>5, <1>6

LEMMA Prefixed ==
  ASSUME NEW e \in Entry, NEW r \in Seq(Entry)
  PROVE  /\ <<e>> \o r \in Seq(Entry) /\ Len(<<e>> \o r) = Len(r) + 1
         /\ (<<e>> \o r)[1] = e /\ \A j \in 1 .. Len(r) : (<<e>> \o r)[j + 1] = r[j]
  OBVIOUS

(* the last entries of s, from the i-th on *)
Rest(s, i) == [j \in 1 .. Len(s) - i + 1 |-> s[j + i - 1]]

LEMMA RestIs ==
  ASSUME NEW s \in Seq(Entry)
  PROVE  /\ Rest(s, 1) = s /\ Rest(s, Len(s) + 1) = <<>>
         /\ \A i \in 1 .. Len(s) : <<s[i]>> \o Rest(s, i + 1) = Rest(s, i)
  <1>1. \A i \in 1 .. Len(s) + 1 : Rest(s, i) \in Seq(Entry) /\ Len(Rest(s, i)) = Len(s) - i + 1
    BY DEF Rest
  <1>2. Rest(s, 1) = s
    <2>1. \A j \in 1 .. Len(s) : Rest(s, 1)[j] = s[j]
      BY DEF Rest
    <2>2. Rest(s, 1) \in Seq(Entry) /\ Len(Rest(s, 1)) = Len(s)
      BY <1>1
    <2>3. QED
      BY <2>1, <2>2, SameSequence
  <1>3. Rest(s, Len(s) + 1) = <<>>
    BY <1>1
  <1>4. ASSUME NEW i \in 1 .. Len(s) PROVE <<s[i]>> \o Rest(s, i + 1) = Rest(s, i)
    <2>0. i + 1 \in 1 .. Len(s) + 1 /\ i \in 1 .. Len(s) + 1 /\ s[i] \in Entry
      OBVIOUS
    <2>1. PICK r \in Seq(Entry), t \in Seq(Entry) : r = Rest(s, i + 1) /\ t = Rest(s, i)
      BY <1>1, <2>0
    <2>2. Len(r) = Len(s) - i /\ Len(t) = Len(s) - i + 1
      <3>1. Len(Rest(s, i + 1)) = Len(s) - (i + 1) + 1 /\ Len(Rest(s, i)) = Len(s) - i + 1
        BY ONLY <1>1, <2>0
      <3>2. Len(s) \in Nat
        OBVIOUS
      <3>3. Len(r) = Len(s) - (i + 1) + 1 /\ Len(t) = Len(s) - i + 1
        BY <2>1, <3>1, Zenon
      <3>4. QED
        BY ONLY <3>2, <3>3, i \in 1 .. Len(s)
    <2>3. /\ \A j \in 1 .. Len(s) - i : r[j] = s[j + i]
          /\ \A j \in 1 .. Len(s) - i + 1 : t[j] = s[j + i - 1]
      BY <2>1 DEF Rest
    <2>4. PICK u \in Seq(Entry) : u = <<s[i]>> \o r
      BY <2>0, Prefixed
    <2>5. Len(u) = Len(r) + 1 /\ u[1] = s[i] /\ \A j \in 1 .. Len(r) : u[j + 1] = r[j]
      BY <2>0, <2>4, Prefixed
    <2>6. ASSUME NEW j \in 1 .. Len(u) PROVE u[j] = t[j]
      <3>1. CASE j = 1
        BY <2>2, <2>3, <2>5, <3>1
      <3>2. CASE j > 1
        <4>1. PICK l \in 1 .. Len(r) : j = l + 1
          <5>1. j - 1 \in 1 .. Len(r) /\ j = (j - 1) + 1
            BY <2>5, <3>2
          <5>2. QED
            BY <5>1
        <4>2. u[j] = r[l]
          BY <2>5, <4>1
        <4>3. r[l] = s[l + i] /\ t[j] = s[j + i - 1] /\ l + i = j + i - 1
          BY <2>2, <2>3, <4>1
        <4>4. QED
          BY <4>2, <4>3
      <3>3. QED
        BY <3>1, <3>2
    <2>7. u = t
      <3>1. Len(u) = Len(t)
        BY <2>2, <2>5
      <3>2. QED
        BY <2>6, <3>1, SameSequence
    <2>8. QED
      BY <2>1, <2>4, <2>7, Zenon
  <1>5. QED
    BY <1>2, <1>3, <1>4

(* LIST_NEXT, from entry to entry, yields the sequence that is linked *)
LEMMA ChainIs ==
  ASSUME NEW s, NEW link, Once(s), Forward(s, link)
  PROVE  Chain(At(s, 1), link) = s
  <1>1. PICK k \in Nat : k = Cardinality(Entry) + 1
    BY OnceFits
  <1>2. PICK g : Follows(g, link, k) /\ Chain(At(s, 1), link) = g[k][At(s, 1)]
    BY ONLY k \in Nat, <1>1, ChainFollows
  <1>3. s \in Seq(Entry) /\ Len(s) \in Nat /\ Len(s) < k
    BY <1>1, OnceFits DEF Once
  <1>4. \A n \in 0 .. k, e \in Pointer :
          g[n][e] = IF e = NULL \/ n = 0 THEN <<>> ELSE <<e>> \o g[n - 1][link[e]]
    <2>1. ASSUME NEW n \in 0 .. k, NEW e \in Pointer
          PROVE  g[n][e] = IF e = NULL \/ n = 0 THEN <<>> ELSE <<e>> \o g[n - 1][link[e]]
      <3>1. g[n] = Further(g, link, n)
        BY <1>2, Zenon DEF Follows
      <3>2. Further(g, link, n)[e] = IF e = NULL \/ n = 0 THEN <<>> ELSE <<e>> \o g[n - 1][link[e]]
        BY Zenon DEF Further
      <3>3. QED
        BY <3>1, <3>2, Zenon
    <2>2. QED
      BY <2>1, Zenon
  <1> DEFINE Found(d) == \A i \in 1 .. Len(s) + 1, n \in 0 .. k :
                           i + d = Len(s) + 1 /\ n >= d => g[n][At(s, i)] = Rest(s, i)
             S == {d \in Nat : Found(d)}
  <1>5. 0 \in S
    <2>1. ASSUME NEW i \in 1 .. Len(s) + 1, NEW n \in 0 .. k, i + 0 = Len(s) + 1
          PROVE  g[n][At(s, i)] = Rest(s, i)
      <3>1. i = Len(s) + 1
        BY <1>3, <2>1
      <3>2. At(s, i) = NULL /\ NULL \in Pointer
        BY <1>3, <3>1, Pointers DEF At
      <3>3. g[n][NULL] = <<>>
        BY <1>4, <3>2, Zenon
      <3>4. QED
        BY <1>3, <3>1, <3>2, <3>3, RestIs
    <2>2. QED
      BY <2>1
  <1>6. ASSUME NEW d \in Nat, d \in S PROVE d + 1 \in S
    <2>1. ASSUME NEW i \in 1 .. Len(s) + 1, NEW n \in 0 .. k, i + (d + 1) = Len(s) + 1, n >= d + 1
          PROVE  g[n][At(s, i)] = Rest(s, i)
      <3>1. i \in 1 .. Len(s) /\ i + 1 \in 1 .. Len(s) + 1 /\ (i + 1) + d = Len(s) + 1
        BY <1>3, <2>1
      <3>2. At(s, i) = s[i] /\ s[i] \in Entry /\ link[s[i]] = At(s, i + 1)
        BY <1>3, <3>1 DEF At, Forward
      <3>3. n - 1 \in 0 .. k /\ n - 1 >= d /\ n # 0
        BY <1>3, <2>1
      <3>4. s[i] \in Pointer /\ s[i] # NULL
        BY <3>2, Pointers
      <3>5. g[n][s[i]] = <<s[i]>> \o g[n - 1][At(s, i + 1)]
        BY <1>4, <3>2, <3>3, <3>4, Zenon
      <3>6. g[n - 1][At(s, i + 1)] = Rest(s, i + 1)
        BY <1>6, <3>1, <3>3
      <3>7. <<s[i]>> \o Rest(s, i + 1) = Rest(s, i)
        BY <1>3, <3>1, RestIs
      <3>8. QED
        BY <3>2, <3>5, <3>6, <3>7, Zenon
    <2>2. QED
      BY <2>1
  <1>7. Nat \subseteq S
    <2> HIDE DEF S
    <2>1. \A d \in Nat : d \in S => d + 1 \in S
      BY <1>6
    <2>2. QED
      BY <1>5, <2>1, Induction
  <1>8. Found(Len(s))
    BY <1>3, <1>7
  <1>9. g[k][At(s, 1)] = Rest(s, 1)
    BY <1>1, <1>3, <1>8
  <1>10. QED
    BY <1>2, <1>3, <1>9, RestIs

-----------------------------------------------------------------------------
(* The operations on sequences, said of the entry at each position *)

LEMMA Part ==
  ASSUME NEW s \in Seq(Entry), NEW m \in 1 .. Len(s) + 1, NEW n \in 0 .. Len(s), m <= n + 1
  PROVE  /\ SubSeq(s, m, n) \in Seq(Entry) /\ Len(SubSeq(s, m, n)) = n - m + 1
         /\ \A j \in 1 .. n - m + 1 : SubSeq(s, m, n)[j] = s[m + j - 1]
  OBVIOUS

LEMMA Together ==
  ASSUME NEW s \in Seq(Entry), NEW t \in Seq(Entry)
  PROVE  /\ s \o t \in Seq(Entry) /\ Len(s \o t) = Len(s) + Len(t)
         /\ \A i \in 1 .. Len(s) : (s \o t)[i] = s[i]
         /\ \A i \in 1 .. Len(t) : (s \o t)[Len(s) + i] = t[i]
  OBVIOUS

LEMMA JoinedSequence ==
  ASSUME NEW s \in Seq(Entry), NEW t \in Seq(Entry)
  PROVE  /\ s \o t \in Seq(Entry) /\ Len(s \o t) = Len(s) + Len(t)
         /\ \A j \in Int : At(s \o t, j) = IF j <= Len(s) THEN At(s, j) ELSE At(t, j - Len(s))
  <1>1. PICK r \in Seq(Entry) : r = s \o t
    BY Together
  <1>2. PICK n \in Nat, m \in Nat : n = Len(s) /\ m = Len(t)
    OBVIOUS
  <1>3. /\ Len(r) = n + m /\ \A i \in 1 .. n : r[i] = s[i]
        /\ \A i \in 1 .. m : r[n + i] = t[i]
    <2>1. /\ Len(r) = Len(s) + Len(t) /\ \A i \in 1 .. Len(s) : r[i] = s[i]
          /\ \A i \in 1 .. Len(t) : r[Len(s) + i] = t[i]
      BY <1>1, Together
    <2>2. QED
      BY ONLY <1>2, <2>1
  <1>4. ASSUME NEW j \in Int, j <= n PROVE At(r, j) = At(s, j)
    BY ONLY <1>2, <1>3, <1>4, n \in Nat, m \in Nat DEF At
  <1>5. ASSUME NEW j \in Int, ~ (j <= n) PROVE At(r, j) = At(t, j - n)
    <2>1. PICK i \in Int : i = j - n /\ j = n + i /\ i >= 1
      BY <1>5
    <2>2. At(r, n + i) = At(t, i)
      BY ONLY <1>2, <1>3, <2>1, i \in Int, n \in Nat, m \in Nat DEF At
    <2>3. QED
      BY <2>1, <2>2
  <1>6. QED
    BY <1>1, <1>2, <1>3, <1>4, <1>5, Zenon

LEMMA AtIs ==
  ASSUME NEW s \in Seq(Entry)
  PROVE  /\ \A j \in Int : At(s, j) \in Pointer /\ (At(s, j) # NULL <=> j \in 1 .. Len(s))
         /\ \A j \in 1 .. Len(s) : At(s, j) = s[j] /\ s[j] \in Entry
         /\ ToSet(s) = {x \in Entry : \E j \in Int : At(s, j) = x}
  <1>1. \A j \in 1 .. Len(s) : At(s, j) = s[j] /\ s[j] \in Entry
    BY DEF At
  <1>2. \A j \in Int : j \notin 1 .. Len(s) => At(s, j) = NULL
    BY DEF At
  <1>3. ToSet(s) = {x \in Entry : \E j \in Int : At(s, j) = x}
    <2>1. ASSUME NEW x PROVE x \in ToSet(s) <=> \E j \in 1 .. Len(s) : s[j] = x
      BY DEF ToSet
    <2>2. ASSUME NEW x \in Entry PROVE (\E j \in 1 .. Len(s) : s[j] = x) <=> \E j \in Int : At(s, j) = x
      BY <1>1, <1>2, Pointers
    <2>3. QED
      BY <1>1, <2>1, <2>2, Zenon
  <1>4. QED
    BY <1>1, <1>2, <1>3, Pointers

LEMMA SameByPosition ==
  ASSUME NEW s \in Seq(Entry), NEW t \in Seq(Entry), Len(s) = Len(t), \A j \in Int : At(s, j) = At(t, j)
  PROVE  s = t
  <1>1. \A j \in 1 .. Len(s) : s[j] = t[j]
    BY AtIs
  <1>2. QED
    BY <1>1, SameSequence

LEMMA Single == \A e \in Entry : /\ <<e>> \in Seq(Entry) /\ Len(<<e>>) = 1
                                 /\ \A j \in Int : At(<<e>>, j) = IF j = 1 THEN e ELSE NULL
  BY DEF At

(* the first entries, and the last ones *)
LEMMA Parts ==
  ASSUME NEW s \in Seq(Entry), NEW i \in 1 .. Len(s) + 1
  PROVE  /\ SubSeq(s, 1, i - 1) \in Seq(Entry) /\ Len(SubSeq(s, 1, i - 1)) = i - 1
         /\ \A j \in Int : j < i => At(SubSeq(s, 1, i - 1), j) = At(s, j)
         /\ SubSeq(s, i, Len(s)) \in Seq(Entry) /\ Len(SubSeq(s, i, Len(s))) = Len(s) - i + 1
         /\ \A j \in Int : j > 0 => At(SubSeq(s, i, Len(s)), j) = At(s, i + j - 1)
  <1>1. PICK n \in Nat : n = Len(s)
    OBVIOUS
  <1>2. i - 1 \in 0 .. Len(s) /\ 1 \in 1 .. Len(s) + 1 /\ n \in 0 .. Len(s)
    BY <1>1
  <1>3. PICK u, v : u = SubSeq(s, 1, i - 1) /\ v = SubSeq(s, i, Len(s))
    OBVIOUS
  <1>4. /\ u \in Seq(Entry) /\ Len(u) = (i - 1) - 1 + 1
        /\ \A j \in 1 .. (i - 1) - 1 + 1 : u[j] = s[1 + j - 1]
    <2>1. 1 <= (i - 1) + 1
      BY <1>2
    <2>2. QED
      BY ONLY <1>2, <1>3, <2>1, Part, s \in Seq(Entry), Zenon
  <1>5. /\ v \in Seq(Entry) /\ Len(v) = n - i + 1
        /\ \A j \in 1 .. n - i + 1 : v[j] = s[i + j - 1]
    <2>1. i <= n + 1
      BY <1>1
    <2>2. QED
      BY ONLY <1>1, <1>2, <1>3, <2>1, Part, s \in Seq(Entry), i \in 1 .. Len(s) + 1, Zenon
  <1>6. /\ Len(u) = i - 1 /\ \A j \in Int : j < i => At(u, j) = At(s, j)
    BY ONLY <1>1, <1>2, <1>4, i \in 1 .. Len(s) + 1, n \in Nat DEF At
  <1>7. ASSUME NEW j \in Int, j > 0 PROVE At(v, j) = At(s, i + j - 1)
    BY ONLY <1>1, <1>5, <1>7, i \in 1 .. Len(s) + 1, n \in Nat DEF At
  <1>8. QED
    BY <1>1, <1>3, <1>4, <1>5, <1>6, <1>7, Zenon

LEMMA Inserted ==
  ASSUME NEW s \in Seq(Entry), NEW e \in Entry, NEW i \in 1 .. Len(s) + 1
  PROVE  /\ InsertAt(s, i, e) \in Seq(Entry) /\ Len(InsertAt(s, i, e)) = Len(s) + 1
         /\ \A j \in Int : At(InsertAt(s, i, e), j) =
              IF j < i THEN At(s, j) ELSE IF j = i THEN e ELSE At(s, j - 1)
  <1>1. PICK n \in Nat : n = Len(s)
    OBVIOUS
  <1>2. PICK u \in Seq(Entry), v \in Seq(Entry) :
          /\ u = SubSeq(s, 1, i - 1) /\ Len(u) = i - 1
          /\ \A j \in Int : j < i => At(u, j) = At(s, j)
          /\ v = SubSeq(s, i, Len(s)) /\ Len(v) = n - i + 1
          /\ \A j \in Int : j > 0 => At(v, j) = At(s, i + j - 1)
    BY <1>1, Parts, Zenon
  <1>3. PICK o \in Seq(Entry) : o = <<e>> /\ Len(o) = 1 /\ \A j \in Int : At(o, j) = IF j = 1 THEN e ELSE NULL
    BY Single, Zenon
  <1>4. PICK w \in Seq(Entry) :
          /\ w = u \o o /\ Len(w) = Len(u) + Len(o)
          /\ \A j \in Int : At(w, j) = IF j <= Len(u) THEN At(u, j) ELSE At(o, j - Len(u))
    BY JoinedSequence, Zenon
  <1>5. PICK r \in Seq(Entry) :
          /\ r = w \o v /\ Len(r) = Len(w) + Len(v)
          /\ \A j \in Int : At(r, j) = IF j <= Len(w) THEN At(w, j) ELSE At(v, j - Len(w))
    BY JoinedSequence, Zenon
  <1>6. r = InsertAt(s, i, e)
    BY <1>2, <1>3, <1>4, <1>5, Zenon DEF InsertAt
  <1>7. Len(w) = i /\ Len(r) = n + 1
    <2>1. /\ Len(w) = Len(u) + Len(o) /\ Len(r) = Len(w) + Len(v)
          /\ Len(u) = i - 1 /\ Len(o) = 1 /\ Len(v) = n - i + 1
      BY <1>2, <1>3, <1>4, <1>5, Zenon
    <2>2. i \in Int
      OBVIOUS
    <2>3. QED
      BY ONLY <2>1, <2>2, n \in Nat
  <1>8. ASSUME NEW j \in Int
        PROVE  At(r, j) = IF j < i THEN At(s, j) ELSE IF j = i THEN e ELSE At(s, j - 1)
    <2>1. CASE j < i
      <3>1. j <= Len(w) /\ j <= Len(u)
        BY <1>2, <1>7, <2>1
      <3>2. QED
        BY <1>2, <1>4, <1>5, <2>1, <3>1
    <2>2. CASE j = i
      <3>1. j <= Len(w) /\ ~ (j <= Len(u)) /\ j - Len(u) = 1
        BY <1>2, <1>7, <2>2
      <3>2. At(r, j) = At(o, 1)
        BY <1>4, <1>5, <3>1
      <3>3. QED
        BY <1>3, <2>2, <3>2
    <2>3. CASE j > i
      <3>1. PICK l \in Int : l = j - i /\ l > 0 /\ i + l - 1 = j - 1
        BY <2>3
      <3>2. ~ (j <= Len(w)) /\ j - Len(w) = l
        BY <1>7, <2>3, <3>1
      <3>3. At(r, j) = At(v, l)
        BY <1>5, <3>2
      <3>4. At(v, l) = At(s, j - 1)
        BY <1>2, <3>1
      <3>5. QED
        BY <2>3, <3>3, <3>4
    <2>4. QED
      BY <2>1, <2>2, <2>3
  <1>9. QED
    BY <1>1, <1>6, <1>7, <1>8, Zenon

LEMMA Removed ==
  ASSUME NEW s \in Seq(Entry), NEW i \in 1 .. Len(s)
  PROVE  /\ RemoveAt(s, i) \in Seq(Entry) /\ Len(RemoveAt(s, i)) = Len(s) - 1
         /\ \A j \in Int : At(RemoveAt(s, i), j) = IF j < i THEN At(s, j) ELSE At(s, j + 1)
  <1>1. PICK n \in Nat : n = Len(s)
    OBVIOUS
  <1>2. PICK u \in Seq(Entry) :
          /\ u = SubSeq(s, 1, i - 1) /\ Len(u) = i - 1
          /\ \A j \in Int : j < i => At(u, j) = At(s, j)
    <2>1. i \in 1 .. Len(s) + 1
      BY <1>1
    <2>2. QED
      BY <2>1, Parts, Zenon
  <1>3. PICK v \in Seq(Entry) :
          /\ v = SubSeq(s, i + 1, Len(s)) /\ Len(v) = n - (i + 1) + 1
          /\ \A j \in Int : j > 0 => At(v, j) = At(s, (i + 1) + j - 1)
    <2>1. i + 1 \in 1 .. Len(s) + 1
      BY <1>1
    <2>2. QED
      BY <1>1, <2>1, Parts, Zenon
  <1>4. PICK r \in Seq(Entry) :
          /\ r = u \o v /\ Len(r) = Len(u) + Len(v)
          /\ \A j \in Int : At(r, j) = IF j <= Len(u) THEN At(u, j) ELSE At(v, j - Len(u))
    BY JoinedSequence, Zenon
  <1>5. r = RemoveAt(s, i)
    BY <1>2, <1>3, <1>4, Zenon DEF RemoveAt
  <1>6. Len(r) = n - 1
    <2>1. Len(r) = Len(u) + Len(v) /\ Len(u) = i - 1 /\ Len(v) = n - (i + 1) + 1
      BY <1>2, <1>3, <1>4, Zenon
    <2>2. i \in Int
      OBVIOUS
    <2>3. QED
      BY ONLY <2>1, <2>2, n \in Nat
  <1>7. ASSUME NEW j \in Int PROVE At(r, j) = IF j < i THEN At(s, j) ELSE At(s, j + 1)
    <2>1. CASE j < i
      <3>1. j <= Len(u)
        BY <1>2, <2>1
      <3>2. QED
        BY <1>2, <1>4, <2>1, <3>1
    <2>2. CASE j >= i
      <3>1. PICK l \in Int : l = j - (i - 1) /\ l > 0 /\ (i + 1) + l - 1 = j + 1
        BY <2>2
      <3>2. ~ (j <= Len(u)) /\ j - Len(u) = l
        BY <1>2, <2>2, <3>1
      <3>3. At(r, j) = At(v, l)
        BY <1>4, <3>2
      <3>4. At(v, l) = At(s, j + 1)
        BY <1>3, <3>1
      <3>5. QED
        BY <2>2, <3>3, <3>4
    <2>3. QED
      BY <2>1, <2>2
  <1>8. QED
    BY <1>1, <1>5, <1>6, <1>7, Zenon

-----------------------------------------------------------------------------
(* What the macros do to links, and what that does to a list.  e is put between
   p and v, or p and v are joined; where p is NULL there is no link to change. *)

Rewired(f, g, e, v, p) ==
  /\ g[e] = v
  /\ p # NULL => g[p] = e
  /\ \A x \in Entry : x # e /\ x # p => g[x] = f[x]

Bypassed(f, g, p, v) ==
  /\ p # NULL => g[p] = v
  /\ \A x \in Entry : x # p => g[x] = f[x]

(* no two positions hold the same entry; the next position holds the next *)
Distinct(s) == \A i, j \in Int : At(s, i) = At(s, j) /\ At(s, i) # NULL => i = j
Onward(s, f) == \A i \in Int : At(s, i) # NULL => f[At(s, i)] = At(s, i + 1)
Back(s, b) == \A i \in Int : At(s, i) # NULL => b[At(s, i)] = At(s, i - 1)

LEMMA ByPosition ==
  ASSUME NEW s \in Seq(Entry), NEW f
  PROVE  /\ Once(s) <=> Distinct(s)
         /\ Forward(s, f) <=> Onward(s, f)
         /\ Backward(s, f) <=> Back(s, f)
  <1>1. /\ \A j \in Int : At(s, j) # NULL <=> j \in 1 .. Len(s)
        /\ \A j \in 1 .. Len(s) : At(s, j) = s[j]
    BY AtIs
  <1>2. \A j \in 1 .. Len(s) : j \in Int
    OBVIOUS
  <1>3. Once(s) <=> Distinct(s)
    BY <1>1, <1>2, s \in Seq(Entry), Zenon DEF Once, Distinct
  <1>4. Forward(s, f) <=> Onward(s, f)
    BY <1>1, <1>2, Zenon DEF Forward, Onward
  <1>5. Backward(s, f) <=> Back(s, f)
    BY <1>1, <1>2, Zenon DEF Backward, Back
  <1>6. QED
    BY <1>3, <1>4, <1>5

(* e stands at position i, what was there and behind it one further on *)
Widened(s, r, i, e) ==
  \A j \in Int : At(r, j) = IF j < i THEN At(s, j) ELSE IF j = i THEN e ELSE At(s, j - 1)

Absent(e, s) == \A j \in Int : At(s, j) # e

LEMMA WidenedDistinct ==
  ASSUME NEW s, NEW r, NEW i \in Int, NEW e \in Entry, Widened(s, r, i, e), Absent(e, s), Distinct(s)
  PROVE  Distinct(r)
  <1>1. SUFFICES ASSUME NEW j \in Int, NEW k \in Int, At(r, j) = At(r, k), At(r, j) # NULL, j < k
                 PROVE  FALSE
    <2>1. ASSUME NEW j \in Int, NEW k \in Int, At(r, j) = At(r, k), At(r, j) # NULL PROVE j = k
      <3>1. CASE j < k
        BY <1>1, <2>1, <3>1
      <3>2. CASE k < j
        BY <1>1, <2>1, <3>2
      <3>3. QED
        BY <3>1, <3>2
    <2>2. QED
      BY <2>1, Zenon DEF Distinct
  <1>2. CASE k < i
    BY <1>1, <1>2 DEF Widened, Distinct
  <1>3. CASE k = i
    BY <1>1, <1>3 DEF Widened, Absent
  <1>4. CASE k > i /\ j < i
    <2>1. PICK l \in Int : l = k - 1 /\ j < l
      BY <1>4
    <2>2. At(r, k) = At(s, l) /\ At(r, j) = At(s, j)
      BY <1>4, <2>1 DEF Widened
    <2>3. QED
      BY <1>1, <2>1, <2>2 DEF Distinct
  <1>5. CASE k > i /\ j = i
    <2>1. At(r, k) = At(s, k - 1) /\ At(r, j) = e
      BY <1>5 DEF Widened
    <2>2. QED
      BY <1>1, <2>1 DEF Absent
  <1>6. CASE k > i /\ j > i
    <2>1. PICK l \in Int, m \in Int : l = k - 1 /\ m = j - 1 /\ m < l
      BY <1>1
    <2>2. At(r, k) = At(s, l) /\ At(r, j) = At(s, m)
      BY <1>6, <2>1 DEF Widened
    <2>3. QED
      BY <1>1, <2>1, <2>2 DEF Distinct
  <1>7. QED
    BY <1>2, <1>3, <1>4, <1>5, <1>6

LEMMA WidenedOnward ==
  ASSUME NEW s \in Seq(Entry), NEW r, NEW i \in Int, NEW e \in Entry,
         Widened(s, r, i, e), Absent(e, s), Distinct(s),
         NEW f, NEW g, Onward(s, f), Rewired(f, g, e, At(s, i), At(s, i - 1))
  PROVE  Onward(r, g)
  <1>1. SUFFICES ASSUME NEW j \in Int, At(r, j) # NULL PROVE g[At(r, j)] = At(r, j + 1)
    BY DEF Onward
  <1>2. \A k \in Int : At(s, k) # NULL => At(s, k) \in Entry /\ At(s, k) # e
    BY AtIs, Pointers DEF Absent
  <1>3. CASE j < i - 1
    <2>1. At(r, j) = At(s, j) /\ At(r, j + 1) = At(s, j + 1) /\ j # i - 1 /\ i - 1 \in Int
      BY <1>3 DEF Widened
    <2>2. At(s, j) # At(s, i - 1)
      BY <1>1, <2>1 DEF Distinct
    <2>3. g[At(s, j)] = f[At(s, j)]
      BY <1>1, <1>2, <2>1, <2>2 DEF Rewired
    <2>4. QED
      BY <1>1, <2>1, <2>3 DEF Onward
  <1>4. CASE j = i - 1
    <2>1. At(r, j) = At(s, i - 1) /\ At(r, j + 1) = e
      BY <1>4 DEF Widened
    <2>2. QED
      BY <1>1, <2>1 DEF Rewired
  <1>5. CASE j = i
    <2>1. At(r, j) = e /\ At(r, j + 1) = At(s, i)
      BY <1>5 DEF Widened
    <2>2. QED
      BY <2>1 DEF Rewired
  <1>6. CASE j > i
    <2>1. PICK l \in Int : l = j - 1 /\ l + 1 = j /\ l # i - 1
      BY <1>6
    <2>2. At(r, j) = At(s, l) /\ At(r, j + 1) = At(s, l + 1) /\ i - 1 \in Int
      <3>1. At(r, j) = At(s, j - 1) /\ At(r, j + 1) = At(s, (j + 1) - 1)
        BY <1>6 DEF Widened
      <3>2. (j + 1) - 1 = l + 1
        BY <2>1
      <3>3. QED
        BY <2>1, <3>1, <3>2
    <2>3. At(s, l) # At(s, i - 1)
      BY <1>1, <2>1, <2>2 DEF Distinct
    <2>4. g[At(s, l)] = f[At(s, l)]
      BY <1>1, <1>2, <2>2, <2>3 DEF Rewired
    <2>5. QED
      BY <1>1, <2>2, <2>4 DEF Onward
  <1>7. QED
    BY <1>3, <1>4, <1>5, <1>6

LEMMA WidenedBack ==
  ASSUME NEW s \in Seq(Entry), NEW r, NEW i \in Int, NEW e \in Entry,
         Widened(s, r, i, e), Absent(e, s), Distinct(s),
         NEW b, NEW c, Back(s, b), Rewired(b, c, e, At(s, i - 1), At(s, i))
  PROVE  Back(r, c)
  <1>1. SUFFICES ASSUME NEW j \in Int, At(r, j) # NULL PROVE c[At(r, j)] = At(r, j - 1)
    BY DEF Back
  <1>2. \A k \in Int : At(s, k) # NULL => At(s, k) \in Entry /\ At(s, k) # e
    BY AtIs, Pointers DEF Absent
  <1>3. CASE j < i
    <2>1. At(r, j) = At(s, j) /\ At(r, j - 1) = At(s, j - 1)
      BY <1>3 DEF Widened
    <2>2. At(s, j) # At(s, i)
      BY <1>1, <1>3, <2>1 DEF Distinct
    <2>3. c[At(s, j)] = b[At(s, j)]
      BY <1>1, <1>2, <2>1, <2>2 DEF Rewired
    <2>4. QED
      BY <1>1, <2>1, <2>3 DEF Back
  <1>4. CASE j = i
    <2>1. At(r, j) = e /\ At(r, j - 1) = At(s, i - 1)
      BY <1>4 DEF Widened
    <2>2. QED
      BY <2>1 DEF Rewired
  <1>5. CASE j = i + 1
    <2>1. At(r, j) = At(s, i) /\ At(r, j - 1) = e
      BY <1>5 DEF Widened
    <2>2. QED
      BY <1>1, <2>1 DEF Rewired
  <1>6. CASE j > i + 1
    <2>1. PICK l \in Int : l = j - 1 /\ l > i
      BY <1>6
    <2>2. At(r, j) = At(s, l) /\ At(r, j - 1) = At(s, l - 1)
      <3>1. At(r, j) = At(s, j - 1) /\ At(r, j - 1) = At(s, (j - 1) - 1)
        BY <1>6 DEF Widened
      <3>2. QED
        BY <2>1, <3>1
    <2>3. At(s, l) # At(s, i)
      BY <1>1, <2>1, <2>2 DEF Distinct
    <2>4. c[At(s, l)] = b[At(s, l)]
      BY <1>1, <1>2, <2>2, <2>3 DEF Rewired
    <2>5. QED
      BY <1>1, <2>2, <2>4 DEF Back
  <1>7. QED
    BY <1>3, <1>4, <1>5, <1>6

(* what stood at position i is gone *)
Narrowed(s, r, i) == \A j \in Int : At(r, j) = IF j < i THEN At(s, j) ELSE At(s, j + 1)

LEMMA NarrowedDistinct ==
  ASSUME NEW s, NEW r, NEW i \in Int, Narrowed(s, r, i), Distinct(s)
  PROVE  Distinct(r)
  <1>1. \A j \in Int : \E l \in Int : At(r, j) = At(s, l) /\ l = IF j < i THEN j ELSE j + 1
    BY DEF Narrowed
  <1>2. SUFFICES ASSUME NEW j \in Int, NEW k \in Int, At(r, j) = At(r, k), At(r, j) # NULL PROVE j = k
    BY DEF Distinct
  <1>3. PICK l \in Int : At(r, j) = At(s, l) /\ l = IF j < i THEN j ELSE j + 1
    BY <1>1
  <1>4. PICK m \in Int : At(r, k) = At(s, m) /\ m = IF k < i THEN k ELSE k + 1
    BY <1>1
  <1>5. l = m
    BY <1>2, <1>3, <1>4 DEF Distinct
  <1>6. QED
    BY <1>3, <1>4, <1>5

LEMMA NarrowedOnward ==
  ASSUME NEW s \in Seq(Entry), NEW r, NEW i \in Int, Narrowed(s, r, i), Distinct(s),
         NEW f, NEW g, Onward(s, f), Bypassed(f, g, At(s, i - 1), At(s, i + 1))
  PROVE  Onward(r, g)
  <1>1. SUFFICES ASSUME NEW j \in Int, At(r, j) # NULL PROVE g[At(r, j)] = At(r, j + 1)
    BY DEF Onward
  <1>2. \A k \in Int : At(s, k) # NULL => At(s, k) \in Entry
    BY AtIs, Pointers
  <1>3. CASE j < i - 1
    <2>1. At(r, j) = At(s, j) /\ At(r, j + 1) = At(s, j + 1) /\ j # i - 1 /\ i - 1 \in Int
      BY <1>3 DEF Narrowed
    <2>2. At(s, j) # At(s, i - 1)
      BY <1>1, <2>1 DEF Distinct
    <2>3. g[At(s, j)] = f[At(s, j)]
      BY <1>1, <1>2, <2>1, <2>2 DEF Bypassed
    <2>4. QED
      BY <1>1, <2>1, <2>3 DEF Onward
  <1>4. CASE j = i - 1
    <2>1. At(r, j) = At(s, i - 1) /\ At(r, j + 1) = At(s, i + 1)
      BY <1>4 DEF Narrowed
    <2>2. QED
      BY <1>1, <2>1 DEF Bypassed
  <1>5. CASE j >= i
    <2>1. PICK l \in Int : l = j + 1 /\ l # i - 1
      BY <1>5
    <2>2. At(r, j) = At(s, l) /\ At(r, j + 1) = At(s, l + 1) /\ i - 1 \in Int
      <3>1. At(r, j) = At(s, j + 1) /\ At(r, j + 1) = At(s, (j + 1) + 1)
        BY <1>5 DEF Narrowed
      <3>2. QED
        BY <2>1, <3>1
    <2>3. At(s, l) # At(s, i - 1)
      BY <1>1, <2>1, <2>2 DEF Distinct
    <2>4. g[At(s, l)] = f[At(s, l)]
      BY <1>1, <1>2, <2>2, <2>3 DEF Bypassed
    <2>5. QED
      BY <1>1, <2>2, <2>4 DEF Onward
  <1>6. QED
    BY <1>3, <1>4, <1>5

LEMMA NarrowedBack ==
  ASSUME NEW s \in Seq(Entry), NEW r, NEW i \in Int, Narrowed(s, r, i), Distinct(s),
         NEW b, NEW c, Back(s, b), Bypassed(b, c, At(s, i + 1), At(s, i - 1))
  PROVE  Back(r, c)
  <1>1. SUFFICES ASSUME NEW j \in Int, At(r, j) # NULL PROVE c[At(r, j)] = At(r, j - 1)
    BY DEF Back
  <1>2. \A k \in Int : At(s, k) # NULL => At(s, k) \in Entry
    BY AtIs, Pointers
  <1>3. CASE j < i
    <2>1. At(r, j) = At(s, j) /\ At(r, j - 1) = At(s, j - 1) /\ j # i + 1 /\ i + 1 \in Int
      BY <1>3 DEF Narrowed
    <2>2. At(s, j) # At(s, i + 1)
      BY <1>1, <2>1 DEF Distinct
    <2>3. c[At(s, j)] = b[At(s, j)]
      BY <1>1, <1>2, <2>1, <2>2 DEF Bypassed
    <2>4. QED
      BY <1>1, <2>1, <2>3 DEF Back
  <1>4. CASE j = i
    <2>1. At(r, j) = At(s, i + 1) /\ At(r, j - 1) = At(s, i - 1)
      BY <1>4 DEF Narrowed
    <2>2. QED
      BY <1>1, <2>1 DEF Bypassed
  <1>5. CASE j > i
    <2>1. PICK l \in Int : l = j + 1 /\ l - 1 = j /\ l # i + 1
      BY <1>5
    <2>2. At(r, j) = At(s, l) /\ At(r, j - 1) = At(s, l - 1) /\ i + 1 \in Int
      <3>1. At(r, j) = At(s, j + 1) /\ At(r, j - 1) = At(s, (j - 1) + 1)
        BY <1>5 DEF Narrowed
      <3>2. (j - 1) + 1 = l - 1
        BY <2>1
      <3>3. QED
        BY <2>1, <3>1, <3>2
    <2>3. At(s, l) # At(s, i + 1)
      BY <1>1, <2>1, <2>2 DEF Distinct
    <2>4. c[At(s, l)] = b[At(s, l)]
      BY <1>1, <1>2, <2>2, <2>3 DEF Bypassed
    <2>5. QED
      BY <1>1, <2>2, <2>4 DEF Back
  <1>6. QED
    BY <1>3, <1>4, <1>5

-----------------------------------------------------------------------------
(* All the lists at once: q[l] is the sequence header l stands for.  An entry *)
(* is on one list at most, and once.                                          *)

Apart(q) == \A l, m \in Ordered : l # m =>
              \A i, j \in Int : At(q[l], i) # NULL => At(q[l], i) # At(q[m], j)
Lay(q) == q \in [Ordered -> Seq(Entry)] /\ (\A l \in Ordered : Distinct(q[l])) /\ Apart(q)

AllOnward(q, f) == \A l \in Ordered : Onward(q[l], f)
AllBack(q, b) == \A l \in Ordered : Back(q[l], b)

(* the list l becomes s *)
Becomes(q, r, l, s) == r = [q EXCEPT ![l] = s]

(* what is on s was on l or on no list *)
OwnOrFree(q, l, s) ==
  \A m \in Ordered : m # l => \A i, j \in Int : At(s, i) # NULL => At(s, i) # At(q[m], j)

LEMMA BecomesIs ==
  ASSUME NEW q, Lay(q), NEW l \in Ordered, NEW s, NEW r, Becomes(q, r, l, s)
  PROVE  r[l] = s /\ \A m \in Ordered : m # l => r[m] = q[m]
  BY DEF Becomes, Lay

LEMMA BecomesLay ==
  ASSUME NEW q, Lay(q), NEW l \in Ordered, NEW s \in Seq(Entry), Distinct(s), OwnOrFree(q, l, s),
         NEW r, Becomes(q, r, l, s)
  PROVE  Lay(r)
  <1>1. r \in [Ordered -> Seq(Entry)]
    BY DEF Becomes, Lay
  <1>2. r[l] = s /\ \A m \in Ordered : m # l => r[m] = q[m]
    BY BecomesIs
  <1>3. \A m \in Ordered : Distinct(r[m])
    BY <1>2 DEF Lay
  <1>4. ASSUME NEW m \in Ordered, NEW n \in Ordered, m # n, NEW i \in Int, NEW j \in Int,
               At(r[m], i) # NULL, At(r[m], i) = At(r[n], j)
        PROVE  FALSE
    <2>1. CASE m = l
      BY <1>2, <1>4, <2>1 DEF OwnOrFree
    <2>2. CASE n = l
      BY <1>2, <1>4, <2>2 DEF OwnOrFree
    <2>3. CASE m # l /\ n # l
      BY <1>2, <1>4, <2>3 DEF Lay, Apart
    <2>4. QED
      BY <2>1, <2>2, <2>3
  <1>5. Apart(r)
    BY ONLY <1>4 DEF Apart
  <1>6. QED
    BY <1>1, <1>3, <1>5 DEF Lay

(* links of other lists are left alone *)
OthersKept(q, l, f, g) ==
  \A m \in Ordered : m # l => \A i \in Int : At(q[m], i) # NULL => g[At(q[m], i)] = f[At(q[m], i)]

LEMMA BecomesOnward ==
  ASSUME NEW q, Lay(q), NEW l \in Ordered, NEW s, NEW r, Becomes(q, r, l, s),
         NEW f, NEW g, AllOnward(q, f), Onward(s, g), OthersKept(q, l, f, g)
  PROVE  AllOnward(r, g)
  <1>1. r[l] = s /\ \A m \in Ordered : m # l => r[m] = q[m]
    BY BecomesIs
  <1>2. \A m \in Ordered : m # l => Onward(q[m], g)
    BY DEF AllOnward, Onward, OthersKept
  <1>3. QED
    BY <1>1, <1>2 DEF AllOnward

LEMMA BecomesBack ==
  ASSUME NEW q, Lay(q), NEW l \in Ordered, NEW s, NEW r, Becomes(q, r, l, s),
         NEW b, NEW c, AllBack(q, b), Back(s, c), OthersKept(q, l, b, c)
  PROVE  AllBack(r, c)
  <1>1. r[l] = s /\ \A m \in Ordered : m # l => r[m] = q[m]
    BY BecomesIs
  <1>2. \A m \in Ordered : m # l => Back(q[m], c)
    BY DEF AllBack, Back, OthersKept
  <1>3. QED
    BY <1>1, <1>2 DEF AllBack

(* on no list *)
Free(e, q) == \A l \in Ordered : Absent(e, q[l])

LEMMA OnList ==
  ASSUME NEW q, Lay(q), NEW l \in Ordered
  PROVE  /\ q[l] \in Seq(Entry) /\ Len(q[l]) \in Nat
         /\ \A i \in Int : /\ At(q[l], i) \in Pointer
                           /\ At(q[l], i) # NULL <=> i \in 1 .. Len(q[l])
                           /\ At(q[l], i) # NULL => At(q[l], i) \in Entry
         /\ ToSet(q[l]) = {x \in Entry : \E j \in Int : At(q[l], j) = x}
  <1>1. q[l] \in Seq(Entry)
    BY DEF Lay
  <1>2. QED
    BY <1>1, AtIs, Pointers DEF Pointer

(* an entry that is not e, nor the one before it, keeps its link *)
LEMMA RewiredKept ==
  ASSUME NEW q, Lay(q), NEW l \in Ordered, NEW e \in Entry, Free(e, q), NEW i \in Int,
         NEW f, NEW g, NEW v, Rewired(f, g, e, v, At(q[l], i))
  PROVE  OthersKept(q, l, f, g)
  <1>1. SUFFICES ASSUME NEW m \in Ordered, m # l, NEW j \in Int, At(q[m], j) # NULL
                 PROVE  g[At(q[m], j)] = f[At(q[m], j)]
    BY DEF OthersKept
  <1>2. At(q[m], j) \in Entry /\ At(q[m], j) # e /\ At(q[m], j) # At(q[l], i)
    BY <1>1, OnList, Zenon DEF Free, Absent, Lay, Apart
  <1>3. QED
    BY <1>2 DEF Rewired

LEMMA BypassedKept ==
  ASSUME NEW q, Lay(q), NEW l \in Ordered, NEW i \in Int,
         NEW f, NEW g, NEW v, Bypassed(f, g, At(q[l], i), v)
  PROVE  OthersKept(q, l, f, g)
  <1>1. SUFFICES ASSUME NEW m \in Ordered, m # l, NEW j \in Int, At(q[m], j) # NULL
                 PROVE  g[At(q[m], j)] = f[At(q[m], j)]
    BY DEF OthersKept
  <1>2. At(q[m], j) \in Entry /\ At(q[m], j) # At(q[l], i)
    BY <1>1, OnList, Zenon DEF Lay, Apart
  <1>3. QED
    BY <1>2 DEF Bypassed

(* list l is made empty, and no link is changed *)
Cleared(q, r, l) ==
  /\ Lay(r) /\ r[l] = <<>> /\ \A m \in Ordered : m # l => r[m] = q[m]
  /\ \A f : AllOnward(q, f) => AllOnward(r, f)
  /\ \A b : AllBack(q, b) => AllBack(r, b)

LEMMA Emptied ==
  ASSUME NEW q, Lay(q), NEW l \in Ordered, NEW r, Becomes(q, r, l, <<>>)
  PROVE  Cleared(q, r, l)
  <1>1. <<>> \in Seq(Entry) /\ \A i \in Int : At(<<>>, i) = NULL
    BY DEF At
  <1>2. /\ Distinct(<<>>) /\ OwnOrFree(q, l, <<>>)
        /\ \A f : Onward(<<>>, f) /\ Back(<<>>, f) /\ OthersKept(q, l, f, f)
    BY <1>1 DEF Distinct, OwnOrFree, Onward, Back, OthersKept
  <1>3. Lay(r)
    BY <1>1, <1>2, BecomesLay
  <1>4. ASSUME NEW f, AllOnward(q, f) PROVE AllOnward(r, f)
    BY <1>2, <1>4, BecomesOnward
  <1>5. ASSUME NEW b, AllBack(q, b) PROVE AllBack(r, b)
    BY <1>2, <1>5, BecomesBack
  <1>6. QED
    BY <1>3, <1>4, <1>5, BecomesIs DEF Cleared

(* e is put at position i of list l *)
Grown(q, r, l, i, e) ==
  /\ Lay(r) /\ \A m \in Ordered : m # l => r[m] = q[m]
  /\ \A f, g : AllOnward(q, f) /\ Rewired(f, g, e, At(q[l], i), At(q[l], i - 1)) => AllOnward(r, g)
  /\ \A b, c : AllBack(q, b) /\ Rewired(b, c, e, At(q[l], i - 1), At(q[l], i)) => AllBack(r, c)
  /\ At(r[l], 1) = IF i = 1 THEN e ELSE At(q[l], 1)
  /\ At(r[l], Len(r[l])) = IF i = Len(q[l]) + 1 THEN e ELSE At(q[l], Len(q[l]))

LEMMA PutIn ==
  ASSUME NEW q, Lay(q), NEW l \in Ordered, NEW e \in Entry, Free(e, q),
         NEW i \in 1 .. Len(q[l]) + 1, NEW r, Becomes(q, r, l, InsertAt(q[l], i, e))
  PROVE  Grown(q, r, l, i, e)
  <1> DEFINE s == InsertAt(q[l], i, e)
  <1>1. q[l] \in Seq(Entry) /\ Len(q[l]) \in Nat /\ i \in Int /\ i - 1 \in Int
    BY OnList
  <1>2. s \in Seq(Entry) /\ Len(s) = Len(q[l]) + 1 /\ Widened(q[l], s, i, e)
    BY <1>1, Inserted DEF Widened
  <1>3. Distinct(q[l]) /\ Absent(e, q[l])
    BY DEF Lay, Free
  <1>4. r[l] = s /\ \A m \in Ordered : m # l => r[m] = q[m]
    BY BecomesIs
  <1> HIDE DEF s
  <1>5. Distinct(s)
    BY <1>1, <1>2, <1>3, WidenedDistinct
  <1>6. OwnOrFree(q, l, s)
    <2>1. SUFFICES ASSUME NEW m \in Ordered, m # l, NEW k \in Int, NEW j \in Int, At(s, k) # NULL
                   PROVE  At(s, k) # At(q[m], j)
      BY DEF OwnOrFree
    <2>2. CASE k < i
      BY <1>2, <2>1, <2>2 DEF Widened, Lay, Apart
    <2>3. CASE k = i
      BY <1>2, <2>1, <2>3 DEF Widened, Free, Absent
    <2>4. CASE k > i
      <3>1. At(s, k) = At(q[l], k - 1) /\ k - 1 \in Int
        BY <1>2, <2>4 DEF Widened
      <3>2. QED
        BY <2>1, <3>1 DEF Lay, Apart
    <2>5. QED
      BY <1>1, <2>2, <2>3, <2>4
  <1>7. Becomes(q, r, l, s)
    BY DEF s
  <1>8. Lay(r)
    BY <1>2, <1>5, <1>6, <1>7, BecomesLay
  <1>9. ASSUME NEW f, NEW g, AllOnward(q, f), Rewired(f, g, e, At(q[l], i), At(q[l], i - 1))
        PROVE  AllOnward(r, g)
    <2>1. Onward(q[l], f)
      BY <1>9 DEF AllOnward
    <2>2. Onward(s, g)
      BY <1>1, <1>2, <1>3, <1>9, <2>1, WidenedOnward
    <2>3. OthersKept(q, l, f, g)
      BY <1>1, <1>9, RewiredKept
    <2>4. QED
      BY <1>7, <1>9, <2>2, <2>3, BecomesOnward
  <1>10. ASSUME NEW b, NEW c, AllBack(q, b), Rewired(b, c, e, At(q[l], i - 1), At(q[l], i))
         PROVE  AllBack(r, c)
    <2>1. Back(q[l], b)
      BY <1>10 DEF AllBack
    <2>2. Back(s, c)
      BY <1>1, <1>2, <1>3, <1>10, <2>1, WidenedBack
    <2>3. OthersKept(q, l, b, c)
      BY <1>1, <1>10, RewiredKept
    <2>4. QED
      BY <1>7, <1>10, <2>2, <2>3, BecomesBack
  <1>11. At(s, 1) = IF i = 1 THEN e ELSE At(q[l], 1)
    BY <1>1, <1>2 DEF Widened
  <1>12. At(s, Len(s)) = IF i = Len(q[l]) + 1 THEN e ELSE At(q[l], Len(q[l]))
    <2>1. PICK n \in Nat : n = Len(q[l])
      BY <1>1
    <2>2. n + 1 \in Int /\ (n + 1) - 1 = n /\ i <= n + 1
      BY <2>1
    <2>3. QED
      BY <1>1, <1>2, <2>1, <2>2 DEF Widened
  <1>13. QED
    BY <1>4, <1>8, <1>9, <1>10, <1>11, <1>12 DEF Grown

(* what is at position i of list l is taken out *)
Shrunk(q, r, l, i) ==
  /\ Lay(r) /\ \A m \in Ordered : m # l => r[m] = q[m]
  /\ \A f, g : AllOnward(q, f) /\ Bypassed(f, g, At(q[l], i - 1), At(q[l], i + 1)) => AllOnward(r, g)
  /\ \A b, c : AllBack(q, b) /\ Bypassed(b, c, At(q[l], i + 1), At(q[l], i - 1)) => AllBack(r, c)
  /\ At(r[l], 1) = IF i = 1 THEN At(q[l], 2) ELSE At(q[l], 1)
  /\ At(r[l], Len(r[l])) = IF i = Len(q[l]) THEN At(q[l], i - 1) ELSE At(q[l], Len(q[l]))

LEMMA TakenOut ==
  ASSUME NEW q, Lay(q), NEW l \in Ordered, NEW i \in 1 .. Len(q[l]),
         NEW r, Becomes(q, r, l, RemoveAt(q[l], i))
  PROVE  Shrunk(q, r, l, i)
  <1> DEFINE s == RemoveAt(q[l], i)
  <1>1. q[l] \in Seq(Entry) /\ Len(q[l]) \in Nat /\ i \in Int /\ i - 1 \in Int /\ i + 1 \in Int
    BY OnList
  <1>2. s \in Seq(Entry) /\ Len(s) = Len(q[l]) - 1 /\ Narrowed(q[l], s, i)
    BY <1>1, Removed DEF Narrowed
  <1>3. Distinct(q[l])
    BY DEF Lay
  <1>4. r[l] = s /\ \A m \in Ordered : m # l => r[m] = q[m]
    BY BecomesIs
  <1> HIDE DEF s
  <1>5. Distinct(s)
    BY <1>1, <1>2, <1>3, NarrowedDistinct
  <1>6. OwnOrFree(q, l, s)
    <2>1. SUFFICES ASSUME NEW m \in Ordered, m # l, NEW k \in Int, NEW j \in Int, At(s, k) # NULL
                   PROVE  At(s, k) # At(q[m], j)
      BY DEF OwnOrFree
    <2>2. PICK o \in Int : At(s, k) = At(q[l], o)
      <3>1. k + 1 \in Int
        OBVIOUS
      <3>2. QED
        BY <1>2, <3>1, Zenon DEF Narrowed
    <2>3. QED
      BY <2>1, <2>2 DEF Lay, Apart
  <1>7. Becomes(q, r, l, s)
    BY DEF s
  <1>8. Lay(r)
    BY <1>2, <1>5, <1>6, <1>7, BecomesLay
  <1>9. ASSUME NEW f, NEW g, AllOnward(q, f), Bypassed(f, g, At(q[l], i - 1), At(q[l], i + 1))
        PROVE  AllOnward(r, g)
    <2>1. Onward(q[l], f)
      BY <1>9 DEF AllOnward
    <2>2. Onward(s, g)
      BY <1>1, <1>2, <1>3, <1>9, <2>1, NarrowedOnward
    <2>3. OthersKept(q, l, f, g)
      BY <1>1, <1>9, BypassedKept
    <2>4. QED
      BY <1>7, <1>9, <2>2, <2>3, BecomesOnward
  <1>10. ASSUME NEW b, NEW c, AllBack(q, b), Bypassed(b, c, At(q[l], i + 1), At(q[l], i - 1))
         PROVE  AllBack(r, c)
    <2>1. Back(q[l], b)
      BY <1>10 DEF AllBack
    <2>2. Back(s, c)
      BY <1>1, <1>2, <1>3, <1>10, <2>1, NarrowedBack
    <2>3. OthersKept(q, l, b, c)
      BY <1>1, <1>10, BypassedKept
    <2>4. QED
      BY <1>7, <1>10, <2>2, <2>3, BecomesBack
  <1>11. At(s, 1) = IF i = 1 THEN At(q[l], 2) ELSE At(q[l], 1)
    <2>1. 1 \in Int /\ 1 + 1 = 2 /\ (1 < i <=> i # 1)
      BY <1>1
    <2>2. At(s, 1) = IF 1 < i THEN At(q[l], 1) ELSE At(q[l], 1 + 1)
      BY <1>2, <2>1, Zenon DEF Narrowed
    <2>3. QED
      BY <2>1, <2>2, Zenon
  <1>12. At(s, Len(s)) = IF i = Len(q[l]) THEN At(q[l], i - 1) ELSE At(q[l], Len(q[l]))
    <2>1. PICK n \in Nat : n = Len(q[l])
      BY <1>1
    <2>2. n - 1 \in Int /\ (n - 1) + 1 = n /\ (n - 1 < i <=> i = n)
      BY <1>1, <2>1
    <2>3. At(s, n - 1) = IF n - 1 < i THEN At(q[l], n - 1) ELSE At(q[l], (n - 1) + 1)
      BY <1>2, <2>2, Zenon DEF Narrowed
    <2>4. QED
      BY <1>2, <2>1, <2>2, <2>3, Zenon
  <1>13. QED
    BY <1>4, <1>8, <1>9, <1>10, <1>11, <1>12 DEF Shrunk

(* all of list n is put behind list l *)
Concatenated(q, r, l, n) == r = [q EXCEPT ![l] = @ \o q[n], ![n] = <<>>]

Merged(q, r, l, n) ==
  /\ Lay(r) /\ r[n] = <<>> /\ \A m \in Ordered : m # l /\ m # n => r[m] = q[m]
  /\ \A f, g : AllOnward(q, f) /\ Bypassed(f, g, At(q[l], Len(q[l])), At(q[n], 1)) => AllOnward(r, g)
  /\ \A b, c : AllBack(q, b) /\ Bypassed(b, c, At(q[n], 1), At(q[l], Len(q[l]))) => AllBack(r, c)
  /\ At(r[l], 1) = IF q[l] = <<>> THEN At(q[n], 1) ELSE At(q[l], 1)
  /\ At(r[l], Len(r[l])) = IF q[n] = <<>> THEN At(q[l], Len(q[l])) ELSE At(q[n], Len(q[n]))

LEMMA PutBehind ==
  ASSUME NEW q, Lay(q), NEW l \in Ordered, NEW n \in Ordered, l # n, NEW r, Concatenated(q, r, l, n)
  PROVE  Merged(q, r, l, n)
  <1> DEFINE p == [q EXCEPT ![n] = <<>>]
             s == q[l] \o q[n]
  <1>1. /\ q[l] \in Seq(Entry) /\ Len(q[l]) \in Nat /\ q[n] \in Seq(Entry) /\ Len(q[n]) \in Nat
        /\ q \in [Ordered -> Seq(Entry)]
    BY OnList DEF Lay
  <1>2. PICK x \in Nat, y \in Nat : x = Len(q[l]) /\ y = Len(q[n])
    BY <1>1
  <1>3. /\ s \in Seq(Entry) /\ Len(s) = x + y
        /\ \A j \in Int : At(s, j) = IF j <= x THEN At(q[l], j) ELSE At(q[n], j - x)
    BY <1>1, <1>2, JoinedSequence
  <1>4. Becomes(q, p, n, <<>>) /\ Becomes(p, r, l, s)
    BY <1>1 DEF Becomes, Concatenated
  <1>5. r[l] = s /\ r[n] = <<>> /\ \A m \in Ordered : m # l /\ m # n => r[m] = q[m]
    BY <1>1 DEF Concatenated
  <1> HIDE DEF p, s
  <1>6. /\ Lay(p) /\ p[n] = <<>> /\ \A m \in Ordered : m # n => p[m] = q[m]
        /\ \A f : AllOnward(q, f) => AllOnward(p, f)
        /\ \A b : AllBack(q, b) => AllBack(p, b)
    BY <1>4, Emptied DEF Cleared
  <1>7. p[l] = q[l] /\ \A i \in Int : At(<<>>, i) = NULL
    BY <1>6 DEF At
  <1>8. /\ Distinct(q[l]) /\ Distinct(q[n])
        /\ \A i, j \in Int : /\ At(q[l], i) # NULL => At(q[l], i) # At(q[n], j)
                             /\ At(q[n], i) # NULL => At(q[n], i) # At(q[l], j)
    BY DEF Lay, Apart
  <1>9. /\ \A i \in Int : At(q[l], i) # NULL <=> i \in 1 .. x
        /\ \A i \in Int : At(q[n], i) # NULL <=> i \in 1 .. y
        /\ \A i \in Int : At(q[l], i) # NULL => At(q[l], i) \in Entry
        /\ \A i \in Int : At(q[n], i) # NULL => At(q[n], i) \in Entry
    BY <1>2, OnList
  <1>10. Distinct(s)
    <2>1. SUFFICES ASSUME NEW i \in Int, NEW j \in Int, At(s, i) = At(s, j), At(s, i) # NULL PROVE i = j
      BY DEF Distinct
    <2>2. i - x \in Int /\ j - x \in Int /\ (i - x = j - x => i = j)
      OBVIOUS
    <2>3. QED
      BY <1>3, <1>8, <2>1, <2>2 DEF Distinct
  <1>11. OwnOrFree(p, l, s)
    <2>1. SUFFICES ASSUME NEW m \in Ordered, m # l, NEW k \in Int, NEW j \in Int, At(s, k) # NULL
                   PROVE  At(s, k) # At(p[m], j)
      BY DEF OwnOrFree
    <2>2. PICK o \in Int, u \in {l, n} : At(s, k) = At(q[u], o)
      BY <1>3
    <2>3. CASE m = n
      BY <1>6, <1>7, <2>1, <2>3
    <2>4. CASE m # n
      <3>1. p[m] = q[m]
        BY <1>6, <2>4
      <3>2. QED
        BY <2>1, <2>2, <2>4, <3>1 DEF Lay, Apart
    <2>5. QED
      BY <2>3, <2>4
  <1>12. Lay(r)
    BY <1>3, <1>4, <1>6, <1>10, <1>11, BecomesLay
  <1>13. ASSUME NEW f, NEW g, AllOnward(q, f), Bypassed(f, g, At(q[l], Len(q[l])), At(q[n], 1))
         PROVE  AllOnward(r, g)
    <2>1. Onward(q[l], f) /\ Onward(q[n], f) /\ AllOnward(p, f)
      BY <1>6, <1>13 DEF AllOnward
    <2>2. OthersKept(p, l, f, g)
      <3>1. x \in Int /\ Bypassed(f, g, At(p[l], x), At(q[n], 1))
        BY <1>2, <1>7, <1>13
      <3>2. QED
        BY <1>6, <3>1, BypassedKept
    <2>3. Bypassed(f, g, At(q[l], x), At(q[n], 1))
      BY <1>2, <1>13
    <2>4. Onward(s, g)
      <3>1. SUFFICES ASSUME NEW i \in Int, At(s, i) # NULL PROVE g[At(s, i)] = At(s, i + 1)
        BY DEF Onward
      <3>2. CASE i < x
        <4>1. At(s, i) = At(q[l], i) /\ At(s, i + 1) = At(q[l], i + 1) /\ i # x /\ x \in Int
          BY <1>3, <3>2
        <4>2. At(q[l], i) # At(q[l], x) /\ At(q[l], i) \in Entry
          BY <1>8, <1>9, <3>1, <4>1, Zenon DEF Distinct
        <4>3. g[At(q[l], i)] = f[At(q[l], i)] /\ f[At(q[l], i)] = At(q[l], i + 1)
          BY <2>1, <2>3, <3>1, <4>1, <4>2, Zenon DEF Bypassed, Onward
        <4>4. QED
          BY <4>1, <4>3
      <3>3. CASE i = x
        <4>1. At(s, i) = At(q[l], x) /\ At(s, i + 1) = At(q[n], 1)
          BY <1>3, <3>3
        <4>2. QED
          BY <2>3, <3>1, <4>1 DEF Bypassed
      <3>4. CASE i > x
        <4>1. PICK k \in Int : k = i - x /\ k + 1 = (i + 1) - x
          OBVIOUS
        <4>2. At(s, i) = At(q[n], k) /\ At(s, i + 1) = At(q[n], k + 1) /\ x \in Int
          <5>1. i + 1 \in Int /\ ~ i <= x /\ ~ i + 1 <= x
            BY <3>4
          <5>2. At(s, i) = At(q[n], i - x) /\ At(s, i + 1) = At(q[n], (i + 1) - x)
            BY <1>3, <5>1, Zenon
          <5>3. QED
            BY <4>1, <5>2
        <4>3. At(q[n], k) # At(q[l], x) /\ At(q[n], k) \in Entry
          BY <1>8, <1>9, <3>1, <4>2, Zenon
        <4>4. g[At(q[n], k)] = f[At(q[n], k)] /\ f[At(q[n], k)] = At(q[n], k + 1)
          BY <2>1, <2>3, <3>1, <4>2, <4>3, Zenon DEF Bypassed, Onward
        <4>5. QED
          BY <4>2, <4>4
      <3>5. QED
        BY <3>2, <3>3, <3>4
    <2>5. QED
      BY <1>4, <1>6, <2>1, <2>2, <2>4, BecomesOnward
  <1>14. ASSUME NEW b, NEW c, AllBack(q, b), Bypassed(b, c, At(q[n], 1), At(q[l], Len(q[l])))
         PROVE  AllBack(r, c)
    <2>1. Back(q[l], b) /\ Back(q[n], b) /\ AllBack(p, b)
      BY <1>6, <1>14 DEF AllBack
    <2>2. OthersKept(p, l, b, c)
      <3>1. SUFFICES ASSUME NEW m \in Ordered, m # l, NEW i \in Int, At(p[m], i) # NULL
                     PROVE  c[At(p[m], i)] = b[At(p[m], i)]
        BY DEF OthersKept
      <3>2. m # n /\ p[m] = q[m]
        BY <1>6, <1>7, <3>1
      <3>3. At(q[m], i) # NULL /\ At(q[m], i) \in Entry
        BY <3>1, <3>2, OnList, Zenon
      <3>4. 1 \in Int
        OBVIOUS
      <3>5. At(q[m], i) # At(q[n], 1)
        BY <3>2, <3>3, <3>4, Zenon DEF Lay, Apart
      <3>6. QED
        BY <1>14, <3>2, <3>3, <3>5 DEF Bypassed
    <2>3. Bypassed(b, c, At(q[n], 1), At(q[l], x))
      BY <1>2, <1>14
    <2>4. Back(s, c)
      <3>1. SUFFICES ASSUME NEW i \in Int, At(s, i) # NULL PROVE c[At(s, i)] = At(s, i - 1)
        BY DEF Back
      <3>2. CASE i <= x
        <4>1. At(s, i) = At(q[l], i) /\ At(s, i - 1) = At(q[l], i - 1) /\ 1 \in Int
          BY <1>3, <3>2
        <4>2. At(q[l], i) # At(q[n], 1) /\ At(q[l], i) \in Entry
          BY <1>8, <1>9, <3>1, <4>1, Zenon
        <4>3. c[At(q[l], i)] = b[At(q[l], i)] /\ b[At(q[l], i)] = At(q[l], i - 1)
          BY <2>1, <2>3, <3>1, <4>1, <4>2, Zenon DEF Bypassed, Back
        <4>4. QED
          BY <4>1, <4>3
      <3>3. CASE i = x + 1
        <4>1. At(s, i) = At(q[n], 1) /\ At(s, i - 1) = At(q[l], x)
          <5>1. i - 1 = x /\ x \in Int /\ ~ i <= x /\ i - x = 1 /\ x <= x
            BY <3>3
          <5>2. At(s, i) = At(q[n], i - x) /\ At(s, x) = At(q[l], x)
            BY <1>3, <5>1, Zenon
          <5>3. QED
            BY <5>1, <5>2
        <4>2. QED
          BY <2>3, <3>1, <4>1 DEF Bypassed
      <3>4. CASE i > x + 1
        <4>1. PICK k \in Int : k = i - x /\ k - 1 = (i - 1) - x /\ k # 1
          BY <3>4
        <4>2. At(s, i) = At(q[n], k) /\ At(s, i - 1) = At(q[n], k - 1) /\ 1 \in Int
          <5>1. i - 1 \in Int /\ ~ i <= x /\ ~ i - 1 <= x
            BY <3>4
          <5>2. At(s, i) = At(q[n], i - x) /\ At(s, i - 1) = At(q[n], (i - 1) - x)
            BY <1>3, <5>1, Zenon
          <5>3. QED
            BY <4>1, <5>2
        <4>3. At(q[n], k) # At(q[n], 1) /\ At(q[n], k) \in Entry
          BY <1>8, <1>9, <3>1, <4>1, <4>2, Zenon DEF Distinct
        <4>4. c[At(q[n], k)] = b[At(q[n], k)] /\ b[At(q[n], k)] = At(q[n], k - 1)
          BY <2>1, <2>3, <3>1, <4>2, <4>3, Zenon DEF Bypassed, Back
        <4>5. QED
          BY <4>2, <4>4
      <3>5. QED
        BY <3>2, <3>3, <3>4
    <2>5. QED
      BY <1>4, <1>6, <2>1, <2>2, <2>4, BecomesBack
  <1>15. (q[l] = <<>> <=> x = 0) /\ (q[n] = <<>> <=> y = 0)
    BY <1>1, <1>2
  <1>16. At(s, 1) = IF q[l] = <<>> THEN At(q[n], 1) ELSE At(q[l], 1)
    <2>1. 1 \in Int /\ (1 <= x <=> x # 0) /\ (x = 0 => 1 - x = 1)
      BY <1>2
    <2>2. At(s, 1) = IF 1 <= x THEN At(q[l], 1) ELSE At(q[n], 1 - x)
      BY <1>3, <2>1, Zenon
    <2>3. QED
      BY <1>15, <2>1, <2>2
  <1>17. At(s, Len(s)) = IF q[n] = <<>> THEN At(q[l], Len(q[l])) ELSE At(q[n], Len(q[n]))
    <2>1. PICK z \in Nat : z = x + y
      OBVIOUS
    <2>2. z \in Int /\ (z <= x <=> y = 0) /\ z - x = y /\ (y = 0 => z = x)
      BY <2>1
    <2>3. At(s, z) = IF z <= x THEN At(q[l], z) ELSE At(q[n], z - x)
      BY <1>3, <2>2, Zenon
    <2>4. Len(s) = z
      BY <1>3, <2>1
    <2>5. QED
      BY <1>2, <1>15, <2>2, <2>3, <2>4, Zenon
  <1>18. QED
    BY <1>5, <1>12, <1>13, <1>14, <1>16, <1>17 DEF Merged

-----------------------------------------------------------------------------
(* what one finds by following the links of a list, either way *)

LEMMA Reversed ==
  ASSUME NEW s \in Seq(Entry)
  PROVE  /\ Reverse(s) \in Seq(Entry) /\ Len(Reverse(s)) = Len(s)
         /\ \A j \in Int : At(Reverse(s), j) = At(s, Len(s) + 1 - j)
  <1>1. PICK n \in Nat : n = Len(s)
    OBVIOUS
  <1>2. Reverse(s) = [i \in 1 .. n |-> s[(n - i) + 1]]
    BY <1>1 DEF Reverse
  <1>3. \A i \in 1 .. n : s[(n - i) + 1] \in Entry
    BY <1>1
  <1>4. PICK t : t = [i \in 1 .. n |-> s[(n - i) + 1]]
    OBVIOUS
  <1>5. t \in Seq(Entry) /\ Len(t) = n
    BY <1>3, <1>4
  <1>6. ASSUME NEW j \in Int PROVE At(t, j) = At(s, n + 1 - j)
    <2>1. CASE j \in 1 .. n
      <3>1. PICK k \in 1 .. n : k = n + 1 - j /\ k = (n - j) + 1
        BY <2>1
      <3>2. t[j] = s[k]
        BY <1>4, <2>1, <3>1
      <3>3. QED
        BY <1>1, <1>5, <2>1, <3>1, <3>2 DEF At
    <2>2. CASE j \notin 1 .. n
      <3>1. n + 1 - j \notin 1 .. n
        BY <2>2
      <3>2. QED
        BY <1>1, <1>5, <2>2, <3>1 DEF At
    <2>3. QED
      BY <2>1, <2>2
  <1>7. QED
    BY <1>1, <1>2, <1>4, <1>5, <1>6

LEMMA WalkOn ==
  ASSUME NEW q, Lay(q), NEW l \in Ordered, NEW f, AllOnward(q, f)
  PROVE  Chain(At(q[l], 1), f) = q[l]
  <1>1. q[l] \in Seq(Entry) /\ Distinct(q[l]) /\ Onward(q[l], f)
    BY DEF Lay, AllOnward
  <1>2. Once(q[l]) /\ Forward(q[l], f)
    BY <1>1, ByPosition
  <1>3. QED
    BY <1>2, ChainIs

LEMMA WalkBack ==
  ASSUME NEW q, Lay(q), NEW l \in Ordered, NEW b, AllBack(q, b)
  PROVE  Chain(At(q[l], Len(q[l])), b) = Reverse(q[l])
  <1> DEFINE s == Reverse(q[l])
  <1>1. q[l] \in Seq(Entry) /\ Distinct(q[l]) /\ Back(q[l], b)
    BY DEF Lay, AllBack
  <1>2. PICK n \in Nat : n = Len(q[l])
    BY <1>1
  <1>3. s \in Seq(Entry) /\ \A j \in Int : At(s, j) = At(q[l], n + 1 - j)
    BY <1>1, <1>2, Reversed
  <1> HIDE DEF s
  <1>4. Distinct(s)
    <2>1. SUFFICES ASSUME NEW i \in Int, NEW j \in Int, At(s, i) = At(s, j), At(s, i) # NULL PROVE i = j
      BY DEF Distinct
    <2>2. PICK u \in Int, v \in Int : u = n + 1 - i /\ v = n + 1 - j /\ (u = v => i = j)
      OBVIOUS
    <2>3. QED
      BY <1>1, <1>3, <2>1, <2>2 DEF Distinct
  <1>5. Onward(s, b)
    <2>1. SUFFICES ASSUME NEW i \in Int, At(s, i) # NULL PROVE b[At(s, i)] = At(s, i + 1)
      BY DEF Onward
    <2>2. PICK u \in Int : u = n + 1 - i /\ u - 1 = n + 1 - (i + 1) /\ i + 1 \in Int
      OBVIOUS
    <2>3. At(s, i) = At(q[l], u) /\ At(s, i + 1) = At(q[l], u - 1)
      <3>1. At(s, i + 1) = At(q[l], n + 1 - (i + 1))
        BY <1>3, <2>2, Zenon
      <3>2. QED
        BY <1>3, <2>2, <3>1, Zenon
    <2>4. QED
      BY <1>1, <2>1, <2>3 DEF Back
  <1>6. Once(s) /\ Forward(s, b)
    BY <1>3, <1>4, <1>5, ByPosition
  <1>7. Chain(At(s, 1), b) = s
    BY <1>6, ChainIs
  <1>8. At(s, 1) = At(q[l], n)
    <2>1. 1 \in Int /\ n + 1 - 1 = n
      OBVIOUS
    <2>2. QED
      BY <1>3, <2>1, Zenon
  <1>9. QED
    BY <1>2, <1>7, <1>8 DEF s

(* where an entry stands *)
LEMMA Standing ==
  ASSUME NEW q, Lay(q), NEW l \in Ordered, NEW e \in ToSet(q[l])
  PROVE  \E i \in 1 .. Len(q[l]) : /\ At(q[l], i) = e /\ e \in Entry
                                   /\ i = CHOOSE k \in DOMAIN q[l] : q[l][k] = e
  <1>1. q[l] \in Seq(Entry) /\ Distinct(q[l])
    BY DEF Lay
  <1>2. DOMAIN q[l] = 1 .. Len(q[l]) /\ 1 .. Len(q[l]) \subseteq Int
    BY <1>1
  <1>3. PICK k \in DOMAIN q[l] : q[l][k] = e
    BY DEF ToSet
  <1>4. PICK i \in DOMAIN q[l] : q[l][i] = e /\ i = CHOOSE j \in DOMAIN q[l] : q[l][j] = e
    BY <1>3, Zenon
  <1>5. At(q[l], i) = q[l][i] /\ q[l][i] \in Entry
    BY <1>1, <1>2, <1>4, AtIs
  <1>6. QED
    BY <1>2, <1>4, <1>5

-----------------------------------------------------------------------------
(* CIRCLEQ: the last entry is followed by the first *)

Succ(s, i) == IF i = Len(s) THEN At(s, 1) ELSE At(s, i + 1)
Pred(s, i) == IF i = 1 THEN At(s, Len(s)) ELSE At(s, i - 1)

RingOn(s, f) == \A i \in 1 .. Len(s) : f[At(s, i)] = Succ(s, i)
RingBack(s, b) == \A i \in 1 .. Len(s) : b[At(s, i)] = Pred(s, i)

(* what Chain finds starts with what is linked, whatever comes after *)
LEMMA ChainStarts ==
  ASSUME NEW t \in Seq(Entry), Len(t) \in 1 .. Cardinality(Entry) + 1, Cardinality(Entry) \in Nat,
         NEW link \in Link, \A i \in 1 .. Len(t) - 1 : link[t[i]] = t[i + 1]
  PROVE  /\ Chain(t[1], link) \in Seq(Entry) /\ Len(t) <= Len(Chain(t[1], link))
         /\ \A i \in 1 .. Len(t) : Chain(t[1], link)[i] = t[i]
  <1>1. PICK k \in Nat : k = Cardinality(Entry) + 1
    OBVIOUS
  <1>2. PICK g : Follows(g, link, k) /\ Chain(t[1], link) = g[k][t[1]]
    BY ONLY k \in Nat, <1>1, ChainFollows
  <1>3. PICK n \in Nat : n = Len(t) /\ 1 <= n /\ n <= k
    BY <1>1
  <1>4. \A m \in 0 .. k, e \in Pointer :
          g[m][e] = IF e = NULL \/ m = 0 THEN <<>> ELSE <<e>> \o g[m - 1][link[e]]
    <2>1. ASSUME NEW m \in 0 .. k, NEW e \in Pointer
          PROVE  g[m][e] = IF e = NULL \/ m = 0 THEN <<>> ELSE <<e>> \o g[m - 1][link[e]]
      <3>1. g[m] = Further(g, link, m)
        BY <1>2, Zenon DEF Follows
      <3>2. Further(g, link, m)[e] = IF e = NULL \/ m = 0 THEN <<>> ELSE <<e>> \o g[m - 1][link[e]]
        BY Zenon DEF Further
      <3>3. QED
        BY <3>1, <3>2, Zenon
    <2>2. QED
      BY <2>1, Zenon
  <1> DEFINE Whole(m) == m <= k => \A e \in Pointer : g[m][e] \in Seq(Entry)
             S == {m \in Nat : Whole(m)}
  <1>5. \A m \in 0 .. k, e \in Pointer : g[m][e] \in Seq(Entry)
    <2>1. 0 \in S
      <3>1. 0 \in 0 .. k /\ <<>> \in Seq(Entry)
        OBVIOUS
      <3>2. QED
        BY <1>4, <3>1
    <2>2. ASSUME NEW m \in Nat, m \in S PROVE m + 1 \in S
      <3>1. SUFFICES ASSUME m + 1 <= k, NEW e \in Pointer PROVE g[m + 1][e] \in Seq(Entry)
        OBVIOUS
      <3>2. m + 1 \in 0 .. k /\ (m + 1) - 1 = m /\ m + 1 # 0 /\ m <= k
        BY <3>1
      <3>3. g[m + 1][e] = IF e = NULL THEN <<>> ELSE <<e>> \o g[m][link[e]]
        BY <1>4, <3>2, Zenon
      <3>4. CASE e = NULL
        BY <3>3, <3>4
      <3>5. CASE e # NULL
        <4>1. e \in Entry /\ link[e] \in Pointer
          BY <3>5 DEF Pointer, Link
        <4>2. g[m][link[e]] \in Seq(Entry)
          BY <2>2, <3>2, <4>1
        <4>3. <<e>> \o g[m][link[e]] \in Seq(Entry)
          BY <4>1, <4>2, Prefixed
        <4>4. QED
          BY <3>3, <3>5, <4>3
      <3>6. QED
        BY <3>4, <3>5
    <2>3. Nat \subseteq S
      <3> HIDE DEF S
      <3>1. \A m \in Nat : m \in S => m + 1 \in S
        BY <2>2
      <3>2. QED
        BY <2>1, <3>1, Induction
    <2>4. QED
      BY <2>3
  <1> DEFINE Met(u, i, d) == u \in Seq(Entry) /\ d <= Len(u) /\ \A j \in 1 .. d : u[j] = t[(i - 1) + j]
             Found(d) == \A i \in 1 .. n, m \in 0 .. k :
                           i + d = n + 1 /\ m >= d => Met(g[m][t[i]], i, d)
             T == {d \in Nat : d = 0 \/ Found(d)}
  <1>6. \A i \in 1 .. n : t[i] \in Entry /\ t[i] \in Pointer /\ t[i] # NULL
    BY <1>3, Pointers
  <1>7. 0 \in T
    <2>1. 0 \in Nat
      OBVIOUS
    <2>2. QED
      BY <2>1, Zenon
  <1>8. ASSUME NEW d \in Nat, d \in T PROVE d + 1 \in T
    <2>0. SUFFICES Found(d + 1)
      <3>1. d + 1 \in Nat
        OBVIOUS
      <3>2. QED
        BY <3>1, Zenon
    <2>1. SUFFICES ASSUME NEW i \in 1 .. n, NEW m \in 0 .. k, i + (d + 1) = n + 1, m >= d + 1
                   PROVE  Met(g[m][t[i]], i, d + 1)
      BY Zenon
    <2>2. m - 1 \in 0 .. k /\ m - 1 >= d /\ m # 0
      BY <2>1
    <2>3. PICK u : u = g[m - 1][link[t[i]]] /\ u \in Seq(Entry)
      <3>1. link[t[i]] \in Pointer
        BY <1>6 DEF Link
      <3>2. QED
        BY <1>5, <2>2, <3>1
    <2>4. g[m][t[i]] = <<t[i]>> \o u
      BY <1>4, <1>6, <2>2, <2>3, Zenon
    <2>5. PICK v \in Seq(Entry) : v = <<t[i]>> \o u
      BY <1>6, <2>3, Prefixed
    <2>6. Len(v) = Len(u) + 1 /\ v[1] = t[i] /\ \A j \in 1 .. Len(u) : v[j + 1] = u[j]
      BY <1>6, <2>3, <2>5, Prefixed
    <2>7. d <= Len(u) /\ \A j \in 1 .. d : u[j] = t[i + j]
      <3>1. CASE d = 0
        BY <2>3, <3>1
      <3>2. CASE d # 0
        <4>1. i + 1 \in 1 .. n /\ (i + 1) + d = n + 1 /\ i \in 1 .. Len(t) - 1
          BY <1>3, <2>1, <3>2
        <4>2. link[t[i]] = t[i + 1]
          BY <4>1
        <4>3. Met(g[m - 1][t[i + 1]], i + 1, d)
          BY <1>8, <2>2, <3>2, <4>1
        <4>4. Met(u, i + 1, d)
          BY <2>3, <4>2, <4>3, Zenon
        <4>5. \A j \in 1 .. d : u[j] = t[((i + 1) - 1) + j]
          BY <4>4
        <4>6. (i + 1) - 1 = i
          OBVIOUS
        <4>7. QED
          BY <4>4, <4>5, <4>6
      <3>3. QED
        BY <3>1, <3>2
    <2>8. ASSUME NEW j \in 1 .. d + 1 PROVE v[j] = t[(i - 1) + j]
      <3>1. CASE j = 1
        BY <2>6, <3>1
      <3>2. CASE j # 1
        <4>1. PICK o \in 1 .. d : j = o + 1 /\ (i - 1) + j = i + o
          <5>1. j - 1 \in 1 .. d /\ j = (j - 1) + 1 /\ (i - 1) + j = i + (j - 1)
            BY <3>2
          <5>2. QED
            BY <5>1
        <4>2. o \in 1 .. Len(u)
          BY <2>3, <2>7
        <4>3. v[o + 1] = u[o] /\ u[o] = t[i + o]
          BY <2>6, <2>7, <4>2
        <4>4. QED
          BY <4>1, <4>3
      <3>3. QED
        BY <3>1, <3>2
    <2>9. d + 1 <= Len(v)
      <3>1. Len(u) \in Nat
        BY <2>3
      <3>2. QED
        BY ONLY d \in Nat, <2>6, <2>7, <3>1
    <2>10. QED
      BY <2>4, <2>5, <2>8, <2>9
  <1>9. n \in T
    <2> HIDE DEF T
    <2>1. \A d \in Nat : d \in T => d + 1 \in T
      BY <1>8
    <2>2. Nat \subseteq T
      BY <1>7, <2>1, Induction
    <2>3. QED
      BY <2>2
  <1>10. Met(g[k][t[1]], 1, n)
    BY <1>3, <1>9
  <1>11. \A j \in 1 .. n : (1 - 1) + j = j
    OBVIOUS
  <1>12. QED
    BY <1>2, <1>3, <1>10, <1>11

(* from the first, once around: what C!Around computes *)
OnceAround(met, first) ==
  LET again == {i \in 2 .. Len(met) : met[i] = first}
  IN  IF again = {} THEN met
      ELSE SubSeq(met, 1, (CHOOSE i \in again : \A j \in again : i <= j) - 1)
Round(first, link) == OnceAround(Chain(first, link), first)

LEMMA RoundIs ==
  ASSUME NEW s \in Seq(Entry), Distinct(s), NEW link \in Link, RingOn(s, link)
  PROVE  Round(At(s, 1), link) = s
  <1>1. PICK n \in Nat : n = Len(s)
    OBVIOUS
  <1>2. Once(s) /\ \A i \in 1 .. n : At(s, i) = s[i] /\ s[i] \in Entry
    BY <1>1, ByPosition, AtIs
  <1>3. CASE n = 0
    <2>1. s = <<>> /\ 2 .. 0 = {}
      <3>1. s \in Seq(Entry) /\ Len(s) = 0
        BY <1>1, <1>3
      <3>2. QED
        BY ONLY <3>1
    <2>2. Forward(s, link)
      BY <1>1, <1>3 DEF Forward
    <2>3. PICK first, met, again :
              /\ first = At(s, 1) /\ met = Chain(first, link)
              /\ again = {i \in 2 .. Len(met) : met[i] = first}
      OBVIOUS
    <2>4. met = s
      BY <1>2, <2>2, <2>3, ChainIs
    <2>5. again = {}
      <3>1. Len(met) = 0
        BY <1>1, <1>3, <2>4
      <3>2. 2 .. Len(met) = {}
        BY <2>1, <3>1, Zenon
      <3>3. QED
        BY <2>3, <3>2, Zenon
    <2>6. QED
      BY <2>3, <2>4, <2>5, Zenon DEF Round, OnceAround
  <1>4. CASE n # 0
    <2>1. 1 \in 1 .. n /\ n \in 1 .. n /\ n + 1 \in Nat
      BY <1>4
    <2>2. PICK t \in Seq(Entry) : t = s \o <<s[1]>>
      BY <1>2, <2>1, Single, Together
    <2>3. Len(t) = n + 1 /\ (\A i \in 1 .. n : t[i] = s[i]) /\ t[n + 1] = s[1]
      <3>1. PICK w \in Seq(Entry) : w = <<s[1]>> /\ Len(w) = 1 /\ w[1] = s[1]
        BY <1>2, <2>1, Single
      <3>2. t = s \o w
        BY <2>2, <3>1
      <3>3. /\ Len(t) = n + Len(w) /\ \A i \in 1 .. n : t[i] = s[i]
            /\ \A i \in 1 .. Len(w) : t[n + i] = w[i]
        <4>1. /\ Len(t) = Len(s) + Len(w) /\ \A i \in 1 .. Len(s) : t[i] = s[i]
              /\ \A i \in 1 .. Len(w) : t[Len(s) + i] = w[i]
          BY ONLY s \in Seq(Entry), w \in Seq(Entry), <3>2, Together
        <4>2. QED
          BY <1>1, <4>1
      <3>4. 1 \in 1 .. Len(w)
        BY <3>1
      <3>5. QED
        BY <3>1, <3>3, <3>4
    <2>4. \A i \in 1 .. Len(t) - 1 : link[t[i]] = t[i + 1]
      <3>1. SUFFICES ASSUME NEW i \in 1 .. n PROVE link[t[i]] = t[i + 1]
        BY <2>3
      <3>2. link[s[i]] = Succ(s, i)
        BY <1>1, <1>2 DEF RingOn
      <3>3. CASE i = n
        BY <1>1, <1>2, <2>1, <2>3, <3>2, <3>3 DEF Succ
      <3>4. CASE i # n
        <4>1. i + 1 \in 1 .. n
          BY <3>4
        <4>2. QED
          BY <1>1, <1>2, <2>3, <3>2, <3>4, <4>1 DEF Succ
      <3>5. QED
        BY <3>3, <3>4
    <2>5. Len(t) \in 1 .. Cardinality(Entry) + 1 /\ Cardinality(Entry) \in Nat
      BY <1>1, <1>2, <2>1, <2>3, OnceFits
    <2>6. PICK met : met = Chain(t[1], link)
      OBVIOUS
    <2>7. met \in Seq(Entry) /\ n + 1 <= Len(met) /\ \A i \in 1 .. n + 1 : met[i] = t[i]
      BY ONLY t \in Seq(Entry), link \in Link, <2>3, <2>4, <2>5, <2>6, ChainStarts
    <2>8. PICK again : again = {i \in 2 .. Len(met) : met[i] = s[1]}
      OBVIOUS
    <2>9. n + 1 \in again
      BY <1>1, <2>1, <2>3, <2>7, <2>8
    <2>10. \A i \in again : i \in Int /\ n + 1 <= i
      <3>1. SUFFICES ASSUME NEW i \in again, ~ (n + 1 <= i) PROVE FALSE
        BY <2>7, <2>8
      <3>2. i \in 2 .. n /\ i \in 1 .. n + 1 /\ i \in 1 .. n /\ met[i] = s[1]
        BY <2>7, <2>8, <3>1
      <3>3. s[i] = s[1]
        BY <2>3, <2>7, <3>2
      <3>4. i = 1
        BY <1>1, <1>2, <2>1, <3>2, <3>3 DEF Once
      <3>5. QED
        BY <3>2, <3>4
    <2>11. (CHOOSE i \in again : \A j \in again : i <= j) = n + 1
      <3>1. \A i \in again : (\A j \in again : i <= j) => i = n + 1
        BY <2>9, <2>10
      <3>2. \A j \in again : n + 1 <= j
        BY <2>10
      <3>3. PICK c : c = CHOOSE i \in again : \A j \in again : i <= j
        OBVIOUS
      <3>4. c \in again /\ \A j \in again : c <= j
        BY <2>9, <3>2, <3>3, Zenon
      <3>5. QED
        BY <3>1, <3>3, <3>4
    <2>12. SubSeq(met, 1, n) = s
      <3>1. 1 \in 1 .. Len(met) + 1 /\ n \in 0 .. Len(met) /\ 1 <= n + 1
        BY <2>7
      <3>2. PICK w : w = SubSeq(met, 1, n)
        OBVIOUS
      <3>3. w \in Seq(Entry) /\ Len(w) = n - 1 + 1 /\ \A j \in 1 .. n - 1 + 1 : w[j] = met[1 + j - 1]
        BY <2>7, <3>1, <3>2, Part
      <3>4. n - 1 + 1 = n /\ \A j \in 1 .. n : 1 + j - 1 = j /\ j \in 1 .. n + 1
        OBVIOUS
      <3>5. Len(w) = n /\ \A j \in 1 .. n : w[j] = s[j]
        BY <2>3, <2>7, <3>3, <3>4
      <3>6. QED
        BY <1>1, <3>2, <3>3, <3>5, SameSequence
    <2>13. At(s, 1) = s[1] /\ t[1] = s[1] /\ (n + 1) - 1 = n
      BY <1>2, <2>1, <2>3
    <2>14. Round(s[1], link) = SubSeq(met, 1, (CHOOSE i \in again : \A j \in again : i <= j) - 1)
      <3>1. again # {} /\ met = Chain(s[1], link)
        BY <2>6, <2>9, <2>13
      <3>2. QED
        BY <2>8, <3>1, Zenon DEF Round, OnceAround
    <2>15. QED
      BY <2>11, <2>12, <2>13, <2>14
  <1>5. QED
    BY <1>3, <1>4

(* CIRCLEQ_PREV yields the entries in reverse order, the first before them *)
LEMMA RoundBackIs ==
  ASSUME NEW s \in Seq(Entry), s # <<>>, Distinct(s), NEW b \in Link, RingBack(s, b)
  PROVE  Round(At(s, 1), b) = <<At(s, 1)>> \o Reverse(Tail(s))
  <1>1. PICK n \in Nat : n = Len(s) /\ n # 0
    OBVIOUS
  <1>2. PICK e \in Entry : e = At(s, 1)
    <2>1. 1 \in 1 .. n
      BY <1>1
    <2>2. QED
      BY <1>1, <2>1, AtIs
  <1>3. Tail(s) \in Seq(Entry) /\ Len(Tail(s)) = n - 1 /\ \A j \in 1 .. n - 1 : Tail(s)[j] = s[j + 1]
    BY <1>1
  <1>4. PICK u \in Seq(Entry) : /\ u = Reverse(Tail(s)) /\ Len(u) = n - 1
                                /\ \A j \in Int : At(u, j) = At(Tail(s), n - j)
    <2>1. Reverse(Tail(s)) \in Seq(Entry) /\ Len(Reverse(Tail(s))) = n - 1
      BY <1>3, Reversed
    <2>2. \A j \in Int : At(Reverse(Tail(s)), j) = At(Tail(s), (n - 1) + 1 - j)
      BY <1>3, Reversed
    <2>3. \A j \in Int : (n - 1) + 1 - j = n - j
      OBVIOUS
    <2>4. QED
      BY <2>1, <2>2, <2>3
  <1>5. PICK t \in Seq(Entry) : t = <<e>> \o u
    BY <1>4, Prefixed
  <1>6. Len(t) = n /\ t[1] = e /\ \A j \in 1 .. n - 1 : t[j + 1] = u[j]
    BY <1>4, <1>5, Prefixed
  <1>7. ASSUME NEW j \in 2 .. n PROVE /\ At(t, j) = At(s, (n + 2) - j) /\ (n + 2) - j \in 2 .. n
    <2>1. PICK k \in 1 .. n - 1 : j = k + 1 /\ k \in Int /\ n - k \in 1 .. n - 1 /\ (n + 2) - j = (n - k) + 1
      <3>1. j - 1 \in 1 .. n - 1 /\ j = (j - 1) + 1 /\ n - (j - 1) \in 1 .. n - 1 /\ (n + 2) - j = (n - (j - 1)) + 1
        OBVIOUS
      <3>2. QED
        BY <3>1
    <2>2. At(t, j) = u[k] /\ At(u, k) = u[k]
      BY <1>4, <1>6, <2>1 DEF At
    <2>3. PICK o \in 1 .. n - 1 : o = n - k /\ o + 1 \in 1 .. n /\ o + 1 = (n + 2) - j /\ o + 1 \in 2 .. n
      BY <2>1
    <2>4. At(u, k) = At(Tail(s), o)
      BY <1>4, <2>1, <2>3
    <2>5. At(Tail(s), o) = s[o + 1]
      BY <1>3, <2>3 DEF At
    <2>6. At(s, o + 1) = s[o + 1]
      BY <1>1, <2>3 DEF At
    <2>7. QED
      BY <2>2, <2>3, <2>4, <2>5, <2>6
  <1>8. At(t, 1) = At(s, 1)
    BY <1>1, <1>2, <1>6 DEF At
  <1> DEFINE Where(j) == IF j = 1 THEN 1 ELSE (n + 2) - j
  <1>9. ASSUME NEW j \in 1 .. n PROVE At(t, j) = At(s, Where(j)) /\ Where(j) \in 1 .. n
    BY <1>1, <1>7, <1>8
  <1>10. Distinct(t)
    <2>1. SUFFICES ASSUME NEW i \in Int, NEW j \in Int, At(t, i) = At(t, j), At(t, i) # NULL PROVE i = j
      BY DEF Distinct
    <2>2. i \in 1 .. n /\ j \in 1 .. n
      BY <1>6, <2>1, AtIs
    <2>3. PICK v \in 1 .. n, w \in 1 .. n : v = Where(i) /\ w = Where(j) /\ At(s, v) = At(s, w) /\ At(s, v) # NULL
      BY <1>9, <2>1, <2>2
    <2>4. v = w
      BY <2>3 DEF Distinct
    <2>5. QED
      BY <2>2, <2>3, <2>4
  <1>11. RingOn(t, b)
    <2>1. SUFFICES ASSUME NEW i \in 1 .. n PROVE b[At(t, i)] = IF i = n THEN At(t, 1) ELSE At(t, i + 1)
      BY <1>6 DEF RingOn, Succ
    <2>2. \A m \in 1 .. n : b[At(s, m)] = IF m = 1 THEN At(s, n) ELSE At(s, m - 1)
      BY <1>1 DEF RingBack, Pred
    <2>3. CASE i = 1
      <3>1. b[At(t, 1)] = At(s, n)
        <4>1. 1 \in 1 .. n
          BY <1>1
        <4>2. QED
          BY <1>8, <2>2, <4>1
      <3>2. CASE n = 1
        BY <1>8, <2>3, <3>1, <3>2
      <3>3. CASE n # 1
        <4>1. 2 \in 2 .. n /\ (n + 2) - 2 = n
          BY <1>1, <3>3
        <4>2. At(t, 2) = At(s, n)
          BY <1>7, <4>1
        <4>3. QED
          BY <2>3, <3>1, <3>3, <4>2
      <3>4. QED
        BY <3>2, <3>3
    <2>4. CASE i # 1
      <3>1. PICK m \in 2 .. n : m = (n + 2) - i /\ At(t, i) = At(s, m)
        <4>1. i \in 2 .. n
          BY <2>4
        <4>2. QED
          BY <1>7, <4>1
      <3>2. b[At(t, i)] = At(s, m - 1)
        BY <2>2, <3>1
      <3>3. CASE i = n
        <4>1. m - 1 = 1
          BY <3>1, <3>3
        <4>2. QED
          BY <1>8, <3>2, <3>3, <4>1
      <3>4. CASE i # n
        <4>1. i + 1 \in 2 .. n /\ (n + 2) - (i + 1) = m - 1
          BY <2>4, <3>1, <3>4
        <4>2. At(t, i + 1) = At(s, m - 1)
          BY <1>7, <4>1
        <4>3. QED
          BY <3>2, <3>4, <4>2
      <3>5. QED
        BY <3>3, <3>4
    <2>5. QED
      BY <2>3, <2>4
  <1>12. Round(At(t, 1), b) = t
    BY <1>10, <1>11, RoundIs
  <1>13. QED
    BY <1>2, <1>4, <1>5, <1>8, <1>12

(* e is put before the first entry or behind the last: it is followed by the *)
(* first, and follows the last *)
LinkedIn(s, f, g, e) ==
  /\ g[e] = IF s = <<>> THEN e ELSE At(s, 1)
  /\ s # <<>> => g[At(s, Len(s))] = e
  /\ \A x \in Entry : x # e /\ x # At(s, Len(s)) => g[x] = f[x]
LinkedInBack(s, b, c, e) ==
  /\ c[e] = IF s = <<>> THEN e ELSE At(s, Len(s))
  /\ s # <<>> => c[At(s, 1)] = e
  /\ \A x \in Entry : x # e /\ x # At(s, 1) => c[x] = b[x]

LEMMA Positions ==
  ASSUME NEW s \in Seq(Entry), Distinct(s)
  PROVE  \E n \in Nat : /\ n = Len(s) /\ (n = 0 <=> s = <<>>)
                        /\ \A i \in 1 .. n : At(s, i) \in Entry
                        /\ \A i \in Int : At(s, i) # NULL <=> i \in 1 .. n
                        /\ \A i, j \in 1 .. n : At(s, i) = At(s, j) => i = j
  <1>1. Len(s) \in Nat /\ (Len(s) = 0 <=> s = <<>>)
    OBVIOUS
  <1>2. \A i \in 1 .. Len(s) : i \in Int /\ At(s, i) \in Entry /\ At(s, i) # NULL
    BY AtIs, Pointers
  <1>3. \A i, j \in 1 .. Len(s) : At(s, i) = At(s, j) => i = j
    BY <1>2 DEF Distinct
  <1>4. \A i \in Int : At(s, i) # NULL <=> i \in 1 .. Len(s)
    BY AtIs
  <1>5. QED
    BY <1>1, <1>2, <1>3, <1>4

LEMMA RingGrown ==
  ASSUME NEW s \in Seq(Entry), Distinct(s), NEW e \in Entry, Absent(e, s),
         NEW i, i = 1 \/ i = Len(s) + 1,
         NEW r \in Seq(Entry), Len(r) = Len(s) + 1, Widened(s, r, i, e),
         NEW f, NEW g, RingOn(s, f), LinkedIn(s, f, g, e)
  PROVE  RingOn(r, g)
  <1>1. PICK n \in Nat : /\ n = Len(s) /\ (n = 0 <=> s = <<>>)
                         /\ \A j \in 1 .. n : At(s, j) \in Entry
                         /\ \A j, k \in 1 .. n : At(s, j) = At(s, k) => j = k
    BY Positions
  <1>2. \A j \in 1 .. n : f[At(s, j)] = IF j = n THEN At(s, 1) ELSE At(s, j + 1)
    BY <1>1 DEF RingOn, Succ
  <1>3. \A j \in 1 .. n : At(s, j) # e
    BY DEF Absent
  <1>4. /\ g[e] = IF n = 0 THEN e ELSE At(s, 1)
        /\ n # 0 => g[At(s, n)] = e
        /\ \A j \in 1 .. n : j # n => g[At(s, j)] = f[At(s, j)]
    <2>1. \A j \in 1 .. n : j # n => At(s, j) # At(s, n)
      BY <1>1
    <2>2. QED
      BY <1>1, <1>3, <2>1 DEF LinkedIn
  <1>5. SUFFICES ASSUME NEW j \in 1 .. n + 1 PROVE g[At(r, j)] = IF j = n + 1 THEN At(r, 1) ELSE At(r, j + 1)
    BY <1>1 DEF RingOn, Succ
  <1>6. CASE i = 1
    <2>1. At(r, 1) = e /\ \A k \in Int : k > 1 => At(r, k) = At(s, k - 1)
      BY <1>6 DEF Widened
    <2>2. CASE j = 1
      <3>1. CASE n = 0
        BY <1>4, <2>1, <2>2, <3>1
      <3>2. CASE n # 0
        <4>1. At(r, 2) = At(s, 1)
          BY <2>1
        <4>2. QED
          BY <1>4, <2>1, <2>2, <3>2, <4>1
      <3>3. QED
        BY <3>1, <3>2
    <2>3. CASE j # 1
      <3>1. PICK k \in 1 .. n : k = j - 1 /\ k + 1 = j /\ (k = n <=> j = n + 1)
        BY <2>3
      <3>2. At(r, j) = At(s, k) /\ At(r, j + 1) = At(s, k + 1)
        <4>1. j > 1 /\ j + 1 > 1 /\ (j + 1) - 1 = k + 1 /\ j \in Int /\ j + 1 \in Int
          BY <2>3, <3>1
        <4>2. QED
          BY <2>1, <3>1, <4>1
      <3>3. CASE k = n
        BY <1>4, <2>1, <3>1, <3>2, <3>3
      <3>4. CASE k # n
        BY <1>2, <1>4, <3>1, <3>2, <3>4
      <3>5. QED
        BY <3>3, <3>4
    <2>4. QED
      BY <2>2, <2>3
  <1>7. CASE i = n + 1
    <2>1. At(r, n + 1) = e /\ \A k \in Int : k < n + 1 => At(r, k) = At(s, k)
      BY <1>7 DEF Widened
    <2>2. CASE j = n + 1
      <3>1. CASE n = 0
        <4>1. j = 1
          BY <2>2, <3>1
        <4>2. QED
          BY <1>4, <2>1, <2>2, <3>1, <4>1
      <3>2. CASE n # 0
        <4>1. At(r, 1) = At(s, 1)
          BY <2>1, <3>2
        <4>2. QED
          BY <1>4, <2>1, <2>2, <3>2, <4>1
      <3>3. QED
        BY <3>1, <3>2
    <2>3. CASE j # n + 1
      <3>1. At(r, j) = At(s, j) /\ j \in 1 .. n
        BY <2>1, <2>3
      <3>2. CASE j = n
        BY <1>4, <2>1, <3>1, <3>2
      <3>3. CASE j # n
        <4>1. At(r, j + 1) = At(s, j + 1)
          BY <2>1, <3>1, <3>3
        <4>2. QED
          BY <1>2, <1>4, <3>1, <3>3, <4>1
      <3>4. QED
        BY <2>3, <3>2, <3>3
    <2>4. QED
      BY <2>2, <2>3
  <1>8. QED
    BY <1>1, <1>6, <1>7

LEMMA RingGrownBack ==
  ASSUME NEW s \in Seq(Entry), Distinct(s), NEW e \in Entry, Absent(e, s),
         NEW i, i = 1 \/ i = Len(s) + 1,
         NEW r \in Seq(Entry), Len(r) = Len(s) + 1, Widened(s, r, i, e),
         NEW b, NEW c, RingBack(s, b), LinkedInBack(s, b, c, e)
  PROVE  RingBack(r, c)
  <1>1. PICK n \in Nat : /\ n = Len(s) /\ (n = 0 <=> s = <<>>)
                         /\ \A j \in 1 .. n : At(s, j) \in Entry
                         /\ \A j, k \in 1 .. n : At(s, j) = At(s, k) => j = k
    BY Positions
  <1>2. \A j \in 1 .. n : b[At(s, j)] = IF j = 1 THEN At(s, n) ELSE At(s, j - 1)
    BY <1>1 DEF RingBack, Pred
  <1>3. \A j \in 1 .. n : At(s, j) # e
    BY DEF Absent
  <1>4. /\ c[e] = IF n = 0 THEN e ELSE At(s, n)
        /\ n # 0 => c[At(s, 1)] = e
        /\ \A j \in 1 .. n : j # 1 => c[At(s, j)] = b[At(s, j)]
    <2>1. \A j \in 1 .. n : j # 1 => At(s, j) # At(s, 1)
      BY <1>1
    <2>2. QED
      BY <1>1, <1>3, <2>1 DEF LinkedInBack
  <1>5. SUFFICES ASSUME NEW j \in 1 .. n + 1 PROVE c[At(r, j)] = IF j = 1 THEN At(r, n + 1) ELSE At(r, j - 1)
    BY <1>1 DEF RingBack, Pred
  <1>6. CASE i = 1
    <2>1. At(r, 1) = e /\ \A k \in Int : k > 1 => At(r, k) = At(s, k - 1)
      BY <1>6 DEF Widened
    <2>2. CASE j = 1
      <3>1. CASE n = 0
        <4>1. n + 1 = 1
          BY <3>1
        <4>2. QED
          BY <1>4, <2>1, <2>2, <3>1, <4>1
      <3>2. CASE n # 0
        <4>1. At(r, n + 1) = At(s, n)
          <5>1. n + 1 > 1 /\ (n + 1) - 1 = n /\ n + 1 \in Int
            BY <3>2
          <5>2. QED
            BY <2>1, <5>1
        <4>2. QED
          BY <1>4, <2>1, <2>2, <3>2, <4>1
      <3>3. QED
        BY <3>1, <3>2
    <2>3. CASE j # 1
      <3>1. PICK k \in 1 .. n : k = j - 1 /\ j > 1 /\ At(r, j) = At(s, k)
        <4>1. j - 1 \in 1 .. n /\ j > 1 /\ j \in Int
          BY <2>3
        <4>2. QED
          BY <2>1, <4>1
      <3>2. CASE k = 1
        BY <1>4, <2>1, <2>3, <3>1, <3>2
      <3>3. CASE k # 1
        <4>1. At(r, k) = At(s, k - 1)
          BY <2>1, <3>3
        <4>2. QED
          BY <1>2, <1>4, <2>3, <3>1, <3>3, <4>1
      <3>4. QED
        BY <3>2, <3>3
    <2>4. QED
      BY <2>2, <2>3
  <1>7. CASE i = n + 1
    <2>1. At(r, n + 1) = e /\ \A k \in Int : k < n + 1 => At(r, k) = At(s, k)
      BY <1>7 DEF Widened
    <2>2. CASE j = n + 1
      <3>1. CASE n = 0
        <4>1. j = 1
          BY <2>2, <3>1
        <4>2. QED
          BY <1>4, <2>1, <2>2, <3>1, <4>1
      <3>2. CASE n # 0
        <4>1. j # 1 /\ j - 1 = n /\ At(r, n) = At(s, n)
          BY <2>1, <2>2, <3>2
        <4>2. QED
          BY <1>4, <2>1, <2>2, <3>2, <4>1
      <3>3. QED
        BY <3>1, <3>2
    <2>3. CASE j # n + 1
      <3>1. At(r, j) = At(s, j) /\ j \in 1 .. n
        BY <2>1, <2>3
      <3>2. CASE j = 1
        BY <1>4, <2>1, <3>1, <3>2
      <3>3. CASE j # 1
        <4>1. At(r, j - 1) = At(s, j - 1)
          BY <2>1, <3>1, <3>3
        <4>2. QED
          BY <1>2, <1>4, <3>1, <3>3, <4>1
      <3>4. QED
        BY <2>3, <3>2, <3>3
    <2>4. QED
      BY <2>2, <2>3
  <1>8. QED
    BY <1>1, <1>6, <1>7

(* the entry at position i is passed over *)
LEMMA RingShrunk ==
  ASSUME NEW s \in Seq(Entry), Distinct(s), Len(s) # 1, NEW i \in 1 .. Len(s),
         NEW r \in Seq(Entry), Len(r) = Len(s) - 1, Narrowed(s, r, i),
         NEW f, NEW g, RingOn(s, f), Bypassed(f, g, Pred(s, i), Succ(s, i))
  PROVE  RingOn(r, g)
  <1>1. PICK n \in Nat : /\ n = Len(s) /\ (n = 0 <=> s = <<>>)
                         /\ \A j \in 1 .. n : At(s, j) \in Entry
                         /\ \A j \in Int : At(s, j) # NULL <=> j \in 1 .. n
                         /\ \A j, k \in 1 .. n : At(s, j) = At(s, k) => j = k
    BY Positions
  <1>2. n > 1 /\ i \in 1 .. n /\ 1 \in 1 .. n /\ n \in 1 .. n
    BY <1>1
  <1>3. \A j \in 1 .. n : f[At(s, j)] = IF j = n THEN At(s, 1) ELSE At(s, j + 1)
    BY <1>1 DEF RingOn, Succ
  <1>4. PICK o \in 1 .. n : o = IF i = 1 THEN n ELSE i - 1
    BY <1>2
  <1>5. Pred(s, i) = At(s, o) /\ Succ(s, i) = IF i = n THEN At(s, 1) ELSE At(s, i + 1)
    BY <1>1, <1>4 DEF Pred, Succ
  <1>6. /\ g[At(s, o)] = IF i = n THEN At(s, 1) ELSE At(s, i + 1)
        /\ \A j \in 1 .. n : j # o => g[At(s, j)] = f[At(s, j)]
    <2>1. At(s, o) # NULL /\ \A j \in 1 .. n : j # o => At(s, j) # At(s, o)
      BY <1>1
    <2>2. QED
      BY <1>1, <1>5, <2>1 DEF Bypassed
  <1>7. SUFFICES ASSUME NEW j \in 1 .. n - 1
                 PROVE  g[At(r, j)] = IF j = n - 1 THEN At(r, 1) ELSE At(r, j + 1)
    BY <1>1 DEF RingOn, Succ
  <1>8. \A k \in 1 .. n - 1 : At(r, k) = IF k < i THEN At(s, k) ELSE At(s, k + 1)
    <2>1. \A k \in 1 .. n - 1 : k \in Int
      OBVIOUS
    <2>2. QED
      BY <2>1, Zenon DEF Narrowed
  <1>9. PICK k \in 1 .. n : k = (IF j < i THEN j ELSE j + 1) /\ At(r, j) = At(s, k) /\ k # i
    BY <1>8
  <1>10. CASE k = o
    <2>1. CASE i = 1
      <3>1. k = n /\ j = n - 1 /\ 1 \in 1 .. n - 1 /\ ~ (1 < i) /\ i # n /\ i + 1 = 1 + 1
        BY <1>2, <1>4, <1>9, <1>10, <2>1
      <3>2. At(r, 1) = At(s, 1 + 1)
        BY <1>8, <3>1
      <3>3. QED
        BY <1>6, <1>9, <1>10, <3>1, <3>2
    <2>2. CASE i # 1
      <3>1. k = i - 1 /\ j = i - 1 /\ j < i
        BY <1>4, <1>9, <1>10, <2>2
      <3>2. CASE i = n
        <4>1. j = n - 1 /\ 1 \in 1 .. n - 1 /\ 1 < i
          BY <1>2, <3>1, <3>2
        <4>2. At(r, 1) = At(s, 1)
          BY <1>8, <4>1
        <4>3. QED
          BY <1>6, <1>9, <1>10, <3>2, <4>1, <4>2
      <3>3. CASE i # n
        <4>1. j # n - 1 /\ j + 1 \in 1 .. n - 1 /\ ~ (j + 1 < i) /\ (j + 1) + 1 = i + 1
          BY <1>2, <3>1, <3>3
        <4>2. At(r, j + 1) = At(s, (j + 1) + 1)
          BY <1>8, <4>1
        <4>3. QED
          BY <1>6, <1>9, <1>10, <3>3, <4>1, <4>2
      <3>4. QED
        BY <3>2, <3>3
    <2>3. QED
      BY <2>1, <2>2
  <1>11. CASE k # o
    <2>1. g[At(r, j)] = IF k = n THEN At(s, 1) ELSE At(s, k + 1)
      BY <1>3, <1>6, <1>9, <1>11
    <2>2. CASE k = n
      <3>1. j = n - 1 /\ i # 1 /\ 1 < i /\ 1 \in 1 .. n - 1
        BY <1>2, <1>4, <1>9, <1>11, <2>2
      <3>2. At(r, 1) = At(s, 1)
        BY <1>8, <3>1
      <3>3. QED
        BY <2>1, <2>2, <3>1, <3>2
    <2>3. CASE k # n
      <3>1. CASE j < i
        <4>1. k = j /\ j + 1 < i /\ j + 1 \in 1 .. n - 1 /\ j # n - 1
          BY <1>2, <1>4, <1>9, <1>11, <2>3, <3>1
        <4>2. At(r, j + 1) = At(s, j + 1)
          BY <1>8, <4>1
        <4>3. QED
          BY <2>1, <2>3, <4>1, <4>2
      <3>2. CASE ~ (j < i)
        <4>1. k = j + 1 /\ ~ (j + 1 < i) /\ j + 1 \in 1 .. n - 1 /\ j # n - 1
          BY <1>9, <2>3, <3>2
        <4>2. At(r, j + 1) = At(s, (j + 1) + 1)
          BY <1>8, <4>1
        <4>3. QED
          BY <2>1, <2>3, <4>1, <4>2
      <3>3. QED
        BY <3>1, <3>2
    <2>4. QED
      BY <2>2, <2>3
  <1>12. QED
    BY <1>10, <1>11

LEMMA RingShrunkBack ==
  ASSUME NEW s \in Seq(Entry), Distinct(s), Len(s) # 1, NEW i \in 1 .. Len(s),
         NEW r \in Seq(Entry), Len(r) = Len(s) - 1, Narrowed(s, r, i),
         NEW b, NEW c, RingBack(s, b), Bypassed(b, c, Succ(s, i), Pred(s, i))
  PROVE  RingBack(r, c)
  <1>1. PICK n \in Nat : /\ n = Len(s) /\ (n = 0 <=> s = <<>>)
                         /\ \A j \in 1 .. n : At(s, j) \in Entry
                         /\ \A j \in Int : At(s, j) # NULL <=> j \in 1 .. n
                         /\ \A j, k \in 1 .. n : At(s, j) = At(s, k) => j = k
    BY Positions
  <1>2. n > 1 /\ i \in 1 .. n /\ 1 \in 1 .. n /\ n \in 1 .. n
    BY <1>1
  <1>3. \A j \in 1 .. n : b[At(s, j)] = IF j = 1 THEN At(s, n) ELSE At(s, j - 1)
    BY <1>1 DEF RingBack, Pred
  <1>4. PICK o \in 1 .. n : o = IF i = n THEN 1 ELSE i + 1
    BY <1>2
  <1>5. Succ(s, i) = At(s, o) /\ Pred(s, i) = IF i = 1 THEN At(s, n) ELSE At(s, i - 1)
    BY <1>1, <1>4 DEF Pred, Succ
  <1>6. /\ c[At(s, o)] = IF i = 1 THEN At(s, n) ELSE At(s, i - 1)
        /\ \A j \in 1 .. n : j # o => c[At(s, j)] = b[At(s, j)]
    <2>1. At(s, o) # NULL /\ \A j \in 1 .. n : j # o => At(s, j) # At(s, o)
      BY <1>1
    <2>2. QED
      BY <1>1, <1>5, <2>1 DEF Bypassed
  <1>7. SUFFICES ASSUME NEW j \in 1 .. n - 1
                 PROVE  c[At(r, j)] = IF j = 1 THEN At(r, n - 1) ELSE At(r, j - 1)
    BY <1>1 DEF RingBack, Pred
  <1>8. \A k \in 1 .. n - 1 : At(r, k) = IF k < i THEN At(s, k) ELSE At(s, k + 1)
    <2>1. \A k \in 1 .. n - 1 : k \in Int
      OBVIOUS
    <2>2. QED
      BY <2>1, Zenon DEF Narrowed
  <1>9. PICK k \in 1 .. n : k = (IF j < i THEN j ELSE j + 1) /\ At(r, j) = At(s, k) /\ k # i
    BY <1>8
  <1>10. (n - 1) + 1 = n /\ n - 1 \in 1 .. n - 1
    BY <1>2
  <1>11. CASE k = o
    <2>1. CASE i = n
      <3>1. k = 1 /\ j = 1 /\ n - 1 < i /\ i # 1
        BY <1>2, <1>4, <1>9, <1>11, <2>1
      <3>2. At(r, n - 1) = At(s, n - 1)
        BY <1>8, <1>10, <3>1
      <3>3. QED
        BY <1>6, <1>9, <1>11, <2>1, <3>1, <3>2
    <2>2. CASE i # n
      <3>1. k = i + 1 /\ j = i /\ ~ (j < i)
        BY <1>4, <1>9, <1>11, <2>2
      <3>2. CASE i = 1
        <4>1. j = 1 /\ ~ (n - 1 < i)
          BY <1>2, <3>1, <3>2
        <4>2. At(r, n - 1) = At(s, n)
          BY <1>8, <1>10, <4>1
        <4>3. QED
          BY <1>6, <1>9, <1>11, <3>2, <4>1, <4>2
      <3>3. CASE i # 1
        <4>1. j # 1 /\ j - 1 \in 1 .. n - 1 /\ j - 1 < i /\ j - 1 = i - 1
          BY <1>2, <3>1, <3>3
        <4>2. At(r, j - 1) = At(s, j - 1)
          BY <1>8, <4>1
        <4>3. QED
          BY <1>6, <1>9, <1>11, <3>3, <4>1, <4>2
      <3>4. QED
        BY <3>2, <3>3
    <2>3. QED
      BY <2>1, <2>2
  <1>12. CASE k # o
    <2>1. c[At(r, j)] = IF k = 1 THEN At(s, n) ELSE At(s, k - 1)
      BY <1>3, <1>6, <1>9, <1>12
    <2>2. CASE k = 1
      <3>1. j = 1 /\ ~ (n - 1 < i)
        BY <1>2, <1>4, <1>9, <1>12, <2>2
      <3>2. At(r, n - 1) = At(s, n)
        BY <1>8, <1>10, <3>1
      <3>3. QED
        BY <2>1, <2>2, <3>1, <3>2
    <2>3. CASE k # 1
      <3>1. CASE j < i
        <4>1. k = j /\ j - 1 < i /\ j - 1 \in 1 .. n - 1 /\ j # 1
          BY <1>9, <2>3, <3>1
        <4>2. At(r, j - 1) = At(s, j - 1)
          BY <1>8, <4>1
        <4>3. QED
          BY <2>1, <2>3, <4>1, <4>2
      <3>2. CASE ~ (j < i)
        <4>1. k = j + 1 /\ ~ (j - 1 < i) /\ j - 1 \in 1 .. n - 1 /\ j # 1 /\ k - 1 = (j - 1) + 1
          BY <1>2, <1>4, <1>9, <1>12, <2>3, <3>2
        <4>2. At(r, j - 1) = At(s, (j - 1) + 1)
          BY <1>8, <4>1
        <4>3. QED
          BY <2>1, <2>3, <4>1, <4>2
      <3>3. QED
        BY <3>1, <3>2
    <2>4. QED
      BY <2>2, <2>3
  <1>13. QED
    BY <1>11, <1>12

(* the ring is entered at position i instead *)
Turned(s, i) == SubSeq(s, i, Len(s)) \o SubSeq(s, 1, i - 1)

LEMMA TurnedIs ==
  ASSUME NEW s \in Seq(Entry), NEW i \in 1 .. Len(s)
  PROVE  /\ Turned(s, i) \in Seq(Entry) /\ Len(Turned(s, i)) = Len(s)
         /\ \A j \in 1 .. Len(s) : At(Turned(s, i), j) =
              IF j <= Len(s) + 1 - i THEN At(s, (i - 1) + j) ELSE At(s, (i - 1) + j - Len(s))
  <1>1. PICK n \in Nat : n = Len(s) /\ i \in 1 .. n
    OBVIOUS
  <1>2. i \in 1 .. n + 1 /\ n \in 0 .. n /\ i <= n + 1 /\ 1 \in 1 .. n + 1 /\ i - 1 \in 0 .. n /\ 1 <= (i - 1) + 1
    BY <1>1
  <1>3. PICK u : u = SubSeq(s, i, n)
    OBVIOUS
  <1>4. u \in Seq(Entry) /\ Len(u) = n - i + 1 /\ \A j \in 1 .. n - i + 1 : u[j] = s[i + j - 1]
    BY <1>1, <1>2, <1>3, Part
  <1>5. PICK v : v = SubSeq(s, 1, i - 1)
    OBVIOUS
  <1>6. v \in Seq(Entry) /\ Len(v) = i - 1 - 1 + 1 /\ \A j \in 1 .. i - 1 - 1 + 1 : v[j] = s[1 + j - 1]
    BY <1>1, <1>2, <1>5, Part
  <1>7. PICK t \in Seq(Entry) : t = u \o v
    BY <1>4, <1>6, Together
  <1>8. /\ Len(t) = Len(u) + Len(v) /\ \A j \in 1 .. Len(u) : t[j] = u[j]
        /\ \A j \in 1 .. Len(v) : t[Len(u) + j] = v[j]
    <2>1. u \in Seq(Entry) /\ v \in Seq(Entry)
      BY <1>4, <1>6
    <2>2. QED
      BY ONLY <1>7, <2>1, Together
  <1>9. PICK m \in Nat : m = n + 1 - i /\ Len(u) = m /\ Len(v) = i - 1 /\ Len(t) = n
    <2>1. n + 1 - i \in Nat /\ n - i + 1 = n + 1 - i /\ i - 1 - 1 + 1 = i - 1 /\ (n + 1 - i) + (i - 1) = n
      BY <1>1
    <2>2. Len(u) = n + 1 - i /\ Len(v) = i - 1 /\ Len(t) = Len(u) + Len(v)
      BY <1>4, <1>6, <1>8, <2>1
    <2>3. QED
      BY <2>1, <2>2
  <1>10. ASSUME NEW j \in 1 .. n
         PROVE  At(t, j) = IF j <= m THEN At(s, (i - 1) + j) ELSE At(s, (i - 1) + j - n)
    <2>1. CASE j <= m
      <3>1. j \in 1 .. m /\ i + j - 1 = (i - 1) + j /\ (i - 1) + j \in 1 .. n /\ j \in 1 .. n - i + 1
        BY <1>1, <1>9, <2>1
      <3>2. t[j] = s[(i - 1) + j]
        BY <1>4, <1>8, <1>9, <3>1
      <3>3. QED
        BY <1>1, <1>9, <2>1, <3>1, <3>2 DEF At
    <2>2. CASE ~ (j <= m)
      <3>1. PICK k \in 1 .. i - 1 : k = j - m /\ j = m + k /\ k = (i - 1) + j - n /\ 1 + k - 1 = k /\ k \in 1 .. n
        <4>1. j - m \in 1 .. i - 1 /\ j = m + (j - m) /\ j - m = (i - 1) + j - n /\ 1 + (j - m) - 1 = j - m
          BY <1>9, <2>2
        <4>2. j - m \in 1 .. n
          BY <1>1, <4>1
        <4>3. QED
          BY <4>1, <4>2
      <3>2. k \in 1 .. i - 1 - 1 + 1
        OBVIOUS
      <3>3. v[k] = s[k]
        BY <1>6, <3>1, <3>2
      <3>4. t[j] = s[k]
        BY <1>8, <1>9, <3>1, <3>3
      <3>5. QED
        BY <1>1, <1>9, <2>2, <3>1, <3>4 DEF At
    <2>3. QED
      BY <2>1, <2>2
  <1>11. Turned(s, i) = t
    BY <1>1, <1>3, <1>5, <1>7 DEF Turned
  <1>12. QED
    BY <1>1, <1>9, <1>10, <1>11

LEMMA RingTurned ==
  ASSUME NEW s \in Seq(Entry), Distinct(s), NEW i \in 1 .. Len(s), NEW f, RingOn(s, f), NEW b, RingBack(s, b),
         NEW r, r = Turned(s, i)
  PROVE  r \in Seq(Entry) /\ Distinct(r) /\ RingOn(r, f) /\ RingBack(r, b) /\ At(r, 1) = At(s, i)
  <1>1. PICK n \in Nat : /\ n = Len(s) /\ (n = 0 <=> s = <<>>)
                         /\ \A j \in 1 .. n : At(s, j) \in Entry
                         /\ \A j, k \in 1 .. n : At(s, j) = At(s, k) => j = k
    BY Positions
  <1>2. i \in 1 .. n
    BY <1>1
  <1>3. r \in Seq(Entry) /\ Len(r) = n
    BY <1>1, TurnedIs
  <1> DEFINE Where(j) == IF j <= n + 1 - i THEN (i - 1) + j ELSE (i - 1) + j - n
  <1>4. \A j \in 1 .. n : At(r, j) = At(s, Where(j))
    <2>1. \A j \in 1 .. n : At(r, j) = IF j <= n + 1 - i THEN At(s, (i - 1) + j) ELSE At(s, (i - 1) + j - n)
      BY <1>1, TurnedIs
    <2>2. QED
      BY <2>1
  <1>5. \A j \in 1 .. n : Where(j) \in 1 .. n
    BY <1>2
  <1>6. \A j, k \in 1 .. n : Where(j) = Where(k) => j = k
    BY <1>2
  <1>7. \A j \in 1 .. n : Where(IF j = n THEN 1 ELSE j + 1) = IF Where(j) = n THEN 1 ELSE Where(j) + 1
    BY <1>2
  <1>8. \A j \in 1 .. n : Where(IF j = 1 THEN n ELSE j - 1) = IF Where(j) = 1 THEN n ELSE Where(j) - 1
    BY <1>2
  <1>9. Where(1) = i /\ 1 \in 1 .. n
    BY <1>2
  <1> HIDE DEF Where
  <1>10. Distinct(r)
    <2>1. SUFFICES ASSUME NEW j \in Int, NEW k \in Int, At(r, j) = At(r, k), At(r, j) # NULL PROVE j = k
      BY DEF Distinct
    <2>2. j \in 1 .. n /\ k \in 1 .. n
      BY <1>3, <2>1, AtIs
    <2>3. QED
      BY <1>1, <1>4, <1>5, <1>6, <2>1, <2>2
  <1>11. RingOn(r, f)
    <2>1. SUFFICES ASSUME NEW j \in 1 .. n PROVE f[At(r, j)] = IF j = n THEN At(r, 1) ELSE At(r, j + 1)
      BY <1>3 DEF RingOn, Succ
    <2>2. f[At(s, Where(j))] = IF Where(j) = n THEN At(s, 1) ELSE At(s, Where(j) + 1)
      BY <1>1, <1>5 DEF RingOn, Succ
    <2>3. PICK k \in 1 .. n : k = IF j = n THEN 1 ELSE j + 1
      OBVIOUS
    <2>4. At(r, k) = IF Where(j) = n THEN At(s, 1) ELSE At(s, Where(j) + 1)
      BY <1>4, <1>7, <2>3
    <2>5. QED
      BY <1>4, <2>2, <2>3, <2>4
  <1>12. RingBack(r, b)
    <2>1. SUFFICES ASSUME NEW j \in 1 .. n PROVE b[At(r, j)] = IF j = 1 THEN At(r, n) ELSE At(r, j - 1)
      BY <1>3 DEF RingBack, Pred
    <2>2. b[At(s, Where(j))] = IF Where(j) = 1 THEN At(s, n) ELSE At(s, Where(j) - 1)
      BY <1>1, <1>5 DEF RingBack, Pred
    <2>3. PICK k \in 1 .. n : k = IF j = 1 THEN n ELSE j - 1
      OBVIOUS
    <2>4. At(r, k) = IF Where(j) = 1 THEN At(s, n) ELSE At(s, Where(j) - 1)
      BY <1>4, <1>8, <2>3
    <2>5. QED
      BY <1>4, <2>2, <2>3, <2>4
  <1>13. QED
    BY <1>3, <1>4, <1>9, <1>10, <1>11, <1>12

=============================================================================
