---------------------------- MODULE ConsoleProofs ----------------------------
(***************************************************************************)
(* Proofs about the console, for any conversions, any size of the buffer   *)
(* and any messages: the digits make the number, each message arrives with *)
(* its numbers in the fields their format writes, and the byte behind the  *)
(* buffer stays alone.                                                     *)
(***************************************************************************)
EXTENDS Console, FiniteSetTheorems, SequenceTheorems, WellFoundedInduction, TLAPS

-----------------------------------------------------------------------------
(* Division, and induction on the naturals with a set in the place of a predicate *)

(* a number from its quotient and remainder, and back *)
LEMMA Place ==
  ASSUME NEW d \in Nat, NEW m \in Nat \ {0}, NEW r \in 0 .. m - 1,
         NEW v, v = d * m + r
  PROVE  v \div m = d /\ v % m = r
  <1>1. (d * m + r) \div m = d /\ (d * m + r) % m = r
    OBVIOUS
  <1>2. QED
    BY <1>1

LEMMA Division ==
  ASSUME NEW v \in Nat, NEW m \in Nat \ {0}
  PROVE  \E d \in Nat, r \in 0 .. m - 1 : v = d * m + r /\ v \div m = d /\ v % m = r
  <1> DEFINE d == v \div m
             r == v % m
  <1>1. d \in Int /\ r \in 0 .. m - 1 /\ d * m <= v /\ v < d * m + m
    OBVIOUS
  <1>2. d \in Nat
    BY <1>1
  <1>3. PICK s \in 0 .. m - 1 : v = d * m + s
    <2> HIDE DEF d
    <2>1. d * m \in Int
      BY <1>2
    <2>2. v - d * m \in 0 .. m - 1
      BY <1>1, <2>1
    <2>3. QED
      BY <2>1, <2>2
  <1>4. r = s
    <2> HIDE DEF d
    <2>1. v % m = s
      BY <1>2, <1>3, Place
    <2>2. QED
      BY <2>1
  <1>5. v \div m = d /\ v % m = r
    OBVIOUS
  <1> HIDE DEF d, r
  <1>6. QED
    BY <1>1, <1>2, <1>3, <1>4, <1>5

(* the order of the naturals as a relation, which is well founded *)
Less == {ss \in Nat \X Nat : ss[1] < ss[2]}

LEMMA LessWellFounded == IsWellFoundedOn(Less, Nat)
  BY NatLessThanWellFounded DEF OpToRel, Less

LEMMA LeastExists ==
  ASSUME NEW S \in SUBSET Nat, S # {}
  PROVE  \E x \in S : \A y \in S : x <= y
  <1>1. \E x \in S : \A y \in S : ~ (<<y, x>> \in Less)
    BY WFMin, LessWellFounded
  <1>2. \A x, y \in Nat : ~ (<<y, x>> \in Less) => x <= y
    BY DEF Less
  <1>3. QED
    BY <1>1, <1>2

(* a set that holds 0, and with every natural the next one, holds them all *)
LEMMA Induction ==
  ASSUME NEW S, 0 \in S, \A m \in Nat : m \in S => m + 1 \in S
  PROVE  Nat \subseteq S
  <1>1. SUFFICES ASSUME Nat \ S # {} PROVE FALSE
    OBVIOUS
  <1>2. PICK x \in Nat \ S : \A y \in Nat \ S : x <= y
    BY <1>1, LeastExists
  <1>3. x # 0 /\ x - 1 \in Nat
    BY <1>2
  <1>4. x - 1 \in S
    BY <1>2, <1>3
  <1>5. (x - 1) + 1 \in S
    BY <1>3, <1>4
  <1>6. QED
    BY <1>2, <1>3, <1>5

-----------------------------------------------------------------------------
(* Recursive functions: there is one for every a to begin with and every h to
   go on with, and what it yields depends on nothing else. *)

Goes(g, d, S, a, h) ==
  /\ g \in [0 .. d -> S] /\ g[0] = a
  /\ \A m \in 1 .. d : g[m] = h[m][g[m - 1]]

LEMMA GoesOn ==
  ASSUME NEW S, NEW a \in S, NEW k \in Nat, NEW h \in [1 .. k -> [S -> S]],
         NEW d \in Nat, d + 1 <= k, NEW f, Goes(f, d, S, a, h)
  PROVE  \E g : Goes(g, d + 1, S, a, h)
  <1>1. f \in [0 .. d -> S] /\ f[0] = a /\ \A m \in 1 .. d : f[m] = h[m][f[m - 1]]
    BY DEF Goes
  <1>2. f[d] \in S /\ d + 1 \in 1 .. k
    BY <1>1
  <1>3. PICK v \in S : v = h[d + 1][f[d]]
    BY <1>2
  <1>4. PICK g : g = [m \in 0 .. d + 1 |-> IF m <= d THEN f[m] ELSE v]
    OBVIOUS
  <1>5. g \in [0 .. d + 1 -> S]
    BY <1>1, <1>4
  <1>6. g[0] = a
    BY <1>1, <1>4
  <1>7. ASSUME NEW m \in 1 .. d + 1 PROVE g[m] = h[m][g[m - 1]]
    <2>1. CASE m <= d
      <3>1. g[m] = f[m] /\ g[m - 1] = f[m - 1] /\ m \in 1 .. d
        BY <1>4, <2>1
      <3>2. QED
        BY <1>1, <3>1
    <2>2. CASE m = d + 1
      <3>1. g[d + 1] = v /\ g[(d + 1) - 1] = f[d]
        BY <1>4
      <3>2. QED
        BY <1>3, <2>2, <3>1
    <2>3. QED
      BY <2>1, <2>2
  <1>8. QED
    BY <1>5, <1>6, <1>7 DEF Goes

Iterates(a, h, k, S) ==
  \E g \in [0 .. k -> S] : g = [m \in 0 .. k |-> IF m = 0 THEN a ELSE h[m][g[m - 1]]]

LEMMA Iterated ==
  ASSUME NEW S, NEW a \in S, NEW k \in Nat, NEW h \in [1 .. k -> [S -> S]]
  PROVE  Iterates(a, h, k, S)
  <1> DEFINE T == {d \in Nat : d <= k => \E g : Goes(g, d, S, a, h)}
  <1>1. 0 \in T
    <2>1. Goes([m \in 0 .. 0 |-> a], 0, S, a, h)
      BY DEF Goes
    <2>2. QED
      BY <2>1
  <1>2. ASSUME NEW d \in Nat, d \in T PROVE d + 1 \in T
    <2>1. SUFFICES ASSUME d + 1 <= k PROVE \E g : Goes(g, d + 1, S, a, h)
      OBVIOUS
    <2>2. PICK f : Goes(f, d, S, a, h)
      BY <1>2, <2>1
    <2>3. QED
      BY <2>1, <2>2, GoesOn
  <1>3. k \in T
    <2>1. \A d \in Nat : d \in T => d + 1 \in T
      BY <1>2
    <2> HIDE DEF T
    <2>2. Nat \subseteq T
      BY <1>1, <2>1, Induction
    <2>3. QED
      BY <2>2
  <1>4. PICK g : Goes(g, k, S, a, h)
    BY <1>3
  <1>5. g \in [0 .. k -> S] /\ \A m \in 0 .. k : g[m] = IF m = 0 THEN a ELSE h[m][g[m - 1]]
    BY <1>4 DEF Goes
  <1>6. g = [m \in 0 .. k |-> IF m = 0 THEN a ELSE h[m][g[m - 1]]]
    BY <1>5
  <1>7. QED
    BY <1>5, <1>6 DEF Iterates

Same(f, g, k) == \A m \in 0 .. k : f[m] = g[m]

LEMMA Agree ==
  ASSUME NEW k \in Nat, NEW f, NEW g, f[0] = g[0],
         \A m \in 1 .. k : f[m - 1] = g[m - 1] => f[m] = g[m]
  PROVE  Same(f, g, k)
  <1> DEFINE T == {d \in Nat : d <= k => f[d] = g[d]}
  <1>1. 0 \in T
    OBVIOUS
  <1>2. ASSUME NEW d \in Nat, d \in T PROVE d + 1 \in T
    <2>1. SUFFICES ASSUME d + 1 <= k PROVE f[d + 1] = g[d + 1]
      OBVIOUS
    <2>2. f[d] = g[d] /\ d + 1 \in 1 .. k /\ (d + 1) - 1 = d
      BY <1>2, <2>1
    <2>3. QED
      BY <2>2
  <1>3. Nat \subseteq T
    <2>1. \A d \in Nat : d \in T => d + 1 \in T
      BY <1>2
    <2> HIDE DEF T
    <2>2. QED
      BY <1>1, <2>1, Induction
  <1>4. QED
    BY <1>3 DEF Same

-----------------------------------------------------------------------------
(* Powers *)

Powers(g, b, k) == g = [i \in 0 .. k |-> IF i = 0 THEN 1 ELSE b * g[i - 1]]

LEMMA PowersExist ==
  ASSUME NEW b \in Nat \ {0}, NEW k \in Nat
  PROVE  \E g \in [0 .. k -> Nat \ {0}] : Powers(g, b, k) /\ g[k] = Power(b, k)
  <1>1. PICK h : h = [m \in 1 .. k |-> [v \in Nat \ {0} |-> b * v]]
    OBVIOUS
  <1>2. \A v \in Nat \ {0} : b * v \in Nat \ {0}
    OBVIOUS
  <1>3. h \in [1 .. k -> [Nat \ {0} -> Nat \ {0}]]
    BY <1>1, <1>2
  <1>4. 1 \in Nat \ {0}
    OBVIOUS
  <1>5. PICK f : /\ \A m \in 0 .. k : f[m] \in Nat \ {0}
                 /\ f = [m \in 0 .. k |-> IF m = 0 THEN 1 ELSE h[m][f[m - 1]]]
    <2>1. PICK S : S = Nat \ {0}
      OBVIOUS
    <2>2. h \in [1 .. k -> [S -> S]] /\ 1 \in S
      BY <1>3, <1>4, <2>1
    <2>3. PICK f \in [0 .. k -> S] : f = [m \in 0 .. k |-> IF m = 0 THEN 1 ELSE h[m][f[m - 1]]]
      <3>1. Iterates(1, h, k, S)
        BY <2>2, Iterated
      <3>2. QED
        BY <3>1 DEF Iterates
    <2>4. QED
      BY <2>1, <2>3
  <1>6. ASSUME NEW m \in 0 .. k PROVE f[m] = IF m = 0 THEN 1 ELSE b * f[m - 1]
    <2>1. f[m] = IF m = 0 THEN 1 ELSE h[m][f[m - 1]]
      BY <1>5
    <2>2. CASE m # 0
      <3>1. m \in 1 .. k /\ f[m - 1] \in Nat \ {0}
        BY <1>5, <2>2
      <3>2. h[m][f[m - 1]] = b * f[m - 1]
        BY <1>1, <3>1
      <3>3. QED
        BY <2>1, <2>2, <3>2
    <2>3. QED
      BY <2>1, <2>2
  <1>7. Powers(f, b, k)
    <2>1. f = [m \in 0 .. k |-> f[m]]
      BY <1>5
    <2>2. QED
      BY <1>6, <2>1 DEF Powers
  <1>8. PICK g : g = CHOOSE p : Powers(p, b, k)
    OBVIOUS
  <1>9. Powers(g, b, k)
    BY <1>7, <1>8, Zenon
  <1>10. g[k] = Power(b, k)
    BY <1>8, Zenon DEF Power, Powers
  <1>11. \A m \in 0 .. k : g[m] \in Nat \ {0}
    <2>1. \A m \in 0 .. k : g[m] = IF m = 0 THEN 1 ELSE b * g[m - 1]
      BY <1>9 DEF Powers
    <2>2. g[0] = f[0] /\ \A m \in 1 .. k : g[m - 1] = f[m - 1] => g[m] = f[m]
      <3>1. 0 \in 0 .. k /\ \A m \in 1 .. k : m \in 0 .. k /\ m # 0
        OBVIOUS
      <3>2. QED
        BY <1>6, <2>1, <3>1
    <2>3. QED
      <3>1. \A m \in 0 .. k : g[m] = f[m]
        <4>1. Same(g, f, k)
          BY <2>2, Agree
        <4>2. QED
          BY <4>1 DEF Same
      <3>2. QED
        BY <1>5, <3>1
  <1>12. DOMAIN g = 0 .. k /\ g = [m \in DOMAIN g |-> g[m]]
    BY <1>9 DEF Powers
  <1>13. g \in [0 .. k -> Nat \ {0}]
    BY <1>11, <1>12
  <1>14. QED
    BY <1>9, <1>10, <1>13

LEMMA PowerIs ==
  ASSUME NEW b \in Nat \ {0}
  PROVE  /\ Power(b, 0) = 1
         /\ \A k \in Nat : Power(b, k) \in Nat \ {0} /\ Power(b, k + 1) = b * Power(b, k)
  <1>1. Power(b, 0) = 1
    <2>1. PICK g : Powers(g, b, 0) /\ g[0] = Power(b, 0)
      BY PowersExist
    <2>2. QED
      BY <2>1 DEF Powers
  <1>2. ASSUME NEW k \in Nat
        PROVE  Power(b, k) \in Nat \ {0} /\ Power(b, k + 1) = b * Power(b, k)
    <2>1. PICK f : Powers(f, b, k) /\ f[k] = Power(b, k) /\ f[k] \in Nat \ {0}
      <3>1. PICK f \in [0 .. k -> Nat \ {0}] : Powers(f, b, k) /\ f[k] = Power(b, k)
        BY PowersExist
      <3>2. f[k] \in Nat \ {0}
        OBVIOUS
      <3>3. QED
        BY <3>1, <3>2
    <2>2. PICK g : Powers(g, b, k + 1) /\ g[k + 1] = Power(b, k + 1)
      BY k + 1 \in Nat, PowersExist
    <2>3. \A i \in 0 .. k : f[i] = IF i = 0 THEN 1 ELSE b * f[i - 1]
      BY <2>1 DEF Powers
    <2>4. \A i \in 0 .. k + 1 : g[i] = IF i = 0 THEN 1 ELSE b * g[i - 1]
      BY <2>2 DEF Powers
    <2>5. f[0] = g[0] /\ \A i \in 1 .. k : f[i - 1] = g[i - 1] => f[i] = g[i]
      BY <2>3, <2>4
    <2>6. f[k] = g[k]
      BY k \in 0 .. k, <2>5, Agree DEF Same
    <2>7. g[k + 1] = b * g[k]
      BY <2>4
    <2>8. QED
      BY <2>1, <2>2, <2>6, <2>7
  <1>3. QED
    BY <1>1, <1>2

LEMMA Times ==
  ASSUME NEW x \in Nat, NEW y \in Nat, x <= y, NEW m \in Nat
  PROVE  x * m \in Nat /\ y * m \in Nat /\ x * m <= y * m
  OBVIOUS

LEMMA PowersGrow ==
  ASSUME NEW b \in Nat \ {0, 1}, NEW j \in Nat, NEW k \in Nat, j <= k
  PROVE  Power(b, j) <= Power(b, k)
  <1> DEFINE T == {d \in Nat : Power(b, j) <= Power(b, j + d)}
  <1>1. 0 \in T
    BY PowerIs
  <1>2. ASSUME NEW d \in Nat, d \in T PROVE d + 1 \in T
    <2>1. PICK p \in Nat : p = Power(b, j + d) /\ Power(b, j) <= p
      BY <1>2, j + d \in Nat, PowerIs
    <2>2. Power(b, j + (d + 1)) = b * p
      BY <2>1, j + d \in Nat, (j + d) + 1 = j + (d + 1), PowerIs
    <2>3. 1 * p <= b * p /\ 1 * p = p /\ b * p \in Nat
      BY 1 <= b, Times
    <2>4. Power(b, j) \in Nat
      BY PowerIs
    <2>5. Power(b, j) <= Power(b, j + (d + 1))
      BY <2>1, <2>2, <2>3, <2>4
    <2>6. QED
      BY <2>5
  <1>3. Nat \subseteq T
    <2>1. \A d \in Nat : d \in T => d + 1 \in T
      BY <1>2
    <2> HIDE DEF T
    <2>2. QED
      BY <1>1, <2>1, Induction
  <1>4. k - j \in T /\ j + (k - j) = k
    BY <1>3
  <1>5. QED
    BY <1>4

LEMMA PowersOfTwoLess ==
  ASSUME NEW b \in Nat \ {0, 1}, NEW k \in Nat
  PROVE  Power(2, k) <= Power(b, k)
  <1> DEFINE T == {d \in Nat : Power(2, d) <= Power(b, d)}
  <1>1. 0 \in T
    BY PowerIs
  <1>2. ASSUME NEW d \in Nat, d \in T PROVE d + 1 \in T
    <2>1. PICK p \in Nat, q \in Nat : p = Power(2, d) /\ q = Power(b, d) /\ p <= q
      BY <1>2, PowerIs
    <2>2. Power(2, d + 1) = 2 * p /\ Power(b, d + 1) = b * q
      BY <2>1, PowerIs
    <2>3. 2 * q <= b * q /\ b * q \in Nat
      BY 2 <= b, Times
    <2>4. Power(2, d + 1) <= Power(b, d + 1)
      BY <2>1, <2>2, <2>3
    <2>5. QED
      BY <2>4
  <1>3. Nat \subseteq T
    <2>1. \A d \in Nat : d \in T => d + 1 \in T
      BY <1>2
    <2> HIDE DEF T
    <2>2. QED
      BY <1>1, <2>1, Induction
  <1>4. QED
    BY <1>3

(* a division by b more *)
LEMMA DivideOn ==
  ASSUME NEW v \in Nat, NEW p \in Nat \ {0}, NEW b \in Nat \ {0}
  PROVE  v \div (b * p) = (v \div p) \div b
  <1>1. PICK d \in Nat, r \in 0 .. p - 1 : v = d * p + r /\ v \div p = d
    BY Division
  <1>2. PICK e \in Nat, s \in 0 .. b - 1 : d = e * b + s /\ d \div b = e
    BY Division
  <1>3. PICK m \in Nat \ {0} : m = b * p
    OBVIOUS
  <1>4. d * p = e * m + s * p
    <2>1. d * p = (e * b) * p + s * p
      BY <1>2
    <2>2. (e * b) * p = e * (b * p)
      OBVIOUS
    <2>3. QED
      BY <1>3, <2>1, <2>2
  <1>5. s * p + r \in 0 .. m - 1
    <2>1. (s + 1) * p <= b * p /\ (s + 1) * p = s * p + p /\ s * p \in Nat
      BY s + 1 \in Nat, s + 1 <= b, Times
    <2>2. QED
      BY <1>3, <2>1
  <1>6. PICK q \in 0 .. m - 1 : q = s * p + r
    BY <1>5
  <1>7. v = e * m + q
    BY <1>1, <1>4, <1>6
  <1>8. v \div m = e
    BY <1>7, Place
  <1>9. QED
    BY <1>1, <1>2, <1>3, <1>8

LEMMA PlacesLeft ==
  ASSUME NEW v \in Nat, NEW b \in Nat \ {0}, NEW k \in Nat
  PROVE  /\ v \div Power(b, 0) = v
         /\ v \div Power(b, k) \in Nat
         /\ v \div Power(b, k + 1) = (v \div Power(b, k)) \div b
         /\ v \div Power(b, k) = 0 <=> v < Power(b, k)
  <1>1. Power(b, 0) = 1 /\ v \div 1 = v
    BY PowerIs
  <1>2. PICK p \in Nat \ {0} : p = Power(b, k)
    BY PowerIs
  <1>3. Power(b, k + 1) = b * p
    BY <1>2, PowerIs
  <1>4. v \div (b * p) = (v \div p) \div b
    BY DivideOn
  <1>5. PICK d \in Nat, r \in 0 .. p - 1 : v = d * p + r /\ v \div p = d
    BY Division
  <1>6. d = 0 <=> v < p
    <2>1. CASE d = 0
      BY <1>5, <2>1
    <2>2. CASE d # 0
      <3>1. 1 * p <= d * p /\ 1 * p = p /\ d * p \in Nat
        <4>1. 1 <= d /\ 1 \in Nat /\ p \in Nat /\ 1 * p = p
          BY <2>2
        <4>2. QED
          BY <4>1, Times
      <3>2. QED
        BY <1>5, <2>2, <3>1
    <2>3. QED
      BY <2>1, <2>2
  <1>7. QED
    BY <1>1, <1>2, <1>3, <1>4, <1>5, <1>6

(* the half of a word: as in 32 bits, it is two times a power of eight *)
LEMMA HalfWord ==
  /\ Width - 1 \in Nat /\ Width >= 2
  /\ Power(2, Width) = 2 * Power(2, Width - 1) /\ Power(2, Width - 1) \in Nat /\ Power(2, Width - 1) >= 8
  /\ \E k \in 0 .. Width : Power(2, Width - 1) = 2 * Power(8, k)
  <1>1. Width \in Nat /\ Width % 3 = 2 /\ Power(2, Width - 1) % 10 = 8
    BY WidthAssumption
  <1>2. PICK j \in Nat : Width = j * 3 + 2
    BY <1>1, Division
  <1> DEFINE T == {d \in Nat : Power(2, d * 3 + 1) = 2 * Power(8, d)}
  <1>3. 0 \in T
    <2>1. Power(2, 0) = 1 /\ Power(2, 0 + 1) = 2 * Power(2, 0)
      BY PowerIs
    <2>2. Power(8, 0) = 1
      BY PowerIs
    <2>3. QED
      BY <2>1, <2>2
  <1>4. ASSUME NEW d \in Nat, d \in T PROVE d + 1 \in T
    <2>1. PICK e \in Nat : e = d * 3 + 1
      OBVIOUS
    <2>2. Power(2, e + 1) = 2 * Power(2, e) /\ Power(2, e) \in Nat
      BY PowerIs
    <2>3. Power(2, (e + 1) + 1) = 2 * Power(2, e + 1)
      BY e + 1 \in Nat, PowerIs
    <2>4. Power(2, ((e + 1) + 1) + 1) = 2 * Power(2, (e + 1) + 1)
      BY (e + 1) + 1 \in Nat, PowerIs
    <2>5. Power(8, d + 1) = 8 * Power(8, d) /\ Power(8, d) \in Nat
      BY PowerIs
    <2>6. ((e + 1) + 1) + 1 = (d + 1) * 3 + 1
      BY <2>1
    <2>7. Power(2, e) = 2 * Power(8, d)
      BY <1>4, <2>1
    <2>8. Power(2, (d + 1) * 3 + 1) = 2 * Power(8, d + 1)
      BY <2>2, <2>3, <2>4, <2>5, <2>6, <2>7
    <2>9. QED
      BY <2>8
  <1>5. Nat \subseteq T
    <2>1. \A d \in Nat : d \in T => d + 1 \in T
      BY <1>4
    <2> HIDE DEF T
    <2>2. QED
      BY <1>3, <2>1, Induction
  <1>6. Width - 1 = j * 3 + 1 /\ j \in 0 .. Width
    BY <1>2
  <1>7. Power(2, Width - 1) = 2 * Power(8, j)
    BY <1>5, <1>6
  <1>8. Width - 1 \in Nat /\ Width >= 2 /\ (Width - 1) + 1 = Width
    BY <1>1, <1>6
  <1>9. Power(2, Width) = 2 * Power(2, Width - 1) /\ Power(2, Width - 1) \in Nat
    BY <1>8, PowerIs
  <1>10. Power(2, Width - 1) >= 8
    BY <1>1, <1>9
  <1>11. QED
    BY <1>6, <1>7, <1>8, <1>9, <1>10

-----------------------------------------------------------------------------
(* The digits of a number *)

NumberConvs == {"d", "i", "o", "u", "x", "X", "p"}

(* A carry is left of the most negative number only; it gets stuck below the
   first digit that is not the last of its base. *)
Carries(b) == \/ b = 10 /\ (n + 1) % 10 = 8 /\ buf = <<>>
              \/ b = 8 /\ \E k \in 0 .. Width : n + 1 = 2 * Power(8, k)

(* The digits so far, of v to base b, and what is left of v *)
Numbered(v, b) ==
  /\ n \in Nat /\ carry \in {0, 1} /\ buf \in Seq(0 .. b - 1)
  /\ n + carry = v \div Power(b, Len(buf))
  /\ \A k \in 1 .. Len(buf) : buf[k] = (v \div Power(b, k - 1)) % b
  /\ Len(buf) >= 2 => v >= Power(b, Len(buf) - 1)
  /\ carry = 1 => Carries(b)
  /\ pc = "digits" => Len(buf) = 0 \/ n > 0
  /\ pc = "field" => Len(buf) > 0 /\ n = 0 /\ carry = 0

(* what a conversion to base b finds of v *)
Starts(v, b) ==
  /\ pc = "digits" /\ buf = <<>> /\ carry \in {0, 1} /\ n \in Nat /\ n + carry = v
  /\ carry = 1 => Carries(b)

LEMMA StartsNumbered ==
  ASSUME NEW v \in Nat, NEW b \in Nat \ {0}, Starts(v, b)
  PROVE  Numbered(v, b)
  <1>1. v \div Power(b, 0) = v
    BY PlacesLeft
  <1>2. Len(buf) = 0 /\ buf \in Seq(0 .. b - 1)
    BY DEF Starts
  <1>3. QED
    BY <1>1, <1>2 DEF Starts, Numbered

(* the range of what is converted *)
LEMMA SignedIs ==
  ASSUME NEW w \in 0 .. Power(2, Width) - 1
  PROVE  /\ Signed(w) \in Int /\ Abs(Signed(w)) \in Nat /\ Abs(Signed(w)) < Power(2, Width)
         /\ Magnitude(Signed(w)).n \in Nat /\ Magnitude(Signed(w)).carry \in {0, 1}
         /\ Magnitude(Signed(w)).n + Magnitude(Signed(w)).carry = Abs(Signed(w))
         /\ Magnitude(Signed(w)).carry = 1 => Magnitude(Signed(w)).n + 1 = Power(2, Width - 1)
  <1>1. PICK h \in Nat : h = Power(2, Width - 1) /\ h >= 8 /\ Power(2, Width) = 2 * h
    BY HalfWord
  <1>2. PICK v : v = Signed(w)
    OBVIOUS
  <1>3. v \in Int /\ v >= -h /\ v < h
    BY <1>1, <1>2 DEF Signed
  <1>4. /\ Magnitude(v).n \in Nat /\ Magnitude(v).carry \in {0, 1}
        /\ Magnitude(v).n + Magnitude(v).carry = Abs(v)
        /\ Magnitude(v).carry = 1 => Magnitude(v).n + 1 = h
    BY <1>1, <1>3 DEF Magnitude, Abs
  <1>5. Abs(v) \in Nat /\ Abs(v) < 2 * h
    BY <1>1, <1>3 DEF Abs
  <1>6. QED
    BY <1>1, <1>2, <1>3, <1>4, <1>5

(* the loop of ItoA32 begins *)
LEMMA SignedStarts ==
  ASSUME NEW w \in 0 .. Power(2, Width) - 1, NEW b \in {8, 10},
         pc = "digits", buf = <<>>,
         n = Magnitude(Signed(w)).n, carry = Magnitude(Signed(w)).carry
  PROVE  Starts(Abs(Signed(w)), b)
  <1>1. n \in Nat /\ carry \in {0, 1} /\ n + carry = Abs(Signed(w))
    BY SignedIs
  <1>2. ASSUME carry = 1 PROVE Carries(b)
    <2>1. n + 1 = Power(2, Width - 1)
      BY <1>2, SignedIs
    <2>2. (n + 1) % 10 = 8
      BY <2>1, WidthAssumption
    <2>3. \E k \in 0 .. Width : n + 1 = 2 * Power(8, k)
      BY <2>1, HalfWord
    <2>4. QED
      BY <2>2, <2>3 DEF Carries
  <1>3. QED
    BY <1>1, <1>2 DEF Starts

(* the same after a step *)
Begins(w, b) ==
  /\ pc = "digits" /\ buf = <<>>
  /\ n = Magnitude(Signed(w)).n /\ carry = Magnitude(Signed(w)).carry

Beginnings ==
  /\ \A v \in Nat, b \in Nat \ {0} : Starts(v, b) => Numbered(v, b)
  /\ \A w \in 0 .. Power(2, Width) - 1, b \in {8, 10} : Begins(w, b) => Starts(Abs(Signed(w)), b)

LEMMA BeginningsNow == Beginnings
  BY StartsNumbered, SignedStarts DEF Beginnings, Begins

LEMMA BeginningsNext == Beginnings'
  BY BeginningsNow, PTL

-----------------------------------------------------------------------------
(* the digit, and what it leaves: m and d are the number and carry afterwards *)
LEMMA DigitIs ==
  ASSUME NEW v, NEW b \in {8, 10, 16}, Numbered(v, b), pc = "digits"
  PROVE  LET dd == (IF buf = <<>> /\ carry = 1 THEN (n % b) + carry ELSE n + carry) % b
             dc == IF (n % b) + carry >= b THEN 1 ELSE 0
         IN  /\ dd = (n + carry) % b /\ dd \in 0 .. b - 1
             /\ n \div b \in Nat /\ dc \in {0, 1}
             /\ (n \div b) + dc = (n + carry) \div b
             /\ dc = 1 => /\ b = 8 /\ n \div b > 0
                          /\ \E k \in 0 .. Width : (n \div b) + 1 = 2 * Power(8, k)
  <1>1. n \in Nat /\ carry \in {0, 1} /\ (carry = 1 => Carries(b))
    BY DEF Numbered
  <1>2. CASE carry = 0
    BY <1>1, <1>2
  <1>3. CASE carry = 1 /\ b = 10 /\ (n + 1) % 10 = 8 /\ buf = <<>>
    BY <1>1, <1>3
  <1>4. CASE carry = 1 /\ b = 8 /\ \E k \in 0 .. Width : n + 1 = 2 * Power(8, k)
    <2>1. PICK k \in 0 .. Width : n + 1 = 2 * Power(8, k)
      BY <1>4
    <2>2. CASE k = 0
      <3>1. n = 1
        BY <1>1, <2>1, <2>2, PowerIs
      <3>2. QED
        BY <1>4, <3>1
    <2>3. CASE k # 0
      <3>1. PICK j \in 0 .. Width : k = j + 1
        <4>1. Width \in Nat
          BY WidthAssumption
        <4>2. k - 1 \in 0 .. Width /\ k = (k - 1) + 1
          BY <2>3, <4>1
        <4>3. QED
          BY <4>2
      <3>2. PICK p \in Nat \ {0} : p = Power(8, j) /\ Power(8, j + 1) = 8 * p
        BY <3>1, HalfWord, PowerIs
      <3>3. n + 1 = 16 * p
        BY <2>1, <3>1, <3>2
      <3>4. n % 8 = 7 /\ (n + 1) % 8 = 0 /\ n \div 8 = 2 * p - 1 /\ (n + 1) \div 8 = 2 * p
        BY <1>1, <3>2, <3>3
      <3>5. (n \div 8) + 1 = 2 * Power(8, j) /\ n \div 8 > 0 /\ n \div 8 \in Nat
        BY <3>2, <3>4
      <3>6. QED
        BY <1>1, <1>4, <3>4, <3>5
    <2>4. QED
      BY <2>2, <2>3
  <1>5. QED
    BY <1>1, <1>2, <1>3, <1>4 DEF Carries

LEMMA NumberedGoesOn ==
  ASSUME NEW v \in Nat, NEW b \in {8, 10, 16}, Numbered(v, b), base = b, NextDigit
  PROVE  Numbered(v, b)' /\ pc' \in {"digits", "field"}
  <1> DEFINE dd == (IF buf = <<>> /\ carry = 1 THEN (n % b) + carry ELSE n + carry) % b
             dc == IF (n % b) + carry >= b THEN 1 ELSE 0
  <1>1. pc = "digits" /\ buf' = Append(buf, dd) /\ carry' = dc /\ n' = n \div b
        /\ pc' = IF n' > 0 THEN "digits" ELSE "field"
    BY DEF NextDigit
  <1>2. /\ dd = (n + carry) % b /\ dd \in 0 .. b - 1
        /\ n \div b \in Nat /\ dc \in {0, 1}
        /\ (n \div b) + dc = (n + carry) \div b
        /\ dc = 1 => /\ b = 8 /\ n \div b > 0
                     /\ \E k \in 0 .. Width : (n \div b) + 1 = 2 * Power(8, k)
    BY <1>1, DigitIs
  <1> HIDE DEF dd, dc
  <1>3. PICK l \in Nat : l = Len(buf)
    BY DEF Numbered
  <1>4. /\ buf \in Seq(0 .. b - 1) /\ n + carry = v \div Power(b, l)
        /\ \A k \in 1 .. l : buf[k] = (v \div Power(b, k - 1)) % b
        /\ (l = 0 \/ n > 0) /\ n \in Nat /\ carry \in {0, 1}
    BY <1>1, <1>3 DEF Numbered
  <1>5. buf' \in Seq(0 .. b - 1) /\ Len(buf') = l + 1 /\ buf'[l + 1] = dd
        /\ \A k \in 1 .. l : buf'[k] = buf[k]
    BY <1>1, <1>2, <1>3, <1>4
  <1>6. n' \in Nat /\ carry' \in {0, 1}
    BY <1>1, <1>2
  <1>7. n' + carry' = v \div Power(b, Len(buf'))
    <2>1. v \div Power(b, l + 1) = (v \div Power(b, l)) \div b
      BY PlacesLeft
    <2>2. QED
      BY <1>1, <1>2, <1>4, <1>5, <2>1
  <1>8. \A k \in 1 .. Len(buf') : buf'[k] = (v \div Power(b, k - 1)) % b
    <2>1. buf'[l + 1] = (v \div Power(b, (l + 1) - 1)) % b
      BY <1>2, <1>4, <1>5, (l + 1) - 1 = l
    <2>2. \A k \in 1 .. l + 1 : k \in 1 .. l \/ k = l + 1
      OBVIOUS
    <2>3. QED
      BY <1>4, <1>5, <2>1, <2>2
  <1>9. Len(buf') >= 2 => v >= Power(b, Len(buf') - 1)
    <2>1. SUFFICES ASSUME l # 0 PROVE v >= Power(b, l)
      BY <1>5
    <2>2. v \div Power(b, l) # 0
      BY <1>4, <2>1
    <2>3. b \in Nat \ {0}
      OBVIOUS
    <2>4. Power(b, l) \in Nat
      BY <2>3, PowerIs
    <2>5. v \div Power(b, l) = 0 <=> v < Power(b, l)
      BY <2>3, PlacesLeft
    <2>6. QED
      BY <2>2, <2>4, <2>5
  <1>10. carry' = 1 => Carries(b)'
    BY <1>1, <1>2 DEF Carries
  <1>11. pc' = "field" => Len(buf') > 0 /\ n' = 0 /\ carry' = 0
    BY <1>1, <1>2, <1>5, <1>6
  <1>12. pc' = "digits" => Len(buf') = 0 \/ n' > 0
    BY <1>1
  <1>13. QED
    BY <1>1, <1>5, <1>6, <1>7, <1>8, <1>9, <1>10, <1>11, <1>12 DEF Numbered

(* a number of a word has no more digits than the word has bits *)
LEMMA NumberedLength ==
  ASSUME NEW v \in Nat, NEW b \in {8, 10, 16}, Numbered(v, b), v < Power(2, Width)
  PROVE  Len(buf) \in 0 .. Width
  <1>0. b \in Nat \ {0, 1} /\ b \in Nat \ {0} /\ 2 \in Nat \ {0}
    OBVIOUS
  <1>1. Width \in Nat /\ Width >= 2
    BY HalfWord, WidthAssumption
  <1>2. PICK l \in Nat : l = Len(buf) /\ (l >= 2 => v >= Power(b, l - 1))
    BY DEF Numbered
  <1>3. SUFFICES ASSUME l >= Width + 1 PROVE FALSE
    BY <1>1, <1>2
  <1>4. v >= Power(b, l - 1) /\ l - 1 \in Nat /\ Width <= l - 1
    BY <1>1, <1>2, <1>3
  <1>5. Power(b, Width) <= Power(b, l - 1)
    BY <1>0, <1>1, <1>4, PowersGrow
  <1>6. Power(2, Width) <= Power(b, Width)
    BY <1>0, <1>1, PowersOfTwoLess
  <1>7. Power(2, Width) \in Nat /\ Power(b, Width) \in Nat /\ Power(b, l - 1) \in Nat
    BY <1>0, <1>1, <1>4, PowerIs
  <1>8. QED
    BY <1>4, <1>5, <1>6, <1>7

(* the digits and what is left make up the number *)
Sums(g, s, b) == g = [i \in 0 .. Len(s) |-> IF i = 0 THEN 0 ELSE g[i - 1] + s[i] * Power(b, i - 1)]

Above(v, b, i) == (v \div Power(b, i)) * Power(b, i)

LEMMA SumIs ==
  ASSUME NEW v \in Nat, NEW b \in {8, 10, 16}, NEW s \in Seq(0 .. b - 1),
         \A k \in 1 .. Len(s) : s[k] = (v \div Power(b, k - 1)) % b
  PROVE  LET g == CHOOSE g : Sums(g, s, b)
         IN  (v \div Power(b, Len(s))) * Power(b, Len(s)) + g[Len(s)] = v
  <1>0. PICK l \in Nat : l = Len(s) /\ b \in Nat \ {0}
    OBVIOUS
  <1>1. ASSUME NEW i \in Nat PROVE Above(v, b, i) \in Nat
    <2>1. v \div Power(b, i) \in Nat
      BY <1>0, PlacesLeft
    <2>2. Power(b, i) \in Nat
      BY <1>0, PowerIs
    <2>3. QED
      BY <2>1, <2>2 DEF Above
  <1>2. Above(v, b, 0) = v
    BY <1>0, PlacesLeft, PowerIs DEF Above
  <1>3. ASSUME NEW i \in 1 .. l PROVE Above(v, b, i - 1) = Above(v, b, i) + s[i] * Power(b, i - 1)
    <2>1. PICK j \in Nat : j = i - 1 /\ i = j + 1
      BY <1>3
    <2>2. PICK p \in Nat : p = Power(b, j) /\ Power(b, j + 1) = b * p
      BY <1>0, PowerIs
    <2>3. PICK d \in Nat : d = v \div Power(b, j) /\ v \div Power(b, j + 1) = d \div b
      <3>1. v \div Power(b, j) \in Nat
        BY <1>0, PlacesLeft
      <3>2. v \div Power(b, j + 1) = (v \div Power(b, j)) \div b
        BY <1>0, PlacesLeft
      <3>3. QED
        BY <3>1, <3>2
    <2>4. PICK e \in Nat, r \in 0 .. b - 1 : d = e * b + r /\ d \div b = e /\ d % b = r
      BY <1>0, Division
    <2>5. s[i] = r
      BY <1>0, <1>3, <2>1, <2>3, <2>4
    <2>6. d * p = e * (b * p) + r * p
      <3>1. d * p = (e * b) * p + r * p
        BY <2>4
      <3>2. (e * b) * p = e * (b * p)
        OBVIOUS
      <3>3. QED
        BY <3>1, <3>2
    <2>7. Above(v, b, j) = d * p /\ Above(v, b, i) = e * (b * p) /\ s[i] * Power(b, j) = r * p
      BY <2>1, <2>2, <2>3, <2>4, <2>5 DEF Above
    <2>8. QED
      BY <2>1, <2>6, <2>7
  <1>4. PICK f : f = [i \in 0 .. l |-> v - Above(v, b, i)]
    OBVIOUS
  <1>5. ASSUME NEW i \in 1 .. l PROVE f[i] = f[i - 1] + s[i] * Power(b, i - 1)
    <2>1. f[i] = v - Above(v, b, i) /\ f[i - 1] = v - Above(v, b, i - 1) /\ i - 1 \in Nat /\ i \in Nat
      BY <1>4, <1>5
    <2>2. s[i] * Power(b, i - 1) \in Nat
      <3>1. s[i] \in Nat
        BY <1>0
      <3>2. Power(b, i - 1) \in Nat
        BY <1>0, <2>1, PowerIs
      <3>3. QED
        BY <3>1, <3>2
    <2>3. Above(v, b, i) \in Nat /\ Above(v, b, i - 1) = Above(v, b, i) + s[i] * Power(b, i - 1)
      BY <1>1, <1>3, <2>1
    <2>4. QED
      BY <2>1, <2>2, <2>3
  <1>6. f[0] = 0
    BY <1>2, <1>4
  <1>7. \A i \in 0 .. l : f[i] = IF i = 0 THEN 0 ELSE f[i - 1] + s[i] * Power(b, i - 1)
    BY <1>5, <1>6
  <1>8. Sums(f, s, b)
    <2>1. f = [i \in 0 .. l |-> f[i]]
      BY <1>4
    <2>2. QED
      BY <1>0, <1>7, <2>1 DEF Sums
  <1>9. PICK g : g = CHOOSE a : Sums(a, s, b)
    OBVIOUS
  <1>10. Sums(g, s, b)
    BY <1>8, <1>9, Zenon
  <1>11. \A i \in 0 .. l : g[i] = IF i = 0 THEN 0 ELSE g[i - 1] + s[i] * Power(b, i - 1)
    BY <1>0, <1>10 DEF Sums
  <1>12. Same(f, g, l)
    <2>1. f[0] = g[0]
      BY <1>6, <1>11
    <2>2. \A m \in 1 .. l : f[m - 1] = g[m - 1] => f[m] = g[m]
      <3>1. \A m \in 1 .. l : m \in 0 .. l /\ m # 0
        OBVIOUS
      <3>2. QED
        BY <1>5, <1>11, <3>1
    <2>3. QED
      BY <2>1, <2>2, Agree
  <1>13. g[l] = v - Above(v, b, l)
    BY <1>4, <1>12, l \in 0 .. l DEF Same
  <1>14. (v \div Power(b, l)) * Power(b, l) + g[l] = v
    <2>1. Above(v, b, l) \in Nat
      BY <1>1
    <2>2. Above(v, b, l) + g[l] = v
      BY <1>13, <2>1
    <2>3. QED
      BY <2>2 DEF Above
  <1>15. QED
    BY <1>0, <1>9, <1>14

(* at the end of the loop the digits are the numeral, the last one first *)
LEMMA NumeralIs ==
  ASSUME NEW v \in Nat, NEW b \in {8, 10, 16}, Numbered(v, b), v < Power(2, Width), pc = "field"
  PROVE  /\ Len(buf) \in Nat \ {0} /\ \A k \in 1 .. Len(buf) : buf[k] \in 0 .. b - 1
         /\ Numeral(v, b) = [i \in 1 .. Len(buf) |-> buf[Len(buf) + 1 - i]]
  <1>0. b \in Nat \ {0, 1} /\ b \in Nat \ {0}
    OBVIOUS
  <1>1. PICK l \in Nat : l = Len(buf)
    BY DEF Numbered
  <1>2. /\ l # 0 /\ n = 0 /\ carry = 0 /\ v \div Power(b, l) = 0
        /\ l >= 2 => v >= Power(b, l - 1)
        /\ \A k \in 1 .. l : buf[k] = (v \div Power(b, k - 1)) % b
        /\ \A k \in 1 .. l : buf[k] \in 0 .. b - 1
    BY <1>1 DEF Numbered
  <1>3. l <= Width /\ Width \in Nat
    BY <1>1, NumberedLength, WidthAssumption
  <1>4. \A k \in Nat : Power(b, k) \in Nat
    BY <1>0, PowerIs
  <1>5. v < Power(b, l)
    BY <1>0, <1>2, PlacesLeft
  <1>6. ASSUME NEW k \in 1 .. Width PROVE (k = 1 \/ v >= Power(b, k - 1)) <=> k \in 1 .. l
    <2>1. CASE k > l
      <3>1. Power(b, l) <= Power(b, k - 1)
        BY <1>0, <2>1, k - 1 \in Nat, l <= k - 1, PowersGrow
      <3>2. v < Power(b, k - 1) /\ k # 1
        BY <1>2, <1>4, <1>5, <2>1, <3>1, k - 1 \in Nat
      <3>3. QED
        BY <1>4, <2>1, <3>2, k - 1 \in Nat
    <2>2. CASE k <= l /\ k # 1
      <3>1. Power(b, k - 1) <= Power(b, l - 1)
        BY <1>0, <2>2, k - 1 \in Nat, l - 1 \in Nat, k - 1 <= l - 1, PowersGrow
      <3>2. v >= Power(b, l - 1) /\ Power(b, l - 1) \in Nat /\ Power(b, k - 1) \in Nat
        BY <1>2, <1>4, <2>2, k - 1 \in Nat, l - 1 \in Nat
      <3>3. QED
        BY <2>2, <3>1, <3>2
    <2>3. CASE k <= l /\ k = 1
      BY <2>3
    <2>4. QED
      BY <2>1, <2>2, <2>3
  <1>7. {k \in 1 .. Width : k = 1 \/ v >= Power(b, k - 1)} = 1 .. l
    <2>1. 1 .. l \subseteq 1 .. Width
      BY <1>3
    <2>2. QED
      BY <1>6, <2>1
  <1>8. Cardinality(1 .. l) = l
    <2>1. 1 \in Int /\ l \in Int /\ ~ 1 > l /\ l - 1 + 1 = l
      BY <1>2
    <2>2. QED
      BY <2>1, FS_Interval
  <1>9. Numeral(v, b) = [i \in 1 .. l |-> (v \div Power(b, l - i)) % b]
    BY <1>7, <1>8 DEF Numeral
  <1>10. ASSUME NEW i \in 1 .. l PROVE (v \div Power(b, l - i)) % b = buf[l + 1 - i]
    <2>1. l + 1 - i \in 1 .. l /\ (l + 1 - i) - 1 = l - i
      BY <1>10
    <2>2. QED
      BY <1>2, <2>1
  <1>11. QED
    BY <1>1, <1>2, <1>9, <1>10

-----------------------------------------------------------------------------
(* How a conversion is written *)

(* what ItemsAssumption says of a conversion *)
IsItem(i) == /\ i.flags \in Seq({"-", "+", "#", "0"})
             /\ i.width \in 0 .. 99
             /\ i.conv \in {"d", "i", "o", "u", "x", "X", "p", "c", "s", "%", "l"}
             /\ i.word \in 0 .. Power(2, Width) - 1
             /\ i.conv = "s" => i.word <= 15

(* the parts of Spell(i), and what is passed for it *)
WidthDigits(i) == IF i.width = 0 THEN <<>>
                  ELSE IF i.width < 10 THEN <<Digits[i.width + 1]>>
                  ELSE <<Digits[(i.width \div 10) + 1], Digits[(i.width % 10) + 1]>>
Length(i) == Len(i.flags) + Len(WidthDigits(i)) + 2
Passed(i) == IF i.conv \in {"%", "l"} THEN <<>> ELSE <<i.word>>

(* the flags, the width of the field *)
Given(i) == {i.flags[k] : k \in 1 .. Len(i.flags)}
FieldWidth(i) == IF i.width = 0 THEN 1 ELSE i.width

Flags == {"-", "+", "#", "0"}
Conversions == {"d", "i", "o", "u", "x", "X", "p", "c", "s", "%", "l"}

(* the comma has a name: the provers cannot take it literally *)
Comma == ","

(* the characters of formats and messages *)
Char == {"%", Comma, " ", "#", "-", "+",
         "0", "1", "2", "3", "4", "5", "6", "7", "8", "9",
         "a", "b", "c", "d", "e", "f", "A", "B", "C", "D", "E", "F",
         "i", "k", "l", "m", "n", "o", "p", "q", "r", "s", "t", "u", "v", "w", "x", "X", "y", "z"}

LEMMA Characters ==
  /\ Flags \subseteq Char /\ Conversions \subseteq Char
  /\ \A d \in 1 .. 16 : Digits[d] \in Char /\ Uppers[d] \in Char
  /\ {"%", Comma, " ", "#", "-", "+", "0", "a", "k", "x"} \subseteq Char /\ "NUL" \notin Char
  /\ Comma # "%" /\ Comma # "NUL"
  <1>0. \A d \in 1 .. 16 : \/ d = 1 \/ d = 2 \/ d = 3 \/ d = 4 \/ d = 5 \/ d = 6 \/ d = 7 \/ d = 8
                          \/ d = 9 \/ d = 10 \/ d = 11 \/ d = 12 \/ d = 13 \/ d = 14 \/ d = 15 \/ d = 16
    OBVIOUS
  <1>1. Flags \subseteq Char
    BY DEF Flags, Char
  <1>2. Conversions \subseteq Char
    BY DEF Conversions, Char
  <1>3. ASSUME NEW d \in 1 .. 16 PROVE Digits[d] \in Char
    <2>1. Digits[d] \in {"0", "1", "2", "3", "4", "5", "6", "7", "8", "9", "a", "b", "c", "d", "e", "f"}
      BY <1>0, <1>3 DEF Digits
    <2>2. QED
      BY <2>1 DEF Char
  <1>4. ASSUME NEW d \in 1 .. 16 PROVE Uppers[d] \in Char
    <2>1. Uppers[d] \in {"0", "1", "2", "3", "4", "5", "6", "7", "8", "9", "A", "B", "C", "D", "E", "F"}
      BY <1>0, <1>4 DEF Uppers
    <2>2. QED
      BY <2>1 DEF Char
  <1>5. Comma # "%" /\ Comma # "NUL"
    BY Zenon DEF Comma
  <1>6. {"%", Comma, " ", "#", "-", "+", "0", "a", "k", "x"} \subseteq Char /\ "NUL" \notin Char
    BY <1>5 DEF Char
  <1>7. QED
    BY <1>1, <1>2, <1>3, <1>4, <1>5, <1>6

LEMMA DigitRead ==
  ASSUME NEW d \in 0 .. 9
  PROVE  /\ Digits[d + 1] \in Char /\ Decimal(Digits[d + 1]) /\ Ascii2Int(Digits[d + 1]) = d
         /\ d # 0 => Digits[d + 1] \notin Flags
  <1>1. \A e \in 0 .. 9 : Digits[e + 1] = Digits[d + 1] => e = d
    BY DEF Digits
  <1>2. Ascii2Int(Digits[d + 1]) = d
    <2>1. PICK x : x = Digits[d + 1]
      OBVIOUS
    <2>2. \E e \in 0 .. 9 : Digits[e + 1] = x
      BY <2>1
    <2>3. PICK e : e = CHOOSE a \in 0 .. 9 : Digits[a + 1] = x
      OBVIOUS
    <2>4. e \in 0 .. 9 /\ Digits[e + 1] = x
      BY <2>2, <2>3, Zenon
    <2>5. e = d
      BY <1>1, <2>1, <2>4
    <2>6. QED
      BY <2>1, <2>3, <2>5 DEF Ascii2Int
  <1>3. Decimal(Digits[d + 1])
    <2>1. d + 1 \in 1 .. 10
      OBVIOUS
    <2>2. QED
      BY <2>1 DEF Decimal
  <1>4. d # 0 => Digits[d + 1] \notin Flags
    BY DEF Digits, Flags
  <1>5. Digits[d + 1] \in Char
    BY d + 1 \in 1 .. 16, Characters
  <1>6. QED
    BY <1>2, <1>3, <1>4, <1>5

LEMMA ConversionsRead ==
  \A k \in Conversions : k \notin Flags /\ ~ Decimal(k)
  <1>1. ASSUME NEW k, NEW d \in 1 .. 10, Digits[d] = k
        PROVE  k \in {"0", "1", "2", "3", "4", "5", "6", "7", "8", "9"}
    <2>1. \/ d = 1 \/ d = 2 \/ d = 3 \/ d = 4 \/ d = 5 \/ d = 6 \/ d = 7 \/ d = 8
          \/ d = 9 \/ d = 10
      OBVIOUS
    <2>2. QED
      BY <1>1, <2>1 DEF Digits
  <1>2. \A k : Decimal(k) => k \in {"0", "1", "2", "3", "4", "5", "6", "7", "8", "9"}
    BY <1>1 DEF Decimal
  <1>3. QED
    BY <1>2 DEF Flags, Conversions

(* the width as it is written *)
LEMMA WidthWritten ==
  ASSUME NEW i, IsItem(i)
  PROVE  /\ WidthDigits(i) \in Seq(Char) /\ Len(WidthDigits(i)) \in 0 .. 2
         /\ i.width = 0 => Len(WidthDigits(i)) = 0
         /\ i.width \in 1 .. 9 => /\ Len(WidthDigits(i)) = 1
                                  /\ WidthDigits(i)[1] = Digits[i.width + 1]
         /\ i.width >= 10 => /\ Len(WidthDigits(i)) = 2
                             /\ WidthDigits(i)[1] = Digits[(i.width \div 10) + 1]
                             /\ WidthDigits(i)[2] = Digits[(i.width % 10) + 1]
  <1>1. PICK w \in 0 .. 99 : w = i.width
    BY DEF IsItem
  <1>2. CASE w = 0
    BY <1>1, <1>2 DEF WidthDigits
  <1>3. CASE w \in 1 .. 9
    <2>1. Digits[w + 1] \in Char
      BY <1>3, DigitRead
    <2>2. WidthDigits(i) = <<Digits[w + 1]>>
      BY <1>1, <1>3 DEF WidthDigits
    <2>3. QED
      BY <1>1, <1>3, <2>1, <2>2
  <1>4. CASE w >= 10
    <2>1. PICK x \in 0 .. 9, y \in 0 .. 9 : x = w \div 10 /\ y = w % 10
      BY <1>4
    <2>2. Digits[x + 1] \in Char /\ Digits[y + 1] \in Char
      BY DigitRead
    <2>3. WidthDigits(i) = <<Digits[x + 1], Digits[y + 1]>>
      BY <1>1, <1>4, <2>1 DEF WidthDigits
    <2>4. QED
      BY <1>1, <1>4, <2>1, <2>2, <2>3
  <1>5. QED
    BY <1>2, <1>3, <1>4

(* what two sequences are together *)
Joins(u, s, t) ==
  /\ Len(s) \in Nat /\ Len(t) \in Nat /\ Len(u) = Len(s) + Len(t)
  /\ \A k \in 1 .. Len(s) : u[k] = s[k]
  /\ \A k \in 1 .. Len(t) : u[Len(s) + k] = t[k]

LEMMA Joined ==
  ASSUME NEW S, NEW s \in Seq(S), NEW t \in Seq(S)
  PROVE  s \o t \in Seq(S) /\ Joins(s \o t, s, t)
  <1>1. PICK u : u = s \o t
    OBVIOUS
  <1>2. PICK l \in Nat, m \in Nat : l = Len(s) /\ m = Len(t)
    BY LenProperties
  <1>3. /\ u \in Seq(S) /\ Len(u) = l + m
        /\ \A i \in 1 .. l + m : u[i] = IF i <= l THEN s[i] ELSE t[i - l]
    BY <1>1, <1>2, ConcatProperties
  <1>4. \A k \in 1 .. l : u[k] = s[k]
    BY <1>3
  <1>5. ASSUME NEW k \in 1 .. m PROVE u[l + k] = t[k]
    <2>1. l + k \in 1 .. l + m /\ ~ (l + k <= l) /\ (l + k) - l = k
      OBVIOUS
    <2>2. QED
      BY <1>3, <2>1
  <1>6. QED
    BY <1>1, <1>2, <1>3, <1>4, <1>5 DEF Joins

Parts(u, x, s, t, y) ==
  /\ Len(u) = Len(s) + Len(t) + 2 /\ u[1] = x /\ u[Len(s) + Len(t) + 2] = y
  /\ \A k \in 1 .. Len(s) : u[k + 1] = s[k]
  /\ \A k \in 1 .. Len(t) : u[k + 1 + Len(s)] = t[k]

LEMMA FourParts ==
  ASSUME NEW S, NEW s \in Seq(S), NEW t \in Seq(S), NEW x \in S, NEW y \in S,
         NEW u, u = <<x>> \o s \o t \o <<y>>
  PROVE  u \in Seq(S) /\ Parts(u, x, s, t, y)
  <1>0. <<x>> \in Seq(S) /\ <<y>> \in Seq(S) /\ Len(<<x>>) = 1 /\ Len(<<y>>) = 1
        /\ <<x>>[1] = x /\ <<y>>[1] = y
    OBVIOUS
  <1>1. PICK a \in Seq(S), b \in Seq(S) : a = <<x>> /\ b = <<y>>
    BY <1>0
  <1>2. PICK r \in Seq(S) : r = a \o s /\ Joins(r, a, s)
    BY Joined
  <1>3. PICK q \in Seq(S) : q = r \o t /\ Joins(q, r, t)
    BY Joined
  <1>4. u = q \o b
    BY <1>1, <1>2, <1>3
  <1>5. u \in Seq(S) /\ Joins(u, q, b)
    BY <1>4, Joined
  <1>6. PICK l \in Nat, m \in Nat : l = Len(s) /\ m = Len(t)
    BY LenProperties
  <1>7. Len(a) = 1 /\ Len(b) = 1 /\ a[1] = x /\ b[1] = y
    BY <1>0, <1>1
  <1>8. Len(r) = 1 + l /\ r[1] = x /\ \A k \in 1 .. l : r[1 + k] = s[k]
    BY ONLY <1>2, <1>6, <1>7 DEF Joins
  <1>9. /\ Len(q) = 1 + l + m /\ \A k \in 1 .. 1 + l : q[k] = r[k]
        /\ \A k \in 1 .. m : q[1 + l + k] = t[k]
    BY ONLY <1>3, <1>6, <1>8 DEF Joins
  <1>10. Len(u) = l + m + 2 /\ u[l + m + 2] = y /\ \A k \in 1 .. 1 + l + m : u[k] = q[k]
    BY ONLY <1>5, <1>6, <1>7, <1>9 DEF Joins
  <1>11. u[1] = x
    BY ONLY <1>6, <1>8, <1>9, <1>10
  <1>12. ASSUME NEW k \in 1 .. l PROVE u[k + 1] = s[k]
    <2>1. k + 1 = 1 + k /\ 1 + k \in 1 .. 1 + l /\ 1 + k \in 1 .. 1 + l + m
      BY <1>6
    <2>2. QED
      BY <1>8, <1>9, <1>10, <2>1
  <1>13. ASSUME NEW k \in 1 .. m PROVE u[k + 1 + l] = t[k]
    <2>1. k + 1 + l = 1 + l + k /\ 1 + l + k \in 1 .. 1 + l + m
      BY <1>6
    <2>2. QED
      BY <1>9, <1>10, <2>1
  <1>14. QED
    BY <1>5, <1>6, <1>10, <1>11, <1>12, <1>13 DEF Parts

LEMMA Spelled ==
  ASSUME NEW i, IsItem(i)
  PROVE  /\ Spell(i) \in Seq(Char) /\ Len(Spell(i)) = Length(i) /\ Length(i) \in Nat
         /\ Spell(i)[1] = "%" /\ Spell(i)[Length(i)] = i.conv
         /\ \A k \in 1 .. Len(i.flags) : Spell(i)[k + 1] = i.flags[k]
         /\ \A k \in 1 .. Len(WidthDigits(i)) : Spell(i)[k + 1 + Len(i.flags)] = WidthDigits(i)[k]
  <1>1. Spell(i) = <<"%">> \o i.flags \o WidthDigits(i) \o <<i.conv>>
    BY DEF Spell, WidthDigits
  <1>2. WidthDigits(i) \in Seq(Char)
    BY WidthWritten
  <1>3. i.flags \in Seq(Char) /\ i.conv \in Char
    <2>1. i.flags \in Seq(Flags) /\ i.conv \in Conversions
      BY DEF IsItem, Flags, Conversions
    <2>2. Flags \subseteq Char /\ Conversions \subseteq Char
      BY Characters
    <2>3. i.flags \in Seq(Char)
      BY <2>1, <2>2, SeqMonotonic
    <2>4. QED
      BY <2>1, <2>2, <2>3
  <1>4. Len(i.flags) \in Nat /\ Len(WidthDigits(i)) \in Nat
    BY <1>2, <1>3
  <1>5. "%" \in Char
    BY Characters
  <1>6. Spell(i) \in Seq(Char) /\ Parts(Spell(i), "%", i.flags, WidthDigits(i), i.conv)
    BY <1>1, <1>2, <1>3, <1>5, FourParts
  <1>7. Length(i) \in Nat /\ Length(i) = Len(i.flags) + Len(WidthDigits(i)) + 2
    BY <1>4 DEF Length
  <1>8. QED
    BY <1>6, <1>7 DEF Parts

-----------------------------------------------------------------------------
(* What a conversion should read, part by part *)

Has(i, f) == \E k \in DOMAIN i.flags : i.flags[k] = f
Ahead(i) == (IF ValueOf(i) < 0 THEN <<"-">> ELSE IF Has(i, "+") THEN <<"+">> ELSE <<>>)
            \o (IF ~ Has(i, "#") \/ BaseOf(i.conv) = 10 THEN <<>>
                ELSE IF BaseOf(i.conv) = 16 THEN <<"0", "x">> ELSE <<"0">>)
Figures(i) == [k \in DOMAIN Numeral(Abs(ValueOf(i)), BaseOf(i.conv)) |->
                 (IF i.conv = "X" THEN Uppers ELSE Digits)
                   [Numeral(Abs(ValueOf(i)), BaseOf(i.conv))[k] + 1]]
Laid(i, ahead, figures) ==
  LET missing == i.width - Len(ahead \o figures)
  IN  IF Has(i, "0") THEN ahead \o Rep("0", missing) \o figures
      ELSE IF Has(i, "-") THEN ahead \o figures \o Rep(" ", missing)
      ELSE Rep(" ", missing) \o ahead \o figures

LEMMA ConversionParts ==
  ASSUME NEW i
  PROVE  /\ i.conv \in NumberConvs => Conversion(i) = Laid(i, Ahead(i), Figures(i))
         /\ i.conv = "%" => Conversion(i) = <<"%">>
         /\ i.conv = "c" => Conversion(i) = <<IF i.word = 0 THEN "#" ELSE "k">>
         /\ i.conv = "s" => Conversion(i) = Text(i.word)
         /\ i.conv = "l" => Conversion(i) = <<>>
  BY DEF NumberConvs, Conversion, Laid, Ahead, Figures, Has

LEMMA NumberIs ==
  ASSUME NEW i, IsItem(i), i.conv \in NumberConvs
  PROVE  /\ ValueOf(i) \in Int /\ Abs(ValueOf(i)) \in Nat /\ Abs(ValueOf(i)) < Power(2, Width)
         /\ BaseOf(i.conv) \in {8, 10, 16}
  <1>1. PICK h \in Nat : h = Power(2, Width)
    BY HalfWord
  <1>2. i.word \in 0 .. h - 1
    BY <1>1 DEF IsItem
  <1>3. CASE i.conv \in {"d", "i", "o"}
    <2>1. ValueOf(i) = Signed(i.word) /\ BaseOf(i.conv) \in {8, 10}
      BY <1>3 DEF ValueOf, BaseOf
    <2>2. QED
      BY <1>1, <1>2, <2>1, SignedIs
  <1>4. CASE i.conv \in {"u", "x", "X", "p"}
    <2>1. ValueOf(i) = i.word /\ BaseOf(i.conv) \in {10, 16}
      BY <1>4 DEF ValueOf, BaseOf
    <2>2. Abs(i.word) = i.word
      BY <1>2 DEF Abs
    <2>3. QED
      BY <1>1, <1>2, <2>1, <2>2
  <1>5. QED
    BY <1>3, <1>4 DEF NumberConvs

LEMMA Short ==
  ASSUME NEW S
  PROVE  /\ <<>> \in Seq(S)
         /\ \A x \in S : <<x>> \in Seq(S)
         /\ \A x, y \in S : <<x, y>> \in Seq(S)
         /\ \A x, y, z \in S : <<x, y, z>> \in Seq(S)
  OBVIOUS

LEMMA Pair ==
  ASSUME NEW x \in Char, NEW y \in Char
  PROVE  <<x>> \o <<y>> = <<x, y>>
  <1>1. PICK s, t : s = Append(<<x>>, y) /\ t = <<x, y>>
    OBVIOUS
  <1>2. s \in Seq(Char) /\ Len(s) = 2 /\ s[1] = x /\ s[2] = y
    BY <1>1
  <1>3. t \in Seq(Char) /\ Len(t) = 2 /\ t[1] = x /\ t[2] = y
    BY <1>1, Short
  <1>4. \A k \in 1 .. 2 : s[k] = t[k]
    BY <1>2, <1>3
  <1>5. s = t
    BY <1>2, <1>3, <1>4, SeqEqual
  <1>6. <<x>> \in Seq(Char)
    BY Short
  <1>7. <<x>> \o <<y>> = Append(<<x>>, y)
    BY <1>6, AppendIsConcat
  <1>8. QED
    BY <1>1, <1>5, <1>7

LEMMA Repeating ==
  ASSUME NEW x \in Char, NEW k \in Int
  PROVE  Rep(x, k) \in Seq(Char) /\ (k <= 0 => Rep(x, k) = <<>>)
  <1>1. CASE k <= 0
    <2>1. 1 .. k = {} /\ 1 .. 0 = {}
      BY <1>1
    <2>2. Rep(x, k) = <<>>
      BY <2>1 DEF Rep
    <2>3. QED
      BY <2>2
  <1>2. CASE k > 0
    BY <1>2 DEF Rep
  <1>3. QED
    BY <1>1, <1>2

LEMMA TextIs ==
  ASSUME NEW k \in 0 .. 15
  PROVE  Text(k) \in Seq(Char)
  <1> DEFINE t == <<"k", "l", "m", "n", "o", "p", "q", "r", "s", "t", "u", "v", "w", "y", "z">>
  <1>1. t \in Seq(Char) /\ Len(t) = 15
    BY DEF Char
  <1>2. Text(k) = SubSeq(t, 1, k)
    BY DEF Text
  <1> HIDE DEF t
  <1>3. ASSUME NEW j \in 1 .. k PROVE t[j] \in Char
    <2>1. j \in 1 .. Len(t)
      BY <1>1
    <2>2. QED
      BY <1>1, <2>1, ElementOfSeq
  <1>4. QED
    BY <1>2, <1>3, SubSeqProperties

LEMMA FiguresAre ==
  ASSUME NEW i, IsItem(i), i.conv \in NumberConvs
  PROVE  Figures(i) \in Seq(Char)
  <1>1. PICK v \in Nat, b \in {8, 10, 16} : v = Abs(ValueOf(i)) /\ b = BaseOf(i.conv)
    BY NumberIs
  <1> DEFINE places == {k \in 1 .. Width : k = 1 \/ v >= Power(b, k - 1)}
  <1>2. PICK l \in Nat : l = Cardinality(places)
    <2>1. IsFiniteSet(1 .. Width)
      BY FS_Interval, HalfWord, WidthAssumption
    <2>2. IsFiniteSet(places)
      BY <2>1, FS_Subset
    <2>3. QED
      BY <2>2, FS_CardinalityType
  <1>3. Numeral(v, b) = [k \in 1 .. l |-> (v \div Power(b, l - k)) % b]
    BY <1>2 DEF Numeral
  <1>4. ASSUME NEW k \in 1 .. l PROVE Numeral(v, b)[k] \in 0 .. b - 1
    <2>1. b \in Nat \ {0} /\ l - k \in Nat
      OBVIOUS
    <2>2. v \div Power(b, l - k) \in Nat
      BY <2>1, PlacesLeft
    <2>3. QED
      BY <1>3, <2>2
  <1>5. DOMAIN Numeral(v, b) = 1 .. l
    BY <1>3
  <1>6. ASSUME NEW k \in 1 .. l PROVE Figures(i)[k] \in Char
    <2>1. Figures(i)[k] = (IF i.conv = "X" THEN Uppers ELSE Digits)[Numeral(v, b)[k] + 1]
      BY <1>1, <1>5 DEF Figures
    <2>2. Numeral(v, b)[k] + 1 \in 1 .. 16
      BY <1>4
    <2>3. QED
      BY <2>1, <2>2, Characters
  <1>7. DOMAIN Figures(i) = 1 .. l /\ Figures(i) = [k \in DOMAIN Figures(i) |-> Figures(i)[k]]
    BY <1>1, <1>5 DEF Figures
  <1>8. Figures(i) \in [1 .. l -> Char]
    BY <1>6, <1>7
  <1>9. QED
    BY <1>8

LEMMA AheadIs ==
  ASSUME NEW i
  PROVE  Ahead(i) \in Seq(Char)
  <1>0. {"-", "+", "0", "x"} \subseteq Char
    BY Characters
  <1>1. <<"-">> \in Seq(Char) /\ <<"+">> \in Seq(Char) /\ <<>> \in Seq(Char)
    BY <1>0, Short
  <1>2. <<"0", "x">> \in Seq(Char) /\ <<"0">> \in Seq(Char)
    BY <1>0, Short
  <1>3. PICK s \in Seq(Char) : s = IF ValueOf(i) < 0 THEN <<"-">> ELSE IF Has(i, "+") THEN <<"+">> ELSE <<>>
    BY <1>1
  <1>4. PICK t \in Seq(Char) : t = IF ~ Has(i, "#") \/ BaseOf(i.conv) = 10 THEN <<>>
                                   ELSE IF BaseOf(i.conv) = 16 THEN <<"0", "x">> ELSE <<"0">>
    BY <1>1, <1>2
  <1>5. Ahead(i) = s \o t
    BY <1>3, <1>4 DEF Ahead
  <1>6. QED
    BY <1>5, Joined

LEMMA LaidIs ==
  ASSUME NEW i, IsItem(i), NEW s \in Seq(Char), NEW t \in Seq(Char)
  PROVE  Laid(i, s, t) \in Seq(Char)
  <1>1. s \o t \in Seq(Char)
    BY Joined
  <1>2. PICK k \in Int : k = i.width - Len(s \o t)
    <2>1. Len(s \o t) \in Nat /\ i.width \in Int
      <3>1. PICK w \in 0 .. 99 : w = i.width
        BY DEF IsItem
      <3>2. QED
        BY <1>1, <3>1, LenProperties
    <2>2. QED
      BY <2>1
  <1>3. PICK z \in Seq(Char), p \in Seq(Char) : z = Rep("0", k) /\ p = Rep(" ", k)
    BY Characters, Repeating
  <1>4. s \o z \in Seq(Char) /\ p \o s \in Seq(Char)
    BY Joined
  <1>5. s \o z \o t \in Seq(Char) /\ s \o t \o p \in Seq(Char) /\ p \o s \o t \in Seq(Char)
    BY <1>1, <1>4, Joined
  <1>6. QED
    BY <1>2, <1>3, <1>5 DEF Laid

LEMMA ConversionIs ==
  ASSUME NEW i, IsItem(i)
  PROVE  Conversion(i) \in Seq(Char)
  <1>1. CASE i.conv \in NumberConvs
    BY <1>1, ConversionParts, AheadIs, FiguresAre, LaidIs
  <1>2. CASE i.conv = "%"
    <2>1. Conversion(i) = <<"%">> /\ "%" \in Char
      BY <1>2, ConversionParts, Characters
    <2>2. QED
      BY <2>1, Short
  <1>3. CASE i.conv = "c"
    <2>1. PICK x \in Char : x = IF i.word = 0 THEN "#" ELSE "k"
      BY Characters
    <2>2. Conversion(i) = <<x>>
      BY <1>3, <2>1, ConversionParts
    <2>3. QED
      BY <2>2, Short
  <1>4. CASE i.conv = "s"
    <2>1. i.word \in 0 .. 15
      <3>1. Power(2, Width) \in Nat
        BY HalfWord
      <3>2. PICK h \in Nat : h = Power(2, Width)
        BY <3>1
      <3>3. i.word \in 0 .. h - 1 /\ i.word <= 15
        BY <1>4, <3>2, Zenon DEF IsItem
      <3>4. QED
        BY <3>3
    <2>2. QED
      BY <1>4, <2>1, ConversionParts, TextIs
  <1>5. CASE i.conv = "l"
    <2>1. Conversion(i) = <<>>
      BY <1>5, ConversionParts
    <2>2. QED
      BY <2>1, Short
  <1>6. QED
    BY <1>1, <1>2, <1>3, <1>4, <1>5 DEF IsItem, NumberConvs

(* the conversion at the end of every format of a log message *)
Plain == [flags |-> <<>>, width |-> 0, conv |-> "x", word |-> 10]

LEMMA PlainIs ==
  /\ IsItem(Plain) /\ Spell(Plain) = <<"%", "x">> /\ Length(Plain) = 2 /\ Passed(Plain) = <<10>>
  /\ ValueOf(Plain) = 10 /\ Conversion(Plain) = <<"a">>
  <1>1. Plain.flags = <<>> /\ Plain.width = 0 /\ Plain.conv = "x" /\ Plain.word = 10
    BY DEF Plain
  <1>2. IsItem(Plain)
    <2>1. PICK h \in Nat : h = Power(2, Width) /\ h >= 16
      BY HalfWord
    <2>2. <<>> \in Seq({"-", "+", "#", "0"})
      BY Short
    <2>3. QED
      BY <1>1, <2>1, <2>2 DEF IsItem
  <1>3. WidthDigits(Plain) = <<>> /\ Length(Plain) = 2 /\ Passed(Plain) = <<10>> /\ ValueOf(Plain) = 10
    BY <1>1 DEF WidthDigits, Length, Passed, ValueOf
  <1>4. Spell(Plain) = <<"%", "x">>
    <2>1. Spell(Plain) = <<"%">> \o <<>> \o <<>> \o <<"x">>
      BY <1>1 DEF Spell
    <2>2. <<"%">> \o <<>> = <<"%">>
      OBVIOUS
    <2>3. <<"%">> \o <<"x">> = <<"%", "x">>
      BY Characters, Pair
    <2>4. QED
      BY <2>1, <2>2, <2>3
  <1>5. Numeral(10, 16) = [k \in 1 .. 1 |-> 10]
    <2>1. \A k \in Nat : Power(16, k) \in Nat
      BY PowerIs
    <2>2. Power(16, 0) = 1 /\ Power(16, 1) = 16
      <3>1. Power(16, 0) = 1 /\ Power(16, 0 + 1) = 16 * Power(16, 0)
        BY PowerIs
      <3>2. QED
        BY <3>1
    <2>3. ASSUME NEW k \in 1 .. Width PROVE (k = 1 \/ 10 >= Power(16, k - 1)) <=> k = 1
      <3>1. CASE k # 1
        <4>1. Power(16, 1) <= Power(16, k - 1)
          BY <3>1, 16 \in Nat \ {0, 1}, 1 \in Nat, k - 1 \in Nat, 1 <= k - 1, PowersGrow
        <4>2. Power(16, k - 1) \in Nat
          BY <2>1, k - 1 \in Nat
        <4>3. QED
          BY <2>2, <3>1, <4>1, <4>2
      <3>2. QED
        BY <3>1
    <2>4. 1 \in 1 .. Width
      BY HalfWord, WidthAssumption
    <2>5. {k \in 1 .. Width : k = 1 \/ 10 >= Power(16, k - 1)} = {1}
      BY <2>3, <2>4
    <2>6. Cardinality({1}) = 1
      BY FS_Singleton
    <2>7. Numeral(10, 16) = [k \in 1 .. 1 |-> (10 \div Power(16, 1 - k)) % 16]
      BY <2>5, <2>6 DEF Numeral
    <2>8. \A k \in 1 .. 1 : (10 \div Power(16, 1 - k)) % 16 = 10
      BY <2>2
    <2>9. QED
      BY <2>7, <2>8
  <1>6. Figures(Plain) = <<"a">>
    <2>1. Abs(ValueOf(Plain)) = 10 /\ BaseOf(Plain.conv) = 16
      BY <1>1, <1>3 DEF Abs, BaseOf
    <2>2. Figures(Plain) = [k \in 1 .. 1 |-> Digits[10 + 1]]
      BY <1>1, <1>5, <2>1 DEF Figures
    <2>3. Digits[10 + 1] = "a"
      BY DEF Digits
    <2>4. QED
      BY <2>2, <2>3
  <1>7. ~ Has(Plain, "0") /\ ~ Has(Plain, "-") /\ ~ Has(Plain, "+") /\ ~ Has(Plain, "#")
    BY <1>1 DEF Has
  <1>8. Ahead(Plain) = <<>>
    <2>1. ~ (ValueOf(Plain) < 0)
      BY <1>3
    <2>2. Ahead(Plain) = <<>> \o <<>>
      BY <1>7, <2>1 DEF Ahead
    <2>3. QED
      BY <2>2
  <1>9. Laid(Plain, <<>>, <<"a">>) = <<"a">>
    <2>1. <<>> \o <<"a">> = <<"a">> /\ <<>> \o <<>> = <<>>
      OBVIOUS
    <2>2. PICK k \in Int : k = Plain.width - Len(<<>> \o <<"a">>) /\ k <= 0
      BY <1>1, <2>1
    <2>3. Rep(" ", k) = <<>>
      <3>1. " " \in Char
        BY Characters
      <3>2. QED
        BY <2>2, <3>1, Repeating
    <2>4. QED
      BY <1>7, <2>1, <2>2, <2>3 DEF Laid
  <1>10. Conversion(Plain) = <<"a">>
    BY <1>1, <1>6, <1>8, <1>9, ConversionParts DEF NumberConvs
  <1>11. QED
    BY <1>2, <1>3, <1>4, <1>10

-----------------------------------------------------------------------------
(* The field is laid out as the reference says: the flags and width that were read, the
   digits in buf *)

LEMMA FieldIs ==
  ASSUME NEW i, IsItem(i), i.conv \in NumberConvs,
         flags = Given(i) \cup (IF i.conv = "X" THEN {"upper"} ELSE {}),
         width = FieldWidth(i), base = BaseOf(i.conv),
         sign = IF ValueOf(i) < 0 THEN "-" ELSE "+",
         pc = "field", Numbered(Abs(ValueOf(i)), base)
  PROVE  LET signstr == IF sign = "-" \/ "+" \in flags THEN <<sign>> ELSE <<>>
             annotatestr == IF "#" \notin flags \/ base = 10 THEN <<>>
                            ELSE IF base = 16 THEN <<"0", "x">> ELSE <<"0">>
             digits == [k \in 1 .. Len(buf) |->
                          LET d == buf[Len(buf) + 1 - k] + 1
                          IN  IF "upper" \in flags THEN Uppers[d] ELSE Digits[d]]
         IN  Field(signstr, annotatestr, digits) = Conversion(i)
  <1>1. PICK v \in Nat, b \in {8, 10, 16} : v = Abs(ValueOf(i)) /\ b = BaseOf(i.conv) /\ v < Power(2, Width)
    BY NumberIs
  <1>2. PICK l \in Nat \ {0} : /\ l = Len(buf) /\ \A k \in 1 .. l : buf[k] \in 0 .. b - 1
                               /\ Numeral(v, b) = [k \in 1 .. l |-> buf[l + 1 - k]]
    BY <1>1, NumeralIs
  <1>3. \A f \in Flags : f \in flags <=> Has(i, f)
    <2>1. PICK s \in Seq(Flags) : s = i.flags
      BY DEF IsItem, Flags
    <2>2. DOMAIN s = 1 .. Len(s)
      OBVIOUS
    <2>3. "upper" \notin Flags
      BY DEF Flags
    <2>4. QED
      BY <2>1, <2>2, <2>3 DEF Given, Has
  <1>4. "upper" \in flags <=> i.conv = "X"
    <2>1. i.flags \in Seq(Flags)
      BY DEF IsItem, Flags
    <2>2. \A k \in 1 .. Len(i.flags) : i.flags[k] \in Flags
      BY <2>1, ElementOfSeq
    <2>3. "upper" \notin Given(i)
      BY <2>2 DEF Given, Flags
    <2>4. QED
      BY <2>3
  <1>5. PICK z : z = Figures(i)
    OBVIOUS
  <1>6. z = [k \in 1 .. l |-> IF "upper" \in flags THEN Uppers[buf[l + 1 - k] + 1]
                              ELSE Digits[buf[l + 1 - k] + 1]]
    BY <1>1, <1>2, <1>4, <1>5 DEF Figures
  <1>7. z \in Seq(Char) /\ Len(z) = l
    <2>1. z \in Seq(Char)
      BY <1>5, FiguresAre
    <2>2. DOMAIN z = 1 .. l
      BY <1>6
    <2>3. QED
      BY <2>1, <2>2, LenProperties
  <1>8. PICK s \in Seq(Char) : s = IF sign = "-" \/ "+" \in flags THEN <<sign>> ELSE <<>>
    <2>1. sign \in Char
      BY Characters
    <2>2. QED
      BY <2>1, Short
  <1>9. PICK t \in Seq(Char) : t = IF "#" \notin flags \/ base = 10 THEN <<>>
                                   ELSE IF base = 16 THEN <<"0", "x">> ELSE <<"0">>
    BY Characters, Short
  <1>10. s \o t = Ahead(i)
    <2>1. s = IF ValueOf(i) < 0 THEN <<"-">> ELSE IF Has(i, "+") THEN <<"+">> ELSE <<>>
      BY <1>3, <1>8 DEF Flags
    <2>2. t = IF ~ Has(i, "#") \/ BaseOf(i.conv) = 10 THEN <<>>
              ELSE IF BaseOf(i.conv) = 16 THEN <<"0", "x">> ELSE <<"0">>
      BY <1>3, <1>9 DEF Flags
    <2>3. QED
      BY <2>1, <2>2 DEF Ahead
  <1>11. PICK m \in Nat \ {0} : m = Len(s \o t \o z)
    <2>1. s \o t \in Seq(Char)
      BY Joined
    <2>2. Len(s \o t \o z) = Len(s \o t) + Len(z) /\ Len(s \o t) \in Nat
      BY <1>7, <2>1, ConcatProperties, LenProperties
    <2>3. QED
      BY <1>7, <2>2
  <1>12. PICK w \in 0 .. 99 : w = i.width /\ width = IF w = 0 THEN 1 ELSE w
    BY DEF IsItem, FieldWidth
  <1>13. PICK pad \in Nat : pad = IF m < width THEN width - m ELSE 0
    BY <1>12
  <1>14. \A x \in Char : Rep(x, pad) = Rep(x, w - m) /\ Rep(x, pad) \in Seq(Char)
    <2>1. CASE m < w
      <3>1. pad = w - m
        BY <1>12, <1>13, <2>1
      <3>2. QED
        BY <3>1, Repeating
    <2>2. CASE ~ (m < w)
      <3>1. pad = 0 /\ w - m <= 0 /\ w - m \in Int
        BY <1>11, <1>12, <1>13, <2>2
      <3>2. \A x \in Char : Rep(x, pad) = <<>> /\ Rep(x, w - m) = <<>> /\ Rep(x, pad) \in Seq(Char)
        BY <3>1, Repeating
      <3>3. QED
        BY <3>2
    <2>3. QED
      BY <2>1, <2>2
  <1>15. PICK p \in Seq(Char), q \in Seq(Char) :
           /\ p = Rep("0", pad) /\ p = Rep("0", w - m)
           /\ q = Rep(" ", pad) /\ q = Rep(" ", w - m)
    BY <1>14, Characters
  <1>16. Field(s, t, z) = IF "0" \in flags THEN s \o t \o p \o z
                          ELSE IF "-" \notin flags THEN q \o s \o t \o z
                          ELSE s \o t \o z \o q
    BY <1>11, <1>13, <1>15 DEF Field
  <1>17. Conversion(i) = IF "0" \in flags THEN s \o t \o p \o z
                         ELSE IF "-" \in flags THEN s \o t \o z \o q
                         ELSE q \o (s \o t) \o z
    <2>1. Conversion(i) = Laid(i, s \o t, z)
      BY <1>5, <1>10, ConversionParts
    <2>2. ("0" \in flags <=> Has(i, "0")) /\ ("-" \in flags <=> Has(i, "-"))
      BY <1>3 DEF Flags
    <2>3. QED
      BY <1>11, <1>12, <1>15, <2>1, <2>2 DEF Laid
  <1>18. q \o (s \o t) = q \o s \o t
    BY ConcatAssociative, SMTT(20)
  <1>19. Field(s, t, z) = Conversion(i)
    BY <1>16, <1>17, <1>18
  <1>20. z = [k \in 1 .. Len(buf) |->
               LET d == buf[Len(buf) + 1 - k] + 1
               IN  IF "upper" \in flags THEN Uppers[d] ELSE Digits[d]]
    BY <1>2, <1>6
  <1>21. QED
    BY <1>8, <1>9, <1>19, <1>20, Zenon

-----------------------------------------------------------------------------
(* What DoPrintf has read of a conversion.  Conversion i begins behind the first
   o characters of the format; text has been printed before, and last is passed
   for what comes behind. *)

Within(i, o) ==
  /\ o + Length(i) <= Len(format)
  /\ \A k \in 1 .. Length(i) : format[o + k] = Spell(i)[k]

Before(i, o, text, last) ==
  pc = "text" /\ c = o + 1 /\ out = text /\ args = Passed(i) \o last

FlagsRead(i, o, text, last) ==
  /\ pc = "flags" /\ out = text /\ args = Passed(i) \o last
  /\ c \in o + 2 .. o + 2 + Len(i.flags)
  /\ flags = {i.flags[k] : k \in 1 .. c - o - 2}

WidthRead(i, o, text, last) ==
  /\ pc = "width" /\ out = text /\ args = Passed(i) \o last
  /\ c \in o + 2 + Len(i.flags) .. o + Length(i)
  /\ flags = Given(i)
  /\ width = IF c = o + Length(i) THEN FieldWidth(i)
             ELSE IF c = o + 2 + Len(i.flags) THEN 0 ELSE i.width \div 10

NumberRead(i, o, text, last) ==
  /\ pc \in {"digits", "field"} /\ out = text /\ args = last
  /\ c = o + Length(i) /\ i.conv \in NumberConvs
  /\ flags = Given(i) \cup (IF i.conv = "X" THEN {"upper"} ELSE {})
  /\ width = FieldWidth(i)
  /\ base = BaseOf(i.conv)
  /\ sign = IF ValueOf(i) < 0 THEN "-" ELSE "+"
  /\ Numbered(Abs(ValueOf(i)), base)

Printed(i, o, text, last) ==
  pc = "text" /\ c = o + Length(i) + 1 /\ out = text \o Conversion(i) /\ args = last

Reads(i, o, text, last) == \/ Before(i, o, text, last) \/ FlagsRead(i, o, text, last)
                           \/ WidthRead(i, o, text, last) \/ NumberRead(i, o, text, last)

LEMMA StepKeeps ==
  ASSUME Step
  PROVE  item' = item /\ format' = format
  BY DEF Step, Literal, Percent, Flag, EndFlags, WidthDigit, PrintPercent, PrintChar,
         PrintString, Unknown, UItoA32, ItoA32, NextDigit, PrintFormattedInteger, Terminate

(* which action each place allows *)
LEMMA StepsOf ==
  ASSUME Step
  PROVE  /\ pc = "text" => Literal \/ Percent \/ Terminate
         /\ pc = "flags" => Flag \/ EndFlags
         /\ pc = "width" => \/ WidthDigit \/ PrintPercent \/ PrintChar \/ PrintString
                            \/ Unknown \/ UItoA32 \/ ItoA32
         /\ pc = "digits" => NextDigit
         /\ pc = "field" => PrintFormattedInteger
  <1>1. /\ Literal => pc = "text"
        /\ Percent => pc = "text"
        /\ Terminate => pc = "text"
        /\ Flag => pc = "flags"
        /\ EndFlags => pc = "flags"
        /\ NextDigit => pc = "digits"
        /\ PrintFormattedInteger => pc = "field"
    BY DEF Literal, Percent, Flag, EndFlags, NextDigit, PrintFormattedInteger, Terminate
  <1>2. /\ WidthDigit => pc = "width"
        /\ PrintPercent => pc = "width"
        /\ PrintChar => pc = "width"
        /\ PrintString => pc = "width"
        /\ Unknown => pc = "width"
        /\ UItoA32 => pc = "width"
        /\ ItoA32 => pc = "width"
    BY DEF WidthDigit, PrintPercent, PrintChar, PrintString, Unknown, UItoA32, ItoA32, Converting
  <1>3. QED
    BY <1>1, <1>2 DEF Step

LEMMA BeforeStep ==
  ASSUME NEW i, IsItem(i), NEW o \in Nat, Within(i, o), NEW text, NEW last,
         Before(i, o, text, last), Step
  PROVE  FlagsRead(i, o, text, last)'
  <1>1. Length(i) \in Nat /\ Length(i) >= 2 /\ Spell(i)[1] = "%" /\ Len(i.flags) \in Nat
    <2>1. Len(WidthDigits(i)) \in Nat
      BY WidthWritten
    <2>2. i.flags \in Seq(Flags)
      BY DEF IsItem, Flags
    <2>3. Len(i.flags) \in Nat
      BY <2>2, LenProperties
    <2>4. Length(i) \in Nat /\ Length(i) >= 2
      BY <2>1, <2>3 DEF Length
    <2>5. QED
      BY <2>3, <2>4, Spelled
  <1>2. pc = "text" /\ c = o + 1
    BY DEF Before
  <1>3. format[c] = "%" /\ c <= Len(format)
    BY <1>1, <1>2 DEF Within
  <1>4. Percent
    BY <1>2, <1>3, StepsOf DEF Literal, Terminate, At
  <1>5. pc' = "flags" /\ c' = o + 2 /\ flags' = {} /\ out' = out /\ args' = args
    BY <1>2, <1>4 DEF Percent
  <1>6. {i.flags[k] : k \in 1 .. c' - o - 2} = {}
    <2>1. c' - o - 2 = 0 /\ 1 .. 0 = {}
      BY <1>5
    <2>2. QED
      BY <2>1
  <1>7. c' \in o + 2 .. o + 2 + Len(i.flags)
    <2>1. PICK l \in Nat : l = Len(i.flags)
      BY <1>1
    <2>2. o + 2 \in o + 2 .. o + 2 + l
      OBVIOUS
    <2>3. c' = o + 2
      BY <1>5
    <2>4. QED
      BY <2>1, <2>2, <2>3, Zenon
  <1>8. QED
    BY <1>5, <1>6, <1>7 DEF Before, FlagsRead

LEMMA FlagsStep ==
  ASSUME NEW i, IsItem(i), NEW o \in Nat, Within(i, o), NEW text, NEW last,
         FlagsRead(i, o, text, last), Step
  PROVE  FlagsRead(i, o, text, last)' \/ WidthRead(i, o, text, last)'
  <1>1. PICK l \in Nat, m \in 0 .. 2 :
          /\ l = Len(i.flags) /\ m = Len(WidthDigits(i)) /\ Length(i) = l + m + 2
          /\ \A k \in 1 .. l : i.flags[k] \in Flags
    <2>1. i.flags \in Seq(Flags)
      BY DEF IsItem, Flags
    <2>2. Len(i.flags) \in Nat /\ \A k \in 1 .. Len(i.flags) : i.flags[k] \in Flags
      BY <2>1, LenProperties, ElementOfSeq
    <2>3. QED
      BY <2>2, WidthWritten DEF Length
  <1>0. /\ Spell(i)[l + m + 2] = i.conv
        /\ \A k \in 1 .. l : Spell(i)[k + 1] = i.flags[k]
        /\ \A k \in 1 .. m : Spell(i)[k + 1 + l] = WidthDigits(i)[k]
    BY <1>1, Spelled
  <1>2. PICK j \in 0 .. l : c = o + (j + 2) /\ flags = {i.flags[k] : k \in 1 .. j}
    <2>1. /\ c \in o + 2 .. o + 2 + l
          /\ flags = {i.flags[k] : k \in 1 .. c - o - 2}
      BY <1>1 DEF FlagsRead
    <2>2. PICK j \in 0 .. l : j = c - o - 2 /\ c = o + (j + 2)
      BY <2>1
    <2>3. QED
      BY <2>1, <2>2
  <1>3. pc = "flags" /\ (Flag \/ EndFlags)
    BY StepsOf DEF FlagsRead
  <1>4. format[c] = Spell(i)[j + 2] /\ c <= Len(format)
    BY <1>1, <1>2 DEF Within
  <1>5. CASE j < l
    <2>1. format[c] = i.flags[j + 1] /\ format[c] \in Flags
      <3>1. j + 1 \in 1 .. l /\ j + 2 = (j + 1) + 1
        BY <1>5
      <3>2. QED
        BY <1>0, <1>1, <1>4, <3>1
    <2>2. Flag
      BY <1>3, <1>4, <2>1 DEF EndFlags, At, Flags
    <2>3. /\ pc' = "flags" /\ out' = out /\ args' = args /\ c' = c + 1
          /\ flags' = flags \cup {format[c]}
      BY <1>3, <2>2 DEF Flag
    <2>4. flags' = {i.flags[k] : k \in 1 .. j + 1}
      <3>1. 1 .. j + 1 = (1 .. j) \cup {j + 1}
        OBVIOUS
      <3>2. QED
        BY <1>2, <2>1, <2>3, <3>1
    <2>5. c' \in o + 2 .. o + 2 + l /\ c' - o - 2 = j + 1
      BY <1>2, <1>5, <2>3
    <2>6. QED
      BY <1>1, <2>3, <2>4, <2>5 DEF FlagsRead
  <1>6. CASE j = l
    <2>1. format[c] \notin Flags /\ (Decimal(format[c]) <=> m # 0)
      <3>1. CASE m = 0
        <4>0. i.conv \in Conversions
          BY DEF IsItem, Conversions
        <4>1. format[c] = i.conv /\ i.conv \in Conversions
          BY <1>0, <1>4, <1>6, <3>1, <4>0
        <4>2. QED
          BY <3>1, <4>1, ConversionsRead
      <3>2. CASE m # 0
        <4>1. format[c] = WidthDigits(i)[1]
          <5>1. 1 \in 1 .. m /\ l + 2 = 1 + 1 + l
            BY <3>2
          <5>2. QED
            BY <1>0, <1>4, <1>6, <5>1
        <4>2. PICK w \in 0 .. 99 : w = i.width
          BY DEF IsItem
        <4>3. PICK d \in 1 .. 9 : WidthDigits(i)[1] = Digits[d + 1]
          <5>1. CASE w \in 1 .. 9
            BY <4>2, <5>1, WidthWritten
          <5>2. CASE w >= 10
            BY <4>2, <5>2, w \div 10 \in 1 .. 9, WidthWritten
          <5>3. CASE w = 0
            BY <1>1, <3>2, <4>2, <5>3, WidthWritten
          <5>4. QED
            BY <5>1, <5>2, <5>3
        <4>4. QED
          BY <3>2, <4>1, <4>3, DigitRead
      <3>3. QED
        BY <3>1, <3>2
    <2>2. EndFlags
      BY <1>3, <1>4, <2>1 DEF Flag, At, Flags
    <2>3. /\ pc' = "width" /\ out' = out /\ args' = args /\ c' = c /\ flags' = flags
          /\ width' = IF m # 0 THEN 0 ELSE 1
      BY <2>1, <2>2 DEF EndFlags
    <2>4. flags' = Given(i)
      BY <1>1, <1>2, <1>6, <2>3 DEF Given
    <2>5. c' = o + 2 + l /\ c' \in o + 2 + l .. o + Length(i) /\ (c' = o + Length(i) <=> m = 0)
      <3>1. Length(i) = l + m + 2 /\ c' = o + (l + 2)
        BY <1>1, <1>2, <1>6, <2>3
      <3>2. QED
        BY <3>1
    <2>6. m = 0 => FieldWidth(i) = 1
      <3>1. PICK w \in 0 .. 99 : w = i.width
        BY DEF IsItem
      <3>2. m = 0 => w = 0
        <4>1. CASE w \in 1 .. 9
          <5>1. Len(WidthDigits(i)) = 1
            BY <3>1, <4>1, WidthWritten
          <5>2. QED
            BY <1>1, <5>1
        <4>2. CASE w >= 10
          <5>1. Len(WidthDigits(i)) = 2
            BY <3>1, <4>2, WidthWritten
          <5>2. QED
            BY <1>1, <5>1
        <4>3. QED
          BY <4>1, <4>2
      <3>3. QED
        BY <3>1, <3>2 DEF FieldWidth
    <2>7. width' = IF c' = o + Length(i) THEN FieldWidth(i)
                   ELSE IF c' = o + 2 + l THEN 0 ELSE i.width \div 10
      BY <2>3, <2>5, <2>6
    <2>8. QED
      BY <1>1, <2>3, <2>4, <2>5, <2>7 DEF FlagsRead, WidthRead
  <1>7. QED
    BY <1>5, <1>6

LEMMA WidthDigitStep ==
  ASSUME NEW i, IsItem(i), NEW o \in Nat, Within(i, o), NEW text, NEW last,
         WidthRead(i, o, text, last), c < o + Length(i), Step
  PROVE  WidthRead(i, o, text, last)'
  <1>1. PICK l \in Nat, m \in 0 .. 2 :
          l = Len(i.flags) /\ m = Len(WidthDigits(i)) /\ Length(i) = l + m + 2
    <2>1. i.flags \in Seq(Flags)
      BY DEF IsItem, Flags
    <2>2. Len(i.flags) \in Nat
      BY <2>1, LenProperties
    <2>3. QED
      BY <2>2, WidthWritten DEF Length
  <1>2. \A k \in 1 .. m : Spell(i)[k + 1 + l] = WidthDigits(i)[k]
    BY <1>1, Spelled
  <1>3. PICK j \in 0 .. 1 : j < m /\ c = o + (j + 2 + l)
    <2>1. c \in o + 2 + l .. o + (l + m + 2) /\ c < o + (l + m + 2)
      BY <1>1 DEF WidthRead
    <2>2. PICK j \in Nat : j = c - (o + 2 + l)
      BY <2>1
    <2>3. QED
      BY <2>1, <2>2
  <1>4. format[c] = WidthDigits(i)[j + 1]
    <2>1. j + 2 + l \in 1 .. l + m + 2 /\ j + 1 \in 1 .. m /\ (j + 1) + 1 + l = j + 2 + l
      BY <1>3
    <2>2. format[c] = Spell(i)[j + 2 + l]
      BY <1>1, <1>3, <2>1 DEF Within
    <2>3. QED
      BY <1>2, <2>1, <2>2
  <1>5. PICK w \in 0 .. 99 : w = i.width
    BY DEF IsItem
  <1>6. PICK d \in 0 .. 9 : /\ format[c] = Digits[d + 1]
                            /\ width * 10 + d = IF j + 1 = m THEN FieldWidth(i) ELSE w \div 10
    <2>1. width = IF j = 0 THEN 0 ELSE w \div 10
      <3>1. c # o + Length(i) /\ (c = o + 2 + l <=> j = 0)
        <4>1. Length(i) = l + m + 2
          BY <1>1
        <4>2. QED
          BY <1>3, <4>1
      <3>2. QED
        BY <1>1, <1>5, <3>1 DEF WidthRead
    <2>2. CASE w = 0
      <3>1. m = 0
        BY <1>1, <1>5, <2>2, WidthWritten
      <3>2. QED
        BY <1>3, <3>1
    <2>3. CASE w \in 1 .. 9
      <3>1. Len(WidthDigits(i)) = 1 /\ WidthDigits(i)[1] = Digits[w + 1]
        BY <1>5, <2>3, WidthWritten
      <3>2. j = 0 /\ m = 1
        BY <1>1, <1>3, <3>1
      <3>3. FieldWidth(i) = w
        BY <1>5, <2>3 DEF FieldWidth
      <3>4. QED
        BY <1>4, <2>1, <2>3, <3>1, <3>2, <3>3
    <2>4. CASE w >= 10
      <3>1. PICK x \in 0 .. 9, y \in 0 .. 9 : x = w \div 10 /\ y = w % 10 /\ w = x * 10 + y
        BY <2>4
      <3>2. /\ Len(WidthDigits(i)) = 2 /\ WidthDigits(i)[1] = Digits[x + 1]
            /\ WidthDigits(i)[2] = Digits[y + 1]
        BY <1>5, <2>4, <3>1, WidthWritten
      <3>3. m = 2
        BY <1>1, <3>2
      <3>4. FieldWidth(i) = w
        BY <1>5, <2>4 DEF FieldWidth
      <3>5. CASE j = 0
        BY <1>4, <2>1, <3>1, <3>2, <3>3, <3>5
      <3>6. CASE j = 1
        BY <1>4, <2>1, <3>1, <3>2, <3>3, <3>4, <3>6
      <3>7. QED
        BY <3>5, <3>6
    <2>5. QED
      BY <2>2, <2>3, <2>4
  <1>7. Decimal(format[c]) /\ Ascii2Int(format[c]) = d
    BY <1>6, DigitRead
  <1>8. format[c] \notin Conversions
    BY <1>7, ConversionsRead
  <1>9. pc = "width"
    BY DEF WidthRead
  <1>10. WidthDigit
    BY <1>8, <1>9, StepsOf DEF PrintPercent, PrintChar, PrintString, Unknown, UItoA32, ItoA32,
                               Converting, Conversions
  <1>11. /\ pc' = "width" /\ c' = c + 1 /\ flags' = flags /\ args' = args /\ out' = out
         /\ width' = width * 10 + d
    BY <1>7, <1>10 DEF WidthDigit
  <1>12. width' = IF j + 1 = m THEN FieldWidth(i) ELSE w \div 10
    BY <1>6, <1>11
  <1>13. /\ c' \in o + 2 + l .. o + Length(i) /\ (c' = o + Length(i) <=> j + 1 = m)
         /\ c' # o + 2 + l
    <2>1. c' = o + (j + 3 + l) /\ Length(i) = l + m + 2
      <3>1. c' = c + 1 /\ Length(i) = l + m + 2
        BY <1>1, <1>11
      <3>2. QED
        BY <1>3, <3>1
    <2>2. QED
      BY <1>3, <2>1
  <1>14. QED
    BY <1>1, <1>5, <1>11, <1>12, <1>13 DEF WidthRead

LEMMA HeadOf ==
  ASSUME NEW w \in Nat, NEW s \in Seq(Nat)
  PROVE  Head(<<w>> \o s) = w /\ Tail(<<w>> \o s) = s
  <1>1. PICK t : t = <<w>> \o s
    OBVIOUS
  <1>2. PICK l \in Nat : l = Len(s)
    OBVIOUS
  <1>3. <<w>> \in Seq(Nat) /\ Len(<<w>>) = 1 /\ <<w>>[1] = w
    OBVIOUS
  <1>4. t \in Seq(Nat) /\ Joins(t, <<w>>, s)
    BY <1>1, <1>3, Joined
  <1>5. Len(t) = 1 + l /\ t[1] = w /\ \A k \in 1 .. l : t[1 + k] = s[k]
    BY <1>2, <1>3, <1>4 DEF Joins
  <1>6. t # <<>>
    BY <1>4, <1>5
  <1>7. Head(t) = w
    BY <1>4, <1>5, <1>6
  <1>8. Tail(t) \in Seq(Nat) /\ Len(Tail(t)) = l /\ \A k \in 1 .. l : Tail(t)[k] = t[k + 1]
    BY <1>4, <1>5, <1>6, HeadTailProperties
  <1>9. \A k \in 1 .. l : Tail(t)[k] = s[k]
    BY <1>5, <1>8, \A k \in 1 .. l : 1 + k = k + 1
  <1>10. Tail(t) = s
    BY <1>2, <1>8, <1>9, SeqEqual
  <1>11. QED
    BY <1>1, <1>7, <1>10

LEMMA ConvertingStep ==
  ASSUME NEW i, IsItem(i), NEW o \in Nat, Within(i, o), NEW text \in Seq(Char), NEW last \in Seq(Nat),
         WidthRead(i, o, text, last), ~ (c < o + Length(i)), Step
  PROVE  NumberRead(i, o, text, last)' \/ Printed(i, o, text, last)'
  <1>1. Length(i) \in Nat /\ Length(i) >= 2 /\ Spell(i)[Length(i)] = i.conv
    <2>1. i.flags \in Seq(Flags)
      BY DEF IsItem, Flags
    <2>2. Len(i.flags) \in Nat /\ Len(WidthDigits(i)) \in Nat
      BY <2>1, LenProperties, WidthWritten
    <2>3. QED
      BY <2>2, Spelled DEF Length
  <1>2. c \in Int /\ c <= o + Length(i)
    <2>1. i.flags \in Seq(Flags)
      BY DEF IsItem, Flags
    <2>2. PICK l \in Nat, h \in Nat : l = Len(i.flags) /\ h = Length(i)
      BY <1>1, <2>1, LenProperties
    <2>3. c \in o + 2 + l .. o + h
      BY <2>2 DEF WidthRead
    <2>4. QED
      BY <2>2, <2>3
  <1>3. c = o + Length(i)
    BY <1>1, <1>2
  <1>4. format[c] = i.conv
    <2>1. \A k \in 1 .. Length(i) : format[o + k] = Spell(i)[k]
      BY DEF Within
    <2>2. Length(i) \in 1 .. Length(i)
      BY <1>1
    <2>3. QED
      BY <1>1, <1>3, <2>1, <2>2
  <1>5. i.conv \in Conversions
    BY DEF IsItem, Conversions
  <1>6. /\ pc = "width" /\ out = text /\ args = Passed(i) \o last /\ flags = Given(i)
        /\ width = FieldWidth(i)
    BY <1>3 DEF WidthRead
  <1>7. ~ Decimal(format[c])
    BY <1>4, <1>5, ConversionsRead
  <1>8. \/ PrintPercent \/ PrintChar \/ PrintString \/ Unknown \/ UItoA32 \/ ItoA32
    BY <1>6, <1>7, StepsOf DEF WidthDigit
  <1>9. PICK w \in Nat : w = i.word /\ w \in 0 .. Power(2, Width) - 1
    <2>1. PICK h \in Nat : h = Power(2, Width)
      BY HalfWord
    <2>2. i.word \in 0 .. h - 1
      BY <2>1 DEF IsItem
    <2>3. QED
      BY <2>1, <2>2
  <1>10. /\ i.conv \in {"%", "l"} => args = last
         /\ i.conv \notin {"%", "l"} => Head(args) = w /\ Tail(args) = last
    <2>1. CASE i.conv \in {"%", "l"}
      BY <1>6, <2>1, ConcatEmptySeq DEF Passed
    <2>2. CASE i.conv \notin {"%", "l"}
      BY <1>6, <1>9, <2>2, HeadOf DEF Passed
    <2>3. QED
      BY <2>1, <2>2
  <1>11. Conversion(i) \in Seq(Char)
    BY ConversionIs
  <1>12. CASE PrintPercent
    <2>1. /\ i.conv = "%" /\ pc' = "text" /\ c' = c + 1 /\ out' = Append(text, "%") /\ args' = last
      BY <1>4, <1>6, <1>10, <1>12 DEF PrintPercent, Converting, Converted
    <2>2. "%" \in Char /\ Conversion(i) = <<"%">>
      BY <2>1, Characters, ConversionParts
    <2>3. out' = text \o Conversion(i)
      BY <2>1, <2>2, AppendIsConcat
    <2>4. QED
      BY <1>3, <2>1, <2>3 DEF Printed
  <1>13. CASE PrintChar
    <2>1. /\ i.conv = "c" /\ pc' = "text" /\ c' = c + 1
          /\ out' = Append(text, IF w = 0 THEN "#" ELSE "k") /\ args' = last
      BY <1>4, <1>6, <1>10, <1>13 DEF PrintChar, Converting, Converted
    <2>2. PICK x \in Char : x = IF w = 0 THEN "#" ELSE "k"
      BY Characters
    <2>3. Conversion(i) = <<x>>
      BY <1>9, <2>1, <2>2, ConversionParts
    <2>4. out' = text \o Conversion(i)
      BY <2>1, <2>2, <2>3, AppendIsConcat
    <2>5. QED
      BY <1>3, <2>1, <2>4 DEF Printed
  <1>14. CASE PrintString
    <2>1. /\ i.conv = "s" /\ pc' = "text" /\ c' = c + 1 /\ out' = text \o Text(w) /\ args' = last
      BY <1>4, <1>6, <1>10, <1>14 DEF PrintString, Converting, Converted
    <2>2. Conversion(i) = Text(w)
      BY <1>9, <2>1, ConversionParts
    <2>3. QED
      BY <1>3, <2>1, <2>2 DEF Printed
  <1>15. CASE Unknown
    <2>1. i.conv = "l" /\ pc' = "text" /\ c' = c + 1 /\ out' = text /\ args' = last
      BY <1>4, <1>6, <1>10, <1>15 DEF Unknown, Converting, Converted
    <2>2. Conversion(i) = <<>> /\ text \o <<>> = text
      BY <2>1, ConversionParts, ConcatEmptySeq
    <2>3. QED
      BY <1>3, <2>1, <2>2 DEF Printed
  <1>16. CASE UItoA32
    <2>1. i.conv \in {"X", "x", "p", "u"}
      BY <1>4, <1>16 DEF UItoA32, Converting
    <2>2. /\ pc' = "digits" /\ c' = c /\ out' = text /\ args' = last /\ base' = BaseOf(i.conv)
          /\ flags' = Given(i) \cup (IF i.conv = "X" THEN {"upper"} ELSE {})
          /\ width' = FieldWidth(i) /\ sign' = "+"
          /\ n' = w /\ carry' = 0 /\ buf' = <<>>
      BY <1>4, <1>6, <1>10, <1>16, <2>1 DEF UItoA32
    <2>3. ValueOf(i) = w /\ Abs(w) = w /\ ~ (w < 0)
      BY <1>9, <2>1 DEF ValueOf, Abs
    <2>4. Starts(w, BaseOf(i.conv))'
      BY <2>2 DEF Starts
    <2>5. BaseOf(i.conv) \in Nat \ {0} /\ i.conv \in NumberConvs
      BY <2>1 DEF BaseOf, NumberConvs
    <2>6. Numbered(w, BaseOf(i.conv))'
      BY <1>9, <2>4, <2>5, BeginningsNext DEF Beginnings
    <2>7. QED
      BY <1>3, <2>2, <2>3, <2>5, <2>6 DEF NumberRead
  <1>17. CASE ItoA32
    <2>1. i.conv \in {"d", "i", "o"}
      BY <1>4, <1>17 DEF ItoA32, Converting
    <2>2. /\ pc' = "digits" /\ c' = c /\ out' = text /\ args' = last /\ base' = BaseOf(i.conv)
          /\ flags' = Given(i) /\ width' = FieldWidth(i)
          /\ sign' = IF Signed(w) < 0 THEN "-" ELSE "+"
          /\ n' = Magnitude(Signed(w)).n /\ carry' = Magnitude(Signed(w)).carry /\ buf' = <<>>
      BY <1>4, <1>6, <1>10, <1>17, <2>1 DEF ItoA32
    <2>3. ValueOf(i) = Signed(w) /\ Abs(Signed(w)) \in Nat /\ BaseOf(i.conv) \in {8, 10}
      BY <1>9, <2>1, SignedIs DEF ValueOf, BaseOf
    <2>4. Begins(w, BaseOf(i.conv))'
      BY <2>2 DEF Begins
    <2>5. Starts(Abs(Signed(w)), BaseOf(i.conv))'
      BY <1>9, <2>3, <2>4, BeginningsNext DEF Beginnings
    <2>6. BaseOf(i.conv) \in Nat \ {0}
      BY <2>3
    <2>7. Numbered(Abs(Signed(w)), BaseOf(i.conv))'
      BY <2>3, <2>5, <2>6, BeginningsNext DEF Beginnings
    <2>8. i.conv \in NumberConvs /\ i.conv # "X"
      BY <2>1 DEF NumberConvs
    <2>9. QED
      BY <1>3, <2>2, <2>3, <2>7, <2>8 DEF NumberRead
  <1>18. QED
    BY <1>8, <1>12, <1>13, <1>14, <1>15, <1>16, <1>17

LEMMA DigitStep ==
  ASSUME NEW i, IsItem(i), NEW o, NEW text, NEW last,
         NumberRead(i, o, text, last), pc = "digits", Step
  PROVE  NumberRead(i, o, text, last)'
  <1>1. NextDigit
    BY StepsOf
  <1>2. PICK v \in Nat, b \in {8, 10, 16} : v = Abs(ValueOf(i)) /\ b = BaseOf(i.conv)
    BY NumberIs DEF NumberRead
  <1>3. Numbered(v, b) /\ base = b
    BY <1>2 DEF NumberRead
  <1>4. Numbered(v, b)' /\ pc' \in {"digits", "field"}
    BY <1>1, <1>3, NumberedGoesOn
  <1>5. /\ args' = args /\ c' = c /\ flags' = flags /\ width' = width /\ base' = base
        /\ sign' = sign /\ out' = out
    BY <1>1 DEF NextDigit
  <1>6. Numbered(Abs(ValueOf(i)), base)'
    BY <1>2, <1>3, <1>4, <1>5
  <1>7. QED
    BY <1>4, <1>5, <1>6 DEF NumberRead

LEMMA FieldStep ==
  ASSUME NEW i, IsItem(i), NEW o, NEW text, NEW last,
         NumberRead(i, o, text, last), pc = "field", Step
  PROVE  Printed(i, o, text, last)'
  <1>1. PrintFormattedInteger
    BY StepsOf
  <1>2. /\ i.conv \in NumberConvs
        /\ flags = Given(i) \cup (IF i.conv = "X" THEN {"upper"} ELSE {})
        /\ width = FieldWidth(i) /\ base = BaseOf(i.conv)
        /\ sign = IF ValueOf(i) < 0 THEN "-" ELSE "+"
        /\ Numbered(Abs(ValueOf(i)), base)
        /\ out = text /\ args = last /\ c = o + Length(i)
    BY DEF NumberRead
  <1> DEFINE signstr == IF sign = "-" \/ "+" \in flags THEN <<sign>> ELSE <<>>
             annotatestr == IF "#" \notin flags \/ base = 10 THEN <<>>
                            ELSE IF base = 16 THEN <<"0", "x">> ELSE <<"0">>
             digits == [k \in 1 .. Len(buf) |->
                          LET d == buf[Len(buf) + 1 - k] + 1
                          IN  IF "upper" \in flags THEN Uppers[d] ELSE Digits[d]]
  <1>3. Field(signstr, annotatestr, digits) = Conversion(i)
    BY <1>2, FieldIs
  <1>4. out' = out \o Field(signstr, annotatestr, digits)
    BY <1>1 DEF PrintFormattedInteger
  <1> HIDE DEF signstr, annotatestr, digits
  <1>5. out' = text \o Conversion(i)
    BY <1>2, <1>3, <1>4
  <1>6. pc' = "text" /\ c' = c + 1 /\ args' = args
    BY <1>1 DEF PrintFormattedInteger, Converted
  <1>7. QED
    BY <1>2, <1>5, <1>6 DEF Printed

(* Every step of DoPrintf is one within the conversion, until what it
   should read has been printed. *)
LEMMA ReadsStep ==
  ASSUME NEW i, IsItem(i), NEW o \in Nat, Within(i, o), NEW text \in Seq(Char), NEW last \in Seq(Nat),
         Reads(i, o, text, last), Step
  PROVE  Reads(i, o, text, last)' \/ Printed(i, o, text, last)'
  <1>1. CASE Before(i, o, text, last)
    BY <1>1, BeforeStep DEF Reads
  <1>2. CASE FlagsRead(i, o, text, last)
    BY <1>2, FlagsStep DEF Reads
  <1>3. CASE WidthRead(i, o, text, last)
    <2>1. CASE c < o + Length(i)
      BY <1>3, <2>1, WidthDigitStep DEF Reads
    <2>2. CASE ~ (c < o + Length(i))
      BY <1>3, <2>2, ConvertingStep DEF Reads
    <2>3. QED
      BY <2>1, <2>2
  <1>4. CASE NumberRead(i, o, text, last)
    <2>1. CASE pc = "digits"
      BY <1>4, <2>1, DigitStep DEF Reads
    <2>2. CASE pc = "field"
      BY <1>4, <2>2, FieldStep DEF Reads
    <2>3. QED
      BY <1>4, <2>1, <2>2 DEF NumberRead
  <1>5. QED
    BY <1>1, <1>2, <1>3, <1>4 DEF Reads

-----------------------------------------------------------------------------
(* What DoPrintf has read of a format: of the one of a log message, which is a
   conversion, a comma and the plain conversion, and of the one of a panic *)

LogFormat(i) == Spell(i) \o <<Comma, "%", "x">>
LogMessage(i) == Conversion(i) \o <<Comma, "a">>

LogReads(i) ==
  \/ Reads(i, 0, <<>>, <<10>>) \/ Printed(i, 0, <<>>, <<10>>)
  \/ Reads(Plain, Length(i) + 1, Conversion(i) \o <<Comma>>, <<>>)
  \/ Printed(Plain, Length(i) + 1, Conversion(i) \o <<Comma>>, <<>>)

PanicReads(i) == Reads(i, 0, <<>>, <<>>) \/ Printed(i, 0, <<>>, <<>>)

Ended(text) == pc = "done" /\ out = Append(text, "NUL")

LEMMA ConvertedText ==
  ASSUME NEW i, IsItem(i)
  PROVE  /\ Conversion(i) \o <<Comma>> \in Seq(Char)
         /\ Conversion(i) \o <<Comma>> = Append(Conversion(i), Comma)
         /\ LogMessage(i) \in Seq(Char)
         /\ LogMessage(i) = (Conversion(i) \o <<Comma>>) \o <<"a">>
         /\ Len(LogMessage(i)) = Len(Conversion(i)) + 2 /\ Len(Conversion(i)) \in Nat
         /\ Len(Conversion(i) \o <<Comma>>) = Len(Conversion(i)) + 1
         /\ <<>> \o Conversion(i) = Conversion(i)
  <1>1. PICK t \in Seq(Char) : t = Conversion(i)
    BY ConversionIs
  <1>2. Comma \in Char /\ "a" \in Char
    BY Characters
  <1>3. <<Comma>> \in Seq(Char) /\ <<"a">> \in Seq(Char) /\ <<Comma, "a">> \in Seq(Char)
        /\ Len(<<Comma>>) = 1 /\ Len(<<"a">>) = 1 /\ Len(<<Comma, "a">>) = 2
    BY <1>2, Short
  <1>4. <<Comma>> \o <<"a">> = <<Comma, "a">>
    BY <1>2, Pair
  <1>5. (t \o <<Comma>>) \o <<"a">> = t \o <<Comma, "a">>
    <2>1. PICK u \in Seq(Char), w \in Seq(Char) : u = <<Comma>> /\ w = <<"a">>
      BY <1>3
    <2>2. (t \o u) \o w = t \o (u \o w)
      BY ConcatAssociative
    <2>3. QED
      BY <1>4, <2>1, <2>2
  <1>6. t \o <<Comma>> \in Seq(Char) /\ Len(t \o <<Comma>>) = Len(t) + 1
    BY <1>3, ConcatProperties
  <1>7. t \o <<Comma, "a">> \in Seq(Char) /\ Len(t \o <<Comma, "a">>) = Len(t) + 2
    BY <1>3, ConcatProperties
  <1>8. t \o <<Comma>> = Append(t, Comma)
    BY <1>2, AppendIsConcat
  <1>9. <<>> \o t = t /\ Len(t) \in Nat
    BY ConcatEmptySeq
  <1>10. QED
    BY <1>1, <1>5, <1>6, <1>7, <1>8, <1>9 DEF LogMessage

LEMMA FormatIs ==
  ASSUME NEW i, IsItem(i), format = LogFormat(i)
  PROVE  /\ Within(i, 0) /\ Within(Plain, Length(i) + 1)
         /\ format[Length(i) + 1] = Comma /\ Len(format) = Length(i) + 3 /\ Length(i) \in Nat
  <1>1. Spell(i) \in Seq(Char) /\ Len(Spell(i)) = Length(i) /\ Length(i) \in Nat
    BY Spelled
  <1>2. PICK r : r = <<Comma, "%", "x">>
    OBVIOUS
  <1>3. r \in Seq(Char) /\ Len(r) = 3 /\ r[1] = Comma /\ r[2] = "%" /\ r[3] = "x"
    BY <1>2, Characters, Short
  <1>4. Joins(format, Spell(i), r)
    BY <1>1, <1>2, <1>3, Joined DEF LogFormat
  <1>5. PICK l : l = Length(i)
    OBVIOUS
  <1>6. /\ l \in Nat /\ Len(format) = l + 3 /\ \A k \in 1 .. l : format[k] = Spell(i)[k]
        /\ \A k \in 1 .. 3 : format[l + k] = r[k]
    BY ONLY <1>1, <1>3, <1>4, <1>5 DEF Joins
  <1>7. Within(i, 0)
    <2>1. 0 + l <= Len(format)
      BY <1>6
    <2>2. \A k \in 1 .. l : format[0 + k] = Spell(i)[k]
      BY <1>6
    <2>3. QED
      BY <1>5, <2>1, <2>2 DEF Within
  <1>8. PICK p : p = Spell(Plain) /\ p[1] = "%" /\ p[2] = "x"
    BY PlainIs
  <1>9. ASSUME NEW k \in 1 .. 2 PROVE format[l + 1 + k] = p[k]
    <2>1. l + 1 + k = l + (k + 1) /\ k + 1 \in 1 .. 3
      BY <1>6
    <2>2. format[l + 1 + k] = r[k + 1]
      BY <1>6, <2>1
    <2>3. k = 1 \/ k = 2
      OBVIOUS
    <2>4. CASE k = 1
      BY <1>3, <1>8, <2>2, <2>4
    <2>5. CASE k = 2
      BY <1>3, <1>8, <2>2, <2>5
    <2>6. QED
      BY <2>3, <2>4, <2>5
  <1>10. Within(Plain, l + 1)
    <2>1. l + 1 + 2 <= Len(format)
      BY <1>6
    <2>2. Length(Plain) = 2
      BY PlainIs
    <2>3. QED
      BY <1>8, <1>9, <2>1, <2>2 DEF Within
  <1>11. format[l + 1] = Comma
    <2>1. 1 \in 1 .. 3
      OBVIOUS
    <2>2. QED
      BY <1>3, <1>6, <2>1
  <1>12. QED
    BY <1>5, <1>6, <1>7, <1>10, <1>11

LEMMA LogStep ==
  ASSUME NEW i, IsItem(i), format = LogFormat(i), LogReads(i), Step
  PROVE  LogReads(i)' \/ Ended(LogMessage(i))'
  <1>1. PICK l \in Nat : l = Length(i)
    BY FormatIs
  <1>2. PICK t \in Seq(Char) : t = Conversion(i) \o <<Comma>>
    BY ConvertedText
  <1>3. <<>> \in Seq(Char) /\ <<>> \in Seq(Nat) /\ <<10>> \in Seq(Nat) /\ 0 \in Nat /\ l + 1 \in Nat
    BY Short
  <1>4. CASE Reads(i, 0, <<>>, <<10>>)
    BY <1>3, <1>4, FormatIs, ReadsStep DEF LogReads
  <1>5. CASE Reads(Plain, l + 1, t, <<>>)
    <2>1. Within(Plain, l + 1)
      BY <1>1, FormatIs
    <2>2. Reads(Plain, l + 1, t, <<>>)' \/ Printed(Plain, l + 1, t, <<>>)'
      BY <1>3, <1>5, <2>1, PlainIs, ReadsStep
    <2>3. QED
      BY <1>1, <1>2, <2>2 DEF LogReads
  <1>6. CASE Printed(i, 0, <<>>, <<10>>)
    <2>1. pc = "text" /\ c = 0 + l + 1 /\ args = <<10>> /\ out = <<>> \o Conversion(i)
      BY <1>1, <1>6 DEF Printed
    <2>2. out = Conversion(i) /\ c = l + 1
      <3>1. c = l + 1
        BY <2>1
      <3>2. out = Conversion(i)
        BY <2>1, ConvertedText
      <3>3. QED
        BY <3>1, <3>2
    <2>3. format[l + 1] = Comma /\ Len(format) = l + 3
      BY <1>1, FormatIs
    <2>4. format[c] = Comma /\ c <= Len(format)
      <3>1. l + 1 <= l + 3
        OBVIOUS
      <3>2. QED
        BY <2>2, <2>3, <3>1
    <2>5. Literal
      <3>1. ~ At("%")
        BY <2>4, Characters DEF At
      <3>2. QED
        <4>1. ~ Percent
          BY <3>1 DEF Percent
        <4>2. ~ Terminate
          <5>1. Len(format) \in Nat /\ c \in Nat
            BY <2>2, <2>3
          <5>2. QED
            BY <2>4, <5>1 DEF Terminate
        <4>3. QED
          BY <2>1, <4>1, <4>2, StepsOf
    <2>6. pc' = "text" /\ c' = l + 1 + 1 /\ args' = <<10>> /\ out' = Append(Conversion(i), Comma)
      BY <2>1, <2>2, <2>4, <2>5 DEF Literal
    <2>7. Passed(Plain) \o <<>> = <<10>>
      BY <1>3, PlainIs, ConcatEmptySeq
    <2>8. out' = t
      BY <1>2, <2>6, ConvertedText
    <2>9. Before(Plain, l + 1, t, <<>>)'
      BY <2>6, <2>7, <2>8 DEF Before
    <2>10. QED
      BY <1>1, <1>2, <2>9 DEF LogReads, Reads
  <1>7. CASE Printed(Plain, l + 1, t, <<>>)
    <2>1. pc = "text" /\ c = l + 1 + Length(Plain) + 1 /\ out = t \o Conversion(Plain)
      BY <1>7 DEF Printed
    <2>2. c = l + 4 /\ out = t \o <<"a">>
      BY <2>1, PlainIs
    <2>3. out = LogMessage(i)
      BY <1>2, <2>2, ConvertedText
    <2>4. Len(format) = l + 3
      BY <1>1, FormatIs
    <2>5. Terminate
      <3>1. ~ (c <= Len(format))
        BY <2>2, <2>4
      <3>2. QED
        BY <2>1, <3>1, StepsOf DEF Literal, Percent, At
    <2>6. QED
      BY <2>3, <2>5 DEF Terminate, Ended
  <1>8. QED
    BY <1>1, <1>2, <1>4, <1>5, <1>6, <1>7 DEF LogReads

LEMMA PanicStep ==
  ASSUME NEW i, IsItem(i), format = Spell(i), PanicReads(i), Step
  PROVE  PanicReads(i)' \/ Ended(Conversion(i))'
  <1>1. PICK l \in Nat : l = Length(i) /\ l = Len(format)
    BY Spelled
  <1>2. Within(i, 0)
    BY <1>1 DEF Within
  <1>3. <<>> \in Seq(Char) /\ <<>> \in Seq(Nat) /\ 0 \in Nat
    BY Short
  <1>4. CASE Reads(i, 0, <<>>, <<>>)
    BY <1>2, <1>3, <1>4, ReadsStep DEF PanicReads
  <1>5. CASE Printed(i, 0, <<>>, <<>>)
    <2>0. pc = "text" /\ c = 0 + l + 1 /\ out = <<>> \o Conversion(i)
      BY <1>1, <1>5 DEF Printed
    <2>1. pc = "text" /\ c = l + 1 /\ out = Conversion(i)
      <3>1. c = l + 1
        BY <2>0
      <3>2. out = Conversion(i)
        BY <2>0, ConvertedText
      <3>3. QED
        BY <2>0, <3>1, <3>2
    <2>2. ~ (c <= Len(format))
      BY <1>1, <2>1
    <2>3. Terminate
      BY <2>1, <2>2, StepsOf DEF Literal, Percent, At
    <2>4. QED
      BY <2>1, <2>3 DEF Terminate, Ended
  <1>6. QED
    BY <1>4, <1>5 DEF PanicReads

(* what has been printed is never longer than the message *)
LEMMA ReadsOut ==
  ASSUME NEW i, NEW o, NEW text, NEW last, Reads(i, o, text, last)
  PROVE  pc \in {"text", "flags", "width", "digits", "field"} /\ out = text
  BY DEF Reads, Before, FlagsRead, WidthRead, NumberRead

LEMMA LogOut ==
  ASSUME NEW i, IsItem(i), LogReads(i)
  PROVE  /\ pc \in {"text", "flags", "width", "digits", "field"} /\ out \in Seq(Char)
         /\ Len(out) <= Len(LogMessage(i))
  <1>1. PICK t \in Seq(Char), m \in Nat : t = Conversion(i) /\ m = Len(t)
    BY ConversionIs, LenProperties
  <1>2. <<>> \in Seq(Char) /\ Len(<<>>) = 0
    BY Short
  <1>3. CASE Reads(i, 0, <<>>, <<10>>)
    <2>1. pc \in {"text", "flags", "width", "digits", "field"} /\ out = <<>>
      BY <1>3, ReadsOut
    <2>2. Len(LogMessage(i)) = m + 2
      BY <1>1, ConvertedText
    <2>3. QED
      BY <1>2, <2>1, <2>2
  <1>4. CASE Printed(i, 0, <<>>, <<10>>)
    <2>1. pc = "text" /\ out = t
      BY <1>1, <1>4, ConvertedText DEF Printed
    <2>2. Len(LogMessage(i)) = m + 2
      BY <1>1, ConvertedText
    <2>3. QED
      BY <1>1, <2>1, <2>2
  <1>5. CASE Reads(Plain, Length(i) + 1, Conversion(i) \o <<Comma>>, <<>>)
    <2>1. pc \in {"text", "flags", "width", "digits", "field"} /\ out = Conversion(i) \o <<Comma>>
      BY <1>5, ReadsOut
    <2>2. Len(LogMessage(i)) = m + 2
      BY <1>1, ConvertedText
    <2>3. Len(out) = m + 1 /\ out \in Seq(Char)
      BY <1>1, <2>1, ConvertedText
    <2>4. Len(out) <= Len(LogMessage(i))
      BY ONLY m \in Nat, <2>2, <2>3
    <2>5. QED
      BY <2>1, <2>3, <2>4
  <1>6. CASE Printed(Plain, Length(i) + 1, Conversion(i) \o <<Comma>>, <<>>)
    <2>1. pc = "text" /\ out = LogMessage(i)
      BY <1>6, PlainIs, ConvertedText DEF Printed
    <2>2. Len(LogMessage(i)) = m + 2 /\ LogMessage(i) \in Seq(Char)
      BY <1>1, ConvertedText
    <2>3. QED
      BY <2>1, <2>2
  <1>7. QED
    BY <1>3, <1>4, <1>5, <1>6 DEF LogReads

LEMMA PanicOut ==
  ASSUME NEW i, IsItem(i), PanicReads(i)
  PROVE  /\ pc \in {"text", "flags", "width", "digits", "field"} /\ out \in Seq(Char)
         /\ Len(out) <= Len(Conversion(i))
  <1>1. PICK t \in Seq(Char), m \in Nat : t = Conversion(i) /\ m = Len(t)
    BY ConversionIs, LenProperties
  <1>2. <<>> \in Seq(Char) /\ Len(<<>>) = 0
    BY Short
  <1>3. CASE Reads(i, 0, <<>>, <<>>)
    <2>1. pc \in {"text", "flags", "width", "digits", "field"} /\ out = <<>>
      BY <1>3, ReadsOut
    <2>2. QED
      BY <1>1, <1>2, <2>1
  <1>4. CASE Printed(i, 0, <<>>, <<>>)
    <2>1. pc = "text" /\ out = t
      BY <1>1, <1>4, ConvertedText DEF Printed
    <2>2. QED
      BY <1>1, <2>1
  <1>5. QED
    BY <1>3, <1>4 DEF PanicReads

-----------------------------------------------------------------------------
(* What has been sent of the messages *)

Byte == Char \cup {"NUL", "NL", "foreign"}
Texts == Seq(Seq(Char))

Upto(g, texts) ==
  g = [m \in 0 .. Len(texts) |-> IF m = 0 THEN <<>> ELSE g[m - 1] \o Line(texts[m])]
LinesOf(texts) == LET g == CHOOSE g : Upto(g, texts) IN g[Len(texts)]

LEMMA LinesAre == Lines = LinesOf(said)
  BY Zenon DEF Lines, LinesOf, Upto

Fits(t) == IF Len(t) < KLogWidth THEN Len(t) ELSE KLogWidth

LEMMA LineIs ==
  ASSUME NEW t \in Seq(Char)
  PROVE  /\ Line(t) = SubSeq(t, 1, Fits(t)) \o <<"NL">> /\ Fits(t) \in 0 .. Len(t)
         /\ Fits(t) \in 0 .. KLogWidth
         /\ SubSeq(t, 1, Fits(t)) \in Seq(Byte) /\ <<"NL">> \in Seq(Byte)
         /\ Line(t) \in Seq(Byte)
  <1>1. KLogWidth \in Nat /\ Len(t) \in Nat /\ t \in Seq(Byte)
    <2>1. Char \subseteq Byte
      BY DEF Byte
    <2>2. t \in Seq(Byte)
      BY <2>1, SeqMonotonic
    <2>3. QED
      BY <2>2, ConsoleAssumption, LenProperties
  <1>2. Line(t) = SubSeq(t, 1, Fits(t)) \o <<"NL">>
    BY DEF Line, Fits
  <1>3. Fits(t) \in 0 .. Len(t) /\ Fits(t) \in 0 .. KLogWidth
    BY <1>1 DEF Fits
  <1>4. SubSeq(t, 1, Fits(t)) \in Seq(Byte)
    <2>1. \A k \in 1 .. Fits(t) : t[k] \in Byte
      BY <1>1, <1>3, ElementOfSeq
    <2>2. QED
      BY <1>3, <2>1, SubSeqProperties
  <1>5. <<"NL">> \in Seq(Byte)
    <2>1. "NL" \in Byte
      BY DEF Byte
    <2>2. QED
      BY <2>1, Short
  <1>6. QED
    BY <1>2, <1>3, <1>4, <1>5, Joined

LEMMA UptoExists ==
  ASSUME NEW texts \in Texts
  PROVE  \E g : /\ Upto(g, texts) /\ g[Len(texts)] = LinesOf(texts)
                /\ \A m \in 0 .. Len(texts) : g[m] \in Seq(Byte)
  <1>1. PICK k \in Nat : k = Len(texts)
    BY LenProperties DEF Texts
  <1>2. \A m \in 1 .. k : Line(texts[m]) \in Seq(Byte)
    <2>1. \A m \in 1 .. k : texts[m] \in Seq(Char)
      BY <1>1, ElementOfSeq DEF Texts
    <2>2. QED
      BY <2>1, LineIs
  <1>3. PICK S : S = Seq(Byte)
    OBVIOUS
  <1>4. PICK h : h = [m \in 1 .. k |-> [v \in S |-> v \o Line(texts[m])]]
    OBVIOUS
  <1>5. ASSUME NEW m \in 1 .. k, NEW v \in S PROVE v \o Line(texts[m]) \in S
    BY <1>2, <1>3, Joined
  <1>6. h \in [1 .. k -> [S -> S]] /\ <<>> \in S
    BY <1>3, <1>4, <1>5, Short
  <1>7. Iterates(<<>>, h, k, S)
    BY <1>6, Iterated
  <1>8. PICK f : /\ f = [m \in 0 .. k |-> IF m = 0 THEN <<>> ELSE h[m][f[m - 1]]]
                 /\ \A m \in 0 .. k : f[m] \in S
    <2>1. PICK f \in [0 .. k -> S] : f = [m \in 0 .. k |-> IF m = 0 THEN <<>> ELSE h[m][f[m - 1]]]
      BY <1>7 DEF Iterates
    <2>2. \A m \in 0 .. k : f[m] \in S
      OBVIOUS
    <2>3. QED
      BY <2>1, <2>2
  <1>9. ASSUME NEW m \in 0 .. k PROVE f[m] = IF m = 0 THEN <<>> ELSE f[m - 1] \o Line(texts[m])
    <2>1. f[m] = IF m = 0 THEN <<>> ELSE h[m][f[m - 1]]
      BY <1>8
    <2>2. CASE m # 0
      <3>1. m \in 1 .. k /\ f[m - 1] \in S
        BY <1>8, <2>2
      <3>2. h[m][f[m - 1]] = f[m - 1] \o Line(texts[m])
        BY <1>4, <3>1
      <3>3. QED
        BY <2>1, <2>2, <3>2
    <2>3. QED
      BY <2>1, <2>2
  <1>10. Upto(f, texts)
    <2>1. f = [m \in 0 .. k |-> f[m]]
      BY <1>8
    <2>2. QED
      BY <1>1, <1>9, <2>1 DEF Upto
  <1>11. PICK g : g = CHOOSE a : Upto(a, texts)
    OBVIOUS
  <1>12. Upto(g, texts)
    BY <1>10, <1>11, Zenon
  <1>13. g[Len(texts)] = LinesOf(texts)
    BY <1>11, Zenon DEF LinesOf
  <1>14. \A m \in 0 .. k : g[m] = IF m = 0 THEN <<>> ELSE g[m - 1] \o Line(texts[m])
    BY <1>1, <1>12 DEF Upto
  <1>15. Same(g, f, k)
    <2>1. g[0] = f[0]
      BY <1>9, <1>14
    <2>2. \A m \in 1 .. k : g[m - 1] = f[m - 1] => g[m] = f[m]
      <3>1. \A m \in 1 .. k : m \in 0 .. k /\ m # 0
        OBVIOUS
      <3>2. QED
        BY <1>9, <1>14, <3>1
    <2>3. QED
      BY <2>1, <2>2, Agree
  <1>16. \A m \in 0 .. k : g[m] \in Seq(Byte)
    BY <1>3, <1>8, <1>15 DEF Same
  <1>17. QED
    BY <1>1, <1>12, <1>13, <1>16

LEMMA LinesOfIs ==
  /\ LinesOf(<<>>) = <<>>
  /\ \A texts \in Texts : LinesOf(texts) \in Seq(Byte)
  /\ \A texts \in Texts, t \in Seq(Char) : LinesOf(Append(texts, t)) = LinesOf(texts) \o Line(t)
  <1>1. LinesOf(<<>>) = <<>>
    <2>1. <<>> \in Texts /\ Len(<<>>) = 0
      BY Short DEF Texts
    <2>2. PICK g : Upto(g, <<>>) /\ g[0] = LinesOf(<<>>)
      BY <2>1, UptoExists
    <2>3. g[0] = <<>>
      BY <2>1, <2>2 DEF Upto
    <2>4. QED
      BY <2>2, <2>3
  <1>2. ASSUME NEW texts \in Texts PROVE LinesOf(texts) \in Seq(Byte)
    <2>1. Len(texts) \in 0 .. Len(texts)
      BY LenProperties DEF Texts
    <2>2. QED
      BY <2>1, UptoExists
  <1>3. ASSUME NEW texts \in Texts, NEW t \in Seq(Char)
        PROVE  LinesOf(Append(texts, t)) = LinesOf(texts) \o Line(t)
    <2>1. PICK k \in Nat : k = Len(texts)
      BY LenProperties DEF Texts
    <2>2. PICK more : more = Append(texts, t)
      OBVIOUS
    <2>3. /\ more \in Texts /\ Len(more) = k + 1 /\ more[k + 1] = t
          /\ \A m \in 1 .. k : more[m] = texts[m]
      BY <2>1, <2>2, AppendProperties DEF Texts
    <2>4. PICK f : Upto(f, texts) /\ f[k] = LinesOf(texts)
      BY <2>1, UptoExists
    <2>5. PICK g : Upto(g, more) /\ g[k + 1] = LinesOf(more)
      BY <2>3, UptoExists
    <2>6. \A m \in 0 .. k : f[m] = IF m = 0 THEN <<>> ELSE f[m - 1] \o Line(texts[m])
      BY <2>1, <2>4 DEF Upto
    <2>7. \A m \in 0 .. k + 1 : g[m] = IF m = 0 THEN <<>> ELSE g[m - 1] \o Line(more[m])
      BY <2>3, <2>5 DEF Upto
    <2>8. Same(f, g, k)
      <3>1. f[0] = g[0]
        BY <2>6, <2>7
      <3>2. \A m \in 1 .. k : f[m - 1] = g[m - 1] => f[m] = g[m]
        <4>1. \A m \in 1 .. k : m \in 0 .. k /\ m \in 0 .. k + 1 /\ m # 0
          OBVIOUS
        <4>2. QED
          BY <2>3, <2>6, <2>7, <4>1
      <3>3. QED
        BY <3>1, <3>2, Agree
    <2>9. f[k] = g[k]
      BY <2>8, k \in 0 .. k DEF Same
    <2>10. g[k + 1] = g[k] \o Line(t)
      <3>1. k + 1 \in 0 .. k + 1 /\ k + 1 # 0 /\ (k + 1) - 1 = k
        OBVIOUS
      <3>2. QED
        BY <2>3, <2>7, <3>1
    <2>11. QED
      BY <2>2, <2>4, <2>5, <2>9, <2>10
  <1>4. QED
    BY <1>1, <1>2, <1>3

-----------------------------------------------------------------------------
(* The invariant of the console.  While something is said, klog_entry holds the
   characters that DoPrintf has printed, as many as fit, and they begin the
   message; nothing of it is sent before it is complete.  Between messages all
   the lines are sent or in the transmitter. *)

ConsoleTypes ==
  /\ said \in Texts /\ wire \in Seq(Byte) /\ fifo \in Seq(Byte)
  /\ klog \in [0 .. KLogWidth -> Byte] /\ ch \in Nat
  /\ mode \in {"idle", "log", "panic", "halted"}

Kept == \A k \in 0 .. KLogWidth :
  k < Len(out) => klog[k] = IF k < KLogWidth THEN out[k + 1] ELSE "NUL"

Formatting(t) == \E i \in Items :
  /\ item = i /\ ch = 0
  /\ \/ mode = "log" /\ format = LogFormat(i) /\ t = LogMessage(i) /\ LogReads(i)
     \/ mode = "panic" /\ format = Spell(i) /\ t = Conversion(i) /\ PanicReads(i)

Writing(t) == Ended(t) /\ ch \in 0 .. Fits(t)

Saying(e, t) ==
  /\ said = Append(e, t) /\ wire \o fifo = LinesOf(e) \o SubSeq(t, 1, ch)
  /\ Kept /\ (Formatting(t) \/ Writing(t))

ConsoleInv ==
  /\ ConsoleTypes /\ OneByteBehind
  /\ mode \in {"idle", "halted"} => pc = "done" /\ wire \o fifo = LinesOf(said)
  /\ mode \in {"log", "panic"} => \E e \in Texts, t \in Seq(Char) : Saying(e, t)

LEMMA Bytes ==
  Char \subseteq Byte /\ {"NUL", "NL", "foreign"} \subseteq Byte /\ Seq(Char) \subseteq Seq(Byte)
  <1>1. Char \subseteq Byte /\ {"NUL", "NL", "foreign"} \subseteq Byte
    BY DEF Byte
  <1>2. QED
    BY <1>1, SeqMonotonic

LEMMA AllItems ==
  ASSUME NEW i \in Items
  PROVE  IsItem(i)
  BY ItemsAssumption DEF IsItem

Regroups(s, t, u) == (s \o t) \o u = s \o (t \o u)

LEMMA Regrouped ==
  ASSUME NEW s \in Seq(Byte), NEW t \in Seq(Byte), NEW u \in Seq(Byte)
  PROVE  Regroups(s, t, u)
  <1>1. PICK S : S = Byte
    OBVIOUS
  <1>2. s \in Seq(S) /\ t \in Seq(S) /\ u \in Seq(S)
    BY <1>1
  <1>3. QED
    BY ONLY <1>2, ConcatAssociative DEF Regroups

Splits(f, S) == \E b \in S, u \in Seq(S), r \in Seq(S) :
  b = Head(f) /\ r = Tail(f) /\ u = <<b>> /\ f = u \o r

LEMMA HeadAndTail ==
  ASSUME NEW S, NEW f \in Seq(S), f # <<>>
  PROVE  Splits(f, S)
  <1>0. /\ Head(f) \in S /\ Tail(f) \in Seq(S) /\ Len(Tail(f)) = Len(f) - 1
        /\ \A k \in 1 .. Len(Tail(f)) : Tail(f)[k] = f[k + 1]
    BY HeadTailProperties
  <1>1. PICK b \in S, r \in Seq(S) :
          /\ b = Head(f) /\ r = Tail(f) /\ Len(r) = Len(f) - 1
          /\ \A k \in 1 .. Len(r) : r[k] = f[k + 1]
    BY <1>0
  <1>2. PICK l \in Nat : l = Len(f) /\ l >= 1 /\ f[1] = b
    <2>1. Len(f) \in Nat /\ Len(f) # 0 /\ f[1] = Head(f)
      OBVIOUS
    <2>2. Len(f) >= 1
      BY <2>1
    <2>3. QED
      BY <1>1, <2>1, <2>2, Zenon
  <1>3. PICK u \in Seq(S) : u = <<b>> /\ Len(u) = 1 /\ u[1] = b
    <2>1. <<b>> \in Seq(S) /\ Len(<<b>>) = 1 /\ <<b>>[1] = b
      OBVIOUS
    <2>2. QED
      BY <2>1, Zenon
  <1>4. PICK g \in Seq(S) : g = u \o r /\ Joins(g, u, r)
    BY Joined
  <1>5. Len(g) = l /\ g[1] = b /\ \A k \in 1 .. l - 1 : g[1 + k] = f[k + 1]
    <2>1. Len(r) = l - 1
      BY <1>1, <1>2
    <2>2. QED
      BY <1>1, <1>2, <1>3, <1>4, <2>1 DEF Joins
  <1>6. ASSUME NEW k \in 1 .. l PROVE g[k] = f[k]
    <2>1. k = 1 \/ (k - 1 \in 1 .. l - 1 /\ 1 + (k - 1) = k /\ (k - 1) + 1 = k)
      OBVIOUS
    <2>2. QED
      BY <1>2, <1>5, <2>1
  <1>7. g = f
    BY <1>2, <1>5, <1>6, SeqEqual
  <1>8. QED
    BY <1>1, <1>3, <1>4, <1>7 DEF Splits

(* one byte more in the transmitter, or one less *)
LEMMA Written ==
  ASSUME NEW b \in Byte, wire \in Seq(Byte), fifo \in Seq(Byte), AuxUartWriteByte(b), wire' = wire
  PROVE  fifo' \in Seq(Byte) /\ wire' \o fifo' = (wire \o fifo) \o <<b>>
  <1>1. fifo' = Append(fifo, b)
    BY DEF AuxUartWriteByte
  <1>2. PICK w \in Seq(Byte), f \in Seq(Byte), u \in Seq(Byte) : w = wire /\ f = fifo /\ u = <<b>>
    BY Short
  <1>3. fifo' = f \o u /\ f \o u \in Seq(Byte)
    BY <1>1, <1>2, AppendIsConcat, AppendProperties
  <1>4. Regroups(w, f, u)
    BY Regrouped
  <1>5. (w \o f) \o u = w \o (f \o u)
    BY <1>4 DEF Regroups
  <1>6. QED
    BY <1>2, <1>3, <1>5

LEMMA Transmitted ==
  ASSUME wire \in Seq(Byte), fifo \in Seq(Byte), Transmit
  PROVE  wire' \in Seq(Byte) /\ fifo' \in Seq(Byte) /\ wire' \o fifo' = wire \o fifo
  <1>1. PICK w \in Seq(Byte), f \in Seq(Byte) : w = wire /\ f = fifo /\ f # <<>>
    BY DEF Transmit
  <1>2. PICK b \in Byte, u \in Seq(Byte), r \in Seq(Byte) :
          b = Head(f) /\ r = Tail(f) /\ u = <<b>> /\ f = u \o r
    <2>1. Splits(f, Byte)
      BY <1>1, HeadAndTail
    <2>2. QED
      BY <2>1 DEF Splits
  <1>3. wire' = w \o u /\ fifo' = r
    BY <1>1, <1>2, AppendIsConcat DEF Transmit
  <1>4. (w \o u) \o r = w \o (u \o r)
    <2>1. Regroups(w, u, r)
      BY Regrouped
    <2>2. QED
      BY <2>1 DEF Regroups
  <1>5. w \o u \in Seq(Byte)
    BY Joined
  <1>6. QED
    BY <1>1, <1>2, <1>3, <1>4, <1>5

LEMMA Begun ==
  ASSUME NEW t \in Seq(Char)
  PROVE  /\ SubSeq(t, 1, 0) = <<>>
         /\ \A k \in 0 .. Len(t) - 1 : SubSeq(t, 1, k + 1) = SubSeq(t, 1, k) \o <<t[k + 1]>>
  <1>1. SubSeq(t, 1, 0) = <<>>
    BY SubSeqEmpty
  <1>2. ASSUME NEW k \in 0 .. Len(t) - 1
        PROVE  SubSeq(t, 1, k + 1) = SubSeq(t, 1, k) \o <<t[k + 1]>>
    <2>1. PICK l \in Nat : l = Len(t)
      BY LenProperties
    <2>2. k \in Nat /\ k + 1 \in 1 .. l /\ (k + 1) - 1 = k
      BY <2>1
    <2>3. t[k + 1] \in Char /\ \A j \in 1 .. k : t[j] \in Char
      <3>1. \A j \in 1 .. k : j \in 1 .. l
        BY <2>1, <2>2
      <3>2. QED
        BY <2>1, <2>2, <3>1, ElementOfSeq
    <2>4. SubSeq(t, 1, k) \in Seq(Char)
      BY <2>2, <2>3, SubSeqProperties
    <2>5. SubSeq(t, 1, k + 1) = Append(SubSeq(t, 1, k), t[k + 1])
      BY <2>1, <2>2, <2>3, SubSeqRecursiveSecond
    <2>6. QED
      BY <2>3, <2>4, <2>5, AppendIsConcat
  <1>3. QED
    BY <1>1, <1>2

(* what is said more leaves the byte behind the buffer explained *)
LEMMA StillBehind ==
  ASSUME OneByteBehind, said \in Texts, NEW t \in Seq(Char), said' = Append(said, t), klog' = klog
  PROVE  OneByteBehind'
  <1>1. ASSUME NEW m \in DOMAIN said
        PROVE  m \in DOMAIN said' /\ said'[m] = said[m]
    <2>1. PICK l \in Nat : l = Len(said) /\ DOMAIN said = 1 .. l
      BY LenProperties DEF Texts
    <2>2. Append(said, t) \in Texts /\ Len(Append(said, t)) = l + 1 /\ Append(said, t)[m] = said[m]
      BY <2>1, AppendProperties DEF Texts
    <2>3. DOMAIN Append(said, t) = 1 .. l + 1
      BY <2>2, LenProperties DEF Texts
    <2>4. m \in 1 .. l + 1
      BY <2>1
    <2>5. QED
      BY <2>2, <2>3, <2>4
  <1>2. QED
    BY <1>1 DEF OneByteBehind

LEMMA InitConsole ==
  ASSUME Init
  PROVE  ConsoleInv
  <1>1. /\ pc = "done" /\ said = <<>> /\ ch = 0 /\ fifo = <<>> /\ wire = <<>> /\ mode = "idle"
        /\ klog = [i \in 0 .. KLogWidth |-> IF i < KLogWidth THEN "NUL" ELSE "foreign"]
    BY DEF Init, NotCalled
  <1>2. <<>> \in Texts /\ <<>> \in Seq(Byte)
    BY Short DEF Texts
  <1>3. KLogWidth \in Nat
    BY ConsoleAssumption
  <1>4. klog \in [0 .. KLogWidth -> Byte]
    BY <1>1, Bytes
  <1>5. ConsoleTypes
    BY <1>1, <1>2, <1>4 DEF ConsoleTypes
  <1>6. OneByteBehind
    BY <1>1, <1>3 DEF OneByteBehind
  <1>7. wire \o fifo = LinesOf(said)
    BY <1>1, <1>2, LinesOfIs, ConcatEmptySeq
  <1>8. QED
    BY <1>1, <1>5, <1>6, <1>7 DEF ConsoleInv

(* A message begins when all of the one before it has been sent. *)
Starting(i, t, last, how) ==
  /\ mode = "idle" /\ pc = "done" /\ item' = i /\ said' = Append(said, t)
  /\ Before(i, 0, <<>>, last)' /\ ch' = 0 /\ mode' = how
  /\ klog' = klog /\ fifo' = fifo /\ wire' = wire

LEMMA SayStarts ==
  ASSUME NEW i, NEW rest, NEW last, NEW t, NEW how, Say(i, rest, last, t, how)
  PROVE  Starting(i, t, last, how) /\ format' = Spell(i) \o rest
  <1>1. /\ mode = "idle" /\ said' = Append(said, t) /\ ch' = 0 /\ mode' = how
        /\ klog' = klog /\ fifo' = fifo /\ wire' = wire /\ Call(i, rest, last)
    BY DEF Say
  <1>2. /\ pc = "done" /\ item' = i /\ format' = Spell(i) \o rest /\ c' = 1 /\ out' = <<>>
        /\ pc' = "text"
        /\ args' = (IF i.conv \in {"%", "l"} THEN <<>> ELSE <<i.word>>) \o last
    BY <1>1 DEF Call
  <1>3. Before(i, 0, <<>>, last)'
    BY <1>2, 1 = 0 + 1 DEF Before, Passed
  <1>4. QED
    BY <1>1, <1>2, <1>3 DEF Starting

LEMMA LogStarts ==
  ASSUME Log
  PROVE  \E i \in Items : /\ Starting(i, LogMessage(i), <<10>>, "log")
                          /\ format' = LogFormat(i)
  <1>1. PICK i \in Items : Say(i, <<Comma, "%", "x">>, <<10>>, LogMessage(i), "log")
    BY ConsoleAssumption, Zenon DEF Log, Comma, LogMessage
  <1>2. /\ Starting(i, LogMessage(i), <<10>>, "log")
        /\ format' = Spell(i) \o <<Comma, "%", "x">>
    BY <1>1, SayStarts
  <1>3. QED
    BY <1>2, Zenon DEF LogFormat

LEMMA PanicStarts ==
  ASSUME BootPanic
  PROVE  \E i \in Items : /\ Starting(i, Conversion(i), <<>>, "panic")
                          /\ format' = Spell(i)
  <1>1. PICK i \in Items : Say(i, <<>>, <<>>, Conversion(i), "panic")
    BY ConsoleAssumption, Zenon DEF BootPanic
  <1>2. Starting(i, Conversion(i), <<>>, "panic") /\ format' = Spell(i) \o <<>>
    BY <1>1, SayStarts
  <1>3. Spell(i) \in Seq(Char)
    BY AllItems, Spelled
  <1>4. Spell(i) \o <<>> = Spell(i)
    BY <1>3, ConcatEmptySeq
  <1>5. QED
    BY <1>2, <1>4

LEMMA StartKeeps ==
  ASSUME ConsoleInv, NEW i \in Items, NEW t \in Seq(Char), NEW last, NEW how \in {"log", "panic"},
         Starting(i, t, last, how), Formatting(t)'
  PROVE  ConsoleInv'
  <1>1. /\ mode = "idle" /\ said' = Append(said, t) /\ ch' = 0 /\ mode' = how
        /\ klog' = klog /\ fifo' = fifo /\ wire' = wire /\ out' = <<>>
    BY DEF Starting, Before
  <1>2. ConsoleTypes /\ OneByteBehind /\ wire \o fifo = LinesOf(said)
    BY <1>1 DEF ConsoleInv
  <1>3. said \in Texts
    BY <1>2 DEF ConsoleTypes
  <1>4. said' \in Texts
    BY <1>1, <1>3, AppendProperties DEF Texts
  <1>5. ConsoleTypes'
    BY <1>1, <1>2, <1>4 DEF ConsoleTypes
  <1>6. OneByteBehind'
    BY <1>1, <1>2, <1>3, StillBehind
  <1>7. Kept'
    <2>1. Len(out') = 0
      BY <1>1, Short
    <2>2. QED
      BY <2>1 DEF Kept
  <1>8. wire' \o fifo' = LinesOf(said) \o SubSeq(t, 1, 0)
    <2>1. LinesOf(said) \in Seq(Byte) /\ SubSeq(t, 1, 0) = <<>>
      BY <1>3, LinesOfIs, Begun
    <2>2. LinesOf(said) \o <<>> = LinesOf(said)
      BY <2>1, ConcatEmptySeq
    <2>3. QED
      BY <1>1, <1>2, <2>1, <2>2
  <1>9. PICK e \in Texts : e = said
    BY <1>3
  <1>10. Saying(e, t)'
    BY <1>1, <1>7, <1>8, <1>9 DEF Saying
  <1>11. QED
    BY <1>1, <1>5, <1>6, <1>10 DEF ConsoleInv

LEMMA LogKeeps ==
  ASSUME ConsoleInv, Log
  PROVE  ConsoleInv'
  <1>1. PICK i \in Items : Starting(i, LogMessage(i), <<10>>, "log") /\ format' = LogFormat(i)
    BY LogStarts
  <1>2. /\ item' = i /\ ch' = 0 /\ mode' = "log" /\ Before(i, 0, <<>>, <<10>>)'
    BY <1>1 DEF Starting
  <1>3. LogReads(i)'
    BY <1>2 DEF LogReads, Reads
  <1>4. PICK t \in Seq(Char) : t = LogMessage(i)
    BY AllItems, ConvertedText
  <1>5. Formatting(t)'
    BY <1>1, <1>2, <1>3, <1>4 DEF Formatting
  <1>6. QED
    BY <1>1, <1>4, <1>5, StartKeeps

LEMMA PanicKeeps ==
  ASSUME ConsoleInv, BootPanic
  PROVE  ConsoleInv'
  <1>1. PICK i \in Items : Starting(i, Conversion(i), <<>>, "panic") /\ format' = Spell(i)
    BY PanicStarts
  <1>2. /\ item' = i /\ ch' = 0 /\ mode' = "panic" /\ Before(i, 0, <<>>, <<>>)'
    BY <1>1 DEF Starting
  <1>3. PanicReads(i)'
    BY <1>2 DEF PanicReads, Reads
  <1>4. PICK t \in Seq(Char) : t = Conversion(i)
    BY AllItems, ConversionIs
  <1>5. Formatting(t)'
    BY <1>1, <1>2, <1>3, <1>4 DEF Formatting
  <1>6. QED
    BY <1>1, <1>4, <1>5, StartKeeps

(* what a step has printed, in the next state *)
Prints(i) ==
  /\ LogReads(i) => /\ pc \in {"text", "flags", "width", "digits", "field"} /\ out \in Seq(Char)
                    /\ Len(out) <= Len(LogMessage(i))
  /\ PanicReads(i) => /\ pc \in {"text", "flags", "width", "digits", "field"} /\ out \in Seq(Char)
                      /\ Len(out) <= Len(Conversion(i))

LEMMA PrintsNow == \A i : IsItem(i) => Prints(i)
  BY LogOut, PanicOut DEF Prints

LEMMA PrintsNext == \A i : IsItem(i) => Prints(i)'
  <1>1. (\A i : IsItem(i) => Prints(i))'
    BY PrintsNow, PTL
  <1>2. QED
    BY <1>1

(* a step of DoPrintf within message t, or its last *)
LEMMA FormattingGoesOn ==
  ASSUME NEW t \in Seq(Char), Formatting(t), Step, ch' = ch, mode' = mode
  PROVE  /\ Formatting(t)' \/ Ended(t)'
         /\ out' \in Seq(Char \cup {"NUL"}) /\ Len(out') <= Len(t) + 1
  <1>1. PICK i \in Items :
          /\ item = i /\ ch = 0
          /\ \/ mode = "log" /\ format = LogFormat(i) /\ t = LogMessage(i) /\ LogReads(i)
             \/ mode = "panic" /\ format = Spell(i) /\ t = Conversion(i) /\ PanicReads(i)
    BY DEF Formatting
  <1>2. IsItem(i) /\ item' = i /\ format' = format
    BY <1>1, AllItems, StepKeeps
  <1>3. Formatting(t)' \/ Ended(t)'
    <2>1. CASE mode = "log" /\ format = LogFormat(i) /\ t = LogMessage(i) /\ LogReads(i)
      <3>1. LogReads(i)' \/ Ended(t)'
        BY <1>2, <2>1, LogStep
      <3>2. QED
        BY <1>1, <1>2, <2>1, <3>1 DEF Formatting
    <2>2. CASE mode = "panic" /\ format = Spell(i) /\ t = Conversion(i) /\ PanicReads(i)
      <3>1. PanicReads(i)' \/ Ended(t)'
        BY <1>2, <2>2, PanicStep
      <3>2. QED
        BY <1>1, <1>2, <2>2, <3>1 DEF Formatting
    <2>3. QED
      BY <1>1, <2>1, <2>2
  <1>4. PICK l \in Nat : l = Len(t)
    BY LenProperties
  <1>5. Char \subseteq Char \cup {"NUL"} /\ "NUL" \in Char \cup {"NUL"}
    OBVIOUS
  <1>6. CASE Ended(t)'
    <2>1. out' = Append(t, "NUL")
      BY <1>6 DEF Ended
    <2>2. t \in Seq(Char \cup {"NUL"})
      BY <1>5, SeqMonotonic
    <2>3. Append(t, "NUL") \in Seq(Char \cup {"NUL"}) /\ Len(Append(t, "NUL")) = l + 1
      BY <1>4, <1>5, <2>2, AppendProperties
    <2>4. QED
      BY <1>3, <1>4, <2>1, <2>3
  <1>7. CASE Formatting(t)'
    <2>1. PICK j \in Items :
            \/ t = LogMessage(j) /\ LogReads(j)'
            \/ t = Conversion(j) /\ PanicReads(j)'
      BY <1>7 DEF Formatting
    <2>2. out' \in Seq(Char) /\ Len(out') <= l
      <3>1. Prints(j)'
        BY AllItems, PrintsNext
      <3>2. QED
        BY <1>4, <2>1, <3>1 DEF Prints
    <2>3. Seq(Char) \subseteq Seq(Char \cup {"NUL"})
      BY <1>5, SeqMonotonic
    <2>4. Len(out') <= l + 1
      <3>1. Len(out') \in Nat
        BY <2>2, LenProperties
      <3>2. QED
        BY <2>2, <3>1
    <2>5. QED
      BY <1>3, <1>4, <2>2, <2>3, <2>4
  <1>8. QED
    BY <1>3, <1>6, <1>7

LEMMA VsnprintfKeeps ==
  ASSUME ConsoleInv, Vsnprintf
  PROVE  ConsoleInv'
  <1>1. /\ mode \in {"log", "panic"} /\ pc # "done" /\ Step
        /\ klog' = [k \in 0 .. KLogWidth |-> IF k >= Len(out') THEN klog[k]
                                             ELSE IF k < KLogWidth THEN out'[k + 1] ELSE "NUL"]
        /\ said' = said /\ ch' = ch /\ fifo' = fifo /\ wire' = wire /\ mode' = mode
    BY DEF Vsnprintf, SnprintfPrintChars
  <1>2. ConsoleTypes /\ OneByteBehind
    BY DEF ConsoleInv
  <1>3. PICK e \in Texts, t \in Seq(Char) : Saying(e, t)
    BY <1>1 DEF ConsoleInv
  <1>4. Formatting(t)
    BY <1>1, <1>3 DEF Saying, Writing, Ended
  <1>5. /\ Formatting(t)' \/ Ended(t)'
        /\ out' \in Seq(Char \cup {"NUL"}) /\ Len(out') <= Len(t) + 1
    BY <1>1, <1>4, FormattingGoesOn
  <1>6. PICK w \in Nat, l \in Nat, m \in Nat : w = KLogWidth /\ l = Len(out') /\ m = Len(t) /\ l <= m + 1
    BY <1>5, LenProperties, ConsoleAssumption
  <1>7. \A k \in 0 .. w : klog'[k] = IF k >= l THEN klog[k] ELSE IF k < w THEN out'[k + 1] ELSE "NUL"
    BY <1>1, <1>6
  <1>8. Kept'
    <2>1. \A k \in 0 .. w : k < l => klog'[k] = IF k < w THEN out'[k + 1] ELSE "NUL"
      <3>1. \A k \in 0 .. w : k < l => ~ (k >= l)
        OBVIOUS
      <3>2. QED
        BY <1>7, <3>1
    <2>2. QED
      BY <1>6, <2>1 DEF Kept
  <1>9. ASSUME NEW k \in 0 .. w PROVE klog'[k] \in Byte
    <2>1. CASE k >= l
      BY <1>2, <1>6, <1>7, <2>1 DEF ConsoleTypes
    <2>2. CASE ~ (k >= l) /\ k < w
      <3>1. k + 1 \in 1 .. l
        BY <2>2
      <3>2. out'[k + 1] \in Char \cup {"NUL"}
        BY <1>5, <1>6, <3>1, ElementOfSeq
      <3>3. QED
        BY <1>7, <2>2, <3>2, Bytes
    <2>3. CASE ~ (k >= l) /\ ~ (k < w)
      BY <1>7, <2>3, Bytes
    <2>4. QED
      BY <2>1, <2>2, <2>3
  <1>10. klog' \in [0 .. KLogWidth -> Byte]
    BY <1>1, <1>6, <1>9
  <1>11. ConsoleTypes'
    BY <1>1, <1>2, <1>10 DEF ConsoleTypes
  <1>12. OneByteBehind'
    <2>1. CASE w >= l
      <3>1. klog'[w] = klog[w]
        BY <1>7, <2>1, w \in 0 .. w
      <3>2. QED
        BY <1>1, <1>2, <1>6, <3>1 DEF OneByteBehind
    <2>2. CASE ~ (w >= l)
      <3>1. klog'[w] = "NUL"
        BY <1>7, <2>2, w \in 0 .. w
      <3>2. m >= w
        BY <1>6, <2>2
      <3>3. PICK a \in Nat : a = Len(e)
        BY LenProperties DEF Texts
      <3>4. said = Append(e, t)
        BY <1>3 DEF Saying
      <3>5. said \in Texts /\ Len(said) = a + 1 /\ said[a + 1] = t
        BY <3>3, <3>4, AppendProperties DEF Texts
      <3>6. a + 1 \in DOMAIN said
        BY <3>5, LenProperties DEF Texts
      <3>7. \E k \in DOMAIN said' : Len(said'[k]) >= KLogWidth
        BY <1>1, <1>6, <3>2, <3>5, <3>6
      <3>8. QED
        BY <1>6, <3>1, <3>7 DEF OneByteBehind
    <2>3. QED
      BY <2>1, <2>2
  <1>13. Saying(e, t)'
    <2>1. said' = Append(e, t) /\ wire' \o fifo' = LinesOf(e) \o SubSeq(t, 1, ch')
      BY <1>1, <1>3 DEF Saying
    <2>2. CASE Formatting(t)'
      BY <1>8, <2>1, <2>2 DEF Saying
    <2>3. CASE Ended(t)'
      <3>1. ch' = 0
        BY <1>1, <1>4 DEF Formatting
      <3>2. 0 \in 0 .. Fits(t)
        <4>1. Fits(t) \in 0 .. m
          BY <1>6, LineIs
        <4>2. QED
          BY <4>1
      <3>3. Writing(t)'
        BY <2>3, <3>1, <3>2 DEF Writing
      <3>4. QED
        BY <1>8, <2>1, <3>3 DEF Saying
    <2>4. QED
      BY <1>5, <2>2, <2>3
  <1>14. QED
    BY <1>1, <1>11, <1>12, <1>13 DEF ConsoleInv

(* boot_debug_write_string writes the characters that fit and stops at the zero
   behind them, not before and not later *)
LEMMA Writes ==
  ASSUME ConsoleInv, WritingString, NEW e \in Texts, NEW t \in Seq(Char), Saying(e, t)
  PROVE  /\ Ended(t) /\ ch \in 0 .. Fits(t)
         /\ ch < Fits(t) => klog[ch] = t[ch + 1] /\ t[ch + 1] \in Char
         /\ ch = Fits(t) => klog[ch] = "NUL"
  <1>1. pc = "done" /\ mode \in {"log", "panic"}
    BY DEF WritingString
  <1>2. ~ Formatting(t)
    <2>1. SUFFICES ASSUME Formatting(t) PROVE FALSE
      OBVIOUS
    <2>2. PICK i \in Items : LogReads(i) \/ PanicReads(i)
      BY <2>1 DEF Formatting
    <2>3. Prints(i)
      BY AllItems, PrintsNow
    <2>4. QED
      BY <1>1, <2>2, <2>3 DEF Prints
  <1>3. Ended(t) /\ ch \in 0 .. Fits(t) /\ Kept
    BY <1>2 DEF Saying, Writing
  <1>4. PICK w \in Nat, m \in Nat, f \in Nat :
          /\ w = KLogWidth /\ m = Len(t) /\ f = Fits(t)
          /\ f = IF m < w THEN m ELSE w
    BY LenProperties, ConsoleAssumption DEF Fits
  <1>5. PICK u : u = Append(t, "NUL") /\ out = u
    BY <1>3 DEF Ended
  <1>6. /\ Len(u) = m + 1 /\ \A k \in 1 .. m : u[k] = t[k]
        /\ u[m + 1] = "NUL"
    <2>1. Char \subseteq Char \cup {"NUL"} /\ "NUL" \in Char \cup {"NUL"}
      OBVIOUS
    <2>2. t \in Seq(Char \cup {"NUL"})
      BY <2>1, SeqMonotonic
    <2>3. QED
      BY <1>4, <1>5, <2>1, <2>2, AppendProperties
  <1>7. \A k \in 0 .. w : k < m + 1 => klog[k] = IF k < w THEN u[k + 1] ELSE "NUL"
    BY <1>3, <1>4, <1>5, <1>6 DEF Kept
  <1>8. PICK k \in 0 .. f : k = ch
    BY <1>3, <1>4
  <1>9. CASE k < f
    <2>1. k \in 0 .. w /\ k < m + 1 /\ k < w /\ k + 1 \in 1 .. m
      BY <1>4, <1>9
    <2>2. klog[k] = t[k + 1]
      BY <1>6, <1>7, <2>1
    <2>3. t[k + 1] \in Char
      BY <1>4, <2>1, ElementOfSeq
    <2>4. QED
      BY <1>3, <1>4, <1>8, <1>9, <2>2, <2>3
  <1>10. CASE k = f
    <2>1. k \in 0 .. w /\ k < m + 1 /\ (k < w => k = m)
      BY <1>4, <1>10
    <2>2. klog[k] = "NUL"
      BY <1>6, <1>7, <2>1
    <2>3. QED
      BY <1>3, <1>4, <1>8, <1>10, <2>2
  <1>11. QED
    BY <1>8, <1>9, <1>10

LEMMA WriteCharKeeps ==
  ASSUME ConsoleInv, WriteChar
  PROVE  ConsoleInv'
  <1>1. /\ WritingString /\ klog[ch] # "NUL" /\ AuxUartWriteByte(klog[ch]) /\ ch' = ch + 1
        /\ formatting' = formatting /\ said' = said /\ klog' = klog /\ wire' = wire /\ mode' = mode
    BY DEF WriteChar
  <1>2. mode \in {"log", "panic"} /\ pc' = pc /\ out' = out
    BY <1>1 DEF WritingString, formatting
  <1>3. ConsoleTypes /\ OneByteBehind
    BY DEF ConsoleInv
  <1>4. PICK e \in Texts, t \in Seq(Char) : Saying(e, t)
    BY <1>2 DEF ConsoleInv
  <1>5. /\ Ended(t) /\ ch \in 0 .. Fits(t)
        /\ ch < Fits(t) => klog[ch] = t[ch + 1] /\ t[ch + 1] \in Char
        /\ ch = Fits(t) => klog[ch] = "NUL"
    BY <1>1, <1>4, Writes
  <1>6. PICK f \in Nat, m \in Nat : f = Fits(t) /\ m = Len(t) /\ f <= m
    BY LineIs, LenProperties
  <1>7. PICK k \in 0 .. m - 1 : k = ch /\ k < f
    <2>1. ch \in 0 .. f /\ ch # f
      BY <1>1, <1>5, <1>6
    <2>2. QED
      BY <1>6, <2>1
  <1>8. PICK b \in Byte : b = klog[ch] /\ b = t[k + 1]
    BY <1>5, <1>6, <1>7, Bytes
  <1>9. fifo' \in Seq(Byte) /\ wire' \o fifo' = (wire \o fifo) \o <<b>>
    BY <1>1, <1>3, <1>8, Written DEF ConsoleTypes
  <1>10. PICK a \in Seq(Byte), s \in Seq(Byte), u \in Seq(Byte) :
           a = LinesOf(e) /\ s = SubSeq(t, 1, k) /\ u = <<b>> /\ SubSeq(t, 1, k + 1) = s \o u
    <2>1. LinesOf(e) \in Seq(Byte)
      BY LinesOfIs
    <2>2. SubSeq(t, 1, k) \in Seq(Byte)
      <3>1. \A j \in 1 .. k : t[j] \in Byte
        <4>1. \A j \in 1 .. k : j \in 1 .. m
          BY <1>7
        <4>2. QED
          BY <1>6, <4>1, ElementOfSeq, Bytes
      <3>2. QED
        BY <3>1, SubSeqProperties
    <2>3. SubSeq(t, 1, k + 1) = SubSeq(t, 1, k) \o <<b>>
      BY <1>6, <1>8, Begun
    <2>4. <<b>> \in Seq(Byte)
      BY Short
    <2>5. QED
      BY <2>1, <2>2, <2>3, <2>4, Zenon
  <1>11. wire \o fifo = a \o s
    BY <1>4, <1>7, <1>10 DEF Saying
  <1>12. wire' \o fifo' = LinesOf(e) \o SubSeq(t, 1, ch')
    <2>1. (a \o s) \o u = a \o (s \o u)
      <3>1. Regroups(a, s, u)
        BY Regrouped
      <3>2. QED
        BY <3>1 DEF Regroups
    <2>2. ch' = k + 1
      BY <1>1, <1>7
    <2>3. QED
      BY <1>9, <1>10, <1>11, <2>1, <2>2
  <1>13. ConsoleTypes'
    <2>1. ch' \in Nat
      BY <1>1, <1>7
    <2>2. QED
      BY <1>1, <1>3, <1>9, <2>1 DEF ConsoleTypes
  <1>14. OneByteBehind'
    BY <1>1, <1>3 DEF OneByteBehind
  <1>15. Saying(e, t)'
    <2>1. said = Append(e, t) /\ Kept
      BY <1>4 DEF Saying
    <2>2. Kept'
      BY <1>1, <1>2, <2>1 DEF Kept
    <2>3. ch' \in 0 .. Fits(t)
      BY <1>1, <1>6, <1>7
    <2>4. Writing(t)'
      BY <1>2, <1>5, <2>3 DEF Writing, Ended
    <2>5. QED
      BY <1>1, <1>12, <2>1, <2>2, <2>4 DEF Saying
  <1>16. QED
    BY <1>1, <1>2, <1>13, <1>14, <1>15 DEF ConsoleInv

LEMMA WriteNewlineKeeps ==
  ASSUME ConsoleInv, WriteNewline
  PROVE  ConsoleInv'
  <1>1. /\ WritingString /\ klog[ch] = "NUL" /\ AuxUartWriteByte("NL") /\ ch' = ch
        /\ mode' = IF mode = "log" THEN "idle" ELSE "halted"
        /\ formatting' = formatting /\ said' = said /\ klog' = klog /\ wire' = wire
    BY DEF WriteNewline
  <1>2. mode \in {"log", "panic"} /\ pc' = "done" /\ mode' \in {"idle", "halted"}
    BY <1>1 DEF WritingString, formatting
  <1>3. ConsoleTypes /\ OneByteBehind
    BY DEF ConsoleInv
  <1>4. PICK e \in Texts, t \in Seq(Char) : Saying(e, t)
    BY <1>2 DEF ConsoleInv
  <1>5. ch \in 0 .. Fits(t) /\ (ch < Fits(t) => klog[ch] = t[ch + 1] /\ t[ch + 1] \in Char)
    BY <1>1, <1>4, Writes
  <1>6. PICK f \in Nat : f = Fits(t)
    BY LineIs
  <1>7. ch = f
    <2>1. ch \in 0 .. f /\ ~ (ch < f)
      BY <1>1, <1>5, <1>6, Characters
    <2>2. QED
      BY <2>1
  <1>8. fifo' \in Seq(Byte) /\ wire' \o fifo' = (wire \o fifo) \o <<"NL">>
    BY <1>1, <1>3, Bytes, Written DEF ConsoleTypes
  <1>9. PICK a \in Seq(Byte), s \in Seq(Byte), u \in Seq(Byte) :
          a = LinesOf(e) /\ s = SubSeq(t, 1, f) /\ u = <<"NL">> /\ Line(t) = s \o u
    <2>1. LinesOf(e) \in Seq(Byte)
      BY LinesOfIs
    <2>2. /\ SubSeq(t, 1, f) \in Seq(Byte) /\ <<"NL">> \in Seq(Byte)
          /\ Line(t) = SubSeq(t, 1, f) \o <<"NL">>
      BY <1>6, LineIs
    <2>3. QED
      BY <2>1, <2>2, Zenon
  <1>10. wire' \o fifo' = LinesOf(said')
    <2>1. wire \o fifo = a \o s /\ said' = Append(e, t)
      BY <1>1, <1>4, <1>7, <1>9 DEF Saying
    <2>2. (a \o s) \o u = a \o (s \o u)
      <3>1. Regroups(a, s, u)
        BY Regrouped
      <3>2. QED
        BY <3>1 DEF Regroups
    <2>3. LinesOf(Append(e, t)) = LinesOf(e) \o Line(t)
      BY LinesOfIs
    <2>4. QED
      BY <1>8, <1>9, <2>1, <2>2, <2>3
  <1>11. ConsoleTypes'
    BY <1>1, <1>2, <1>3, <1>8 DEF ConsoleTypes
  <1>12. OneByteBehind'
    BY <1>1, <1>3 DEF OneByteBehind
  <1>13. QED
    BY <1>2, <1>10, <1>11, <1>12 DEF ConsoleInv

(* the UART sends in between whatever is being said *)
LEMMA SameFormatting ==
  ASSUME NEW t, formatting' = formatting, ch' = ch, mode' = mode
  PROVE  /\ Formatting(t)' <=> Formatting(t)
         /\ Ended(t)' <=> Ended(t)
  <1>1. /\ item' = item /\ format' = format /\ args' = args /\ c' = c /\ flags' = flags
        /\ width' = width /\ base' = base /\ n' = n /\ carry' = carry /\ sign' = sign
        /\ buf' = buf /\ out' = out /\ pc' = pc
    BY DEF formatting, number
  <1>2. ASSUME NEW i, NEW o, NEW text, NEW last
        PROVE  /\ Reads(i, o, text, last)' <=> Reads(i, o, text, last)
               /\ Printed(i, o, text, last)' <=> Printed(i, o, text, last)
    <2>1. ASSUME NEW v, NEW b
          PROVE  Numbered(v, b)' <=> Numbered(v, b)
      <3>1. Carries(b)' <=> Carries(b)
        BY <1>1 DEF Carries
      <3>2. QED
        BY <1>1, <3>1, Zenon DEF Numbered
    <2>2. Before(i, o, text, last)' <=> Before(i, o, text, last)
      BY <1>1 DEF Before
    <2>3. FlagsRead(i, o, text, last)' <=> FlagsRead(i, o, text, last)
      BY <1>1 DEF FlagsRead
    <2>4. WidthRead(i, o, text, last)' <=> WidthRead(i, o, text, last)
      BY <1>1 DEF WidthRead
    <2>5. NumberRead(i, o, text, last)' <=> NumberRead(i, o, text, last)
      <3>1. PICK v, b : v = Abs(ValueOf(i)) /\ b = base
        OBVIOUS
      <3>2. Numbered(Abs(ValueOf(i)), base)' <=> Numbered(v, b)'
        BY <1>1, <3>1
      <3>3. Numbered(Abs(ValueOf(i)), base)' <=> Numbered(Abs(ValueOf(i)), base)
        BY <2>1, <3>1, <3>2
      <3>4. QED
        BY <1>1, <3>3 DEF NumberRead
    <2>6. Printed(i, o, text, last)' <=> Printed(i, o, text, last)
      BY <1>1 DEF Printed
    <2>7. QED
      BY <2>2, <2>3, <2>4, <2>5, <2>6 DEF Reads
  <1>3. ASSUME NEW i
        PROVE  (LogReads(i)' <=> LogReads(i)) /\ (PanicReads(i)' <=> PanicReads(i))
    BY <1>2 DEF LogReads, PanicReads
  <1>4. Formatting(t)' <=> Formatting(t)
    BY <1>1, <1>3 DEF Formatting
  <1>5. Ended(t)' <=> Ended(t)
    BY <1>1 DEF Ended
  <1>6. QED
    BY <1>4, <1>5

LEMMA TransmitKeeps ==
  ASSUME ConsoleInv, Transmit
  PROVE  ConsoleInv'
  <1>1. /\ formatting' = formatting /\ said' = said /\ klog' = klog /\ ch' = ch /\ mode' = mode
        /\ pc' = pc /\ out' = out
    BY DEF Transmit, formatting
  <1>2. ConsoleTypes /\ OneByteBehind
    BY DEF ConsoleInv
  <1>3. wire' \in Seq(Byte) /\ fifo' \in Seq(Byte) /\ wire' \o fifo' = wire \o fifo
    BY <1>2, Transmitted DEF ConsoleTypes
  <1>4. ConsoleTypes'
    BY <1>1, <1>2, <1>3 DEF ConsoleTypes
  <1>5. OneByteBehind'
    BY <1>1, <1>2 DEF OneByteBehind
  <1>6. mode' \in {"idle", "halted"} => pc' = "done" /\ wire' \o fifo' = LinesOf(said')
    BY <1>1, <1>3 DEF ConsoleInv
  <1>7. ASSUME NEW e \in Texts, NEW t \in Seq(Char), Saying(e, t)
        PROVE  Saying(e, t)'
    <2>1. Formatting(t)' \/ Writing(t)'
      BY <1>1, <1>7, SameFormatting DEF Saying, Writing
    <2>2. Kept'
      BY <1>1, <1>7 DEF Saying, Kept
    <2>3. QED
      BY <1>1, <1>3, <1>7, <2>1, <2>2 DEF Saying
  <1>8. mode' \in {"log", "panic"} => \E e \in Texts, t \in Seq(Char) : Saying(e, t)'
    BY <1>1, <1>7 DEF ConsoleInv
  <1>9. QED
    BY <1>4, <1>5, <1>6, <1>8 DEF ConsoleInv

LEMMA StutterKeeps ==
  ASSUME ConsoleInv, UNCHANGED vars
  PROVE  ConsoleInv'
  <1>1. /\ formatting' = formatting /\ said' = said /\ klog' = klog /\ ch' = ch /\ mode' = mode
        /\ fifo' = fifo /\ wire' = wire /\ pc' = pc /\ out' = out
    BY DEF vars, formatting
  <1>2. ConsoleTypes' /\ OneByteBehind'
    BY <1>1 DEF ConsoleInv, ConsoleTypes, OneByteBehind
  <1>3. mode' \in {"idle", "halted"} => pc' = "done" /\ wire' \o fifo' = LinesOf(said')
    BY <1>1 DEF ConsoleInv
  <1>4. ASSUME NEW e \in Texts, NEW t \in Seq(Char), Saying(e, t)
        PROVE  Saying(e, t)'
    <2>1. Formatting(t)' \/ Writing(t)'
      BY <1>1, <1>4, SameFormatting DEF Saying, Writing
    <2>2. Kept'
      BY <1>1, <1>4 DEF Saying, Kept
    <2>3. QED
      BY <1>1, <1>4, <2>1, <2>2 DEF Saying
  <1>5. mode' \in {"log", "panic"} => \E e \in Texts, t \in Seq(Char) : Saying(e, t)'
    BY <1>1, <1>4 DEF ConsoleInv
  <1>6. QED
    BY <1>2, <1>3, <1>5 DEF ConsoleInv

LEMMA PanicNullKeeps ==
  ASSUME ConsoleInv, BootPanicNull
  PROVE  ConsoleInv'
  <1>1. /\ mode = "idle" /\ mode' = "halted" /\ said' = said /\ klog' = klog /\ ch' = ch
        /\ fifo' = fifo /\ wire' = wire /\ pc' = pc
    BY DEF BootPanicNull, formatting
  <1>2. ConsoleTypes' /\ OneByteBehind'
    BY <1>1 DEF ConsoleInv, ConsoleTypes, OneByteBehind
  <1>3. QED
    BY <1>1, <1>2 DEF ConsoleInv

LEMMA NextConsole ==
  ASSUME ConsoleInv, [Next]_vars
  PROVE  ConsoleInv'
  <1>1. CASE Bootloader
    <2>1. CASE Log
      BY <2>1, LogKeeps
    <2>2. CASE BootPanic
      BY <2>2, PanicKeeps
    <2>3. CASE BootPanicNull
      BY <2>3, PanicNullKeeps
    <2>4. CASE Vsnprintf
      BY <2>4, VsnprintfKeeps
    <2>5. CASE WriteChar
      BY <2>5, WriteCharKeeps
    <2>6. CASE WriteNewline
      BY <2>6, WriteNewlineKeeps
    <2>7. QED
      BY <1>1, <2>1, <2>2, <2>3, <2>4, <2>5, <2>6 DEF Bootloader
  <1>2. CASE Transmit
    BY <1>2, TransmitKeeps
  <1>3. CASE Halted \/ UNCHANGED vars
    BY <1>3, StutterKeeps DEF Halted
  <1>4. QED
    BY <1>1, <1>2, <1>3 DEF Next

(* The console's invariant: while DoPrintf runs, what it has read of the format
   is what it has printed; while the text is written, it is the one that was
   formatted; between messages every line is sent or on its way. *)
THEOREM ConsoleIsInOrder == FairSpec => []ConsoleInv
  <1>1. Init => ConsoleInv
    BY InitConsole
  <1>2. ConsoleInv /\ [Next]_vars => ConsoleInv'
    BY NextConsole
  <1>3. QED
    BY <1>1, <1>2, PTL DEF FairSpec

LEMMA Prefixed ==
  ASSUME NEW s \in Seq(Byte), NEW r \in Seq(Byte)
  PROVE  IsPrefix(s, s \o r)
  <1>1. PICK u \in Seq(Byte) : u = s \o r /\ Joins(u, s, r)
    BY Joined
  <1>2. PICK l \in Nat, m \in Nat : l = Len(s) /\ m = Len(u) /\ l <= m
    BY <1>1, LenProperties DEF Joins
  <1>3. \A k \in 1 .. l : s[k] = u[k] /\ s[k] \in Byte
    BY <1>1, <1>2, ElementOfSeq DEF Joins
  <1>4. SubSeq(s, 1, l) = s
    BY <1>2, SubSeqFull
  <1>5. SubSeq(u, 1, l) = s
    <2>1. /\ SubSeq(u, 1, l) \in Seq(Byte) /\ Len(SubSeq(u, 1, l)) = l
          /\ \A k \in 1 .. l : SubSeq(u, 1, l)[k] = s[k]
      <3>1. \A k \in 1 .. l : u[k] \in Byte
        BY <1>3
      <3>2. /\ SubSeq(u, 1, l) \in Seq(Byte)
            /\ Len(SubSeq(u, 1, l)) = IF 1 <= l THEN l - 1 + 1 ELSE 0
            /\ \A k \in 1 .. l - 1 + 1 : SubSeq(u, 1, l)[k] = u[1 + k - 1]
        BY <3>1, SubSeqProperties
      <3>3. l - 1 + 1 = l /\ (~ (1 <= l) => l = 0) /\ \A k \in 1 .. l : 1 + k - 1 = k
        OBVIOUS
      <3>4. QED
        BY <1>3, <3>2, <3>3
    <2>2. QED
      BY <1>2, <2>1, SeqEqual
  <1>6. QED
    BY <1>1, <1>2, <1>4, <1>5 DEF IsPrefix

LEMMA SentInOrder ==
  ASSUME ConsoleInv
  PROVE  LinesRead
  <1>1. said \in Texts /\ mode \in {"idle", "log", "panic", "halted"}
    BY DEF ConsoleInv, ConsoleTypes
  <1>2. CASE mode \in {"idle", "halted"}
    <2>1. PICK a \in Seq(Byte) : a = LinesOf(said) /\ wire \o fifo = a
      BY <1>1, <1>2, LinesOfIs DEF ConsoleInv
    <2>2. a \o <<>> = a /\ <<>> \in Seq(Byte)
      BY Short, ConcatEmptySeq
    <2>3. IsPrefix(a, a \o <<>>)
      BY <2>2, Prefixed
    <2>4. QED
      BY <2>1, <2>2, <2>3, LinesAre DEF LinesRead
  <1>3. CASE mode \in {"log", "panic"}
    <2>1. PICK e \in Texts, t \in Seq(Char) : Saying(e, t)
      BY <1>3 DEF ConsoleInv
    <2>2. PICK f \in Nat, m \in Nat : f = Fits(t) /\ m = Len(t) /\ f <= m
      BY LineIs, LenProperties
    <2>3. PICK k \in 0 .. f : k = ch
      BY <2>1, <2>2 DEF Saying, Formatting, Writing
    <2>4. PICK s \in Seq(Byte), r \in Seq(Byte) :
            s = SubSeq(t, 1, k) /\ r = SubSeq(t, k + 1, f) /\ SubSeq(t, 1, f) = s \o r
      <3>1. k \in 1 - 1 .. m /\ f \in k .. m /\ 1 \in 1 .. m + 1
        BY <2>2
      <3>2. SubSeq(t, 1, k) \o SubSeq(t, k + 1, f) = SubSeq(t, 1, f)
        BY <2>2, <3>1, ConcatAdjacentSubSeq
      <3>3. \A j \in 1 .. m : t[j] \in Byte
        BY <2>2, ElementOfSeq, Bytes
      <3>4. SubSeq(t, 1, k) \in Seq(Byte)
        <4>1. \A j \in 1 .. k : t[j] \in Byte
          BY <2>2, <3>3
        <4>2. QED
          BY <4>1, SubSeqProperties
      <3>5. SubSeq(t, k + 1, f) \in Seq(Byte)
        <4>1. \A j \in k + 1 .. f : t[j] \in Byte
          BY <2>2, <3>3
        <4>2. QED
          BY <4>1, SubSeqProperties
      <3>6. QED
        BY <3>2, <3>4, <3>5, Zenon
    <2>5. PICK a \in Seq(Byte), u \in Seq(Byte) :
            a = LinesOf(e) /\ u = <<"NL">> /\ Line(t) = (s \o r) \o u
      <3>1. LinesOf(e) \in Seq(Byte)
        BY LinesOfIs
      <3>2. <<"NL">> \in Seq(Byte) /\ Line(t) = (s \o r) \o <<"NL">>
        BY <2>2, <2>4, LineIs
      <3>3. QED
        BY <3>1, <3>2, Zenon
    <2>6. wire \o fifo = a \o s /\ said = Append(e, t)
      BY <2>1, <2>3, <2>4, <2>5 DEF Saying
    <2>7. Lines = (a \o s) \o (r \o u)
      <3>1. Lines = a \o ((s \o r) \o u)
        BY <2>5, <2>6, LinesAre, LinesOfIs
      <3>2. (s \o r) \o u = s \o (r \o u)
        <4>1. Regroups(s, r, u)
          BY Regrouped
        <4>2. QED
          BY <4>1 DEF Regroups
      <3>3. (a \o s) \o (r \o u) = a \o (s \o (r \o u))
        <4>1. PICK z \in Seq(Byte) : z = r \o u
          BY Joined
        <4>2. Regroups(a, s, z)
          BY Regrouped
        <4>3. QED
          BY <4>1, <4>2 DEF Regroups
      <3>4. QED
        BY <3>1, <3>2, <3>3
    <2>8. a \o s \in Seq(Byte) /\ r \o u \in Seq(Byte)
      BY Joined
    <2>9. QED
      BY <2>6, <2>7, <2>8, Prefixed DEF LinesRead
  <1>4. QED
    BY <1>1, <1>2, <1>3

(* the number that a conversion is at, whatever it follows *)
LEMMA DigitsOf ==
  ASSUME NEW i, IsItem(i), NEW o, NEW text, NEW last, NumberRead(i, o, text, last)
  PROVE  /\ LET g == CHOOSE g : Sums(g, buf, base)
            IN  (n + carry) * Power(base, Len(buf)) + g[Len(buf)] = Abs(ValueOf(i))
         /\ Len(buf) + 2 <= Width + 4
  <1>1. PICK v \in Nat, b \in {8, 10, 16} :
          /\ v = Abs(ValueOf(i)) /\ b = BaseOf(i.conv) /\ v < Power(2, Width)
    BY NumberIs DEF NumberRead
  <1>2. Numbered(v, b) /\ base = b
    BY <1>1 DEF NumberRead
  <1>3. PICK s \in Seq(0 .. b - 1) : s = buf
    BY <1>2 DEF Numbered
  <1>4. /\ \A k \in 1 .. Len(s) : s[k] = (v \div Power(b, k - 1)) % b
        /\ n + carry = v \div Power(b, Len(s))
    BY <1>2, <1>3 DEF Numbered
  <1>5. PICK g : g = CHOOSE a : Sums(a, s, b)
    OBVIOUS
  <1>6. (v \div Power(b, Len(s))) * Power(b, Len(s)) + g[Len(s)] = v
    BY <1>4, <1>5, SumIs
  <1>7. (n + carry) * Power(b, Len(s)) + g[Len(s)] = v
    BY <1>4, <1>6
  <1>8. Len(buf) + 2 <= Width + 4
    <2>1. Len(buf) \in 0 .. Width
      BY <1>1, <1>2, NumberedLength
    <2>2. QED
      BY <2>1, WidthAssumption
  <1>9. QED
    BY <1>1, <1>2, <1>3, <1>5, <1>7, <1>8

LEMMA DigitsAre ==
  ASSUME pc \in {"digits", "field"} =>
           LET g == CHOOSE g : Sums(g, buf, base)
               value == IF c <= Len(Spell(item)) THEN ValueOf(item) ELSE 10
           IN  /\ (n + carry) * Power(base, Len(buf)) + g[Len(buf)] = Abs(value)
               /\ Len(buf) + 2 <= Width + 4
  PROVE  DigitsMakeNumber
  BY Zenon DEF DigitsMakeNumber, Sums

LEMMA NumberHeld ==
  ASSUME ConsoleInv
  PROVE  DigitsMakeNumber
  <1>1. SUFFICES ASSUME pc \in {"digits", "field"}
                 PROVE  LET g == CHOOSE g : Sums(g, buf, base)
                            value == IF c <= Len(Spell(item)) THEN ValueOf(item) ELSE 10
                        IN  /\ (n + carry) * Power(base, Len(buf)) + g[Len(buf)] = Abs(value)
                            /\ Len(buf) + 2 <= Width + 4
    BY DigitsAre
  <1>2. PICK t : Formatting(t)
    BY <1>1 DEF ConsoleInv, ConsoleTypes, Saying, Writing, Ended
  <1>3. PICK i \in Items : item = i /\ (LogReads(i) \/ PanicReads(i))
    BY <1>2 DEF Formatting
  <1>4. IsItem(i)
    BY AllItems
  <1>5. PICK l \in Nat : l = Length(i) /\ l = Len(Spell(item))
    BY <1>3, <1>4, Spelled
  <1>6. \/ \E last : NumberRead(i, 0, <<>>, last)
        \/ \E text : NumberRead(Plain, l + 1, text, <<>>)
    BY <1>1, <1>3, <1>5 DEF LogReads, PanicReads, Reads, Printed, Before, FlagsRead, WidthRead
  <1>7. CASE \E last : NumberRead(i, 0, <<>>, last)
    <2>1. PICK last : NumberRead(i, 0, <<>>, last)
      BY <1>7
    <2>2. c = 0 + l
      BY <1>5, <2>1 DEF NumberRead
    <2>3. c <= Len(Spell(item))
      BY <1>5, <2>2
    <2>4. /\ LET g == CHOOSE g : Sums(g, buf, base)
             IN  (n + carry) * Power(base, Len(buf)) + g[Len(buf)] = Abs(ValueOf(i))
          /\ Len(buf) + 2 <= Width + 4
      BY <1>4, <2>1, DigitsOf
    <2>5. QED
      BY <1>3, <2>3, <2>4, Zenon
  <1>8. CASE \E text : NumberRead(Plain, l + 1, text, <<>>)
    <2>1. PICK text : NumberRead(Plain, l + 1, text, <<>>)
      BY <1>8
    <2>2. c = (l + 1) + 2
      BY <2>1, PlainIs DEF NumberRead
    <2>3. ~ (c <= Len(Spell(item)))
      BY <1>5, <2>2
    <2>4. /\ LET g == CHOOSE g : Sums(g, buf, base)
             IN  (n + carry) * Power(base, Len(buf)) + g[Len(buf)] = Abs(ValueOf(Plain))
          /\ Len(buf) + 2 <= Width + 4
      BY <2>1, PlainIs, DigitsOf
    <2>5. ValueOf(Plain) = 10
      BY PlainIs
    <2>6. QED
      BY <2>3, <2>4, <2>5, Zenon
  <1>9. QED
    BY <1>6, <1>7, <1>8

(* In every turn of the loops of ItoA32 and UItoA32 the digits, what is left of
   the number and the carry of the most negative number make up its magnitude,
   in any base and for words of any width of the assumed kind, and the digits
   with a sign and the final zero fit buf. *)
THEOREM DigitsMakeTheNumber == FairSpec => []DigitsMakeNumber
  <1>1. ConsoleInv => DigitsMakeNumber
    BY NumberHeld
  <1>2. QED
    BY <1>1, ConsoleIsInOrder, PTL

(* What comes out of the UART is a prefix of the messages in the order they were
   logged, each with its numbers in the fields their formats write (Conversion;
   not in those the comment above DoPrintf promises, which WrittenWidth and
   DefaultWidth state) and cut to the buffer, whatever the conversions, the size of klog_entry and the room in the transmitter. *)
THEOREM LinesAreRead == FairSpec => []LinesRead
  <1>1. ConsoleInv => LinesRead
    BY SentInOrder
  <1>2. QED
    BY <1>1, ConsoleIsInOrder, PTL

(* The byte behind klog_entry, the only one outside of it that is written, is
   what it was or zero, and zero only when a message did not fit. *)
THEOREM OneByteIsBehind == FairSpec => []OneByteBehind
  <1>1. ConsoleInv => OneByteBehind
    BY DEF ConsoleInv
  <1>2. QED
    BY <1>1, ConsoleIsInOrder, PTL
=============================================================================
