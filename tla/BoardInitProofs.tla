-------------------------- MODULE BoardInitProofs ----------------------------
(***************************************************************************)
(* Proofs about BoardInit, for every board and every way the VideoCore may *)
(* answer.                                                                 *)
(***************************************************************************)
EXTENDS BoardInit, TLAPS

-----------------------------------------------------------------------------
(* Division and multiplication *)

(* a number from its quotient and remainder, and back *)
LEMMA Place ==
  ASSUME NEW d \in Nat, NEW n \in Nat \ {0}, NEW r \in 0 .. n - 1,
         NEW v, v = d * n + r
  PROVE  v \div n = d /\ v % n = r
  <1>1. (d * n + r) \div n = d /\ (d * n + r) % n = r
    OBVIOUS
  <1>2. QED
    BY <1>1

LEMMA Division ==
  ASSUME NEW v \in Nat, NEW n \in Nat \ {0}
  PROVE  \E d \in Nat, r \in 0 .. n - 1 : v = d * n + r /\ v \div n = d /\ v % n = r
  <1> DEFINE d == v \div n
             r == v % n
  <1>1. d \in Int /\ r \in 0 .. n - 1 /\ d * n <= v /\ v < d * n + n
    OBVIOUS
  <1>2. d \in Nat
    BY <1>1
  <1>3. PICK s \in 0 .. n - 1 : v = d * n + s
    <2> HIDE DEF d
    <2>1. d * n \in Int
      BY <1>2
    <2>2. v - d * n \in 0 .. n - 1
      BY <1>1, <2>1
    <2>3. QED
      BY <2>1, <2>2
  <1>4. r = s
    <2> HIDE DEF d
    <2>1. v % n = s
      BY <1>2, <1>3, Place
    <2>2. QED
      BY <2>1
  <1>5. v \div n = d /\ v % n = r
    OBVIOUS
  <1> HIDE DEF d, r
  <1>6. QED
    BY <1>1, <1>2, <1>3, <1>4, <1>5

LEMMA TimesMonotone ==
  ASSUME NEW x \in Int, NEW y \in Int, NEW n \in Nat \ {0}
  PROVE  /\ x * n \in Int
         /\ x <= y => x * n <= y * n
         /\ x * n < y * n => x < y
         /\ (x - y) * n = x * n - y * n
         /\ (x + y) * n = x * n + y * n
  OBVIOUS

-----------------------------------------------------------------------------
(* Fields of a word: field f at weight P is the octal digit (w \div P) % 8 *)

(* the word with digit n at weight p *)
Put(w, p, n) == w + (n - ((w \div p) % 8)) * p

EightFold(q, p) == \E m \in Nat \ {0} : q = 8 * p * m

SameAbove(w, v, c) ==
  \E h \in Nat, s \in 0 .. c - 1, t \in 0 .. c - 1 : w = h * c + s /\ v = h * c + t

LEMMA FieldWritten ==
  ASSUME NEW w \in Nat, NEW p \in Nat \ {0}, NEW n \in 0 .. 7
  PROVE  /\ Put(w, p, n) \in Nat /\ (Put(w, p, n) \div p) % 8 = n
         /\ \A c \in Nat : c = p * 8 => SameAbove(w, Put(w, p, n), c)
  <1>0. PICK c \in Nat : c = p * 8
    OBVIOUS
  <1>1. PICK d \in Nat, r \in 0 .. p - 1 : w = d * p + r /\ w \div p = d
    BY Division
  <1>2. PICK h \in Nat, g \in 0 .. 7 : d = h * 8 + g /\ d \div 8 = h /\ d % 8 = g
    BY Division
  <1>3. PICK v : v = Put(w, p, n)
    OBVIOUS
  <1>4. PICK e \in Nat : e = h * 8 + n
    OBVIOUS
  <1>5. \A k \in 0 .. 7 : /\ k * p \in Nat /\ k * p + r \in 0 .. c - 1
                          /\ (h * 8 + k) * p = h * c + k * p /\ h * c \in Nat
    <2> SUFFICES ASSUME NEW k \in 0 .. 7
                 PROVE  /\ k * p \in Nat /\ k * p + r \in 0 .. c - 1
                        /\ (h * 8 + k) * p = h * c + k * p /\ h * c \in Nat
      OBVIOUS
    <2>1. k * p <= 7 * p /\ k * p \in Nat
      BY TimesMonotone
    <2>2. h * c = (h * 8) * p /\ h * c \in Nat
      BY <1>0
    <2>3. (h * 8 + k) * p = (h * 8) * p + k * p
      OBVIOUS
    <2>4. QED
      BY <1>0, <2>1, <2>2, <2>3
  <1>6. v = e * p + r
    <2>1. v = w + (n - g) * p
      <3>1. (w \div p) % 8 = g
        BY <1>1, <1>2
      <3>2. QED
        BY <1>3, <3>1 DEF Put
    <2>2. (n - g) * p = n * p - g * p
      OBVIOUS
    <2>3. QED
      BY <1>1, <1>2, <1>4, <1>5, <2>1, <2>2
  <1>7. v \div p = e /\ v \in Nat
    <2>1. e * p \in Nat
      OBVIOUS
    <2>2. QED
      BY <1>6, <2>1, Place
  <1>8. e % 8 = n
    BY <1>4, Place
  <1>9. w = h * c + (g * p + r) /\ v = h * c + (n * p + r)
    BY <1>1, <1>2, <1>4, <1>5, <1>6
  <1>10. g * p + r \in 0 .. c - 1 /\ n * p + r \in 0 .. c - 1
    BY <1>5
  <1>11. ASSUME NEW k \in Nat, k = p * 8 PROVE k = c
    BY <1>0, <1>11
  <1>12. QED
    BY <1>3, <1>7, <1>8, <1>9, <1>10, <1>11 DEF SameAbove

(* a field above the one that is written, and one below it *)
LEMMA FieldAbove ==
  ASSUME NEW w \in Nat, NEW p \in Nat \ {0}, NEW n \in 0 .. 7,
         NEW q \in Nat \ {0}, EightFold(q, p)
  PROVE  Put(w, p, n) \div q = w \div q
  <1>0. PICK m \in Nat \ {0} : q = 8 * p * m
    BY DEF EightFold
  <1>1. PICK c \in Nat \ {0} : c = p * 8
    OBVIOUS
  <1>2. PICK h \in Nat, s \in 0 .. c - 1, t \in 0 .. c - 1 :
          w = h * c + s /\ Put(w, p, n) = h * c + t
    <2>1. SameAbove(w, Put(w, p, n), c)
      BY <1>1, FieldWritten
    <2>2. QED
      BY <2>1 DEF SameAbove
  <1>3. PICK a \in Nat, b \in 0 .. m - 1 : h = a * m + b
    BY Division
  <1>4. q = m * c
    BY <1>0, <1>1
  <1>5. h * c = a * q + b * c /\ b * c \in Nat /\ b * c <= q - c
    <2>1. h * c = (a * m) * c + b * c
      BY <1>3
    <2>2. (a * m) * c = a * q
      BY <1>4
    <2>3. PICK k \in Nat : k = m - 1 /\ b <= k
      OBVIOUS
    <2>4. b * c <= k * c
      BY <2>3, TimesMonotone
    <2>5. k * c = m * c - 1 * c
      BY <2>3, TimesMonotone
    <2>6. b * c \in Nat /\ 1 * c = c
      OBVIOUS
    <2>7. QED
      BY <1>4, <2>1, <2>2, <2>4, <2>5, <2>6
  <1>6. ASSUME NEW x \in Nat, NEW y \in 0 .. c - 1, x = h * c + y PROVE x \div q = a
    <2>1. PICK z \in 0 .. q - 1 : z = b * c + y
      BY <1>5
    <2>2. x = a * q + z
      BY <1>5, <1>6, <2>1
    <2>3. QED
      BY <2>2, Place
  <1>7. Put(w, p, n) \in Nat
    BY <1>2
  <1>8. Put(w, p, n) \div q = a
    BY <1>2, <1>6, <1>7
  <1>9. w \div q = a
    BY <1>2, <1>6
  <1>10. QED
    BY <1>8, <1>9

LEMMA FieldBelow ==
  ASSUME NEW w \in Nat, NEW p \in Nat \ {0}, NEW n \in 0 .. 7,
         NEW q \in Nat \ {0}, EightFold(p, q)
  PROVE  (Put(w, p, n) \div q) % 8 = (w \div q) % 8
  <1>0. PICK m \in Nat \ {0} : p = 8 * q * m
    BY DEF EightFold
  <1>1. PICK f \in 0 .. 7 : f = (w \div p) % 8
    OBVIOUS
  <1>2. PICK d \in Nat, r \in 0 .. q - 1 : w = d * q + r /\ w \div q = d
    BY Division
  <1>3. PICK z \in Int : z = (n - f) * m
    BY <1>1
  <1>4. PICK e \in Int : e = d + 8 * z
    OBVIOUS
  <1>5. PICK v \in Nat : v = Put(w, p, n)
    BY FieldWritten
  <1>6. v = e * q + r
    <2>1. (n - f) * p = 8 * (z * q)
      BY <1>0, <1>1, <1>3
    <2>2. e * q = d * q + 8 * (z * q) /\ z * q \in Int /\ d * q \in Int
      BY <1>4
    <2>3. v = w + (n - f) * p
      BY ONLY <1>1, <1>5 DEF Put
    <2>4. QED
      BY <1>2, <2>1, <2>2, <2>3
  <1>7. e \in Nat
    <2>1. e * q + q > 0
      BY <1>5, <1>6
    <2>2. CASE e < 0
      <3>1. e + 1 <= 0 /\ (e + 1) * q = e * q + q
        BY <2>2
      <3>2. (e + 1) * q <= 0 * q
        BY <3>1, TimesMonotone
      <3>3. QED
        BY <2>1, <3>1, <3>2
    <2>3. QED
      BY <2>2
  <1>8. v \div q = e
    BY <1>6, <1>7, Place
  <1>9. e % 8 = d % 8
    BY <1>4, <1>7
  <1>10. QED
    BY <1>2, <1>5, <1>8, <1>9


(* the two states in which boot_rpi_mailbox waits for an answer *)
Awaiting(tag) ==
  mail.tag = tag /\ mail.value \in {Answer(tag), NoWords}

Mailed ==
  /\ board \in Boards
  /\ pc = "await_revision" => Awaiting("revision")
  /\ pc = "await_memory" => Awaiting("memory")

Told ==
  /\ pc \notin {"uart", "await_revision"} => revision \in {board.revision, 0}
  /\ pc \notin {"uart", "await_revision", "memory", "await_memory"} =>
       videocore \in {<<board.vc.at, board.vc.len>>, NoWords}

PCsOfBoard == {"uart", "await_revision", "memory", "await_memory", "parse",
               "select", "gpios"}

BoardInv == pc \in PCsOfBoard /\ Mailed /\ Told /\ MemoryIsThere

LEMMA AnswerTags ==
  /\ Answer("revision") = <<board.revision, 0>>
  /\ Answer("memory") = <<board.vc.at, board.vc.len>>
  BY DEF Answer

LEMMA ResponseIsAnswer ==
  ASSUME NEW tag, NEW value \in {Answer(tag), NoWords}, NEW sz
  PROVE  Response(value, sz) \in {Answer(tag), NoWords}
  BY DEF Response

(* an old style code is what a failed question leaves behind *)
LEMMA ZeroIsOld == ~ New(0)
  BY DEF New

(* the two things BoardAssumption says of memory, the powers of two kept apart
   from the arithmetic *)
LEMMA BoardRam ==
  ASSUME NEW b \in Boards
  PROVE  b.ram \in Nat /\ b.ram >= 4096
  <1>1. b.ram \in Nat /\ b.ram >= 256 * MB
    BY ONLY BoardAssumption, b \in Boards, Zenon
  <1>2. 256 * MB = 4096
    BY DEF MB
  <1>3. QED
    BY <1>1, <1>2

LEMMA MemoryDecoded ==
  ASSUME NEW b \in Boards, New(b.revision)
  PROVE  LET m == Limited(Decoded(MemoryConfig(b.revision)))
         IN  m > 0 /\ m <= b.ram /\ m <= 2047 * MB
  <1>1. b.ram \in Nat /\ b.ram >= 4096
    BY BoardRam
  <1>2. CASE MemoryConfig(b.revision) <= 5
    <2>1. Decoded(MemoryConfig(b.revision)) = b.ram
      BY <1>2, BoardAssumption DEF Decoded
    <2>2. QED
      BY <1>1, <2>1 DEF Limited, MB
  <1>3. CASE ~ (MemoryConfig(b.revision) <= 5)
    <2>1. Decoded(MemoryConfig(b.revision)) = 2048
      BY <1>3 DEF Decoded, MB
    <2>2. QED
      BY <1>1, <2>1 DEF Limited, MB
  <1>4. QED
    BY <1>2, <1>3

LEMMA BoardStart == Init => BoardInv
  BY DEF Init, BoardInv, PCsOfBoard, Mailed, Told, MemoryIsThere

LEMMA BoardStep == BoardInv /\ [Next]_vars => BoardInv'
  <1> SUFFICES ASSUME BoardInv, [Next]_vars PROVE BoardInv'
    OBVIOUS
  <1> USE DEF BoardInv, PCsOfBoard, MemoryIsThere
  <1>1. CASE ConfigureGpio
    BY <1>1 DEF ConfigureGpio, Mailed, Told, Awaiting, Answer, mailVars
  <1>2. CASE AskRevision
    BY <1>2 DEF AskRevision, Ask, Mailed, Told, Awaiting, NoWords
  <1>3. CASE AskMemory
    BY <1>3 DEF AskMemory, Ask, Mailed, Told, Awaiting, NoWords
  <1>4. CASE Nothing
    <2>1. /\ pc' = pc /\ board' = board /\ revision' = revision /\ videocore' = videocore
          /\ bootinfo' = bootinfo /\ mail'.tag = mail.tag
          /\ mail'.value \in {Answer(mail.tag), mail.value}
      BY <1>4 DEF Nothing, Treated, Mailed, Awaiting
    <2>2. QED
      BY <2>1 DEF Mailed, Told, Awaiting, Answer
  <1>5. CASE ReceiveRevision
    <2>1. PICK value \in {Answer(mail.tag), mail.value}, sz \in {8, 12} :
            revision' = Response(value, sz)[1]
      BY <1>5 DEF ReceiveRevision
    <2>2. value \in {Answer("revision"), NoWords}
      BY <1>5, <2>1 DEF ReceiveRevision, Mailed, Awaiting
    <2>3. revision' \in {board.revision, 0}
      BY <2>1, <2>2, ResponseIsAnswer, AnswerTags DEF NoWords
    <2>4. QED
      BY <1>5, <2>3 DEF ReceiveRevision, Mailed, Told, Awaiting
  <1>6. CASE ReceiveMemory
    <2>1. PICK value \in {Answer(mail.tag), mail.value}, sz \in {8, 12} :
            videocore' = Response(value, sz)
      BY <1>6 DEF ReceiveMemory
    <2>2. value \in {Answer("memory"), NoWords}
      BY <1>6, <2>1 DEF ReceiveMemory, Mailed, Awaiting
    <2>3. videocore' \in {<<board.vc.at, board.vc.len>>, NoWords}
      BY <2>1, <2>2, ResponseIsAnswer, AnswerTags
    <2>4. QED
      BY <1>6, <2>3 DEF ReceiveMemory, Mailed, Told, Awaiting
  <1>7. CASE ParseOldRevision
    <2>1. bootinfo'.memSize = 2048 \/ bootinfo'.memSize = 128 * MB
      <3>1. bootinfo' = [bootinfo EXCEPT !.memSize = 128 * MB]
        BY <1>7 DEF ParseOldRevision
      <3>2. QED
        BY <3>1
    <2>2. board.ram \in Nat /\ board.ram >= 4096
      BY BoardRam DEF Mailed
    <2>3. bootinfo'.memSize > 0 /\ bootinfo'.memSize <= board.ram
          /\ bootinfo'.memSize <= 2047 * MB
      BY <2>1, <2>2 DEF MB
    <2>4. QED
      BY <1>7, <2>3 DEF ParseOldRevision, Mailed, Told, Awaiting
  <1>8. CASE ParseRevision
    <2>1. revision = board.revision
      BY <1>8, ZeroIsOld DEF ParseRevision, Told
    <2>2. bootinfo'.memSize = Limited(Decoded(MemoryConfig(board.revision)))
      BY <1>8, <2>1 DEF ParseRevision
    <2>3. QED
      BY <1>8, <2>1, <2>2, MemoryDecoded DEF ParseRevision, Mailed, Told, Awaiting
  <1>9. CASE SelectEmmc2
    BY <1>9 DEF SelectEmmc2, Mailed, Told, Awaiting, Answer, mailVars
  <1>10. CASE Done \/ UNCHANGED vars
    BY <1>10 DEF Done, vars, Mailed, Told, Awaiting, Answer, mailVars
  <1>11. QED
    BY <1>1, <1>2, <1>3, <1>4, <1>5, <1>6, <1>7, <1>8, <1>9, <1>10 DEF Next

LEMMA BoardCorrect == Spec => []BoardInv
  BY BoardStart, BoardStep, PTL DEF Spec

(* For every board and every sequence of answers, refusals, overlong answers
   and repetitions, boot_rpi_mailbox hands on a whole answer or zeros. *)
THEOREM TrueAnswers == Spec => []AnswersTrue
  <1>1. BoardInv => AnswersTrue
    BY DEF BoardInv, Told, AnswersTrue
  <1>2. QED
    BY <1>1, BoardCorrect, PTL

(* parse_revision never claims memory the board does not have, nor the last
   megabyte below 2 GB. *)
THEOREM ClaimedMemoryIsThere == Spec => []MemoryIsThere
  <1>1. BoardInv => MemoryIsThere
    BY DEF BoardInv
  <1>2. QED
    BY <1>1, BoardCorrect, PTL

-----------------------------------------------------------------------------
(* The registers *)

Weight(k) == 8^k

LEMMA WeightPositive == \A k \in 0 .. 10 : Weight(k) \in Nat \ {0}
  <1> SUFFICES ASSUME NEW k \in 0 .. 10 PROVE 8^k \in Nat \ {0}
    BY DEF Weight
  <1>1. \/ k = 0 \/ k = 1 \/ k = 2 \/ k = 3 \/ k = 4 \/ k = 5
        \/ k = 6 \/ k = 7 \/ k = 8 \/ k = 9 \/ k = 10
    BY SMT
  <1>2. /\ 8^0 \in Nat \ {0} /\ 8^1 \in Nat \ {0} /\ 8^2 \in Nat \ {0} /\ 8^3 \in Nat \ {0}
        /\ 8^4 \in Nat \ {0} /\ 8^5 \in Nat \ {0} /\ 8^6 \in Nat \ {0} /\ 8^7 \in Nat \ {0}
        /\ 8^8 \in Nat \ {0} /\ 8^9 \in Nat \ {0} /\ 8^10 \in Nat \ {0}
    BY SMT
  <1>3. QED
    BY <1>1, <1>2, Zenon

LEMMA NextWeight == \A k, l \in 0 .. 10 : l = k + 1 => Weight(l) = 8 * Weight(k)
  <1> SUFFICES ASSUME NEW k \in 0 .. 10, NEW l \in 0 .. 10, l = k + 1 PROVE 8^l = 8 * 8^k
    BY DEF Weight
  <1>1. \/ (k = 0 /\ l = 1) \/ (k = 1 /\ l = 2) \/ (k = 2 /\ l = 3) \/ (k = 3 /\ l = 4)
        \/ (k = 4 /\ l = 5) \/ (k = 5 /\ l = 6) \/ (k = 6 /\ l = 7) \/ (k = 7 /\ l = 8)
        \/ (k = 8 /\ l = 9) \/ (k = 9 /\ l = 10)
    BY SMT
  <1>2. /\ 8^1 = 8 * 8^0 /\ 8^2 = 8 * 8^1 /\ 8^3 = 8 * 8^2 /\ 8^4 = 8 * 8^3
        /\ 8^5 = 8 * 8^4 /\ 8^6 = 8 * 8^5 /\ 8^7 = 8 * 8^6 /\ 8^8 = 8 * 8^7
        /\ 8^9 = 8 * 8^8 /\ 8^10 = 8 * 8^9
    BY SMT
  <1>3. QED
    BY <1>1, <1>2, Zenon

(* a weight above another is a multiple of eight of it *)
LEMMA WeightAbove ==
  \A k, q \in 0 .. 10 : k < q => EightFold(Weight(q), Weight(k))
  <1> DEFINE Far(d) == \A k, q \in 0 .. 10 : q = k + 1 + d =>
                         \E m \in Nat \ {0} : Weight(q) = 8 * Weight(k) * m
             S == {d \in Nat : Far(d)}
  <1>1. 0 \in S
    <2> SUFFICES ASSUME NEW k \in 0 .. 10, NEW q \in 0 .. 10, q = k + 1 + 0
                 PROVE  \E m \in Nat \ {0} : Weight(q) = 8 * Weight(k) * m
      OBVIOUS
    <2>1. Weight(q) = 8 * Weight(k) /\ Weight(k) \in Nat
      BY NextWeight, WeightPositive
    <2>2. Weight(q) = 8 * Weight(k) * 1
      BY <2>1
    <2>3. QED
      BY <2>2
  <1>2. ASSUME NEW d \in S PROVE d + 1 \in S
    <2> SUFFICES ASSUME NEW k \in 0 .. 10, NEW q \in 0 .. 10, q = k + 1 + (d + 1)
                 PROVE  \E m \in Nat \ {0} : Weight(q) = 8 * Weight(k) * m
      OBVIOUS
    <2>1. PICK r \in 0 .. 10 : r = k + 1 + d /\ q = r + 1
      OBVIOUS
    <2>2. PICK m \in Nat \ {0} : Weight(r) = 8 * Weight(k) * m
      BY <1>2, <2>1
    <2>3. Weight(q) = 8 * Weight(r) /\ Weight(k) \in Nat
      BY NextWeight, WeightPositive, <2>1
    <2>4. 8 * m \in Nat \ {0} /\ Weight(q) = 8 * Weight(k) * (8 * m)
      BY <2>2, <2>3
    <2>5. QED
      BY <2>4
  <1> HIDE DEF Far
  <1>3. 0 .. 9 \subseteq S
    <2> HIDE DEF S
    <2>1. \A d, e : d \in S /\ e = d + 1 => e \in S
      BY <1>2
    <2>2. /\ 1 = 0 + 1 /\ 2 = 1 + 1 /\ 3 = 2 + 1 /\ 4 = 3 + 1 /\ 5 = 4 + 1
          /\ 6 = 5 + 1 /\ 7 = 6 + 1 /\ 8 = 7 + 1 /\ 9 = 8 + 1
      OBVIOUS
    <2>3. 1 \in S /\ 2 \in S /\ 3 \in S /\ 4 \in S /\ 5 \in S
      BY <1>1, <2>1, <2>2, Zenon
    <2>4. 6 \in S /\ 7 \in S /\ 8 \in S /\ 9 \in S
      BY <2>1, <2>2, <2>3, Zenon
    <2>5. \A d \in 0 .. 9 : \/ d = 0 \/ d = 1 \/ d = 2 \/ d = 3 \/ d = 4
                             \/ d = 5 \/ d = 6 \/ d = 7 \/ d = 8 \/ d = 9
      OBVIOUS
    <2>6. QED
      BY <1>1, <2>3, <2>4, <2>5
  <1>4. ASSUME NEW k \in 0 .. 10, NEW q \in 0 .. 10, k < q
        PROVE  EightFold(Weight(q), Weight(k))
    <2>1. PICK d \in 0 .. 9 : q = k + 1 + d
      <3>1. q - k - 1 \in 0 .. 9 /\ q = k + 1 + (q - k - 1)
        BY <1>4
      <3>2. QED
        BY <3>1
    <2>2. Far(d)
      BY <1>3
    <2>3. QED
      BY <2>1, <2>2 DEF Far, EightFold
  <1>5. QED
    BY <1>4

(* one register after configure_gpio: the field of the pin, and all others *)
LEMMA RegisterWritten ==
  ASSUME NEW w \in Nat, w < Weight(10), NEW pin \in 0 .. 59, NEW fn \in 0 .. 7
  PROVE  /\ WithField(w, pin, fn) \in Nat /\ WithField(w, pin, fn) < Weight(10)
         /\ Field(WithField(w, pin, fn), pin) = fn
         /\ \A q \in 0 .. 59 : q % 10 # pin % 10 => Field(WithField(w, pin, fn), q) = Field(w, q)
  <1>1. PICK k \in 0 .. 9 : k = pin % 10
    BY SMT
  <1>2. PICK p \in Nat \ {0} : p = Weight(k)
    BY WeightPositive
  <1>3. \A x : Field(x, pin) = (x \div p) % 8
    BY <1>1, <1>2, Zenon DEF Field, Weight
  <1>4. PICK v : v = Put(w, p, fn)
    OBVIOUS
  <1>5. WithField(w, pin, fn) = v
    BY <1>1, <1>2, <1>3, <1>4, Zenon DEF WithField, Put, Weight
  <1>6. v \in Nat /\ (v \div p) % 8 = fn
    BY <1>4, FieldWritten
  <1>7. ASSUME NEW l \in 0 .. 10, k < l PROVE v \div Weight(l) = w \div Weight(l)
    <2>1. PICK q \in Nat \ {0} : q = Weight(l)
      BY WeightPositive
    <2>2. EightFold(q, p)
      BY <1>2, <1>7, <2>1, WeightAbove
    <2>3. Put(w, p, fn) \div q = w \div q
      BY <2>2, FieldAbove
    <2>4. QED
      BY <1>4, <2>1, <2>3
  <1>8. ASSUME NEW l \in 0 .. 9, l < k PROVE (v \div Weight(l)) % 8 = (w \div Weight(l)) % 8
    <2>1. PICK q \in Nat \ {0} : q = Weight(l)
      BY WeightPositive
    <2>2. EightFold(p, q)
      BY <1>2, <1>8, <2>1, WeightAbove
    <2>3. (Put(w, p, fn) \div q) % 8 = (w \div q) % 8
      BY <2>2, FieldBelow
    <2>4. QED
      BY <1>4, <2>1, <2>3
  <1>9. v < Weight(10)
    <2>1. PICK t \in Nat \ {0} : t = Weight(10)
      BY WeightPositive
    <2>2. v \div t = w \div t
      BY <1>7, <2>1
    <2>3. w = 0 * t + w /\ w \in 0 .. t - 1
      BY <2>1
    <2>4. w \div t = 0
      BY <2>3, Place
    <2>5. PICK r \in 0 .. t - 1 : v = 0 * t + r
      BY <1>6, <2>2, <2>4, Division
    <2>6. QED
      BY <2>1, <2>5
  <1>10. ASSUME NEW q \in 0 .. 59, q % 10 # pin % 10 PROVE Field(v, q) = Field(w, q)
    <2>1. PICK l \in 0 .. 9 : l = q % 10 /\ l # k
      BY <1>1, <1>10
    <2>2. Field(v, q) = (v \div Weight(l)) % 8 /\ Field(w, q) = (w \div Weight(l)) % 8
      BY <2>1, Zenon DEF Field, Weight
    <2>3. QED
      BY <1>7, <1>8, <2>1, <2>2
  <1>11. QED
    BY <1>3, <1>5, <1>6, <1>9, <1>10

Words == 0 .. 2^30 - 1

LEMMA WordsAre == \A w : w \in Words <=> w \in Nat /\ w < Weight(10)
  <1>1. 8^10 = 2^30
    BY SMT
  <1>2. PICK t \in Nat : t = Weight(10)
    BY WeightPositive
  <1>3. Words = 0 .. t - 1
    BY <1>1, <1>2, Zenon DEF Words, Weight
  <1>4. QED
    BY <1>2, <1>3

-----------------------------------------------------------------------------
(* The pins: every call of configure_gpio, in order *)

AllPins == UartPins \o BoardPins

Calls == (0 .. 59) \X (0 .. 7) \X (0 .. 3)

(* which pin the i-th call is about, and the function it asks for *)
NumberOf(i) == IF i <= 2 THEN 13 + i ELSE IF i <= 8 THEN 31 + i ELSE IF i <= 13 THEN 39 + i ELSE 44
FunctionOf(i) == IF i <= 2 THEN 2 ELSE IF i <= 8 THEN 0 ELSE 7

LEMMA UartPinsAre ==
  /\ UartPins \in Seq(Calls) /\ Len(UartPins) = 2
  /\ \A i \in 1 .. 2 : UartPins[i] = <<13 + i, 2, 0>>
  BY DEF UartPins, Configure, FN5, PULL_NONE, Calls

LEMMA LowPinsAre ==
  /\ Configure(<<34, 35, 36, 37, 38, 39>>, INPUT) \in Seq(Calls)
  /\ Len(Configure(<<34, 35, 36, 37, 38, 39>>, INPUT)) = 6
  /\ \A i \in 1 .. 6 : Configure(<<34, 35, 36, 37, 38, 39>>, INPUT)[i] = <<33 + i, 0, 0>>
  BY DEF Configure, INPUT, PULL_NONE, Calls

LEMMA HighPinsAre ==
  /\ Configure(<<48, 49, 50, 51, 52, 44>>, FN3) \in Seq(Calls)
  /\ Len(Configure(<<48, 49, 50, 51, 52, 44>>, FN3)) = 6
  /\ \A i \in 1 .. 5 : Configure(<<48, 49, 50, 51, 52, 44>>, FN3)[i] = <<47 + i, 7, 0>>
  /\ Configure(<<48, 49, 50, 51, 52, 44>>, FN3)[6] = <<44, 7, 0>>
  BY DEF Configure, FN3, PULL_NONE, Calls

LEMMA Joined ==
  ASSUME NEW S, NEW s \in Seq(S), NEW t \in Seq(S)
  PROVE  /\ s \o t \in Seq(S) /\ Len(s \o t) = Len(s) + Len(t)
         /\ \A i \in 1 .. Len(s) : (s \o t)[i] = s[i]
         /\ \A i \in 1 .. Len(t) : (s \o t)[Len(s) + i] = t[i]
  OBVIOUS

LEMMA BoardPinsAre ==
  /\ BoardPins \in Seq(Calls) /\ Len(BoardPins) = 12
  /\ \A i \in 1 .. 6 : BoardPins[i] = <<33 + i, 0, 0>>
  /\ \A i \in 7 .. 11 : BoardPins[i] = <<41 + i, 7, 0>>
  /\ BoardPins[12] = <<44, 7, 0>>
  <1>1. PICK s \in Seq(Calls), t \in Seq(Calls) :
          /\ s = Configure(<<34, 35, 36, 37, 38, 39>>, INPUT)
          /\ t = Configure(<<48, 49, 50, 51, 52, 44>>, FN3)
    BY LowPinsAre, HighPinsAre, Zenon
  <1>2. BoardPins = s \o t
    BY <1>1, Zenon DEF BoardPins
  <1>3. /\ Len(s) = 6 /\ \A i \in 1 .. 6 : s[i] = <<33 + i, 0, 0>>
        /\ Len(t) = 6 /\ \A i \in 1 .. 5 : t[i] = <<47 + i, 7, 0>>
        /\ t[6] = <<44, 7, 0>>
    BY <1>1, LowPinsAre, HighPinsAre, Zenon
  <1>4. PICK b \in Seq(Calls) : b = s \o t
    BY Joined
  <1>5. /\ Len(b) = 12 /\ \A i \in 1 .. 6 : b[i] = s[i]
        /\ \A i \in 1 .. 6 : b[6 + i] = t[i]
    <2>1. /\ Len(b) = Len(s) + Len(t) /\ \A i \in 1 .. Len(s) : b[i] = s[i]
          /\ \A i \in 1 .. Len(t) : b[Len(s) + i] = t[i]
      BY <1>4, Joined
    <2>2. Len(s) = 6 /\ Len(t) = 6
      BY <1>3
    <2>3. QED
      BY ONLY <2>1, <2>2
  <1>6. ASSUME NEW i \in 7 .. 11 PROVE b[i] = <<41 + i, 7, 0>>
    <2>1. PICK j \in 1 .. 5 : i = 6 + j
      <3>1. i - 6 \in 1 .. 5 /\ i = 6 + (i - 6)
        OBVIOUS
      <3>2. QED
        BY <3>1
    <2>2. b[i] = t[j]
      BY <1>5, <2>1, SMTT(30)
    <2>3. t[j] = <<47 + j, 7, 0>>
      BY <1>3
    <2>4. 47 + j = 41 + i
      BY <2>1
    <2>5. QED
      BY ONLY <2>2, <2>3, <2>4
  <1>7. b[12] = <<44, 7, 0>>
    BY <1>3, <1>5
  <1>8. QED
    BY <1>2, <1>3, <1>4, <1>5, <1>6, <1>7

LEMMA AllPinsAre ==
  /\ AllPins \in Seq(Calls) /\ Len(AllPins) = 14
  /\ \A i \in 1 .. 2 : AllPins[i] = UartPins[i]
  /\ \A i \in 1 .. 12 : AllPins[2 + i] = BoardPins[i]
  /\ \A i \in 1 .. 14 : AllPins[i] = <<NumberOf(i), FunctionOf(i), 0>>
  <1>1. /\ AllPins \in Seq(Calls) /\ Len(AllPins) = 14
        /\ \A i \in 1 .. 2 : AllPins[i] = UartPins[i]
        /\ \A i \in 1 .. 12 : AllPins[2 + i] = BoardPins[i]
    <2>1. PICK u \in Seq(Calls), b \in Seq(Calls) : u = UartPins /\ b = BoardPins
      BY UartPinsAre, BoardPinsAre, Zenon
    <2>2. Len(u) = 2 /\ Len(b) = 12
      BY <2>1, UartPinsAre, BoardPinsAre, Zenon
    <2>3. PICK a : a = u \o b
      OBVIOUS
    <2>4. /\ a \in Seq(Calls) /\ Len(a) = Len(u) + Len(b)
          /\ \A i \in 1 .. Len(u) : a[i] = u[i]
          /\ \A i \in 1 .. Len(b) : a[Len(u) + i] = b[i]
      BY <2>3, Joined
    <2>5. /\ a \in Seq(Calls) /\ Len(a) = 14
          /\ \A i \in 1 .. 2 : a[i] = u[i]
          /\ \A i \in 1 .. 12 : a[2 + i] = b[i]
      BY ONLY <2>2, <2>4
    <2>6. a = AllPins
      BY <2>1, <2>3, Zenon DEF AllPins
    <2>7. QED
      BY <2>1, <2>5, <2>6
  <1>2. ASSUME NEW i \in 1 .. 14 PROVE AllPins[i] = <<NumberOf(i), FunctionOf(i), 0>>
    <2>1. CASE i <= 2
      BY <1>1, <2>1, UartPinsAre DEF NumberOf, FunctionOf
    <2>2. CASE i > 2
      <3>1. PICK j \in 1 .. 12 : i = 2 + j
        <4>1. i - 2 \in 1 .. 12 /\ i = 2 + (i - 2)
          BY <2>2
        <4>2. QED
          BY <4>1
      <3>2. AllPins[i] = BoardPins[j]
        BY <1>1, <3>1
      <3>3. CASE j <= 6
        <4>1. BoardPins[j] = <<33 + j, 0, 0>>
          BY <3>3, BoardPinsAre, SMTT(30)
        <4>2. NumberOf(i) = 33 + j /\ FunctionOf(i) = 0
          BY <3>1, <3>3 DEF NumberOf, FunctionOf
        <4>3. QED
          BY <3>2, <4>1, <4>2
      <3>4. CASE j \in 7 .. 11
        <4>1. BoardPins[j] = <<41 + j, 7, 0>>
          BY <3>4, BoardPinsAre
        <4>2. NumberOf(i) = 41 + j /\ FunctionOf(i) = 7
          BY <3>1, <3>4 DEF NumberOf, FunctionOf
        <4>3. QED
          BY <3>2, <4>1, <4>2
      <3>5. CASE j = 12
        <4>1. BoardPins[j] = <<44, 7, 0>>
          BY <3>5, BoardPinsAre
        <4>2. NumberOf(i) = 44 /\ FunctionOf(i) = 7
          BY <3>1, <3>5 DEF NumberOf, FunctionOf
        <4>3. QED
          BY <3>2, <4>1, <4>2
      <3>6. QED
        BY <3>3, <3>4, <3>5
    <2>3. QED
      BY <2>1, <2>2
  <1>3. QED
    BY <1>1, <1>2

(* no pin is asked for twice *)
LEMMA PinsDiffer ==
  /\ \A i \in 1 .. 14 : NumberOf(i) \in 14 .. 52 /\ FunctionOf(i) \in 0 .. 7
  /\ \A i, j \in 1 .. 14 : NumberOf(i) = NumberOf(j) => i = j
  BY DEF NumberOf, FunctionOf

(* a register that a pull was written to holds zero: every call asks for none *)
LEMMA NoPull == \A k \in 0 .. 15 : (0 \div 4^k) % 4 = 0 /\ 0 * 2^k = 0
  <1>1. \A x \in Nat \ {0} : (0 \div x) % 4 = 0 /\ 0 * x = 0
    <2>1. ASSUME NEW x \in Nat \ {0} PROVE 0 \div x = 0
      <3>1. 0 = 0 * x + 0 /\ 0 \in 0 .. x - 1
        OBVIOUS
      <3>2. QED
        BY <3>1, Place
    <2>2. 0 % 4 = 0
      OBVIOUS
    <2>3. QED
      BY <2>1, <2>2
  <1>2. ASSUME NEW k \in 0 .. 15 PROVE 4^k \in Nat \ {0} /\ 2^k \in Nat \ {0}
    <2>1. \/ k = 0 \/ k = 1 \/ k = 2 \/ k = 3 \/ k = 4 \/ k = 5 \/ k = 6 \/ k = 7
          \/ k = 8 \/ k = 9 \/ k = 10 \/ k = 11 \/ k = 12 \/ k = 13 \/ k = 14 \/ k = 15
      BY SMT
    <2>2. /\ 4^0 \in Nat \ {0} /\ 4^1 \in Nat \ {0} /\ 4^2 \in Nat \ {0} /\ 4^3 \in Nat \ {0}
          /\ 4^4 \in Nat \ {0} /\ 4^5 \in Nat \ {0} /\ 4^6 \in Nat \ {0} /\ 4^7 \in Nat \ {0}
          /\ 4^8 \in Nat \ {0} /\ 4^9 \in Nat \ {0} /\ 4^10 \in Nat \ {0} /\ 4^11 \in Nat \ {0}
          /\ 4^12 \in Nat \ {0} /\ 4^13 \in Nat \ {0} /\ 4^14 \in Nat \ {0} /\ 4^15 \in Nat \ {0}
      BY SMT
    <2>3. /\ 2^0 \in Nat \ {0} /\ 2^1 \in Nat \ {0} /\ 2^2 \in Nat \ {0} /\ 2^3 \in Nat \ {0}
          /\ 2^4 \in Nat \ {0} /\ 2^5 \in Nat \ {0} /\ 2^6 \in Nat \ {0} /\ 2^7 \in Nat \ {0}
          /\ 2^8 \in Nat \ {0} /\ 2^9 \in Nat \ {0} /\ 2^10 \in Nat \ {0} /\ 2^11 \in Nat \ {0}
          /\ 2^12 \in Nat \ {0} /\ 2^13 \in Nat \ {0} /\ 2^14 \in Nat \ {0} /\ 2^15 \in Nat \ {0}
      BY SMT
    <2>4. 4^k \in Nat \ {0}
      BY <2>1, <2>2, Zenon
    <2>5. 2^k \in Nat \ {0}
      BY <2>1, <2>3, Zenon
    <2>6. QED
      BY <2>4, <2>5
  <1>3. QED
    BY <1>1, <1>2, Zenon

-----------------------------------------------------------------------------
(* What holds of the registers after m calls, between them and at the end.
   The parameters are the variables, so that the same facts can be said of the
   next state. *)

Registers(f, f0, p) ==
  /\ f \in [0 .. 5 -> Words] /\ f0 \in [0 .. 5 -> FselWords] /\ p \in [0 .. 3 -> Nat]

Asked(m, f) ==
  \A i \in 1 .. m : Field(f[NumberOf(i) \div 10], NumberOf(i)) = FunctionOf(i)

NotAsked(m, f, f0) ==
  \A pin \in 0 .. 59 : (\A i \in 1 .. m : NumberOf(i) # pin) =>
    Field(f[pin \div 10], pin) = Field(f0[pin \div 10], pin)

Unpulled(m, p) == \A i \in 1 .. m : p[NumberOf(i) \div 16] = 0

RegistersInv(m, f, f0, p) ==
  Registers(f, f0, p) /\ Asked(m, f) /\ NotAsked(m, f, f0) /\ Unpulled(m, p)

(* the calls that are left are those of AllPins after the first m *)
LeftFrom(m, ps) ==
  /\ ps \in Seq(Calls) /\ m \in 0 .. 14 /\ m + Len(ps) <= 14
  /\ \A j \in 1 .. Len(ps) : ps[j] = AllPins[m + j]

Made == IF pc = "gpios" THEN 14 - Len(pins) ELSE 2 - Len(pins)

PinInv ==
  /\ pc \in PCsOfBoard
  /\ pc \notin {"uart", "gpios"} => pins = <<>>
  /\ LeftFrom(Made, pins)
  /\ RegistersInv(Made, fsel, fsel0, pull)

FunctionSet(f, n) == [f EXCEPT ![NumberOf(n) \div 10] = WithField(@, NumberOf(n), FunctionOf(n))]
PullCleared(p, n) == [p EXCEPT ![NumberOf(n) \div 16] = 0]

LEMMA OneCall ==
  ASSUME NEW m \in 0 .. 13, NEW n \in 1 .. 14, n = m + 1,
         NEW f, NEW f0, NEW p, RegistersInv(m, f, f0, p)
  PROVE  RegistersInv(n, FunctionSet(f, n), f0, PullCleared(p, n))
  <1>0. PICK g, q : g = FunctionSet(f, n) /\ q = PullCleared(p, n)
    OBVIOUS
  <1>1. PICK pin \in 14 .. 52, fn \in 0 .. 7 : pin = NumberOf(n) /\ fn = FunctionOf(n)
    BY PinsDiffer
  <1>2. PICK r \in 0 .. 5, s \in 0 .. 3 : r = pin \div 10 /\ s = pin \div 16
    BY SMT
  <1>3. PICK w \in Words : w = f[r]
    BY <1>2 DEF RegistersInv, Registers
  <1>4. w \in Nat /\ w < Weight(10)
    BY WordsAre
  <1>5. PICK v : v = WithField(w, pin, fn)
    OBVIOUS
  <1>6. /\ v \in Nat /\ v < Weight(10) /\ Field(v, pin) = fn
        /\ \A x \in 0 .. 59 : x % 10 # pin % 10 => Field(v, x) = Field(w, x)
    <2>1. pin \in 0 .. 59
      OBVIOUS
    <2>2. QED
      BY <1>4, <1>5, <2>1, RegisterWritten, ZenonT(30)
  <1>7. v \in Words
    BY <1>6, WordsAre
  <1>8. g = [f EXCEPT ![r] = v] /\ q = [p EXCEPT ![s] = 0]
    BY <1>0, <1>1, <1>2, <1>3, <1>5, Zenon DEF FunctionSet, PullCleared
  <1>9. f \in [0 .. 5 -> Words] /\ p \in [0 .. 3 -> Nat] /\ f0 \in [0 .. 5 -> FselWords]
    BY DEF RegistersInv, Registers
  <1>10. /\ g \in [0 .. 5 -> Words] /\ g[r] = v /\ \A x \in 0 .. 5 : x # r => g[x] = f[x]
         /\ q \in [0 .. 3 -> Nat] /\ \A x \in 0 .. 3 : q[x] = p[x] \/ q[x] = 0
         /\ q[s] = 0
    <2>1. ASSUME NEW I, NEW S, NEW h \in [I -> S], NEW i \in I, NEW z \in S
          PROVE  /\ [h EXCEPT ![i] = z] \in [I -> S] /\ [h EXCEPT ![i] = z][i] = z
                 /\ \A x \in I : x # i => [h EXCEPT ![i] = z][x] = h[x]
      BY ONLY <2>1
    <2>2. g \in [0 .. 5 -> Words] /\ g[r] = v /\ \A x \in 0 .. 5 : x # r => g[x] = f[x]
      BY ONLY <1>7, <1>8, <1>9, <2>1, r \in 0 .. 5, Zenon
    <2>3. 0 \in Nat
      OBVIOUS
    <2>4. q \in [0 .. 3 -> Nat] /\ q[s] = 0 /\ \A x \in 0 .. 3 : x # s => q[x] = p[x]
      BY ONLY <1>8, <1>9, <2>1, <2>3, s \in 0 .. 3, Zenon
    <2>5. QED
      BY ONLY <2>2, <2>4, Zenon
  (* no other field changes, whichever register it is in *)
  <1>11. ASSUME NEW x \in 0 .. 59, x # pin PROVE Field(g[x \div 10], x) = Field(f[x \div 10], x)
    <2>1. PICK y \in 0 .. 5 : y = x \div 10
      BY SMT
    <2>2. CASE y # r
      BY <1>10, <2>1, <2>2
    <2>3. CASE y = r
      <3>1. x % 10 # pin % 10
        BY ONLY <1>2, <1>11, <2>1, <2>3, x \in 0 .. 59, pin \in 14 .. 52, SMT
      <3>2. Field(v, x) = Field(w, x)
        BY <1>6, <3>1
      <3>3. g[y] = v /\ f[y] = w
        BY <1>3, <1>10, <2>3
      <3>4. QED
        BY ONLY <2>1, <3>2, <3>3, Zenon
    <2>4. QED
      BY <2>2, <2>3
  <1>12. Asked(n, g)
    <2>1. ASSUME NEW i \in 1 .. n
          PROVE  Field(g[NumberOf(i) \div 10], NumberOf(i)) = FunctionOf(i)
      <3>1. CASE i = n
        BY <1>1, <1>2, <1>6, <1>10, <3>1
      <3>2. CASE i # n
        <4>1. i \in 1 .. m /\ i \in 1 .. 14
          BY <3>2
        <4>2. Field(f[NumberOf(i) \div 10], NumberOf(i)) = FunctionOf(i)
          BY <4>1, Zenon DEF RegistersInv, Asked
        <4>3. PICK x \in 0 .. 59 : x = NumberOf(i) /\ x # pin
          BY <1>1, <3>2, <4>1, PinsDiffer
        <4>4. QED
          BY <1>11, <4>2, <4>3, Zenon
      <3>3. QED
        BY <3>1, <3>2
    <2>2. QED
      BY <2>1 DEF Asked
  <1>13. NotAsked(n, g, f0)
    <2>1. ASSUME NEW x \in 0 .. 59, \A i \in 1 .. n : NumberOf(i) # x
          PROVE  Field(g[x \div 10], x) = Field(f0[x \div 10], x)
      <3>1. x # pin
        BY <1>1, <2>1
      <3>2. \A i \in 1 .. m : NumberOf(i) # x
        BY <2>1
      <3>3. Field(f[x \div 10], x) = Field(f0[x \div 10], x)
        BY <3>2, Zenon DEF RegistersInv, NotAsked
      <3>4. QED
        BY <1>11, <3>1, <3>3, Zenon
    <2>2. QED
      BY <2>1, Zenon DEF NotAsked
  <1>14. Unpulled(n, q)
    <2>1. ASSUME NEW i \in 1 .. n PROVE q[NumberOf(i) \div 16] = 0
      <3>1. CASE i = n
        BY <1>1, <1>2, <1>10, <3>1
      <3>2. CASE i # n
        <4>1. i \in 1 .. m /\ i \in 1 .. 14
          BY <3>2
        <4>2. p[NumberOf(i) \div 16] = 0
          BY <4>1, Zenon DEF RegistersInv, Unpulled
        <4>3. PICK x \in 14 .. 52 : x = NumberOf(i)
          BY <4>1, PinsDiffer
        <4>4. x \div 16 \in 0 .. 3
          BY SMT
        <4>5. QED
          BY <1>10, <4>2, <4>3, <4>4
      <3>3. QED
        BY <3>1, <3>2
    <2>2. QED
      BY <2>1, Zenon DEF Unpulled
  <1>15. RegistersInv(n, g, f0, q)
    BY <1>9, <1>10, <1>12, <1>13, <1>14 DEF RegistersInv, Registers
  <1>16. QED
    BY ONLY <1>0, <1>15, Zenon

LEMMA PinStart == Init => PinInv
  <1> SUFFICES ASSUME Init PROVE PinInv
    OBVIOUS
  <1>1. pc = "uart" /\ pins = UartPins
    BY DEF Init
  <1>2. Made = 0
    BY <1>1, UartPinsAre DEF Made
  <1>3. LeftFrom(0, pins)
    <2>1. \A j \in 1 .. 2 : 0 + j = j
      OBVIOUS
    <2>2. QED
      BY <1>1, <2>1, UartPinsAre, AllPinsAre DEF LeftFrom
  <1>4. Registers(fsel, fsel0, pull)
    <2>1. FselWords \subseteq Words /\ PullWords \subseteq Nat
      BY BoardAssumption, Zenon DEF Words
    <2>2. PICK w \in FselWords : fsel = [r \in 0 .. 5 |-> w]
      BY DEF Init
    <2>3. PICK x \in PullWords : pull = [r \in 0 .. 3 |-> x]
      BY DEF Init
    <2>4. fsel0 = fsel
      BY DEF Init
    <2>5. w \in Words /\ x \in Nat
      BY ONLY <2>1, w \in FselWords, x \in PullWords
    <2>6. QED
      BY ONLY <2>2, <2>3, <2>4, <2>5, w \in FselWords DEF Registers
  <1>5. RegistersInv(0, fsel, fsel0, pull)
    <2>1. fsel0 = fsel
      BY DEF Init
    <2>2. \A i \in 1 .. 0 : FALSE
      OBVIOUS
    <2>3. QED
      BY <1>4, <2>1, <2>2, Zenon DEF RegistersInv, Asked, NotAsked, Unpulled
  <1>6. QED
    BY <1>1, <1>2, <1>3, <1>5, Zenon DEF PinInv, PCsOfBoard

LEMMA PinStep == PinInv /\ [Next]_vars => PinInv'
  <1> SUFFICES ASSUME PinInv, [Next]_vars PROVE PinInv'
    OBVIOUS
  (* the steps between which no call is made *)
  <1>1. ASSUME UNCHANGED <<pins, fsel, fsel0, pull>>, pc' \in PCsOfBoard,
               pc' = "gpios" <=> pc = "gpios", pc' \notin {"uart", "gpios"} => pins = <<>>
        PROVE  PinInv'
    <2>1. Made' = Made
      BY <1>1, Zenon DEF Made
    <2>2. QED
      BY <1>1, <2>1, Zenon DEF PinInv
  <1>2. CASE ConfigureGpio
    <2>1. PICK m \in 0 .. 14 : m = Made
      BY DEF PinInv, LeftFrom
    <2>2. /\ pins \in Seq(Calls) /\ m + Len(pins) <= 14
          /\ \A j \in 1 .. Len(pins) : pins[j] = AllPins[m + j]
      BY <2>1, Zenon DEF PinInv, LeftFrom
    <2>3. pins # <<>> /\ pins' = Tail(pins) /\ pc' = pc /\ fsel0' = fsel0
      BY <1>2 DEF ConfigureGpio
    <2>4. /\ Len(pins) \in Nat \ {0} /\ Tail(pins) \in Seq(Calls)
          /\ Len(Tail(pins)) = Len(pins) - 1
          /\ \A j \in 1 .. Len(Tail(pins)) : Tail(pins)[j] = pins[j + 1]
          /\ Head(pins) = pins[1]
      BY <2>2, <2>3
    <2>5. PICK n \in 1 .. 14 : n = m + 1
      BY <2>2, <2>4
    <2>6. m \in 0 .. 13
      BY <2>5
    <2>7. Head(pins) = <<NumberOf(n), FunctionOf(n), 0>>
      <3>1. Head(pins) = AllPins[n]
        BY <2>2, <2>4, <2>5
      <3>2. QED
        BY <3>1, AllPinsAre
    <2>8. Made' = n
      <3>1. Len(pins') = Len(pins) - 1
        BY <2>3, <2>4
      <3>2. QED
        BY <2>1, <2>3, <2>4, <2>5, <3>1 DEF Made
    <2>9. LeftFrom(n, pins')
      <3>1. n \in 0 .. 14 /\ n + Len(Tail(pins)) <= 14
        BY <2>2, <2>4, <2>5
      <3>2. ASSUME NEW j \in 1 .. Len(Tail(pins)) PROVE Tail(pins)[j] = AllPins[n + j]
        <4>1. j + 1 \in 1 .. Len(pins) /\ m + (j + 1) = n + j
          BY <2>4, <2>5
        <4>2. QED
          BY <2>2, <2>4, <4>1
      <3>3. QED
        BY <2>3, <2>4, <3>1, <3>2, Zenon DEF LeftFrom
    <2>10. RegistersInv(n, fsel', fsel0', pull')
      <3>1. RegistersInv(m, fsel, fsel0, pull)
        BY <2>1, Zenon DEF PinInv
      <3>2. PICK pin : pin = NumberOf(n)
        OBVIOUS
      <3>3. Head(pins)[1] = pin /\ Head(pins)[2] = FunctionOf(n) /\ Head(pins)[3] = 0
        BY <2>7, <3>2
      <3>4. fsel' = [fsel EXCEPT ![pin \div 10] = WithField(@, pin, FunctionOf(n))]
        BY <1>2, <3>3, Zenon DEF ConfigureGpio
      <3>5. pull' = [pull EXCEPT ![pin \div 16] = (0 % 4) * 2^(pin % 16)]
        BY <1>2, <3>3, Zenon DEF ConfigureGpio
      <3>6. (0 % 4) * 2^(pin % 16) = 0
        <4>1. pin \in 14 .. 52
          BY <3>2, PinsDiffer
        <4>2. PICK k \in 0 .. 15 : k = pin % 16
          BY <4>1
        <4>3. 0 % 4 = 0
          OBVIOUS
        <4>4. QED
          BY <4>2, <4>3, NoPull, Zenon
      <3>7. pull' = [pull EXCEPT ![pin \div 16] = 0]
        BY <3>5, <3>6, Zenon
      <3>8. fsel' = FunctionSet(fsel, n) /\ pull' = PullCleared(pull, n)
        BY ONLY <3>2, <3>4, <3>7, Zenon DEF FunctionSet, PullCleared
      <3>9. RegistersInv(n, fsel', fsel0, pull')
        <4>1. RegistersInv(n, FunctionSet(fsel, n), fsel0, PullCleared(pull, n))
          BY ONLY <2>5, <2>6, <3>1, OneCall, n \in 1 .. 14
        <4>2. QED
          BY ONLY <3>8, <4>1, Zenon
      <3>10. QED
        BY ONLY <2>3, <3>9, Zenon
    <2>11. pc' \in PCsOfBoard /\ (pc' \notin {"uart", "gpios"} => pins' = <<>>)
      BY <1>2, <2>3, Zenon DEF ConfigureGpio, PinInv
    <2>12. QED
      BY <2>8, <2>9, <2>10, <2>11, Zenon DEF PinInv
  <1>3. CASE AskRevision
    BY <1>1, <1>3 DEF AskRevision, Ask, pinVars, PCsOfBoard
  <1>4. CASE AskMemory
    BY <1>1, <1>4 DEF AskMemory, Ask, pinVars, PCsOfBoard
  <1>5. CASE Nothing
    BY <1>1, <1>5 DEF Nothing, pinVars, PCsOfBoard, PinInv
  <1>6. CASE ReceiveRevision
    BY <1>1, <1>6 DEF ReceiveRevision, pinVars, PCsOfBoard, PinInv
  <1>7. CASE ReceiveMemory
    BY <1>1, <1>7 DEF ReceiveMemory, pinVars, PCsOfBoard, PinInv
  <1>8. CASE ParseOldRevision
    BY <1>1, <1>8 DEF ParseOldRevision, pinVars, PCsOfBoard, PinInv
  <1>9. CASE ParseRevision
    BY <1>1, <1>9 DEF ParseRevision, pinVars, PCsOfBoard, PinInv
  <1>10. CASE SelectEmmc2
    <2>1. /\ pc = "select" /\ pc' = "gpios" /\ pins' = BoardPins
          /\ UNCHANGED <<fsel, fsel0, pull>>
      BY <1>10 DEF SelectEmmc2
    <2>2. pins = <<>>
      BY <2>1 DEF PinInv
    <2>3. Made = 2
      BY <2>1, <2>2 DEF Made
    <2>4. Made' = 2
      BY <2>1, BoardPinsAre DEF Made
    <2>5. LeftFrom(2, pins')
      BY <2>1, BoardPinsAre, AllPinsAre DEF LeftFrom
    <2>6. RegistersInv(2, fsel', fsel0', pull')
      BY <2>1, <2>3, Zenon DEF PinInv
    <2>7. QED
      BY <2>1, <2>4, <2>5, <2>6, Zenon DEF PinInv, PCsOfBoard
  <1>11. CASE Done \/ UNCHANGED vars
    BY <1>1, <1>11 DEF Done, vars, pinVars, PinInv
  <1>12. QED
    BY <1>2, <1>3, <1>4, <1>5, <1>6, <1>7, <1>8, <1>9, <1>10, <1>11 DEF Next

LEMMA PinsCorrect == Spec => []PinInv
  BY PinStart, PinStep, PTL DEF Spec

LEMMA PinInvSuffices == PinInv => PinsConfigured
  <1> SUFFICES ASSUME PinInv, Finished PROVE PinsConfigured
    BY DEF PinsConfigured
  <1>1. Made = 14
    BY DEF Made, Finished
  <1>2. Asked(14, fsel) /\ NotAsked(14, fsel, fsel0) /\ Unpulled(14, pull)
    BY <1>1, Zenon DEF PinInv, RegistersInv
  <1>3. PICK a : a = UartPins \o BoardPins
    OBVIOUS
  <1>4. Len(a) = 14 /\ \A i \in 1 .. 14 : a[i] = <<NumberOf(i), FunctionOf(i), 0>>
    BY <1>3, AllPinsAre, Zenon DEF AllPins
  <1>5. \A i \in 1 .. 14 : a[i][1] = NumberOf(i) /\ a[i][2] = FunctionOf(i) /\ a[i][3] = 0
    BY <1>4
  <1>6. ASSUME NEW pin \in 0 .. 57, {i \in 1 .. Len(a) : a[i][1] = pin} = {}
        PROVE  Field(fsel[pin \div 10], pin) = Field(fsel0[pin \div 10], pin)
    <2>1. \A i \in 1 .. 14 : NumberOf(i) # pin
      BY <1>4, <1>5, <1>6, Zenon
    <2>2. pin \in 0 .. 59
      OBVIOUS
    <2>3. QED
      BY <1>2, <2>1, <2>2, Zenon DEF NotAsked
  <1>7. ASSUME NEW pin \in 0 .. 57, NEW i \in 1 .. Len(a), a[i][1] = pin
        PROVE  /\ Field(fsel[pin \div 10], pin) = a[i][2]
               /\ PullOf(pull[pin \div 16], pin) = a[i][3]
    <2>1. i \in 1 .. 14 /\ NumberOf(i) = pin /\ a[i][2] = FunctionOf(i) /\ a[i][3] = 0
      BY <1>4, <1>5, <1>7, Zenon
    <2>2. Field(fsel[pin \div 10], pin) = FunctionOf(i)
      BY <1>2, <2>1, Zenon DEF Asked
    <2>3. pull[pin \div 16] = 0
      BY <1>2, <2>1, Zenon DEF Unpulled
    <2>4. PICK k \in 0 .. 15 : k = pin % 16
      <3>1. \A n \in 0 .. 57 : n % 16 \in 0 .. 15
        BY SMT
      <3>2. QED
        BY <3>1, Zenon
    <2>5. PullOf(0, pin) = 0
      BY <2>4, NoPull, Zenon DEF PullOf
    <2>6. QED
      BY <2>1, <2>2, <2>3, <2>5, Zenon
  <1>8. QED
    BY <1>3, <1>6, <1>7, Zenon DEF PinsConfigured

(* Every pin ends with the function and the pull that were asked for it and all
   others keep theirs, whatever the registers held before the boot. *)
THEOREM EveryPinIsConfigured == Spec => []PinsConfigured
  BY PinsCorrect, PinInvSuffices, PTL

-----------------------------------------------------------------------------
(* Types, which the pins and the answers need each other's invariant for *)

TypesLeft ==
  /\ emmc \in BOOLEAN
  /\ mail.tag \in {"none", "revision", "memory"} /\ mail.value \in Nat \X Nat
  /\ mail = [tag |-> mail.tag, value |-> mail.value]
  /\ size \in {0, 8, 12}
  /\ revision \in Nat /\ videocore \in Nat \X Nat
  /\ bootinfo \in [memSize : Nat, base : Nat, ceiling : Nat]

LEMMA BoardNumbers ==
  \A b \in Boards : b.revision \in Nat /\ b.vc.at \in Nat /\ b.vc.len \in Nat
  BY BoardAssumption, Zenon

LEMMA AnswersAreWords ==
  ASSUME board \in Boards, NEW tag \in {"revision", "memory"}
  PROVE  Answer(tag) \in Nat \X Nat /\ NoWords \in Nat \X Nat
  <1>1. board.revision \in Nat /\ board.vc.at \in Nat /\ board.vc.len \in Nat
    BY BoardNumbers
  <1>2. QED
    BY <1>1, AnswerTags DEF NoWords

LEMMA ParsedIsSize ==
  ASSUME NEW b \in Boards, New(b.revision)
  PROVE  Limited(Decoded(MemoryConfig(b.revision))) \in Nat
  <1>1. b.ram \in Nat
    BY BoardRam
  <1>2. CASE MemoryConfig(b.revision) <= 5
    <2>1. Decoded(MemoryConfig(b.revision)) = b.ram
      BY <1>2, BoardAssumption DEF Decoded
    <2>2. QED
      BY <1>1, <2>1 DEF Limited, MB
  <1>3. CASE ~ (MemoryConfig(b.revision) <= 5)
    <2>1. Decoded(MemoryConfig(b.revision)) = 2048
      BY <1>3 DEF Decoded, MB
    <2>2. QED
      BY <2>1 DEF Limited, MB
  <1>4. QED
    BY <1>2, <1>3

LEMMA TypesStart == Init => TypesLeft
  BY DEF Init, TypesLeft, NoWords

LEMMA TypesStep == TypesLeft /\ BoardInv /\ BoardInv' /\ [Next]_vars => TypesLeft'
  <1> SUFFICES ASSUME TypesLeft, BoardInv, BoardInv', [Next]_vars PROVE TypesLeft'
    OBVIOUS
  <1>0. board \in Boards
    BY DEF BoardInv, Mailed
  (* the VideoCore treats the message *)
  <1>1. ASSUME pc \in {"await_revision", "await_memory"},
               NEW value \in {Answer(mail.tag), mail.value}, NEW sz \in {8, 12}
        PROVE  value \in Nat \X Nat /\ Response(value, sz) \in Nat \X Nat
    <2>1. mail.tag \in {"revision", "memory"}
      BY <1>1 DEF BoardInv, Mailed, Awaiting
    <2>2. Answer(mail.tag) \in Nat \X Nat /\ NoWords \in Nat \X Nat
      BY <1>0, <2>1, AnswersAreWords
    <2>3. QED
      BY <1>1, <2>2 DEF TypesLeft, Response
  <1>2. ASSUME pc \in {"await_revision", "await_memory"},
               NEW value \in {Answer(mail.tag), mail.value}, NEW sz \in {8, 12},
               mail' = [mail EXCEPT !.value = value], size' = sz
        PROVE  /\ mail'.tag \in {"none", "revision", "memory"} /\ mail'.value \in Nat \X Nat
               /\ mail' = [tag |-> mail'.tag, value |-> mail'.value] /\ size' \in {0, 8, 12}
    <2>1. PICK t, x : t \in {"none", "revision", "memory"} /\ mail = [tag |-> t, value |-> x]
      BY DEF TypesLeft
    <2>2. mail' = [tag |-> t, value |-> value]
      BY <1>2, <2>1
    <2>3. value \in Nat \X Nat
      BY <1>1, <1>2
    <2>4. QED
      BY ONLY <1>2, <2>1, <2>2, <2>3
  <1>3. CASE ConfigureGpio
    BY <1>3 DEF ConfigureGpio, TypesLeft, mailVars
  <1>4. CASE AskRevision
    BY <1>4 DEF AskRevision, Ask, TypesLeft, NoWords, pinVars
  <1>5. CASE AskMemory
    BY <1>5 DEF AskMemory, Ask, TypesLeft, NoWords, pinVars
  <1>6. CASE Nothing
    <2>1. PICK value \in {Answer(mail.tag), mail.value}, sz \in {8, 12} :
            mail' = [mail EXCEPT !.value = value] /\ size' = sz
      BY <1>6 DEF Nothing
    <2>2. pc \in {"await_revision", "await_memory"}
      BY <1>6 DEF Nothing
    <2>3. UNCHANGED <<emmc, revision, videocore, bootinfo>>
      BY <1>6 DEF Nothing, pinVars
    <2>4. QED
      BY <1>2, <2>1, <2>2, <2>3, Zenon DEF TypesLeft
  <1>7. CASE ReceiveRevision
    <2>1. PICK value \in {Answer(mail.tag), mail.value}, sz \in {8, 12} :
            mail' = [mail EXCEPT !.value = value] /\ size' = sz
            /\ revision' = Response(value, sz)[1]
      BY <1>7 DEF ReceiveRevision
    <2>2. pc \in {"await_revision", "await_memory"}
      BY <1>7 DEF ReceiveRevision
    <2>3. UNCHANGED <<emmc, videocore, bootinfo>>
      BY <1>7 DEF ReceiveRevision, pinVars
    <2>4. revision' \in Nat
      BY <1>1, <2>1, <2>2
    <2>5. QED
      BY <1>2, <2>1, <2>2, <2>3, <2>4, Zenon DEF TypesLeft
  <1>8. CASE ReceiveMemory
    <2>1. PICK value \in {Answer(mail.tag), mail.value}, sz \in {8, 12} :
            mail' = [mail EXCEPT !.value = value] /\ size' = sz
            /\ videocore' = Response(value, sz)
      BY <1>8 DEF ReceiveMemory
    <2>2. pc \in {"await_revision", "await_memory"}
      BY <1>8 DEF ReceiveMemory
    <2>3. UNCHANGED <<emmc, revision, bootinfo>>
      BY <1>8 DEF ReceiveMemory, pinVars
    <2>4. videocore' \in Nat \X Nat
      BY <1>1, <2>1, <2>2
    <2>5. QED
      BY <1>2, <2>1, <2>2, <2>3, <2>4, Zenon DEF TypesLeft
  <1>9. CASE ParseOldRevision
    <2>1. bootinfo' \in [memSize : Nat, base : Nat, ceiling : Nat]
      BY <1>9 DEF ParseOldRevision, TypesLeft, MB
    <2>2. QED
      BY <1>9, <2>1 DEF ParseOldRevision, TypesLeft, pinVars, mailVars
  <1>10. CASE ParseRevision
    <2>1. revision = board.revision
      BY <1>10, ZeroIsOld DEF ParseRevision, BoardInv, Told
    <2>2. Limited(Decoded(MemoryConfig(revision))) \in Nat
      BY <1>0, <1>10, <2>1, ParsedIsSize DEF ParseRevision
    <2>3. videocore[1] \in Nat /\ videocore[1] + videocore[2] \in Nat
      BY DEF TypesLeft
    <2>4. bootinfo' = [memSize |-> Limited(Decoded(MemoryConfig(revision))),
                       base |-> videocore[1], ceiling |-> videocore[1] + videocore[2]]
      BY <1>10 DEF ParseRevision
    <2>5. bootinfo' \in [memSize : Nat, base : Nat, ceiling : Nat]
      BY ONLY <2>2, <2>3, <2>4
    <2>6. QED
      BY <1>10, <2>5 DEF ParseRevision, TypesLeft, pinVars, mailVars
  <1>11. CASE SelectEmmc2
    BY <1>11 DEF SelectEmmc2, TypesLeft, mailVars
  <1>12. CASE Done \/ UNCHANGED vars
    BY <1>12 DEF Done, vars, pinVars, mailVars, TypesLeft
  <1>13. QED
    BY <1>3, <1>4, <1>5, <1>6, <1>7, <1>8, <1>9, <1>10, <1>11, <1>12 DEF Next

LEMMA TypesCorrect == Spec => []TypesLeft
  BY TypesStart, TypesStep, BoardCorrect, PTL DEF Spec

(* The registers keep their width, the calls are about pins the registers have,
   and what is handed on to Main is a size. *)
THEOREM BoardTypeCorrect == Spec => []TypeOK
  <1>1. BoardInv /\ PinInv /\ TypesLeft => TypeOK
    <2>1. BoardInv => board \in Boards /\ pc \in PCsOfBoard
      BY DEF BoardInv, Mailed
    <2>2. PinInv => pins \in Seq(Calls) /\ Registers(fsel, fsel0, pull)
      BY DEF PinInv, LeftFrom, RegistersInv
    <2>3. QED
      BY <2>1, <2>2, Zenon DEF TypeOK, TypesLeft, PCsOfBoard, Calls, Words, Registers
  <1>2. QED
    BY <1>1, BoardCorrect, PinsCorrect, TypesCorrect, PTL
=============================================================================
