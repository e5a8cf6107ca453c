----------------------------- MODULE MkIfsProofs -----------------------------
(***************************************************************************)
(* Proofs about mkifs, for every host tree, every set of sizes and every   *)
(* word size: the type invariant, the uniqueness of inode numbers, that    *)
(* the parts of an image do not overwrite each other; that a patched image *)
(* is whole, that what it says of entries that kept still is true, that    *)
(* none of those is lost, and that the lookup of the bootloader finds the  *)
(* boot/kernel that comes first in it.                                     *)
(***************************************************************************)
EXTENDS MkIfsBoot, FiniteSetsExt, SequenceTheorems, WellFoundedInduction, TLAPS

-----------------------------------------------------------------------------
(* The least element of a set *)

(* the order of the naturals as a relation, which is well founded *)
Less == {ss \in Nat \X Nat : ss[1] < ss[2]}

LEMMA LessWellFounded == IsWellFoundedOn(Less, Nat)
  BY NatLessThanWellFounded DEF OpToRel, Less

LEMMA LeastExists ==
  ASSUME NEW S \in SUBSET Nat, S # {}
  PROVE  \E x \in S : \A y \in S : x <= y
  <1>1. \E x \in S : \A y \in S : ~ (<<y, x>> \in Less)
    BY WFMin, LessWellFounded
  <1>2. \A x, y \in Nat : ~ (<<y, x>> \in Less) => x <= y
    BY DEF Less
  <1>3. QED
    BY <1>1, <1>2

LEMMA MinIsLeast ==
  ASSUME NEW S \in SUBSET Nat, S # {}
  PROVE  Min(S) \in S /\ \A y \in S : Min(S) <= y
  <1>1. \E x \in S : \A y \in S : x <= y
    BY LeastExists
  <1>2. QED
    BY <1>1 DEF Min


-----------------------------------------------------------------------------
(* Arithmetic of the rounding macros, for the page size. *)

LEMMA AlignUpPage ==
  ASSUME NEW v \in Nat
  PROVE  /\ AlignUp(v, PageSize) \in Nat
         /\ v <= AlignUp(v, PageSize)
         /\ AlignUp(v, PageSize) < v + PageSize
         /\ AlignUp(v, PageSize) % PageSize = 0
  BY DEF AlignUp, PageSize

LEMMA PageMultiple ==
  ASSUME NEW v \in Nat, v % PageSize = 0
  PROVE  v = 0 \/ v >= PageSize
  BY DEF PageSize

LEMMA AlignDownPage ==
  ASSUME NEW v \in Nat
  PROVE  /\ AlignDown(v, PageSize) \in Nat
         /\ AlignDown(v, PageSize) <= v
         /\ v < AlignDown(v, PageSize) + PageSize
         /\ AlignDown(v, PageSize) % PageSize = 0
  BY DEF AlignDown, PageSize

LEMMA WordPositive == Word \in Nat /\ Word > 0
  BY MkIfsAssumption DEF PageSize

LEMMA SizeTypes == /\ Sizes \subseteq Nat
                   /\ Garbage \subseteq 0 .. Word - 1
                   /\ BootSizes \subseteq Nat
  BY MkIfsAssumption, Zenon

LEMMA ModWord ==
  ASSUME NEW v \in Nat
  PROVE  /\ v % Word \in 0 .. Word - 1
         /\ v < Word => v % Word = v
  BY WordPositive

LEMMA FileTableOffsetIsNat ==
  ASSUME NEW n \in Nat
  PROVE  /\ TableSize(n) \in Nat /\ NodeTableOffset \in Nat
         /\ FileTableOffset(n) \in Nat
  BY AlignUpPage DEF TableSize, NodeTableOffset, FileTableOffset, FreeNodeCnt,
     NodeSize, HeaderSize, AlignUp

-----------------------------------------------------------------------------
(* Lists of nodes and stacks of calls. *)

LEMMA AppendThree ==
  ASSUME NEW S, NEW s \in Seq(S), NEW x \in S, NEW y \in S, NEW z \in S
  PROVE  LET t == s \o <<x, y, z>>
         IN  /\ t \in Seq(S) /\ Len(t) = Len(s) + 3
             /\ \A i \in 1 .. Len(s) : t[i] = s[i]
             /\ t[Len(s) + 1] = x /\ t[Len(s) + 2] = y /\ t[Len(s) + 3] = z
  <1>1. <<x, y, z>> \in Seq(S) /\ Len(<<x, y, z>>) = 3
    OBVIOUS
  <1>2. QED
    BY <1>1, ConcatProperties, LenProperties

LEMMA AppendOne ==
  ASSUME NEW S, NEW s \in Seq(S), NEW x \in S
  PROVE  /\ Append(s, x) \in Seq(S) /\ Len(Append(s, x)) = Len(s) + 1
         /\ \A i \in 1 .. Len(s) : Append(s, x)[i] = s[i]
         /\ Append(s, x)[Len(s) + 1] = x
  OBVIOUS

LEMMA DropLast ==
  ASSUME NEW S, NEW s \in Seq(S), Len(s) \in Nat \ {0}
  PROVE  LET t == SubSeq(s, 1, Len(s) - 1)
         IN  /\ t \in Seq(S) /\ Len(t) = Len(s) - 1
             /\ \A i \in 1 .. Len(s) - 1 : t[i] = s[i]
  <1>1. \A i \in 1 .. Len(s) - 1 : s[i] \in S
    BY ElementOfSeq
  <1>2. PICK n \in Nat : n = Len(s) - 1
    OBVIOUS
  <1>3. Len(SubSeq(s, 1, n)) = IF 1 <= n THEN n - 1 + 1 ELSE 0
    BY <1>1, <1>2, SubSeqProperties
  <1>4. /\ SubSeq(s, 1, n) \in Seq(S)
        /\ \A i \in 1 .. n : SubSeq(s, 1, n)[i] = s[i]
    BY <1>2
  <1>5. QED
    BY <1>2, <1>3, <1>4

(* The call that reads an entry: the top frame is a frame, and stays one. *)
LEMMA ReadingTypes ==
  ASSUME TypeOK, NEW e \in Entry, NEW r \in Entry \cup {NoEntry}, NEW st \in Stats,
         Reading(e, r, st)
  PROVE  /\ Len(stack) \in Nat \ {0}
         /\ Top \in FrameType
         /\ Consumed(e, st) \in Seq(FrameType)
         /\ Len(Consumed(e, st)) = Len(stack)
         /\ Consumed(e, st)[Len(stack)] = [Top EXCEPT !.left = @ \ {e}, !.st = st]
         /\ \A i \in 1 .. Len(stack) - 1 : Consumed(e, st)[i] = stack[i]
  <1>1. stack \in Seq(FrameType) /\ stack # <<>>
    BY DEF TypeOK, Reading
  <1>2. Len(stack) \in Nat \ {0}
    BY <1>1, EmptySeq
  <1>3. Top \in FrameType
    BY <1>1, <1>2, ElementOfSeq DEF Top
  <1>4. [Top EXCEPT !.left = @ \ {e}, !.st = st] \in FrameType
    BY <1>3 DEF FrameType
  <1>5. QED
    BY <1>1, <1>2, <1>3, <1>4, ExceptSeq DEF Consumed

-----------------------------------------------------------------------------
(* Type correctness.  A bound on the recorded offsets holds when they are
   written only because each turn of the loop establishes it for its node. *)

Built ==
  /\ pc \in {"bootloader", "start", "walk"} => cursor = 1
  /\ pc \notin {"bootloader", "start", "failed"} => Len(nodes) >= 2

Narrow == pc = "offsets" =>
  /\ cursor > 1 => ifsSize < Word
  /\ \A j \in 1 .. cursor - 1 : nodes[j].offset < Word

(* blocked in the open of a file of the list *)
Blocked == pc = "blocked" => cursor <= Len(nodes) /\ nodes[cursor].mode = "reg"

TypeInv == TypeOK /\ Built /\ Narrow /\ Blocked

(* WriteContents, or the end of OpenReturns *)
Copying ==
  /\ pc \in {"contents", "blocked"}
  /\ cursor <= Len(nodes) /\ nodes[cursor].mode = "reg"
  /\ CopyContents

LEMMA CopySteps ==
  /\ WriteContents => Copying
  /\ TypeInv /\ OpenReturns => Copying
  BY DEF WriteContents, OpenReturns, Opening, Copying, TypeInv, Blocked

LEMMA TypeInit == Init => TypeInv
  <1> SUFFICES ASSUME Init PROVE TypeInv
    OBVIOUS
  <1>1. /\ stack \in Seq(FrameType) /\ nodes \in Seq(NodeType)
        /\ writes \in Seq(WriteType) /\ Len(nodes) = 0
    BY EmptySeq DEF Init
  <1>2. TypeOK
    <2>1. cursor \in 1 .. Len(nodes) + 1
      BY <1>1 DEF Init
    <2>2. QED
      BY <1>1, <2>1 DEF Init, TypeOK, PCs
  <1>3. QED
    BY <1>2 DEF Init, TypeInv, Built, Narrow, Blocked

LEMMA NodeTypes ==
  ASSUME NEW name \in Entry \cup DotNames, NEW inode \in Nat, NEW parent \in Nat,
         NEW path \in Entry \cup {Root, NoEntry},
         NEW st \in [kind : {"dir", "reg"}, size : 0 .. Word - 1]
  PROVE  Node(name, inode, parent, path, st) \in NodeType
  BY DEF Node, NodeType, Unset

LEMMA StatTypes ==
  /\ DirStat \in Stats
  /\ DirStat \in [kind : {"dir", "reg"}, size : 0 .. Word - 1]
  /\ \A st \in Stats : st.kind = "reg" =>
       Truncated(st) \in [kind : {"dir", "reg"}, size : 0 .. Word - 1]
  <1>1. 0 \in 0 .. Word - 1
    BY WordPositive
  <1>2. DirStat \in Stats
    BY DEF Stats, DirStat
  <1>3. DirStat \in [kind : {"dir", "reg"}, size : 0 .. Word - 1]
    BY <1>1 DEF DirStat
  <1>4. ASSUME NEW st \in Stats, st.kind = "reg"
        PROVE  Truncated(st) \in [kind : {"dir", "reg"}, size : 0 .. Word - 1]
    <2>1. st \in [kind : {"reg"}, size : Sizes]
      BY <1>4 DEF Stats, DirStat, OtherStat
    <2>2. st.size \in Nat
      BY <2>1, SizeTypes
    <2>3. st.size % Word \in 0 .. Word - 1
      BY <2>2, ModWord
    <2>4. QED
      BY <2>1, <2>3 DEF Truncated
  <1>5. QED
    BY <1>2, <1>3, <1>4

LEMMA FrameTypes ==
  ASSUME NEW d \in Entry \cup {Root}, NEW inode \in Nat
  PROVE  Frame(d, inode) \in FrameType
  BY StatTypes DEF Frame, FrameType, Children

LEMMA EmitTypes ==
  ASSUME writes \in Seq(WriteType), NEW at \in Nat, NEW len \in Nat,
         NEW what \in {"bootloader", "header", "nodes", "file", "patch"},
         NEW node \in Nat, Emit(at, len, what, node)
  PROVE  writes' \in Seq(WriteType)
  BY AppendOne DEF Emit, WriteType

LEMMA MissedTypes ==
  ASSUME TypeOK, AddDirectory \/ OpenDirFails \/ AddFile \/ SkipOther
  PROVE  missed' \subseteq Entry \cup {NoEntry}
  <1>1. PICK e \in Entry, r \in Entry \cup {NoEntry}, st \in Stats : Reading(e, r, st)
    BY DEF AddDirectory, OpenDirFails, AddFile, SkipOther
  <1>2. QED
    BY <1>1 DEF Reading, TypeOK

LEMMA TypeWalk ==
  ASSUME TypeInv, Walk
  PROVE  TypeInv'
  <1> USE DEF TypeInv, hostVars, layoutVars
  <1>1. CASE AddDirectory
    <2>1. PICK e \in Entry, r \in Entry \cup {NoEntry}, st \in Stats :
            /\ Reading(e, r, st)
            /\ stack' = Append(Consumed(e, st), Frame(r, inodeNr))
            /\ r \in Entry
            /\ nodes' = nodes \o << Node(e, inodeNr, Top.inode, r, DirStat),
                                    DotNode(r, inodeNr),
                                    DotDotNode(r, inodeNr, Top.inode) >>
      BY <1>1 DEF AddDirectory, StatOk
    <2>2. Top \in FrameType /\ Consumed(e, st) \in Seq(FrameType)
      BY <2>1, ReadingTypes
    <2>3. Top.inode \in Nat /\ inodeNr \in Nat /\ nodes \in Seq(NodeType)
      BY <2>2 DEF FrameType, TypeOK
    <2>4. /\ Node(e, inodeNr, Top.inode, r, DirStat) \in NodeType
          /\ DotNode(r, inodeNr) \in NodeType
          /\ DotDotNode(r, inodeNr, Top.inode) \in NodeType
      <3>1. DirStat \in [kind : {"dir", "reg"}, size : 0 .. Word - 1]
        BY StatTypes
      <3>2. /\ "." \in Entry \cup DotNames /\ ".." \in Entry \cup DotNames
            /\ e \in Entry \cup DotNames /\ r \in Entry \cup {Root, NoEntry}
        BY <2>1 DEF DotNames
      <3>3. QED
        BY <2>3, <3>1, <3>2, NodeTypes DEF DotNode, DotDotNode
    <2>5. nodes' \in Seq(NodeType) /\ Len(nodes') = Len(nodes) + 3
      BY <2>1, <2>3, <2>4, AppendThree
    <2>6. stack' \in Seq(FrameType)
      BY <2>1, <2>2, <2>3, FrameTypes, AppendOne
    <2>7. pc = "walk" /\ pc' = "walk" /\ Len(nodes) \in Nat
      BY <1>1, <2>1, <2>3, LenProperties DEF Reading, AddDirectory
    <2>m. missed' \subseteq Entry \cup {NoEntry}
      BY <1>1, MissedTypes
    <2>8. TypeOK'
      BY <1>1, <2>3, <2>5, <2>6, <2>7, <2>m, SMTT(20) DEF AddDirectory, TypeOK, WellFormed
    <2>9. QED
      BY <1>1, <2>5, <2>7, <2>8 DEF AddDirectory, Built, Narrow, Blocked
  <1>2. CASE OpenDirFails
    BY <1>2, MissedTypes DEF OpenDirFails, TypeOK, WellFormed, Built, Narrow, Blocked, PCs
  <1>3. CASE AddFile
    <2>1. PICK e \in Entry, r \in Entry \cup {NoEntry}, st \in Stats :
            /\ Reading(e, r, st) /\ st.kind = "reg"
            /\ stack' = Consumed(e, st)
            /\ nodes' = Append(nodes, Node(e, inodeNr, Top.inode, r, Truncated(st)))
      BY <1>3 DEF AddFile
    <2>2. Top \in FrameType /\ stack' \in Seq(FrameType)
      BY <2>1, ReadingTypes
    <2>3. Top.inode \in Nat /\ inodeNr \in Nat /\ nodes \in Seq(NodeType)
      BY <2>2 DEF FrameType, TypeOK
    <2>4. Node(e, inodeNr, Top.inode, r, Truncated(st)) \in NodeType
      <3>1. Truncated(st) \in [kind : {"dir", "reg"}, size : 0 .. Word - 1]
        BY <2>1, StatTypes
      <3>2. e \in Entry \cup DotNames /\ r \in Entry \cup {Root, NoEntry}
        OBVIOUS
      <3>3. QED
        BY <2>3, <3>1, <3>2, NodeTypes
    <2>5. nodes' \in Seq(NodeType) /\ Len(nodes') = Len(nodes) + 1
      BY <2>1, <2>3, <2>4, AppendOne
    <2>6. pc = "walk" /\ pc' = "walk" /\ Len(nodes) \in Nat
      BY <1>3, <2>1, <2>3, LenProperties DEF Reading, AddFile
    <2>m. missed' \subseteq Entry \cup {NoEntry}
      BY <1>3, MissedTypes
    <2>7. TypeOK'
      BY <1>3, <2>2, <2>3, <2>5, <2>6, <2>m DEF AddFile, TypeOK, WellFormed
    <2>8. QED
      BY <1>3, <2>5, <2>6, <2>7 DEF AddFile, Built, Narrow, Blocked
  <1>4. CASE SkipOther
    <2>1. PICK e \in Entry, r \in Entry \cup {NoEntry}, st \in Stats :
            Reading(e, r, st) /\ stack' = Consumed(e, st)
      BY <1>4 DEF SkipOther
    <2>2. stack' \in Seq(FrameType) /\ pc = "walk"
      BY <2>1, ReadingTypes DEF Reading
    <2>3. QED
      BY <1>4, <2>2, MissedTypes DEF SkipOther, TypeOK, WellFormed, Built, Narrow, Blocked
  <1>5. CASE EndDirectory
    <2>1. stack \in Seq(FrameType) /\ Len(stack) \in Nat \ {0} /\ pc = "walk"
      BY <1>5, EmptySeq DEF EndDirectory, TypeOK
    <2>2. stack' \in Seq(FrameType)
      BY <1>5, <2>1, ElementOfSeq, SubSeqProperties DEF EndDirectory
    <2>3. QED
      BY <1>5, <2>1, <2>2 DEF EndDirectory, TypeOK, WellFormed, Built, Narrow, Blocked, PCs
  <1>6. QED
    BY <1>1, <1>2, <1>3, <1>4, <1>5 DEF Walk

LEMMA TypeStep == TypeInv /\ [Next]_vars => TypeInv'
  <1> SUFFICES ASSUME TypeInv, [Next]_vars
               PROVE  TypeInv'
    OBVIOUS
  <1> USE DEF TypeInv, hostVars, layoutVars
  <1>1. CASE WriteBootloader
    <2>1. PICK size \in BootSizes : Emit(0, size, "bootloader", 0)
                                    /\ ifsBase' = AlignUp(size, PageSize)
      BY <1>1 DEF WriteBootloader
    <2>2. size \in Nat
      BY SizeTypes
    <2>3. writes' \in Seq(WriteType) /\ ifsBase' \in Nat
      BY <2>1, <2>2, EmitTypes, AlignUpPage DEF TypeOK
    <2>4. QED
      BY <1>1, <2>3 DEF WriteBootloader, TypeOK, WellFormed, Built, Narrow, Blocked, PCs
  <1>2. CASE StartIFS
    <2>1. PICK junk \in Garbage :
            nodes' = << Node(Root, 0, 0, Root, [kind |-> "dir", size |-> junk]),
                        DotNode(Root, 0) >>
      BY <1>2 DEF StartIFS
    <2>2. /\ Node(Root, 0, 0, Root, [kind |-> "dir", size |-> junk]) \in NodeType
          /\ DotNode(Root, 0) \in NodeType
      <3>1. /\ DirStat \in [kind : {"dir", "reg"}, size : 0 .. Word - 1]
            /\ [kind |-> "dir", size |-> junk]
                 \in [kind : {"dir", "reg"}, size : 0 .. Word - 1]
        BY StatTypes, SizeTypes
      <3>2. "." \in Entry \cup DotNames /\ Root \in Entry \cup DotNames
            /\ Root \in Entry \cup {Root, NoEntry}
        BY DEF DotNames
      <3>3. QED
        BY <3>1, <3>2, NodeTypes DEF DotNode
    <2>3. nodes' \in Seq(NodeType) /\ Len(nodes') = 2
      BY <2>1, <2>2
    <2>4. stack' \in Seq(FrameType)
      BY <1>2, FrameTypes DEF StartIFS
    <2>5. cursor' = 1
      BY <1>2 DEF StartIFS, Built
    <2>6. QED
      BY <1>2, <2>3, <2>4, <2>5 DEF StartIFS, TypeOK, WellFormed, Built, Narrow, Blocked, PCs
  <1>3. CASE Walk
    BY <1>3, TypeWalk
  <1>4. CASE WriteHeader
    <2>1. Len(nodes) \in Nat
      BY LenProperties DEF TypeOK
    <2>2. writes' \in Seq(WriteType)
      BY <1>4, EmitTypes DEF WriteHeader, TypeOK, HeaderSize
    <2>3. offset' \in Nat /\ ifsSize' \in Nat
      BY <1>4, <2>1, FileTableOffsetIsNat DEF WriteHeader
    <2>4. QED
      BY <1>4, <2>1, <2>2, <2>3 DEF WriteHeader, TypeOK, WellFormed, Built, Narrow, Blocked, PCs
  <1>5. CASE CalculateFileOffset
    <2> DEFINE start == offset % Word
               end == start + nodes[cursor].size
               roundUp == (end % Word) + PageSize - 1
    <2>1. cursor \in 1 .. Len(nodes) /\ Len(nodes) \in Nat /\ nodes[cursor] \in NodeType
      BY <1>5, LenProperties, ElementOfSeq DEF CalculateFileOffset, TypeOK
    <2>2. start \in Nat /\ start < Word
      <3>1. offset \in Nat
        BY DEF TypeOK
      <3>2. QED
        BY <3>1, ModWord, WordPositive
    <2>3. end \in Nat
      BY <2>1, <2>2 DEF NodeType
    <2>4. end % Word \in Nat /\ end % Word < Word /\ roundUp \in Nat
      BY <2>3, ModWord, WordPositive DEF PageSize
    <2>5. AlignDown(roundUp % Word, PageSize) \in Nat
      BY <2>4, ModWord, AlignDownPage
    <2>6. [nodes[cursor] EXCEPT !.offset = start] \in NodeType
      BY <2>1, <2>2 DEF NodeType
    <2>7. /\ nodes' \in Seq(NodeType) /\ Len(nodes') = Len(nodes)
          /\ \A j \in 1 .. Len(nodes) : nodes'[j].offset =
               IF j = cursor THEN start ELSE nodes[j].offset
      <3>1. nodes' = [nodes EXCEPT ![cursor] = [nodes[cursor] EXCEPT !.offset = start]]
        BY <1>5 DEF CalculateFileOffset
      <3>2. [nodes[cursor] EXCEPT !.offset = start].offset = start
        BY <2>1 DEF NodeType
      <3>3. QED
        BY <2>1, <2>6, <3>1, <3>2, ExceptSeq DEF TypeOK
    <2>8. TypeOK'
      BY <1>5, <2>1, <2>4, <2>5, <2>7 DEF CalculateFileOffset, TypeOK, WellFormed
    <2>9. Narrow'
      BY <1>5, <2>1, <2>2, <2>4, <2>7, SMTT(30) DEF CalculateFileOffset, Narrow, TypeOK
    <2>10. QED
      BY <1>5, <2>7, <2>8, <2>9 DEF Built, Blocked, CalculateFileOffset
  <1>6. CASE WriteNodeTable
    <2>1. Len(nodes) \in Nat /\ Len(nodes) >= 2 /\ cursor = Len(nodes) + 1
      BY <1>6, LenProperties DEF WriteNodeTable, TypeOK, Built
    <2>2. writes' \in Seq(WriteType)
      <3>1. writes \in Seq(WriteType) /\ ifsBase \in Nat
        BY DEF TypeOK
      <3>2. ifsBase + NodeTableOffset \in Nat /\ TableSize(Len(nodes)) \in Nat
        <4>1. NodeTableOffset \in Nat /\ TableSize(Len(nodes)) \in Nat
          BY <2>1, FileTableOffsetIsNat
        <4>2. QED
          BY <3>1, <4>1
      <3>3. QED
        BY <1>6, <3>1, <3>2, EmitTypes DEF WriteNodeTable
    <2>3. QED
      BY <1>6, <2>1, <2>2 DEF WriteNodeTable, TypeOK, WellFormed, Built, Narrow, Blocked, PCs
  <1>7. CASE SkipContents
    BY <1>7, LenProperties DEF SkipContents, TypeOK, WellFormed, Built, Narrow, Blocked
  <1>8. CASE Copying
    <2>1. cursor \in 1 .. Len(nodes) /\ nodes[cursor] \in NodeType
      BY <1>8, LenProperties, ElementOfSeq DEF Copying, CopyContents, TypeOK
    <2>2. writes' \in Seq(WriteType)
      <3>1. writes \in Seq(WriteType) /\ ifsBase \in Nat /\ cursor \in Nat
        BY <2>1 DEF TypeOK
      <3>2. ifsBase + nodes[cursor].offset \in Nat /\ nodes[cursor].size \in Nat
        BY <2>1, <3>1, WordPositive DEF NodeType
      <3>3. QED
        BY <1>8, <3>1, <3>2, EmitTypes DEF Copying, CopyContents
    <2>3. QED
      BY <1>8, <2>1, <2>2, LenProperties
        DEF Copying, CopyContents, TypeOK, WellFormed, Built, Narrow, Blocked, PCs
  <1>9. CASE ReadFails
    BY <1>9 DEF ReadFails, TypeOK, WellFormed, Built, Narrow, Blocked, PCs
  <1>10. CASE PatchBootloader
    <2>1. writes' \in Seq(WriteType)
      BY <1>10, EmitTypes DEF PatchBootloader, TypeOK
    <2>2. QED
      BY <1>10, <2>1 DEF PatchBootloader, TypeOK, WellFormed, Built, Narrow, Blocked, PCs
  <1>11. CASE Exit
    BY <1>11 DEF Exit, TypeOK, WellFormed, Built, Narrow, Blocked, PCs
  <1>12. CASE HostChanges
    <2>1. PICK e \in Entry, st \in Stats \cup {NoStat} :
            /\ host' = [host EXCEPT ![e] = st] /\ touched' = touched \cup {e}
            /\ missed' = missed \ {e}
      BY <1>12 DEF HostChanges
    <2>2. QED
      BY <1>12, <2>1 DEF HostChanges, TypeOK, Built, Narrow, Blocked
  <1>13. CASE OpenBlocks
    BY <1>13 DEF OpenBlocks, Opening, TypeOK, WellFormed, Built, Narrow, Blocked, PCs
  <1>14. CASE UNCHANGED vars
    BY <1>14 DEF vars, TypeOK, WellFormed, Built, Narrow, Blocked
  <1>15. QED
    BY <1>1, <1>2, <1>3, <1>4, <1>5, <1>6, <1>7, <1>8, <1>9, <1>10, <1>11, <1>12,
       <1>13, <1>14, CopySteps DEF Next, Tool, Write, Terminated

(* Every reachable state has the declared types, and every offset and size
   that reaches the node table or the bootloader header fits 32 bits. *)
THEOREM TypeCorrect == Spec => []TypeOK
  <1>1. Spec => []TypeInv
    BY TypeInit, TypeStep, PTL DEF Spec
  <1>2. TypeInv => TypeOK
    BY DEF TypeInv
  <1>3. QED
    BY <1>1, <1>2, PTL

-----------------------------------------------------------------------------
(* The walk.  Inode numbers are unique because every number given out is
   below the counter, and the tree is sound because every active call of
   Recursive has a directory node in the list for the directory it reads. *)

Numbered == \A j \in 1 .. Len(nodes) :
  IsReal(nodes[j]) => nodes[j].inode < inodeNr

FrameSound(list, f) ==
  /\ f.left \subseteq Children(f.dir)
  /\ \E d \in 1 .. Len(list) : IsDirOf(list[d], f.dir, f.inode)

FramesSound == \A s \in 1 .. Len(stack) : FrameSound(nodes, stack[s])

WalkInv == Numbered /\ InodesUnique /\ TreeSound /\ FramesSound

LEMMA DotNamesNotReal == "." \notin Entry \cup {Root} /\ ".." \notin Entry \cup {Root}
                         /\ Root \notin Entry
  BY MkIfsAssumption DEF DotNames, Root

(* Soundness of a node and of a frame depend on the tree fields of the nodes
   before it only: they survive appending nodes and assigning offsets. *)
SameTree(m, n) == /\ m.name = n.name /\ m.inode = n.inode /\ m.parent = n.parent
                  /\ m.path = n.path /\ m.mode = n.mode

LEMMA NodeSoundKept ==
  ASSUME NEW list, NEW longer, NEW m \in Nat,
         \A i \in 1 .. m : SameTree(longer[i], list[i]),
         NEW j \in 1 .. m, NodeSound(list, j)
  PROVE  NodeSound(longer, j)
  <1>1. \A d \in 1 .. j - 1 : d \in 1 .. m
    OBVIOUS
  <1>2. QED
    BY <1>1 DEF NodeSound, IsDirOf, IsReal, SameTree

LEMMA FrameSoundKept ==
  ASSUME NEW list, NEW longer, Len(list) \in Nat, Len(longer) \in Nat,
         Len(list) <= Len(longer),
         \A i \in 1 .. Len(list) : SameTree(longer[i], list[i]),
         NEW f, FrameSound(list, f)
  PROVE  FrameSound(longer, f)
  <1>1. \A d \in 1 .. Len(list) : d \in 1 .. Len(longer)
    OBVIOUS
  <1>2. QED
    BY <1>1 DEF FrameSound, IsDirOf, IsReal, SameTree

(* The reading call has a sound frame, and consuming an entry keeps it so. *)
LEMMA ReadingSound ==
  ASSUME TypeOK, FramesSound, NEW e \in Entry, NEW r \in Entry \cup {NoEntry},
         NEW st \in Stats, Reading(e, r, st)
  PROVE  /\ Parent[e] = Top.dir
         /\ \E d \in 1 .. Len(nodes) : IsDirOf(nodes[d], Parent[e], Top.inode)
         /\ \A s \in 1 .. Len(Consumed(e, st)) : FrameSound(nodes, Consumed(e, st)[s])
  <1>1. /\ Len(stack) \in Nat \ {0} /\ Top \in FrameType
        /\ Len(Consumed(e, st)) = Len(stack)
        /\ Consumed(e, st)[Len(stack)] = [Top EXCEPT !.left = @ \ {e}, !.st = st]
        /\ \A i \in 1 .. Len(stack) - 1 : Consumed(e, st)[i] = stack[i]
    BY ReadingTypes, ZenonT(30)
  <1>2. FrameSound(nodes, Top)
    BY <1>1 DEF FramesSound, Top
  <1>3. Parent[e] = Top.dir
    BY <1>2 DEF Reading, FrameSound, Children
  <1>4. FrameSound(nodes, [Top EXCEPT !.left = @ \ {e}, !.st = st])
    BY <1>1, <1>2 DEF FrameSound, FrameType
  <1>5. \A s \in 1 .. Len(stack) : FrameSound(nodes, Consumed(e, st)[s])
    BY <1>1, <1>4 DEF FramesSound
  <1>6. QED
    BY <1>1, <1>2, <1>3, <1>5 DEF FrameSound

LEMMA WalkInit == Init => WalkInv
  BY DEF Init, WalkInv, Numbered, InodesUnique, TreeSound, FramesSound

(* Steps that leave list, counter and stack alone. *)
LEMMA WalkUnchanged ==
  ASSUME WalkInv, UNCHANGED <<nodes, inodeNr, stack>>
  PROVE  WalkInv'
  BY DEF WalkInv, Numbered, InodesUnique, TreeSound, FramesSound, IsReal,
     NodeSound, IsDirOf, FrameSound, Children

LEMMA WalkAddDirectory ==
  ASSUME TypeInv, WalkInv, AddDirectory
  PROVE  WalkInv'
  <1>1. PICK e \in Entry, r \in Entry \cup {NoEntry}, st \in Stats :
          /\ Reading(e, r, st) /\ r \in Entry
          /\ stack' = Append(Consumed(e, st), Frame(r, inodeNr))
          /\ nodes' = nodes \o << Node(e, inodeNr, Top.inode, r, DirStat),
                                  DotNode(r, inodeNr),
                                  DotDotNode(r, inodeNr, Top.inode) >>
          /\ inodeNr' = inodeNr + 3
    BY DEF AddDirectory, StatOk
  <1> DEFINE n == Len(nodes)
  <1>2. /\ n \in Nat /\ inodeNr \in Nat /\ Len(nodes') = n + 3
        /\ \A i \in 1 .. n : nodes'[i] = nodes[i]
        /\ nodes'[n + 1] = Node(e, inodeNr, Top.inode, r, DirStat)
        /\ nodes'[n + 2] = DotNode(r, inodeNr)
        /\ nodes'[n + 3] = DotDotNode(r, inodeNr, Top.inode)
    <2> DEFINE Any == NodeType \cup {nodes'[i] : i \in 1 .. 3} \cup
                 { Node(e, inodeNr, Top.inode, r, DirStat), DotNode(r, inodeNr),
                   DotDotNode(r, inodeNr, Top.inode) }
    <2>1. nodes \in Seq(Any) /\ inodeNr \in Nat
      BY SeqMonotonic DEF TypeInv, TypeOK
    <2>2. QED
      BY <1>1, <2>1, AppendThree, LenProperties
  <1>3. /\ IsReal(nodes'[n + 1]) /\ nodes'[n + 1].inode = inodeNr
        /\ ~ IsReal(nodes'[n + 2]) /\ ~ IsReal(nodes'[n + 3])
    BY <1>2, DotNamesNotReal DEF Node, DotNode, DotDotNode, IsReal
  <1>4. Numbered'
    <2> SUFFICES ASSUME NEW j \in 1 .. n + 3, IsReal(nodes'[j])
                 PROVE  nodes'[j].inode < inodeNr + 3
      BY <1>1, <1>2 DEF Numbered, IsReal
    <2>1. CASE j \in 1 .. n
      <3>1. nodes[j] \in NodeType
        BY <2>1, ElementOfSeq DEF TypeInv, TypeOK
      <3>2. nodes[j].inode \in Nat /\ nodes[j].inode < inodeNr
        BY <1>2, <2>1, <3>1 DEF WalkInv, Numbered, NodeType
      <3>3. QED
        BY <1>2, <2>1, <3>2
    <2>2. QED
      BY <1>2, <1>3, <2>1
  <1>5. InodesUnique'
    <2> SUFFICES ASSUME NEW j \in 1 .. n + 3, NEW k \in 1 .. n + 3,
                        IsReal(nodes'[j]), IsReal(nodes'[k]),
                        nodes'[j].inode = nodes'[k].inode
                 PROVE  j = k
      BY <1>2 DEF InodesUnique, IsReal
    <2>1. \A i \in 1 .. n : IsReal(nodes'[i]) => nodes'[i].inode < inodeNr
      BY <1>2 DEF WalkInv, Numbered
    <2>2. j \in 1 .. n + 1 /\ k \in 1 .. n + 1
      BY <1>2, <1>3
    <2>3. CASE j \in 1 .. n /\ k \in 1 .. n
      BY <1>2, <2>3 DEF WalkInv, InodesUnique
    <2>4. ~ (inodeNr < inodeNr)
      BY <1>2
    <2>5. CASE j \in 1 .. n /\ k = n + 1
      BY <1>3, <2>1, <2>4, <2>5
    <2>6. CASE k \in 1 .. n /\ j = n + 1
      BY <1>3, <2>1, <2>4, <2>6
    <2>7. \A i \in 1 .. n + 1 : i \in 1 .. n \/ i = n + 1
      BY <1>2
    <2>8. QED
      BY <2>2, <2>3, <2>5, <2>6, <2>7
  <1>6. PICK d \in 1 .. n : IsDirOf(nodes[d], Parent[e], Top.inode)
    BY <1>1, ReadingSound DEF TypeInv, WalkInv
  <1>7. IsDirOf(nodes'[d], Parent[e], Top.inode)
    BY <1>2, <1>6
  <1>8. /\ IsDirOf(nodes'[n + 1], r, inodeNr)
        /\ nodes'[n + 1].parent = Top.inode
    BY <1>2, <1>3 DEF IsDirOf, Node, DirStat
  <1>9. TreeSound'
    <2>1. \A i \in 1 .. n : SameTree(nodes'[i], nodes[i])
      BY <1>2 DEF SameTree
    <2>2. \A j \in 1 .. n : NodeSound(nodes, j)
      BY DEF WalkInv, TreeSound
    <2>3. \A j \in 1 .. n : NodeSound(nodes', j)
      BY <1>2, <2>1, <2>2, NodeSoundKept
    <2>4. NodeSound(nodes', n + 1)
      <3>1. d \in 1 .. (n + 1) - 1
        BY <1>2
      <3>2. nodes'[n + 1].name = e /\ nodes'[n + 1].parent = Top.inode
        BY <1>2 DEF Node
      <3>3. e # Root /\ e # "." /\ e # ".."
        BY DotNamesNotReal
      <3>4. QED
        BY <1>7, <3>1, <3>2, <3>3 DEF NodeSound
    <2>5. NodeSound(nodes', n + 2)
      <3>1. n + 1 \in 1 .. (n + 2) - 1
        BY <1>2
      <3>2. /\ nodes'[n + 2].name = "." /\ nodes'[n + 2].parent = inodeNr
            /\ nodes'[n + 2].inode = inodeNr /\ nodes'[n + 2].path = r
        BY <1>2 DEF DotNode, Node
      <3>3. QED
        BY <1>8, <3>1, <3>2, DotNamesNotReal DEF NodeSound, Root
    <2>6. NodeSound(nodes', n + 3)
      <3>1. n + 1 \in 1 .. (n + 3) - 1
        BY <1>2
      <3>2. /\ nodes'[n + 3].name = ".." /\ nodes'[n + 3].parent = inodeNr
            /\ nodes'[n + 3].inode = Top.inode /\ nodes'[n + 3].path = r
        BY <1>2 DEF DotDotNode, Node
      <3>3. QED
        BY <1>8, <3>1, <3>2, DotNamesNotReal DEF NodeSound, Root
    <2>7. \A j \in 1 .. n + 3 : j \in 1 .. n \/ j = n + 1 \/ j = n + 2 \/ j = n + 3
      BY <1>2
    <2>8. \A j \in 1 .. n + 3 : NodeSound(nodes', j)
      BY <2>3, <2>4, <2>5, <2>6, <2>7
    <2>9. QED
      BY <1>2, <2>8 DEF TreeSound, NodeSound, IsDirOf, IsReal
  <1>10. FramesSound'
    <2>1. /\ Len(Consumed(e, st)) \in Nat
          /\ Consumed(e, st) \in Seq(FrameType)
          /\ \A s \in 1 .. Len(Consumed(e, st)) : FrameSound(nodes, Consumed(e, st)[s])
      BY <1>1, ReadingTypes, ReadingSound DEF TypeInv, WalkInv
    <2>2. \A i \in 1 .. n : SameTree(nodes'[i], nodes[i])
      BY <1>2 DEF SameTree
    <2>3. \A f : FrameSound(nodes, f) => FrameSound(nodes', f)
      BY <1>2, <2>2, FrameSoundKept
    <2>4. FrameSound(nodes', Frame(r, inodeNr))
      BY <1>2, <1>8 DEF FrameSound, Frame
    <2>5. /\ Len(stack') = Len(Consumed(e, st)) + 1
          /\ \A s \in 1 .. Len(Consumed(e, st)) : stack'[s] = Consumed(e, st)[s]
          /\ stack'[Len(Consumed(e, st)) + 1] = Frame(r, inodeNr)
      BY <1>1, <1>2, <2>1, FrameTypes, AppendOne
    <2>6. \A s \in 1 .. Len(stack') : FrameSound(nodes', stack'[s])
      BY <2>1, <2>3, <2>4, <2>5
    <2>7. QED
      BY <2>6 DEF FramesSound, FrameSound, Children, IsDirOf, IsReal
  <1>11. QED
    BY <1>4, <1>5, <1>9, <1>10 DEF WalkInv

LEMMA WalkAddFile ==
  ASSUME TypeInv, WalkInv, AddFile
  PROVE  WalkInv'
  <1>1. PICK e \in Entry, r \in Entry \cup {NoEntry}, st \in Stats :
          /\ Reading(e, r, st) /\ st.kind = "reg"
          /\ stack' = Consumed(e, st)
          /\ nodes' = Append(nodes, Node(e, inodeNr, Top.inode, r, Truncated(st)))
          /\ inodeNr' = inodeNr + 1
    BY DEF AddFile
  <1> DEFINE n == Len(nodes)
  <1>2. /\ n \in Nat /\ inodeNr \in Nat /\ Len(nodes') = n + 1
        /\ \A i \in 1 .. n : nodes'[i] = nodes[i]
        /\ nodes'[n + 1] = Node(e, inodeNr, Top.inode, r, Truncated(st))
    <2> DEFINE Any == NodeType \cup { Node(e, inodeNr, Top.inode, r, Truncated(st)) }
    <2>1. nodes \in Seq(Any) /\ inodeNr \in Nat
      BY SeqMonotonic DEF TypeInv, TypeOK
    <2>2. QED
      BY <1>1, <2>1, AppendOne, LenProperties
  <1>3. IsReal(nodes'[n + 1]) /\ nodes'[n + 1].inode = inodeNr
    BY <1>2 DEF Node, IsReal
  <1>4. Numbered'
    <2> SUFFICES ASSUME NEW j \in 1 .. n + 1, IsReal(nodes'[j])
                 PROVE  nodes'[j].inode < inodeNr + 1
      BY <1>1, <1>2 DEF Numbered, IsReal
    <2>1. CASE j \in 1 .. n
      <3>1. nodes[j] \in NodeType
        BY <2>1, ElementOfSeq DEF TypeInv, TypeOK
      <3>2. nodes[j].inode \in Nat /\ nodes[j].inode < inodeNr
        BY <1>2, <2>1, <3>1 DEF WalkInv, Numbered, NodeType
      <3>3. QED
        BY <1>2, <2>1, <3>2
    <2>2. QED
      BY <1>2, <1>3, <2>1
  <1>5. InodesUnique'
    <2> SUFFICES ASSUME NEW j \in 1 .. n + 1, NEW k \in 1 .. n + 1,
                        IsReal(nodes'[j]), IsReal(nodes'[k]),
                        nodes'[j].inode = nodes'[k].inode
                 PROVE  j = k
      BY <1>2 DEF InodesUnique, IsReal
    <2>1. \A i \in 1 .. n : IsReal(nodes'[i]) => nodes'[i].inode < inodeNr
      BY <1>2 DEF WalkInv, Numbered
    <2>2. CASE j \in 1 .. n /\ k \in 1 .. n
      BY <1>2, <2>2 DEF WalkInv, InodesUnique
    <2>3. QED
      BY <1>2, <1>3, <2>1, <2>2
  <1>6. PICK d \in 1 .. n : IsDirOf(nodes[d], Parent[e], Top.inode)
    BY <1>1, ReadingSound DEF TypeInv, WalkInv
  <1>7. IsDirOf(nodes'[d], Parent[e], Top.inode)
    BY <1>2, <1>6
  <1>8. TreeSound'
    <2>1. \A i \in 1 .. n : SameTree(nodes'[i], nodes[i])
      BY <1>2 DEF SameTree
    <2>2. \A j \in 1 .. n : NodeSound(nodes, j)
      BY DEF WalkInv, TreeSound
    <2>3. \A j \in 1 .. n : NodeSound(nodes', j)
      BY <1>2, <2>1, <2>2, NodeSoundKept
    <2>4. NodeSound(nodes', n + 1)
      <3>1. d \in 1 .. (n + 1) - 1
        BY <1>2
      <3>2. nodes'[n + 1].name = e /\ nodes'[n + 1].parent = Top.inode
        BY <1>2 DEF Node
      <3>3. e # Root /\ e # "." /\ e # ".."
        BY DotNamesNotReal
      <3>4. QED
        BY <1>7, <3>1, <3>2, <3>3 DEF NodeSound
    <2>5. \A j \in 1 .. n + 1 : NodeSound(nodes', j)
      BY <1>2, <2>3, <2>4
    <2>6. QED
      BY <1>2, <2>5 DEF TreeSound, NodeSound, IsDirOf, IsReal
  <1>9. FramesSound'
    <2>1. \A s \in 1 .. Len(stack') : FrameSound(nodes, stack'[s])
      BY <1>1, ReadingSound DEF TypeInv, WalkInv
    <2>2. \A i \in 1 .. n : SameTree(nodes'[i], nodes[i])
      BY <1>2 DEF SameTree
    <2>3. \A f : FrameSound(nodes, f) => FrameSound(nodes', f)
      BY <1>2, <2>2, FrameSoundKept
    <2>4. \A s \in 1 .. Len(stack') : FrameSound(nodes', stack'[s])
      BY <2>1, <2>3
    <2>5. QED
      BY <2>4 DEF FramesSound, FrameSound, Children, IsDirOf, IsReal
  <1>10. QED
    BY <1>4, <1>5, <1>8, <1>9 DEF WalkInv

LEMMA WalkStart ==
  ASSUME StartIFS
  PROVE  WalkInv'
  <1>1. PICK junk \in Garbage :
          nodes' = << Node(Root, 0, 0, Root, [kind |-> "dir", size |-> junk]),
                      DotNode(Root, 0) >>
    BY DEF StartIFS
  <1>2. /\ Len(nodes') = 2 /\ \A j \in 1 .. 2 : j = 1 \/ j = 2
        /\ IsReal(nodes'[1]) /\ ~ IsReal(nodes'[2])
        /\ nodes'[1].inode = 0 /\ nodes'[1].name = Root
        /\ IsDirOf(nodes'[1], Root, 0)
    BY <1>1, DotNamesNotReal DEF Node, DotNode, IsReal, IsDirOf
  <1>3. /\ nodes'[2].name = "." /\ nodes'[2].inode = 0 /\ nodes'[2].parent = 0
        /\ nodes'[2].path = Root
    BY <1>1 DEF Node, DotNode
  <1>4. Numbered' /\ InodesUnique'
    BY <1>2 DEF StartIFS, Numbered, InodesUnique, IsReal
  <1>5. NodeSound(nodes', 1)
    BY <1>2, DotNamesNotReal DEF NodeSound, Root
  <1>6. NodeSound(nodes', 2)
    <2>1. 1 \in 1 .. 2 - 1
      OBVIOUS
    <2>2. QED
      BY <1>2, <1>3, <2>1, DotNamesNotReal DEF NodeSound, Root
  <1>7. TreeSound'
    BY <1>2, <1>5, <1>6 DEF TreeSound, NodeSound, IsDirOf, IsReal
  <1>8. FrameSound(nodes', Frame(Root, 0))
    BY <1>2 DEF FrameSound, Frame
  <1>9. Len(stack') = 1 /\ stack'[1] = Frame(Root, 0)
    BY DEF StartIFS
  <1>10. FramesSound'
    BY <1>8, <1>9 DEF FramesSound, FrameSound, Children, IsDirOf, IsReal
  <1>11. QED
    BY <1>4, <1>7, <1>10 DEF WalkInv

(* Assigning offsets changes nothing the walk established. *)
LEMMA WalkOffset ==
  ASSUME TypeInv, WalkInv, CalculateFileOffset
  PROVE  WalkInv'
  <1> DEFINE n == Len(nodes)
  <1>1. /\ n \in Nat /\ Len(nodes') = n
        /\ \A i \in 1 .. n : SameTree(nodes'[i], nodes[i])
    <2>1. nodes \in Seq(NodeType) /\ cursor \in 1 .. n
      BY DEF CalculateFileOffset, TypeInv, TypeOK
    <2>2. nodes' = [nodes EXCEPT ![cursor] =
                      [nodes[cursor] EXCEPT !.offset = offset % Word]]
      BY DEF CalculateFileOffset
    <2>3. nodes[cursor] \in NodeType
      BY <2>1, ElementOfSeq
    <2>4. SameTree([nodes[cursor] EXCEPT !.offset = offset % Word], nodes[cursor])
      BY <2>3 DEF SameTree, NodeType
    <2>5. \A i \in 1 .. n : nodes'[i] = IF i = cursor
             THEN [nodes[cursor] EXCEPT !.offset = offset % Word] ELSE nodes[i]
      BY <2>1, <2>2, LenProperties
    <2>6. Len(nodes') = n /\ n \in Nat
      BY <2>1, <2>2, LenProperties
    <2>7. QED
      BY <2>4, <2>5, <2>6 DEF SameTree
  <1>2. UNCHANGED <<inodeNr, stack>>
    BY DEF CalculateFileOffset
  <1>3. Numbered' /\ InodesUnique'
    BY <1>1, <1>2 DEF WalkInv, Numbered, InodesUnique, IsReal, SameTree
  <1>4. TreeSound'
    <2>1. \A j \in 1 .. n : NodeSound(nodes, j)
      BY DEF WalkInv, TreeSound
    <2>2. \A j \in 1 .. n : NodeSound(nodes', j)
      BY <1>1, <2>1, NodeSoundKept
    <2>3. QED
      BY <1>1, <2>2 DEF TreeSound, NodeSound, IsDirOf, IsReal
  <1>5. FramesSound'
    <2>1. \A f : FrameSound(nodes, f) => FrameSound(nodes', f)
      BY <1>1, FrameSoundKept
    <2>2. \A s \in 1 .. Len(stack) : FrameSound(nodes', stack[s])
      BY <2>1 DEF WalkInv, FramesSound
    <2>3. QED
      BY <1>2, <2>2 DEF FramesSound, FrameSound, Children, IsDirOf, IsReal
  <1>6. QED
    BY <1>3, <1>4, <1>5 DEF WalkInv

LEMMA WalkStep == TypeInv /\ WalkInv /\ [Next]_vars => WalkInv'
  <1> SUFFICES ASSUME TypeInv, WalkInv, [Next]_vars
               PROVE  WalkInv'
    OBVIOUS
  <1>1. CASE StartIFS
    BY <1>1, WalkStart
  <1>2. CASE AddDirectory
    BY <1>2, WalkAddDirectory
  <1>3. CASE AddFile
    BY <1>3, WalkAddFile
  <1>4. CASE SkipOther
    <2>1. PICK e \in Entry, r \in Entry \cup {NoEntry}, st \in Stats :
            Reading(e, r, st) /\ stack' = Consumed(e, st)
      BY <1>4 DEF SkipOther
    <2>2. \A s \in 1 .. Len(stack') : FrameSound(nodes, stack'[s])
      BY <2>1, ReadingSound DEF TypeInv, WalkInv
    <2>3. nodes' = nodes /\ inodeNr' = inodeNr + 1
      BY <1>4 DEF SkipOther
    <2>4. FramesSound'
      BY <2>2, <2>3 DEF FramesSound, FrameSound, Children, IsDirOf, IsReal
    <2>5. InodesUnique' /\ TreeSound'
      BY <2>3 DEF WalkInv, InodesUnique, TreeSound, NodeSound, IsDirOf, IsReal
    <2>6. Numbered'
      <3>1. \A j \in 1 .. Len(nodes) : nodes[j].inode \in Nat
        <4>1. \A j \in 1 .. Len(nodes) : nodes[j] \in NodeType
          BY ElementOfSeq DEF TypeInv, TypeOK
        <4>2. QED
          BY <4>1 DEF NodeType
      <3>2. inodeNr \in Nat
        BY DEF TypeInv, TypeOK
      <3>3. QED
        BY <2>3, <3>1, <3>2 DEF WalkInv, Numbered, IsReal
    <2>7. QED
      BY <2>4, <2>5, <2>6 DEF WalkInv
  <1>5. CASE EndDirectory
    <2>1. Len(stack) \in Nat \ {0} /\ stack \in Seq(FrameType)
      BY <1>5, EmptySeq DEF EndDirectory, TypeInv, TypeOK
    <2>2. stack' = SubSeq(stack, 1, Len(stack) - 1) /\ UNCHANGED <<nodes, inodeNr>>
      BY <1>5 DEF EndDirectory
    <2>3. /\ Len(stack') = Len(stack) - 1
          /\ \A s \in 1 .. Len(stack) - 1 : stack'[s] = stack[s]
      BY <2>1, <2>2, DropLast
    <2>4. FramesSound'
      <3>1. \A s \in 1 .. Len(stack') : FrameSound(nodes, stack'[s])
        BY <2>1, <2>3 DEF WalkInv, FramesSound
      <3>2. QED
        BY <2>2, <3>1 DEF FramesSound, FrameSound, Children, IsDirOf, IsReal
    <2>5. QED
      BY <2>2, <2>4 DEF WalkInv, Numbered, InodesUnique, TreeSound, NodeSound,
         IsDirOf, IsReal
  <1>6. CASE CalculateFileOffset
    BY <1>6, WalkOffset
  <1>7. CASE UNCHANGED <<nodes, inodeNr, stack>>
    BY <1>7, WalkUnchanged
  <1>8. QED
    BY <1>1, <1>2, <1>3, <1>4, <1>5, <1>6, <1>7
    DEF Next, Tool, Walk, Write, Terminated, vars, WriteBootloader, OpenDirFails,
        WriteHeader, WriteNodeTable, SkipContents, WriteContents, ReadFails,
        OpenBlocks, OpenReturns, CopyContents, PatchBootloader, Exit, HostChanges

(* Whatever the host tree and whatever happens to it meanwhile, no two files
   or directories of the node list have the same inode number. *)
THEOREM UniqueInodes == Spec => []InodesUnique
  <1>1. Spec => [](TypeInv /\ WalkInv)
    BY TypeInit, TypeStep, WalkInit, WalkStep, PTL DEF Spec
  <1>2. TypeInv /\ WalkInv => InodesUnique
    BY DEF WalkInv
  <1>3. QED
    BY <1>1, <1>2, PTL

(* The parent numbers of the node list always describe the tree that was
   walked, for every depth of nesting. *)
THEOREM SoundTree == Spec => []TreeSound
  <1>1. Spec => [](TypeInv /\ WalkInv)
    BY TypeInit, TypeStep, WalkInit, WalkStep, PTL DEF Spec
  <1>2. TypeInv /\ WalkInv => TreeSound
    BY DEF WalkInv
  <1>3. QED
    BY <1>1, <1>2, PTL

-----------------------------------------------------------------------------
(* The image.  What is written first, second and third is known exactly, the
   rest are files in list order and at last the patch; and as long as no sum
   wrapped, each node starts where all nodes before it have ended. *)

WriteSound(w, k) ==
  /\ k = 1 => w.what = "bootloader" /\ w.at = 0 /\ w.len <= ifsBase
  /\ k = 2 => w.what = "header" /\ w.at = ifsBase /\ w.len = HeaderSize
  /\ k = 3 => /\ w.what = "nodes" /\ w.at = ifsBase + NodeTableOffset
              /\ w.len = TableSize(Len(nodes))
  /\ k >= 4 => w.what \in {"file", "patch"}
  /\ w.what = "file" => /\ k >= 4 /\ w.node \in 1 .. Len(nodes)
                        /\ w.at = ifsBase + nodes[w.node].offset
                        /\ w.len = nodes[w.node].size
  /\ w.what = "patch" => /\ k = Len(writes) /\ pc \in {"done", "failed"}
                         /\ w.at = 16 /\ w.len = 8

Phases == /\ pc = "bootloader" => Len(writes) = 0
          /\ pc \in {"start", "walk", "table"} => Len(writes) = 1
          /\ pc = "offsets" => Len(writes) = 2
          /\ pc \in {"contents", "blocked", "done"} => Len(writes) >= 3

WritesSound == \A k \in 1 .. Len(writes) : WriteSound(writes[k], k)

FilesInOrder == \A k \in 1 .. Len(writes) : writes[k].what = "file" =>
  /\ pc \in {"contents", "blocked"} => writes[k].node < cursor
  /\ \A l \in 1 .. k - 1 : writes[l].what = "file" => writes[l].node < writes[k].node

BaseSound == ifsBase = 0 \/ ifsBase >= PageSize

EndOf(n) == n.offset + n.size

Placed(m) ==
  /\ FileTableOffset(Len(nodes)) <= ifsSize
  /\ \A j \in 1 .. m : /\ FileTableOffset(Len(nodes)) <= nodes[j].offset
                       /\ EndOf(nodes[j]) <= ifsSize
                       /\ \A i \in 1 .. j - 1 : EndOf(nodes[i]) <= nodes[j].offset

PlacedWhenWritten == Len(writes) >= 3 /\ ~ wrapped => Placed(Len(nodes))

PlacedSoFar == pc = "offsets" /\ ~ wrapped => Placed(cursor - 1) /\ ifsSize <= offset

LayoutInv == /\ Phases /\ WritesSound /\ FilesInOrder /\ BaseSound
             /\ PlacedWhenWritten /\ PlacedSoFar

LEMMA LayoutInit == Init => LayoutInv
  BY DEF Init, LayoutInv, Phases, WritesSound, FilesInOrder, BaseSound,
     PlacedWhenWritten, PlacedSoFar

LEMMA TableFits ==
  ASSUME NEW n \in Nat
  PROVE  /\ NodeTableOffset = 128 /\ TableSize(n) \in Nat
         /\ NodeTableOffset + TableSize(n) <= FileTableOffset(n)
         /\ FileTableOffset(n) \in Nat
  <1>1. NodeTableOffset = 128
    BY DEF NodeTableOffset, AlignUp, HeaderSize
  <1>2. TableSize(n) \in Nat
    BY FileTableOffsetIsNat
  <1>3. QED
    BY <1>1, <1>2, AlignUpPage DEF FileTableOffset

LEMMA NodesTyped ==
  ASSUME TypeOK
  PROVE  /\ Len(nodes) \in Nat
         /\ \A j \in 1 .. Len(nodes) : nodes[j].offset \in Nat /\ nodes[j].size \in Nat
  <1>1. \A j \in 1 .. Len(nodes) : nodes[j] \in NodeType
    BY ElementOfSeq DEF TypeOK
  <1>2. QED
    <2>1. \A j \in 1 .. Len(nodes) :
            nodes[j].offset \in Nat /\ nodes[j].size \in 0 .. Word - 1
      BY <1>1 DEF NodeType
    <2>2. QED
      BY <2>1, LenProperties, WordPositive DEF TypeOK

LEMMA WritesTyped ==
  ASSUME TypeOK
  PROVE  /\ Len(writes) \in Nat
         /\ \A k \in 1 .. Len(writes) :
              writes[k].at \in Nat /\ writes[k].len \in Nat /\ writes[k].node \in Nat
  <1>1. \A k \in 1 .. Len(writes) : writes[k] \in WriteType
    BY ElementOfSeq DEF TypeOK
  <1>2. QED
    BY <1>1, LenProperties DEF WriteType, TypeOK

LEMMA EmitAppends ==
  ASSUME TypeOK, NEW at, NEW len, NEW what, NEW node, Emit(at, len, what, node)
  PROVE  /\ Len(writes) \in Nat /\ Len(writes') = Len(writes) + 1
         /\ \A k \in 1 .. Len(writes) : writes'[k] = writes[k]
         /\ LET w == writes'[Len(writes) + 1]
            IN  w.at = at /\ w.len = len /\ w.what = what /\ w.node = node
  <1> DEFINE w == [at |-> at, len |-> len, what |-> what, node |-> node]
             Any == WriteType \cup {w}
  <1>1. writes \in Seq(Any) /\ w \in Any
    BY SeqMonotonic DEF TypeOK
  <1>2. writes' = Append(writes, w)
    BY DEF Emit
  <1>3. QED
    BY <1>1, <1>2, AppendOne, LenProperties

LEMMA CancelBase ==
  ASSUME NEW base \in Nat, NEW x \in Nat, NEW y \in Nat, NEW z \in Nat,
         base + x < base + y + z
  PROVE  x < y + z
  OBVIOUS

(* The invariant has no overlapping parts. *)
LEMMA LayoutImpliesNoClobber == TypeOK /\ LayoutInv => NoClobber
  <1> SUFFICES ASSUME TypeOK, LayoutInv, ~ wrapped,
                      NEW j \in 1 .. Len(writes), NEW k \in 1 .. Len(writes),
                      j < k, Overlap(writes[j], writes[k])
               PROVE  writes[j].what = "bootloader" /\ writes[k].what = "patch"
    BY DEF NoClobber
  <1> DEFINE F == FileTableOffset(Len(nodes))
  <1>1. /\ Len(writes) \in Nat /\ Len(nodes) \in Nat /\ ifsBase \in Nat
        /\ \A i \in 1 .. Len(writes) :
             writes[i].at \in Nat /\ writes[i].len \in Nat /\ writes[i].node \in Nat
        /\ \A i \in 1 .. Len(nodes) : nodes[i].offset \in Nat /\ nodes[i].size \in Nat
    BY WritesTyped, NodesTyped DEF TypeOK
  <1>2. NodeTableOffset = 128 /\ TableSize(Len(nodes)) \in Nat /\ F \in Nat
        /\ 128 + TableSize(Len(nodes)) <= F
    BY <1>1, TableFits
  <1>3. WriteSound(writes[j], j) /\ WriteSound(writes[k], k)
    BY DEF LayoutInv, WritesSound
  <1>4. ifsBase = 0 \/ ifsBase >= 4096
    BY DEF LayoutInv, BaseSound, PageSize
  <1>5. writes[j].at < writes[k].at + writes[k].len
        /\ writes[k].at < writes[j].at + writes[j].len
    BY DEF Overlap
  <1>6. writes[j].what # "patch"
    BY <1>1, <1>3 DEF WriteSound
  <1>7. CASE writes[k].what = "patch"
    <2>1. writes[k].at = 16 /\ writes[k].len = 8
      BY <1>3, <1>7 DEF WriteSound
    <2>2. j # 2
      BY <1>1, <1>3, <1>4, <1>5, <2>1 DEF WriteSound, HeaderSize
    <2>3. j # 3
      BY <1>1, <1>2, <1>3, <1>4, <1>5, <2>1 DEF WriteSound
    <2>4. ~ (j >= 4)
      <3> SUFFICES ASSUME j >= 4 PROVE FALSE
        OBVIOUS
      <3>1. writes[j].what = "file"
        BY <1>3, <1>6 DEF WriteSound
      <3>2. writes[j].node \in 1 .. Len(nodes)
            /\ writes[j].at = ifsBase + nodes[writes[j].node].offset
        BY <1>3, <3>1 DEF WriteSound
      <3>3. Placed(Len(nodes))
        BY <1>1 DEF LayoutInv, PlacedWhenWritten
      <3>4. F <= nodes[writes[j].node].offset
        BY <3>2, <3>3 DEF Placed
      <3>5. QED
        BY <1>1, <1>2, <1>5, <2>1, <3>2, <3>4, SMTT(30)
    <2>5. j = 1
      BY <1>1, <2>2, <2>3, <2>4
    <2>6. QED
      BY <1>3, <1>7, <2>5 DEF WriteSound
  <1>8. CASE writes[k].what = "file"
    <2> DEFINE m == writes[k].node
    <2>1. /\ m \in 1 .. Len(nodes) /\ writes[k].at = ifsBase + nodes[m].offset
          /\ writes[k].len = nodes[m].size /\ k >= 4
      BY <1>3, <1>8 DEF WriteSound
    <2>2. Placed(Len(nodes))
      BY <1>1, <2>1 DEF LayoutInv, PlacedWhenWritten
    <2>3. F <= nodes[m].offset /\ nodes[m].offset \in Nat /\ nodes[m].size \in Nat
      BY <1>1, <2>1, <2>2 DEF Placed
    <2> HIDE DEF m
    <2>4. j # 1
      <3>1. ifsBase + nodes[m].offset < writes[j].at + writes[j].len
        BY <1>5, <2>1
      <3>2. j = 1 => writes[j].at = 0 /\ writes[j].len <= ifsBase
        BY <1>3 DEF WriteSound
      <3>3. QED
        BY <1>1, <2>3, <3>1, <3>2
    <2>5. j # 2
      <3>1. ifsBase + nodes[m].offset < writes[j].at + writes[j].len
        BY <1>5, <2>1
      <3>2. j = 2 => writes[j].at = ifsBase /\ writes[j].len = 16
        BY <1>3 DEF WriteSound, HeaderSize
      <3>3. ifsBase \in Nat /\ nodes[m].offset \in Nat /\ 128 <= nodes[m].offset
        BY <1>1, <1>2, <2>3
      <3>4. QED
        BY <3>1, <3>2, <3>3
    <2>6. j # 3
      BY <1>1, <1>2, <1>3, <1>5, <2>1, <2>3, SMTT(30) DEF WriteSound
    <2>7. j >= 4
      BY <1>1, <2>4, <2>5, <2>6
    <2>8. writes[j].what = "file"
      BY <1>3, <1>6, <2>7 DEF WriteSound
    <2>9. /\ writes[j].node \in 1 .. Len(nodes)
          /\ writes[j].at = ifsBase + nodes[writes[j].node].offset
          /\ writes[j].len = nodes[writes[j].node].size
      BY <1>3, <2>8 DEF WriteSound
    <2>10. j \in 1 .. k - 1
      BY <1>1
    <2>11. writes[j].node < m
      BY <1>8, <2>8, <2>10 DEF LayoutInv, FilesInOrder, m
    <2>12. writes[j].node \in 1 .. m - 1
      BY <1>1, <2>1, <2>9, <2>11
    <2>13. EndOf(nodes[writes[j].node]) <= nodes[m].offset
      BY <2>1, <2>2, <2>12 DEF Placed
    <2>14. nodes[writes[j].node].offset \in Nat /\ nodes[writes[j].node].size \in Nat
      BY <1>1, <2>9
    <2>15. ifsBase + nodes[m].offset
             < ifsBase + nodes[writes[j].node].offset + nodes[writes[j].node].size
      BY <1>5, <2>1, <2>9
    <2>16. ifsBase \in Nat /\ nodes[m].offset \in Nat
      BY <1>1, <2>3
    <2>17. nodes[writes[j].node].offset + nodes[writes[j].node].size <= nodes[m].offset
      BY <2>13 DEF EndOf
    <2>18. ~ (nodes[m].offset
                < nodes[writes[j].node].offset + nodes[writes[j].node].size)
      BY <2>14, <2>16, <2>17
    <2>19. nodes[m].offset < nodes[writes[j].node].offset + nodes[writes[j].node].size
      BY <2>14, <2>15, <2>16, CancelBase
    <2>20. QED
      BY <2>18, <2>19
  <1>9. CASE k = 2 \/ k = 3
    <2>1. j = 1 \/ (j = 2 /\ k = 3)
      BY <1>1, <1>9
    <2>2. CASE j = 1
      BY <1>1, <1>2, <1>3, <1>5, <1>9, <2>2, SMTT(30) DEF WriteSound
    <2>3. CASE j = 2 /\ k = 3
      BY <1>1, <1>2, <1>3, <1>5, <2>3 DEF WriteSound, HeaderSize
    <2>4. QED
      BY <2>1, <2>2, <2>3
  <1>10. k = 2 \/ k = 3 \/ k >= 4
    BY <1>1
  <1>11. QED
    BY <1>3, <1>7, <1>8, <1>9, <1>10 DEF WriteSound

LEMMA LayoutImpliesSizeCovers == TypeOK /\ LayoutInv => SizeCovers
  <1> SUFFICES ASSUME TypeOK, LayoutInv, ~ wrapped, pc \in {"contents", "blocked", "done"},
                      NEW k \in 2 .. Len(writes), writes[k].what # "patch"
               PROVE  writes[k].at + writes[k].len <= ifsBase + ifsSize
    BY DEF SizeCovers
  <1>1. Len(writes) \in Nat /\ Len(nodes) \in Nat /\ ifsBase \in Nat /\ ifsSize \in Nat
        /\ \A i \in 1 .. Len(nodes) : nodes[i].offset \in Nat /\ nodes[i].size \in Nat
    BY WritesTyped, NodesTyped DEF TypeOK
  <1>2. NodeTableOffset = 128 /\ TableSize(Len(nodes)) \in Nat
        /\ FileTableOffset(Len(nodes)) \in Nat
        /\ 128 + TableSize(Len(nodes)) <= FileTableOffset(Len(nodes))
    BY <1>1, TableFits
  <1>3. Placed(Len(nodes))
    BY <1>1 DEF LayoutInv, Phases, PlacedWhenWritten
  <1>4. WriteSound(writes[k], k)
    BY <1>1 DEF LayoutInv, WritesSound
  <1>5. CASE k = 2
    BY <1>1, <1>2, <1>3, <1>4, <1>5 DEF WriteSound, HeaderSize, Placed
  <1>6. CASE k = 3
    BY <1>1, <1>2, <1>3, <1>4, <1>6 DEF WriteSound, Placed
  <1>7. CASE k >= 4
    <2>1. /\ writes[k].node \in 1 .. Len(nodes)
          /\ writes[k].at = ifsBase + nodes[writes[k].node].offset
          /\ writes[k].len = nodes[writes[k].node].size
      BY <1>4, <1>7 DEF WriteSound
    <2>2. EndOf(nodes[writes[k].node]) <= ifsSize
      BY <1>3, <2>1 DEF Placed
    <2>3. QED
      BY <1>1, <2>1, <2>2, SMTT(30) DEF EndOf
  <1>8. QED
    BY <1>1, <1>5, <1>6, <1>7

-----------------------------------------------------------------------------
(* Every step preserves LayoutInv. *)

(* The walk: only the bootloader and perhaps the header are written, and
   nothing that concerns those depends on the list. *)
LEMMA LayoutBeforeTable ==
  ASSUME TypeOK, LayoutInv, Len(writes) <= 2, UNCHANGED <<ifsBase, writes>>
  PROVE  WritesSound' /\ FilesInOrder' /\ BaseSound' /\ PlacedWhenWritten'
  <1>1. Len(writes) \in Nat
    BY WritesTyped
  <1>2. \A k \in 1 .. Len(writes) : WriteSound(writes[k], k) /\ (k = 1 \/ k = 2)
    BY <1>1 DEF LayoutInv, WritesSound
  <1>3. \A k \in 1 .. Len(writes) : writes[k].what \notin {"file", "patch"}
    BY <1>2 DEF WriteSound
  <1>4. WritesSound'
    BY <1>1, <1>2, <1>3 DEF WritesSound, WriteSound
  <1>5. FilesInOrder'
    BY <1>3 DEF FilesInOrder
  <1>6. QED
    BY <1>1, <1>4, <1>5 DEF LayoutInv, BaseSound, PlacedWhenWritten

LEMMA LayoutSame ==
  ASSUME LayoutInv, UNCHANGED <<nodes, ifsBase, ifsSize, offset, wrapped, writes>>,
         \/ pc' = pc /\ cursor' = cursor
         \/ pc = "contents" /\ pc' = "blocked" /\ cursor' = cursor
         \/ pc' = "failed"
  PROVE  LayoutInv'
  <1>1. Phases' /\ BaseSound' /\ PlacedWhenWritten'
    BY DEF LayoutInv, Phases, BaseSound, PlacedWhenWritten, Placed
  <1>2. WritesSound'
    BY DEF LayoutInv, WritesSound, WriteSound
  <1>3. FilesInOrder'
    BY DEF LayoutInv, FilesInOrder
  <1>4. PlacedSoFar'
    BY DEF LayoutInv, PlacedSoFar, Placed
  <1>5. QED
    BY <1>1, <1>2, <1>3, <1>4 DEF LayoutInv

(* Appending one write to an image that has no patch yet. *)
LEMMA LayoutEmit ==
  ASSUME TypeOK, LayoutInv, pc \notin {"done", "failed"}, UNCHANGED <<nodes, ifsBase>>,
         NEW at, NEW len, NEW what, NEW node, Emit(at, len, what, node),
         WriteSound(writes[Len(writes)], Len(writes))'
  PROVE  WritesSound'
  <1>1. /\ Len(writes) \in Nat /\ Len(writes') = Len(writes) + 1
        /\ \A k \in 1 .. Len(writes) : writes'[k] = writes[k]
    BY EmitAppends
  <1>2. \A k \in 1 .. Len(writes) : WriteSound(writes[k], k) /\ writes[k].what # "patch"
    BY DEF LayoutInv, WritesSound, WriteSound
  <1>3. \A k \in 1 .. Len(writes) : WriteSound(writes[k], k)'
    BY <1>1, <1>2 DEF WriteSound
  <1>4. \A k \in 1 .. Len(writes) + 1 : k \in 1 .. Len(writes) \/ k = Len(writes) + 1
    BY <1>1
  <1>5. \A k \in 1 .. Len(writes') : WriteSound(writes[k], k)'
    BY <1>1, <1>3, <1>4
  <1>6. QED
    BY <1>5 DEF WritesSound

(* One turn of CalculateFileOffsets: the node starts at the running offset,
   which the ends of all earlier nodes do not exceed. *)
LEMMA LayoutOffset ==
  ASSUME TypeInv, LayoutInv, CalculateFileOffset
  PROVE  PlacedSoFar'
  <1> DEFINE F == FileTableOffset(Len(nodes))
             start == offset % Word
             end == start + nodes[cursor].size
             roundUp == (end % Word) + PageSize - 1
  <1>1. SUFFICES ASSUME ~ wrapped'
                 PROVE  (Placed(cursor - 1) /\ ifsSize <= offset)'
    BY DEF PlacedSoFar
  <1>2. /\ pc = "offsets" /\ cursor \in 1 .. Len(nodes)
        /\ ~ wrapped /\ offset < Word /\ end < Word /\ roundUp < Word
        /\ ifsSize' = end % Word /\ offset' = AlignDown(roundUp % Word, PageSize)
        /\ cursor' = cursor + 1
    <2>1. /\ ~ (offset >= Word) /\ ~ (end >= Word) /\ ~ (roundUp >= Word) /\ ~ wrapped
      BY <1>1 DEF CalculateFileOffset
    <2>2. offset \in Nat /\ nodes[cursor].size \in Nat
      BY NodesTyped DEF TypeInv, TypeOK, CalculateFileOffset
    <2>3. start \in Nat
      BY <2>2, ModWord, WordPositive
    <2>4. end \in Nat
      BY <2>2, <2>3
    <2>5. end % Word \in Nat
      BY <2>4, ModWord, WordPositive
    <2>6. roundUp \in Nat
      BY <2>5 DEF PageSize
    <2>7. offset < Word /\ end < Word /\ roundUp < Word
      <3> HIDE DEF start, end, roundUp
      <3>1. QED
        BY <2>1, <2>2, <2>4, <2>6, WordPositive
    <2>8. QED
      BY <2>1, <2>7 DEF CalculateFileOffset, TypeInv, TypeOK
  <1>3. /\ Len(nodes) \in Nat /\ ifsSize \in Nat /\ offset \in Nat
        /\ \A j \in 1 .. Len(nodes) : nodes[j].offset \in Nat /\ nodes[j].size \in Nat
        /\ F \in Nat
    BY NodesTyped, TableFits DEF TypeInv, TypeOK
  <1>4. Placed(cursor - 1) /\ ifsSize <= offset
    BY <1>2 DEF LayoutInv, PlacedSoFar
  <1>5. start = offset /\ end = offset + nodes[cursor].size /\ end \in Nat
    <2>1. nodes[cursor].size \in Nat /\ offset \in Nat
      BY <1>2, <1>3
    <2>2. start = offset
      BY <1>2, <2>1, ModWord
    <2>3. QED
      BY <2>1, <2>2
  <1>6. end % Word = end /\ roundUp = end + 4095 /\ roundUp % Word = roundUp
    <2>1. end % Word = end
      BY <1>2, <1>5, ModWord
    <2>2. roundUp = end + 4095 /\ roundUp \in Nat
      BY <1>5, <2>1 DEF PageSize
    <2>3. roundUp % Word = roundUp
      BY <1>2, <2>2, ModWord
    <2>4. QED
      BY <2>1, <2>2, <2>3
  <1> HIDE DEF start, end, roundUp
  <1>7. ifsSize' = end /\ offset' \in Nat /\ end <= offset'
    <2>1. offset' = AlignDown(end + 4095, PageSize) /\ end + 4095 \in Nat
      BY <1>2, <1>5, <1>6
    <2>2. offset' \in Nat /\ end + 4095 < offset' + 4096
      BY <2>1, AlignDownPage DEF PageSize
    <2>3. QED
      BY <1>2, <1>5, <1>6, <2>2
  <1>8. /\ Len(nodes') = Len(nodes)
        /\ \A j \in 1 .. Len(nodes) :
             /\ nodes'[j].size = nodes[j].size
             /\ nodes'[j].offset = IF j = cursor THEN offset ELSE nodes[j].offset
    <2>1. nodes' = [nodes EXCEPT ![cursor] = [nodes[cursor] EXCEPT !.offset = offset]]
      BY <1>5 DEF CalculateFileOffset, start
    <2>2. nodes \in Seq(NodeType) /\ nodes[cursor] \in NodeType
      BY <1>2, ElementOfSeq DEF TypeInv, TypeOK
    <2>3. [nodes[cursor] EXCEPT !.offset = offset].offset = offset
          /\ [nodes[cursor] EXCEPT !.offset = offset].size = nodes[cursor].size
      BY <2>2 DEF NodeType
    <2>4. \A j \in 1 .. Len(nodes) : nodes'[j] =
            IF j = cursor THEN [nodes[cursor] EXCEPT !.offset = offset] ELSE nodes[j]
      BY <1>2, <2>1, <2>2, LenProperties
    <2>5. Len(nodes') = Len(nodes)
      BY <2>1, <2>2, LenProperties
    <2>6. QED
      BY <2>3, <2>4, <2>5
  <1>9. F <= ifsSize'
    BY <1>2, <1>3, <1>4, <1>5, <1>7 DEF Placed
  <1>10. ASSUME NEW j \in 1 .. cursor
         PROVE  /\ F <= nodes'[j].offset
                /\ EndOf(nodes'[j]) <= ifsSize'
                /\ \A i \in 1 .. j - 1 : EndOf(nodes'[i]) <= nodes'[j].offset
    <2>1. \A i \in 1 .. cursor - 1 :
            /\ i \in 1 .. Len(nodes) /\ i # cursor
            /\ F <= nodes[i].offset
            /\ nodes'[i].offset = nodes[i].offset
            /\ EndOf(nodes'[i]) = EndOf(nodes[i])
            /\ EndOf(nodes[i]) <= ifsSize
            /\ EndOf(nodes[i]) \in Nat
      BY <1>2, <1>3, <1>4, <1>8 DEF Placed, EndOf
    <2>2. CASE j = cursor
      <3>1. nodes'[j].offset = offset /\ nodes'[j].size = nodes[cursor].size
        BY <1>2, <1>8, <2>2
      <3>2. F <= offset
        BY <1>3, <1>4 DEF Placed
      <3>3. EndOf(nodes'[j]) = end
        BY <1>5, <3>1 DEF EndOf
      <3>4. \A i \in 1 .. j - 1 : EndOf(nodes'[i]) <= offset
        BY <1>3, <1>4, <2>1, <2>2
      <3>5. QED
        BY <1>5, <1>7, <3>1, <3>2, <3>3, <3>4
    <2>3. CASE j # cursor
      <3>1. j \in 1 .. cursor - 1
        BY <1>2, <2>3
      <3>2. \A i \in 1 .. j - 1 : i \in 1 .. cursor - 1
                                  /\ EndOf(nodes[i]) <= nodes[j].offset
        <4>1. \A i \in 1 .. j - 1 : EndOf(nodes[i]) <= nodes[j].offset
          BY <1>4, <3>1 DEF Placed
        <4>2. \A i \in 1 .. j - 1 : i \in 1 .. cursor - 1
          BY <1>2, <3>1
        <4>3. QED
          BY <4>1, <4>2
      <3>3. ifsSize <= ifsSize'
        BY <1>2, <1>3, <1>4, <1>5, <1>7
      <3>4. EndOf(nodes'[j]) <= ifsSize'
        BY <1>3, <1>5, <1>7, <2>1, <3>1, <3>3
      <3>5. QED
        BY <2>1, <3>1, <3>2, <3>4
    <2>4. QED
      BY <2>2, <2>3
  <1>11. QED
    <2>1. (cursor - 1)' = cursor
      BY <1>2
    <2>2. F' = F
      BY <1>8
    <2>3. \A j \in 1 .. (cursor - 1)' :
            /\ (F <= nodes[j].offset)'
            /\ (EndOf(nodes[j]) <= ifsSize)'
            /\ \A i \in 1 .. j - 1 : (EndOf(nodes[i]) <= nodes[j].offset)'
      BY <1>10, <2>1, <2>2 DEF EndOf
    <2>4. Placed(cursor - 1)'
      BY <1>9, <2>2, <2>3 DEF Placed
    <2>5. QED
      BY <1>7, <2>4

LEMMA LayoutStep == TypeInv /\ LayoutInv /\ [Next]_vars => LayoutInv'
  <1> SUFFICES ASSUME TypeInv, LayoutInv, [Next]_vars
               PROVE  LayoutInv'
    OBVIOUS
  <1> USE DEF hostVars, layoutVars
  <1>0. TypeOK /\ Len(writes) \in Nat /\ Len(nodes) \in Nat
    BY WritesTyped, NodesTyped DEF TypeInv
  <1>1. CASE WriteBootloader
    <2>1. PICK size \in BootSizes : Emit(0, size, "bootloader", 0)
                                    /\ ifsBase' = AlignUp(size, PageSize)
      BY <1>1 DEF WriteBootloader
    <2>2. size \in Nat /\ Len(writes) = 0
      BY <1>1, SizeTypes DEF WriteBootloader, LayoutInv, Phases
    <2>3. /\ Len(writes') = 1 /\ writes'[1].what = "bootloader"
          /\ writes'[1].at = 0 /\ writes'[1].len = size
      BY <1>0, <2>1, <2>2, EmitAppends
    <2>4. size <= ifsBase' /\ BaseSound'
      <3>1. ifsBase' \in Nat /\ size <= ifsBase' /\ ifsBase' % PageSize = 0
        BY <2>1, <2>2, AlignUpPage
      <3>2. ifsBase' = 0 \/ ifsBase' >= PageSize
        BY <3>1, PageMultiple
      <3>3. QED
        BY <3>1, <3>2 DEF BaseSound
    <2>5. WriteSound(writes[1], 1)'
      BY <2>3, <2>4 DEF WriteSound
    <2>6. WritesSound' /\ FilesInOrder'
      BY <2>3, <2>5 DEF WritesSound, FilesInOrder
    <2>7. QED
      BY <1>1, <2>3, <2>4, <2>6 DEF WriteBootloader, LayoutInv, Phases,
         PlacedWhenWritten, PlacedSoFar
  <1>2. CASE StartIFS \/ AddDirectory \/ AddFile \/ SkipOther \/ EndDirectory
    <2>1. /\ pc \in {"start", "walk"} /\ pc' \in {"walk", "table"}
          /\ UNCHANGED <<ifsBase, writes>>
      BY <1>2 DEF StartIFS, AddDirectory, AddFile, SkipOther, EndDirectory, Reading
    <2>2. Len(writes) = 1
      BY <2>1 DEF LayoutInv, Phases
    <2>3. QED
      BY <1>0, <2>1, <2>2, LayoutBeforeTable DEF LayoutInv, Phases, PlacedSoFar
  <1>3. CASE WriteHeader
    <2>1. /\ Emit(ifsBase, HeaderSize, "header", 0) /\ pc = "table"
          /\ UNCHANGED <<nodes, ifsBase>>
          /\ ifsSize' = FileTableOffset(Len(nodes)) /\ offset' = ifsSize'
          /\ cursor' = 1 /\ pc' = "offsets"
      BY <1>3 DEF WriteHeader
    <2>2. Len(writes) = 1
      BY <2>1 DEF LayoutInv, Phases
    <2>3. /\ Len(writes') = 2 /\ writes'[2].what = "header"
          /\ writes'[2].at = ifsBase /\ writes'[2].len = HeaderSize
          /\ writes'[1] = writes[1]
      BY <1>0, <2>1, <2>2, EmitAppends
    <2>4. WriteSound(writes[2], 2)'
      BY <2>1, <2>3 DEF WriteSound
    <2>5. WritesSound'
      BY <1>0, <2>1, <2>2, <2>3, <2>4, LayoutEmit
    <2>6. FilesInOrder'
      <3>1. \A k \in 1 .. 2 : WriteSound(writes[k], k)' /\ (k = 1 \/ k = 2)
        BY <2>3, <2>5 DEF WritesSound
      <3>2. \A k \in 1 .. 2 : writes'[k].what # "file"
        BY <3>1 DEF WriteSound
      <3>3. QED
        BY <2>3, <3>2 DEF FilesInOrder
    <2>7. PlacedSoFar'
      <3>1. FileTableOffset(Len(nodes)) \in Nat
        BY <1>0, TableFits
      <3>2. Placed(0)'
        BY <2>1, <3>1 DEF Placed
      <3>3. (cursor - 1)' = 0 /\ (ifsSize <= offset)'
        BY <2>1, <3>1
      <3>4. QED
        BY <3>2, <3>3 DEF PlacedSoFar
    <2>8. QED
      BY <2>1, <2>3, <2>5, <2>6, <2>7
         DEF LayoutInv, Phases, BaseSound, PlacedWhenWritten
  <1>4. CASE CalculateFileOffset
    <2>1. /\ pc = "offsets" /\ pc' = "offsets" /\ UNCHANGED <<ifsBase, writes>>
      BY <1>4 DEF CalculateFileOffset
    <2>2. Len(writes) = 2
      BY <2>1 DEF LayoutInv, Phases
    <2>3. QED
      BY <1>0, <1>4, <2>1, <2>2, LayoutBeforeTable, LayoutOffset
         DEF LayoutInv, Phases
  <1>5. CASE WriteNodeTable
    <2>1. /\ Emit(ifsBase + NodeTableOffset, TableSize(Len(nodes)), "nodes", 0)
          /\ pc = "offsets" /\ cursor = Len(nodes) + 1 /\ pc' = "contents"
          /\ UNCHANGED <<nodes, ifsBase, ifsSize, wrapped>>
      BY <1>0, <1>5 DEF WriteNodeTable, TypeOK
    <2>2. Len(writes) = 2
      BY <2>1 DEF LayoutInv, Phases
    <2>3. /\ Len(writes') = 3 /\ writes'[3].what = "nodes"
          /\ writes'[3].at = ifsBase + NodeTableOffset
          /\ writes'[3].len = TableSize(Len(nodes))
      BY <1>0, <2>1, <2>2, EmitAppends
    <2>4. WriteSound(writes[3], 3)'
      BY <2>1, <2>3 DEF WriteSound
    <2>5. WritesSound'
      BY <1>0, <2>1, <2>2, <2>3, <2>4, LayoutEmit
    <2>6. FilesInOrder'
      <3>1. \A k \in 1 .. 3 : WriteSound(writes[k], k)' /\ (k = 1 \/ k = 2 \/ k = 3)
        BY <2>3, <2>5 DEF WritesSound
      <3>2. \A k \in 1 .. 3 : writes'[k].what # "file"
        BY <3>1 DEF WriteSound
      <3>3. QED
        BY <2>3, <3>2 DEF FilesInOrder
    <2>7. PlacedWhenWritten'
      <3>1. ~ wrapped => Placed(cursor - 1)
        BY <2>1 DEF LayoutInv, PlacedSoFar
      <3>2. cursor - 1 = Len(nodes)
        BY <1>0, <2>1
      <3>3. ~ wrapped => Placed(Len(nodes))
        BY <3>1, <3>2
      <3>4. QED
        BY <2>1, <3>3 DEF PlacedWhenWritten, Placed
    <2>8. QED
      BY <2>1, <2>3, <2>5, <2>6, <2>7 DEF LayoutInv, Phases, BaseSound, PlacedSoFar
  <1>6. CASE SkipContents
    <2>1. /\ pc = "contents" /\ pc' = "contents" /\ cursor' = cursor + 1
          /\ cursor \in Nat
          /\ UNCHANGED <<nodes, ifsBase, ifsSize, wrapped, writes>>
      BY <1>0, <1>6 DEF SkipContents, TypeOK
    <2>2. FilesInOrder'
      BY <1>0, <2>1, WritesTyped DEF LayoutInv, FilesInOrder
    <2>3. WritesSound'
      BY <2>1 DEF LayoutInv, WritesSound, WriteSound
    <2>4. QED
      BY <2>1, <2>2, <2>3 DEF LayoutInv, Phases, BaseSound, PlacedWhenWritten,
         Placed, PlacedSoFar
  <1>7. CASE Copying
    <2>1. /\ Emit(ifsBase + nodes[cursor].offset, nodes[cursor].size, "file", cursor)
          /\ pc \in {"contents", "blocked"} /\ pc' = "contents" /\ cursor' = cursor + 1
          /\ cursor \in 1 .. Len(nodes)
          /\ UNCHANGED <<nodes, ifsBase, ifsSize, wrapped>>
      BY <1>0, <1>7 DEF Copying, CopyContents, TypeOK
    <2>2. Len(writes) >= 3
      BY <2>1 DEF LayoutInv, Phases
    <2>3. LET w == writes'[Len(writes')]
          IN  /\ w.what = "file" /\ w.node = cursor
              /\ w.at = ifsBase + nodes[cursor].offset /\ w.len = nodes[cursor].size
      BY <1>0, <2>1, EmitAppends
    <2>4. /\ Len(writes') = Len(writes) + 1
          /\ \A k \in 1 .. Len(writes) : writes'[k] = writes[k]
      BY <1>0, <2>1, EmitAppends
    <2>5. WriteSound(writes[Len(writes)], Len(writes))'
      BY <1>0, <2>1, <2>2, <2>3, <2>4 DEF WriteSound
    <2>6. WritesSound'
      BY <1>0, <2>1, <2>5, LayoutEmit
    <2>7. FilesInOrder'
      <3>1. \A k \in 1 .. Len(writes) : writes[k].what = "file" => writes[k].node < cursor
        BY <2>1 DEF LayoutInv, FilesInOrder
      <3>2. SUFFICES ASSUME NEW k \in 1 .. Len(writes) + 1, writes'[k].what = "file"
                     PROVE  /\ writes'[k].node < cursor + 1
                            /\ \A l \in 1 .. k - 1 : writes'[l].what = "file" =>
                                 writes'[l].node < writes'[k].node
        BY <2>1, <2>4 DEF FilesInOrder
      <3>3. CASE k = Len(writes) + 1
        BY <1>0, <2>1, <2>3, <2>4, <3>1, <3>3
      <3>4. CASE k \in 1 .. Len(writes)
        <4>1. writes'[k] = writes[k] /\ writes[k].node \in Nat
          BY <1>0, <2>4, <3>4, WritesTyped
        <4>2. \A l \in 1 .. k - 1 : l \in 1 .. Len(writes) /\ writes'[l] = writes[l]
          BY <1>0, <2>4, <3>4
        <4>3. writes[k].node < cursor + 1
          BY <2>1, <3>1, <3>2, <3>4, <4>1
        <4>4. QED
          BY <3>2, <3>4, <4>1, <4>2, <4>3 DEF LayoutInv, FilesInOrder
      <3>5. QED
        BY <1>0, <3>3, <3>4
    <2>8. PlacedWhenWritten'
      BY <2>1, <2>2 DEF LayoutInv, PlacedWhenWritten, Placed
    <2>9. QED
      BY <1>0, <2>1, <2>2, <2>4, <2>6, <2>7, <2>8 DEF LayoutInv, Phases, BaseSound, PlacedSoFar
  <1>8. CASE PatchBootloader
    <2>1. /\ pc = "contents" /\ pc' \in {"done", "failed"}
          /\ UNCHANGED <<nodes, ifsBase, ifsSize, wrapped, cursor>>
      BY <1>8 DEF PatchBootloader
    <2>2. Len(writes) >= 3
      BY <2>1 DEF LayoutInv, Phases
    <2>3. CASE UNCHANGED writes
      BY <2>1, <2>2, <2>3 DEF LayoutInv, Phases, WritesSound, WriteSound, FilesInOrder,
         BaseSound, PlacedWhenWritten, Placed, PlacedSoFar
    <2>4. CASE Emit(16, 8, "patch", 0)
      <3>1. /\ Len(writes') = Len(writes) + 1
            /\ \A k \in 1 .. Len(writes) : writes'[k] = writes[k]
        BY <1>0, <2>4, EmitAppends
      <3>2. LET w == writes'[Len(writes')]
            IN  w.what = "patch" /\ w.at = 16 /\ w.len = 8
        BY <1>0, <2>4, EmitAppends
      <3>3. WriteSound(writes[Len(writes)], Len(writes))'
        BY <1>0, <2>1, <2>2, <3>1, <3>2 DEF WriteSound
      <3>4. WritesSound'
        BY <1>0, <2>1, <2>4, <3>3, LayoutEmit
      <3>5. FilesInOrder'
        <4>1. SUFFICES ASSUME NEW k \in 1 .. Len(writes) + 1, writes'[k].what = "file"
                       PROVE  \A l \in 1 .. k - 1 : writes'[l].what = "file" =>
                                writes'[l].node < writes'[k].node
          BY <2>1, <3>1 DEF FilesInOrder
        <4>2. k \in 1 .. Len(writes)
          BY <1>0, <3>1, <3>2, <4>1
        <4>3. writes'[k] = writes[k]
              /\ \A l \in 1 .. k - 1 : l \in 1 .. Len(writes) /\ writes'[l] = writes[l]
          BY <1>0, <3>1, <4>2
        <4>4. QED
          BY <4>1, <4>2, <4>3 DEF LayoutInv, FilesInOrder
      <3>6. PlacedWhenWritten'
        BY <2>1, <2>2 DEF LayoutInv, PlacedWhenWritten, Placed
      <3>7. QED
        BY <1>0, <2>1, <2>2, <3>1, <3>4, <3>5, <3>6
           DEF LayoutInv, Phases, BaseSound, PlacedSoFar
    <2>5. QED
      BY <1>8, <2>3, <2>4 DEF PatchBootloader
  <1>9. CASE OpenDirFails \/ ReadFails \/ OpenBlocks \/ Exit \/ HostChanges \/ UNCHANGED vars
    <2>1. /\ UNCHANGED <<nodes, ifsBase, ifsSize, offset, wrapped, writes>>
          /\ \/ pc' = pc /\ cursor' = cursor
             \/ pc = "contents" /\ pc' = "blocked" /\ cursor' = cursor
             \/ pc' = "failed"
      BY <1>9 DEF OpenDirFails, ReadFails, OpenBlocks, Opening, Exit, HostChanges, vars
    <2>2. QED
      BY <2>1, LayoutSame
  <1>10. QED
    BY <1>1, <1>2, <1>3, <1>4, <1>5, <1>6, <1>7, <1>8, <1>9, CopySteps
       DEF Next, Tool, Walk, Write, Terminated

LEMMA LayoutCorrect == Spec => [](TypeInv /\ LayoutInv)
  BY TypeInit, TypeStep, LayoutInit, LayoutStep, PTL DEF Spec

(* As long as no 32 bit sum wrapped, no write of mkifs ever destroys bytes it
   wrote before, except the two words of the bootloader it patches: for every
   tree, every file size and every size of the bootloader. *)
THEOREM NothingClobbered == Spec => []NoClobber
  <1>1. TypeInv /\ LayoutInv => NoClobber
    BY LayoutImpliesNoClobber DEF TypeInv
  <1>2. QED
    BY <1>1, LayoutCorrect, PTL

(* Under the same proviso the recorded size covers the file system. *)
THEOREM RecordedSizeCovers == Spec => []SizeCovers
  <1>1. TypeInv /\ LayoutInv => SizeCovers
    BY LayoutImpliesSizeCovers DEF TypeInv
  <1>2. QED
    BY <1>1, LayoutCorrect, PTL

-----------------------------------------------------------------------------
(* The contents.  Every file before the cursor has been written. *)

HasFile(j) == \E k \in 1 .. Len(writes) : writes[k].what = "file" /\ writes[k].node = j

WrittenTo(m) == \A j \in 1 .. m : nodes[j].mode = "reg" => HasFile(j)

Patched == \E k \in 1 .. Len(writes) : writes[k].what = "patch"

ContentsInv ==
  /\ pc \in {"contents", "blocked"} => WrittenTo(cursor - 1)
  /\ pc = "done" \/ Patched => WrittenTo(Len(nodes))

-----------------------------------------------------------------------------
(* What a node says of its entry was so when it was looked up, and is so as
   long as nobody touches the entry; a file that has been read was there. *)

NodeTrue(n) ==
  /\ n.mode = "dir" =>
       /\ n.path # NoEntry /\ n.size = 0
       /\ n.path \in Entry \ touched => host[n.path] = DirStat
  /\ n.mode = "reg" => n.path # Root /\ (n.path \in Entry \ touched =>
       \/ n.path \in missed
       \/ host[n.path].kind = "reg" /\ host[n.path].size % Word = n.size)

NodesTrue == \A j \in 2 .. Len(nodes) : NodeTrue(nodes[j])

MissedGone == \A e \in missed : ~ StatOk(e)

ReadTo(m) == \A j \in 2 .. m : nodes[j].mode = "reg" =>
  nodes[j].path \in Entry /\ nodes[j].path \notin missed

TruthInv ==
  /\ NodesTrue /\ MissedGone
  /\ pc = "contents" => ReadTo(cursor - 1)
  /\ pc = "blocked" => ReadTo(cursor)
  /\ pc = "done" => ReadTo(Len(nodes))

-----------------------------------------------------------------------------
(* The calls of Recursive.  Inner calls have higher numbers, and what a call
   has still to read is not in the list below its directory. *)

RootFirst == Len(nodes) >= 1 => nodes[1].name = Root /\ IsDirOf(nodes[1], Root, 0)

Returned == pc \in {"table", "offsets", "contents", "blocked", "done"} => Len(stack) = 0

CallsNumbered == \A s, t \in 1 .. Len(stack) : s < t => stack[s].inode < stack[t].inode

Once == \A j, k \in 1 .. Len(nodes) :
  /\ nodes[j].name \in Entry /\ nodes[j].name = nodes[k].name
  /\ nodes[j].parent = nodes[k].parent
  => j = k

Unread == \A s \in 1 .. Len(stack), j \in 1 .. Len(nodes) :
  nodes[j].name \in stack[s].left => nodes[j].parent # stack[s].inode

PathsResolve == \A j \in 1 .. Len(nodes) :
  nodes[j].name \in Entry => nodes[j].path \in Resolves[nodes[j].name]

CallsInv == RootFirst /\ Returned /\ CallsNumbered /\ Once /\ Unread /\ PathsResolve

-----------------------------------------------------------------------------
(* The entries that must not be lost: those that kept still, and all the
   directories above them, which are there whatever else happens to them. *)

Upward(D) == \A e \in D : Parent[e] \in Entry => Parent[e] \in D

Above(e, x) == \A D \in SUBSET Entry : x \in D /\ Upward(D) => e \in D

KeptStill(h, t, x) == x \in Entry \ t /\ Plain[x] /\ h[x].kind \in {"dir", "reg"}

KeptIn(h, t) == {e \in Entry : \E x \in Entry : KeptStill(h, t, x) /\ Above(e, x)}

Kept == KeptIn(host, touched)

IsNodeOf(n, e, i) ==
  /\ n.name = e /\ n.path = e /\ n.parent = i
  /\ n.mode = host[e].kind /\ n.size = host[e].size % Word

(* each node of the directory of a kept entry has a node for the entry below
   it, or its call has still to read it *)
Covered == \A e \in Kept, d \in 1 .. Len(nodes) :
  IsDirOf(nodes[d], Parent[e], nodes[d].inode) =>
    \/ \E s \in 1 .. Len(stack) : stack[s].inode = nodes[d].inode /\ e \in stack[s].left
    \/ \E j \in 1 .. Len(nodes) : IsNodeOf(nodes[j], e, nodes[d].inode)

KeptUntouched == \A e \in Kept : e \notin touched

-----------------------------------------------------------------------------
(* Facts about the tree *)

LEMMA PlainIs ==
  \A e \in Entry : Plain[e] <=> Resolves[e] = {e} /\ (Parent[e] = Root \/ Plain[Parent[e]])
  <1> DEFINE Good(D) == \A c \in D : Resolves[c] = {c} /\ (Parent[c] = Root \/ Parent[c] \in D)
             g == [e \in Entry |-> \E D \in SUBSET Entry : e \in D /\ Good(D)]
             F(f) == [e \in Entry |-> Resolves[e] = {e} /\ (Parent[e] = Root \/ f[Parent[e]])]
  <1>1. ASSUME NEW e \in Entry
        PROVE  g[e] = (Resolves[e] = {e} /\ (Parent[e] = Root \/ g[Parent[e]]))
    <2>1. Parent[e] = Root \/ Parent[e] \in Entry
      BY MkIfsAssumption
    <2>2. ASSUME g[e] PROVE Resolves[e] = {e} /\ (Parent[e] = Root \/ g[Parent[e]])
      <3>1. PICK D \in SUBSET Entry : e \in D /\ Good(D)
        BY <2>2
      <3>2. Parent[e] \in D => Parent[e] \in Entry /\ g[Parent[e]]
        BY <3>1
      <3>3. QED
        BY <3>1, <3>2
    <2>3. ASSUME Resolves[e] = {e}, Parent[e] = Root \/ g[Parent[e]] PROVE g[e]
      <3>1. CASE Parent[e] = Root
        <4>1. {e} \in SUBSET Entry /\ e \in {e} /\ Good({e})
          BY <2>3, <3>1
        <4>2. QED
          BY <4>1
      <3>2. CASE Parent[e] \in Entry /\ g[Parent[e]]
        <4>1. PICK D \in SUBSET Entry : Parent[e] \in D /\ Good(D)
          BY <3>2
        <4>2. D \cup {e} \in SUBSET Entry /\ e \in D \cup {e} /\ Good(D \cup {e})
          BY <2>3, <4>1
        <4>3. QED
          BY <4>2
      <3>3. QED
        BY <2>1, <2>3, <3>1, <3>2
    <2>4. g[e] \in BOOLEAN
      OBVIOUS
    <2>5. QED
      BY <2>2, <2>3, <2>4
  <1>2. g = F(g)
    BY <1>1
  <1> HIDE DEF g
  <1>3. \E f : f = F(f)
    BY <1>2
  <1>4. Plain = CHOOSE f : f = F(f)
    BY DEF Plain
  <1>5. Plain = F(Plain)
    BY <1>3, <1>4
  <1>6. QED
    BY <1>5

(* the directories above an entry that exists are directories *)
LEMMA AboveFacts ==
  ASSUME NEW h \in [Entry -> Stats \cup {NoStat}], WellFormed(h),
         NEW x \in Entry, h[x].kind # "nostat", NEW e \in Entry, Above(e, x)
  PROVE  e = x \/ h[e] = DirStat
  <1>1. \A c \in Entry : h[c].kind = "dir" => h[c] = DirStat
    BY DEF Stats, NoStat, OtherStat
  <1>2. \A c \in Entry : h[c].kind # "nostat" /\ Parent[c] \in Entry => h[Parent[c]].kind = "dir"
    BY DotNamesNotReal DEF WellFormed
  <1> DEFINE D == {x} \cup {c \in Entry : h[c].kind = "dir"}
  <1>3. \A c \in D : c \in Entry /\ h[c].kind # "nostat"
    OBVIOUS
  <1>4. Upward(D)
    BY <1>2, <1>3 DEF Upward
  <1>5. D \in SUBSET Entry
    OBVIOUS
  <1>6. e \in D
    BY <1>4, <1>5 DEF Above
  <1>7. QED
    BY <1>1, <1>6

(* a kept entry is a directory, or a file that nobody touched; its path leads
   to it; and the directory above it is kept *)
LEMMA KeptFacts ==
  ASSUME NEW h \in [Entry -> Stats \cup {NoStat}], WellFormed(h), NEW t \in SUBSET Entry,
         NEW e \in KeptIn(h, t)
  PROVE  /\ e \in Entry /\ Resolves[e] = {e}
         /\ h[e] = DirStat \/ (h[e].kind = "reg" /\ e \notin t)
         /\ Parent[e] = Root \/ (Parent[e] \in KeptIn(h, t) /\ h[Parent[e]] = DirStat)
  <1>1. PICK x \in Entry : KeptStill(h, t, x) /\ Above(e, x)
    BY DEF KeptIn
  <1>2. e \in Entry
    BY DEF KeptIn
  <1>3. Plain[e]
    <2> DEFINE D == {c \in Entry : Plain[c]}
    <2>1. x \in D
      BY <1>1 DEF KeptStill
    <2>2. Upward(D)
      <3> SUFFICES ASSUME NEW c \in Entry, Plain[c], Parent[c] \in Entry PROVE Plain[Parent[c]]
        BY DEF Upward
      <3>1. QED
        BY PlainIs, MkIfsAssumption, DotNamesNotReal
    <2>3. e \in D
      BY <1>1, <2>1, <2>2 DEF Above
    <2>4. QED
      BY <2>3
  <1>4. h[x].kind # "nostat" /\ (e = x \/ h[e] = DirStat)
    BY <1>1, <1>2, AboveFacts DEF KeptStill
  <1>dir. \A c \in Entry : h[c].kind = "dir" => h[c] = DirStat
    BY DEF Stats, NoStat, OtherStat
  <1>up. \A c \in Entry : h[c].kind # "nostat" /\ Parent[c] \in Entry => h[Parent[c]].kind = "dir"
    BY DotNamesNotReal DEF WellFormed
  <1>5. Parent[e] = Root \/ Parent[e] \in Entry
    BY <1>2, MkIfsAssumption
  <1>6. Parent[e] \in Entry => Parent[e] \in KeptIn(h, t)
    <2> SUFFICES ASSUME Parent[e] \in Entry PROVE Above(Parent[e], x)
      BY <1>1 DEF KeptIn
    <2>1. QED
      BY <1>1 DEF Above, Upward
  <1>7. h[e].kind # "nostat"
    BY <1>4 DEF DirStat
  <1>8. Parent[e] \in Entry => h[Parent[e]] = DirStat
    BY <1>2, <1>7, <1>dir, <1>up
  <1>9. Resolves[e] = {e}
    BY <1>2, <1>3, PlainIs
  <1>10. QED
    BY <1>1, <1>2, <1>4, <1>5, <1>6, <1>8, <1>9, <1>dir DEF KeptStill

LEMMA TypeParts ==
  ASSUME TypeOK
  PROVE  /\ host \in [Entry -> Stats \cup {NoStat}] /\ WellFormed(host)
         /\ touched \in SUBSET Entry
  BY DEF TypeOK

(* what is read is missed or is there, and a missed entry that comes is touched *)
LEMMA HostSteps ==
  ASSUME TypeOK, [Next]_vars
  PROVE  /\ touched \subseteq touched' /\ \A x \in Entry \ touched' : host'[x] = host[x]
         /\ \A x \in touched' \ touched : host'[x] # host[x]
         /\ missed \ touched' \subseteq missed'
         /\ pc # "walk" => missed' \subseteq missed
  <1>1. CASE HostChanges
    <2>1. PICK x \in Entry, st \in Stats \cup {NoStat} :
            /\ st # host[x] /\ host' = [host EXCEPT ![x] = st]
            /\ touched' = touched \cup {x} /\ missed' = missed \ {x}
      BY <1>1 DEF HostChanges
    <2>2. QED
      BY <2>1 DEF TypeOK
  <1>2. CASE UNCHANGED hostVars
    BY <1>2 DEF hostVars
  <1>3. CASE AddDirectory \/ OpenDirFails \/ AddFile \/ SkipOther
    <2>1. PICK e \in Entry, r \in Entry \cup {NoEntry}, st \in Stats : Reading(e, r, st)
      BY <1>3 DEF AddDirectory, OpenDirFails, AddFile, SkipOther
    <2>2. missed \subseteq missed' /\ pc = "walk"
      BY <2>1 DEF Reading
    <2>3. host' = host /\ touched' = touched
      BY <1>3 DEF AddDirectory, OpenDirFails, AddFile, SkipOther
    <2>4. QED
      BY <2>2, <2>3
  <1>4. QED
    BY <1>1, <1>2, <1>3 DEF Next, Tool, Walk, Write, Terminated, vars, hostVars,
       WriteBootloader, StartIFS, EndDirectory, WriteHeader, CalculateFileOffset,
       WriteNodeTable, SkipContents, WriteContents, ReadFails, OpenBlocks, OpenReturns,
       CopyContents, PatchBootloader, Exit

LEMMA MissedStep ==
  ASSUME TypeOK, MissedGone, [Next]_vars
  PROVE  MissedGone'
  <1>1. CASE HostChanges
    <2>1. PICK x \in Entry, st \in Stats \cup {NoStat} :
            host' = [host EXCEPT ![x] = st] /\ missed' = missed \ {x}
      BY <1>1 DEF HostChanges
    <2>2. QED
      BY <2>1 DEF TypeOK, MissedGone, StatOk
  <1>2. CASE UNCHANGED hostVars
    BY <1>2 DEF hostVars, MissedGone, StatOk
  <1>3. CASE AddDirectory \/ OpenDirFails \/ AddFile \/ SkipOther
    <2>1. PICK e \in Entry, r \in Entry \cup {NoEntry}, st \in Stats : Reading(e, r, st)
      BY <1>3 DEF AddDirectory, OpenDirFails, AddFile, SkipOther
    <2>2. host' = host
      BY <1>3 DEF AddDirectory, OpenDirFails, AddFile, SkipOther
    <2>3. QED
      BY <2>1, <2>2 DEF Reading, MissedGone, StatOk
  <1>4. QED
    BY <1>1, <1>2, <1>3 DEF Next, Tool, Walk, Write, Terminated, vars, hostVars,
       WriteBootloader, StartIFS, EndDirectory, WriteHeader, CalculateFileOffset,
       WriteNodeTable, SkipContents, WriteContents, ReadFails, OpenBlocks, OpenReturns,
       CopyContents, PatchBootloader, Exit

(* no step makes an entry kept, or changes one that is *)
LEMMA KeptStays ==
  ASSUME TypeOK, TypeOK', [Next]_vars, NEW e \in Kept'
  PROVE  e \in Kept /\ host'[e] = host[e]
  <1>1. touched \subseteq touched' /\ \A x \in Entry \ touched' : host'[x] = host[x]
    BY HostSteps
  <1>2. e \in KeptIn(host', touched')
    BY DEF Kept
  <1>3. PICK x \in Entry : KeptStill(host', touched', x) /\ Above(e, x)
    BY <1>2 DEF KeptIn
  <1>4. KeptStill(host, touched, x)
    BY <1>1, <1>3 DEF KeptStill
  <1>5. e \in Kept
    BY <1>2, <1>3, <1>4 DEF Kept, KeptIn
  <1>6. host \in [Entry -> Stats \cup {NoStat}] /\ host' \in [Entry -> Stats \cup {NoStat}]
        /\ WellFormed(host) /\ WellFormed(host') /\ e \in Entry
    BY <1>2 DEF TypeOK, KeptIn
  <1>7. host[x].kind # "nostat" /\ host'[x].kind # "nostat"
    BY <1>3, <1>4 DEF KeptStill
  <1>8. e = x \/ host[e] = DirStat
    BY <1>3, <1>6, <1>7, AboveFacts
  <1>9. e = x \/ host'[e] = DirStat
    BY <1>3, <1>6, <1>7, AboveFacts
  <1>10. QED
    BY <1>1, <1>3, <1>5, <1>8, <1>9 DEF KeptStill

-----------------------------------------------------------------------------
(* Every file is written before the patch *)

LEMMA NotPatchedYet ==
  ASSUME LayoutInv, pc \notin {"done", "failed"}
  PROVE  ~ Patched
  BY DEF LayoutInv, WritesSound, WriteSound, Patched

LEMMA EmitNotPatched ==
  ASSUME TypeOK, LayoutInv, pc \notin {"done", "failed"},
         NEW at, NEW len, NEW what, NEW node, Emit(at, len, what, node)
  PROVE  /\ Patched' => what = "patch"
         /\ \A j : HasFile(j) => HasFile(j)'
         /\ what = "file" => HasFile(node)'
  <1>1. /\ Len(writes) \in Nat /\ Len(writes') = Len(writes) + 1
        /\ \A k \in 1 .. Len(writes) : writes'[k] = writes[k]
        /\ writes'[Len(writes) + 1].what = what /\ writes'[Len(writes) + 1].node = node
    BY EmitAppends
  <1>2. \A k \in 1 .. Len(writes') : k \in 1 .. Len(writes) \/ k = Len(writes) + 1
    BY <1>1
  <1>3. \A k \in 1 .. Len(writes) : k \in 1 .. Len(writes')
    BY <1>1
  <1>4. Patched' => what = "patch"
    BY <1>1, <1>2, NotPatchedYet DEF Patched
  <1>5. \A j : HasFile(j) => HasFile(j)'
    BY <1>1, <1>3 DEF HasFile
  <1>6. what = "file" => HasFile(node)'
    <2>1. Len(writes) + 1 \in 1 .. Len(writes')
      BY <1>1
    <2>2. QED
      BY <1>1, <2>1 DEF HasFile
  <1>7. QED
    BY <1>4, <1>5, <1>6

LEMMA ContentsInit == Init => ContentsInv
  BY DEF Init, ContentsInv, Patched

LEMMA ContentsStep == TypeInv /\ LayoutInv /\ ContentsInv /\ [Next]_vars => ContentsInv'
  <1> SUFFICES ASSUME TypeInv, LayoutInv, ContentsInv, [Next]_vars PROVE ContentsInv'
    OBVIOUS
  <1>ty. TypeOK /\ Len(nodes) \in Nat /\ cursor \in 1 .. Len(nodes) + 1
    BY NodesTyped DEF TypeInv, TypeOK
  <1>1. CASE WriteBootloader \/ WriteHeader \/ WriteNodeTable
    <2>1. /\ pc \notin {"done", "failed"} /\ pc' \notin {"done", "blocked"}
          /\ (pc' = "contents" => cursor' = 1)
      BY <1>1 DEF WriteBootloader, WriteHeader, WriteNodeTable
    <2>2. ASSUME Patched' PROVE FALSE
      <3>1. CASE WriteBootloader
        <4>1. PICK size \in BootSizes : Emit(0, size, "bootloader", 0)
          BY <3>1 DEF WriteBootloader
        <4>2. QED
          BY <1>ty, <2>1, <2>2, <4>1, EmitNotPatched
      <3>2. CASE WriteHeader
        <4>1. Emit(ifsBase, HeaderSize, "header", 0)
          BY <3>2 DEF WriteHeader
        <4>2. QED
          BY <1>ty, <2>1, <2>2, <4>1, EmitNotPatched
      <3>3. CASE WriteNodeTable
        <4>1. PICK at, len : Emit(at, len, "nodes", 0)
          BY <3>3 DEF WriteNodeTable
        <4>2. QED
          BY <1>ty, <2>1, <2>2, <4>1, EmitNotPatched
      <3>4. QED
        BY <1>1, <3>1, <3>2, <3>3
    <2>3. ASSUME pc' = "contents" PROVE WrittenTo(cursor - 1)'
      <3>1. cursor' - 1 = 0
        BY <2>1, <2>3
      <3>2. QED
        BY <3>1 DEF WrittenTo
    <2>4. QED
      BY <2>1, <2>2, <2>3 DEF ContentsInv
  <1>2. CASE StartIFS \/ Walk \/ CalculateFileOffset
    <2>1. pc \notin {"done", "failed"} /\ pc' \notin {"contents", "blocked", "done"} /\ writes' = writes
      BY <1>2 DEF StartIFS, Walk, AddDirectory, OpenDirFails, AddFile, SkipOther, EndDirectory,
         CalculateFileOffset, Reading
    <2>2. ~ Patched'
      BY <2>1, NotPatchedYet DEF Patched
    <2>3. QED
      BY <2>1, <2>2 DEF ContentsInv
  <1>3. CASE SkipContents
    <2>1. /\ pc = "contents" /\ pc' = "contents" /\ UNCHANGED <<nodes, writes>>
          /\ cursor' = cursor + 1 /\ nodes[cursor].mode # "reg"
      BY <1>3 DEF SkipContents
    <2>2. ~ Patched'
      BY <2>1, NotPatchedYet DEF Patched
    <2>3. WrittenTo(cursor - 1)'
      <3>1. \A j \in 1 .. cursor : j \in 1 .. cursor - 1 \/ j = cursor
        BY <1>ty
      <3>2. cursor' - 1 = cursor
        BY <1>ty, <2>1
      <3>3. QED
        BY <2>1, <3>1, <3>2 DEF ContentsInv, WrittenTo, HasFile
    <2>4. QED
      BY <2>1, <2>2, <2>3 DEF ContentsInv
  <1>4. CASE Copying
    <2>1. /\ pc \in {"contents", "blocked"} /\ pc' = "contents" /\ nodes' = nodes /\ cursor' = cursor + 1
          /\ Emit(ifsBase + nodes[cursor].offset, nodes[cursor].size, "file", cursor)
      BY <1>4 DEF Copying, CopyContents
    <2>c. PICK c \in 1 .. Len(nodes) + 1 : c = cursor
      BY <1>ty
    <2>e. PICK at, len : Emit(at, len, "file", c)
      BY <2>1, <2>c
    <2>2. ~ Patched' /\ HasFile(c)' /\ \A j : HasFile(j) => HasFile(j)'
      BY <1>ty, <2>1, <2>e, EmitNotPatched
    <2>3. WrittenTo(cursor - 1)'
      <3>1. \A j \in 1 .. c : j \in 1 .. cursor - 1 \/ j = c
        BY <1>ty, <2>c
      <3>2. cursor' - 1 = c
        BY <1>ty, <2>1, <2>c
      <3>3. \A j \in 1 .. c : nodes[j].mode = "reg" => HasFile(j) \/ j = c
        BY <2>1, <3>1 DEF ContentsInv, WrittenTo
      <3>4. \A j \in 1 .. c : nodes'[j].mode = "reg" => HasFile(j)'
        BY <2>1, <2>2, <3>3
      <3>5. QED
        BY <3>2, <3>4 DEF WrittenTo
    <2>4. QED
      BY <2>1, <2>2, <2>3 DEF ContentsInv
  <1>5. CASE PatchBootloader
    <2>1. /\ pc = "contents" /\ cursor > Len(nodes) /\ nodes' = nodes /\ pc' \notin {"contents", "blocked"}
          /\ Emit(16, 8, "patch", 0) \/ writes' = writes
      BY <1>5 DEF PatchBootloader
    <2>2. cursor - 1 = Len(nodes)
      BY <1>ty, <2>1
    <2>3. WrittenTo(Len(nodes))
      BY <2>1, <2>2 DEF ContentsInv
    <2>4. \A j : HasFile(j) => HasFile(j)'
      BY <1>ty, <2>1, EmitNotPatched DEF HasFile
    <2>5. WrittenTo(Len(nodes))'
      BY <2>1, <2>3, <2>4 DEF WrittenTo, HasFile
    <2>6. QED
      BY <2>1, <2>5 DEF ContentsInv
  <1>6. CASE ReadFails \/ OpenBlocks \/ Exit \/ HostChanges \/ UNCHANGED vars
    <2>1. /\ UNCHANGED <<nodes, writes>>
          /\ \/ pc' = pc /\ cursor' = cursor
             \/ pc = "contents" /\ pc' = "blocked" /\ cursor' = cursor
             \/ pc' = "failed"
      BY <1>6 DEF ReadFails, OpenBlocks, Opening, Exit, HostChanges, vars, layoutVars
    <2>2. QED
      BY <2>1 DEF ContentsInv, WrittenTo, HasFile, Patched
  <1>7. QED
    BY <1>1, <1>2, <1>3, <1>4, <1>5, <1>6, CopySteps DEF Next, Tool, Write, Terminated

(* The header of the bootloader is patched last of all: an image whose header
   is patched has its whole node table and each of its files, whatever the tree
   and whichever call failed. *)
THEOREM NothingAfterPatch == Spec => []PatchedLast
  <1>1. Spec => [](TypeInv /\ LayoutInv /\ ContentsInv)
    BY TypeInit, TypeStep, LayoutInit, LayoutStep, ContentsInit, ContentsStep, PTL DEF Spec
  <1>2. TypeInv /\ LayoutInv /\ ContentsInv => PatchedLast
    <2> SUFFICES ASSUME TypeInv, LayoutInv, ContentsInv,
                        NEW k \in 1 .. Len(writes), writes[k].what = "patch"
                 PROVE  /\ k = Len(writes)
                        /\ \E t \in 1 .. k : /\ writes[t].what = "nodes"
                                             /\ writes[t].len = TableSize(Len(nodes))
                        /\ \A j \in 1 .. Len(nodes) : nodes[j].mode = "reg" =>
                             \E t \in 1 .. k : writes[t].what = "file" /\ writes[t].node = j
      BY DEF PatchedLast
    <2>1. Len(writes) \in Nat
      BY WritesTyped DEF TypeInv
    <2>2. WriteSound(writes[k], k)
      BY DEF LayoutInv, WritesSound
    <2>3. k = Len(writes) /\ k # 1 /\ k # 2 /\ k # 3
      BY <2>1, <2>2 DEF WriteSound
    <2>4. 3 \in 1 .. Len(writes)
      BY <2>1, <2>3
    <2>5. writes[3].what = "nodes" /\ writes[3].len = TableSize(Len(nodes))
      BY <2>4 DEF LayoutInv, WritesSound, WriteSound
    <2>6. WrittenTo(Len(nodes))
      BY DEF ContentsInv, Patched
    <2>7. QED
      BY <2>3, <2>4, <2>5, <2>6 DEF WrittenTo, HasFile
  <1>3. QED
    BY <1>1, <1>2, PTL

-----------------------------------------------------------------------------
(* What the steps that change the list do to it *)

(* what StatOrStale gives, for an entry that stat finds *)
LEMMA AddedDirectory ==
  ASSUME TypeInv, AddDirectory
  PROVE  \E e \in Entry, r \in Entry :
    /\ Reading(e, r, DirStat) /\ host[r] = DirStat
    /\ Len(nodes') = Len(nodes) + 3 /\ \A i \in 1 .. Len(nodes) : nodes'[i] = nodes[i]
    /\ nodes'[Len(nodes) + 1] = Node(e, inodeNr, Top.inode, r, DirStat)
    /\ nodes'[Len(nodes) + 2] = DotNode(r, inodeNr)
    /\ nodes'[Len(nodes) + 3] = DotDotNode(r, inodeNr, Top.inode)
    /\ stack' = Append(Consumed(e, DirStat), Frame(r, inodeNr))
    /\ inodeNr' = inodeNr + 3
  <1>1. PICK e \in Entry, r \in Entry, st \in Stats :
          /\ Reading(e, r, st) /\ st.kind = "dir" /\ host[r].kind = "dir"
          /\ stack' = Append(Consumed(e, st), Frame(r, inodeNr))
          /\ nodes' = nodes \o << Node(e, inodeNr, Top.inode, r, DirStat),
                                  DotNode(r, inodeNr),
                                  DotDotNode(r, inodeNr, Top.inode) >>
          /\ inodeNr' = inodeNr + 3
    BY DEF AddDirectory, StatOk
  <1>2. /\ Len(nodes') = Len(nodes) + 3 /\ \A i \in 1 .. Len(nodes) : nodes'[i] = nodes[i]
        /\ nodes'[Len(nodes) + 1] = Node(e, inodeNr, Top.inode, r, DirStat)
        /\ nodes'[Len(nodes) + 2] = DotNode(r, inodeNr)
        /\ nodes'[Len(nodes) + 3] = DotDotNode(r, inodeNr, Top.inode)
    <2> DEFINE Any == NodeType \cup
                 { Node(e, inodeNr, Top.inode, r, DirStat), DotNode(r, inodeNr),
                   DotDotNode(r, inodeNr, Top.inode) }
    <2>1. nodes \in Seq(Any)
      BY SeqMonotonic DEF TypeInv, TypeOK
    <2>2. QED
      BY <1>1, <2>1, AppendThree
  <1>3. st = DirStat /\ host[r] = DirStat
    <2>1. \A x \in Stats \cup {NoStat} : x.kind = "dir" => x = DirStat
      BY DEF Stats, NoStat, OtherStat
    <2>2. QED
      BY <1>1, <2>1 DEF TypeInv, TypeOK
  <1>4. QED
    BY <1>1, <1>2, <1>3

LEMMA AddedFile ==
  ASSUME TypeInv, AddFile
  PROVE  \E e \in Entry, r \in Entry \cup {NoEntry}, st \in Stats :
    /\ Reading(e, r, st) /\ st.kind = "reg"
    /\ Len(nodes') = Len(nodes) + 1 /\ \A i \in 1 .. Len(nodes) : nodes'[i] = nodes[i]
    /\ nodes'[Len(nodes) + 1] = Node(e, inodeNr, Top.inode, r, Truncated(st))
    /\ stack' = Consumed(e, st)
    /\ inodeNr' = inodeNr + 1
  <1>1. PICK e \in Entry, r \in Entry \cup {NoEntry}, st \in Stats :
          /\ Reading(e, r, st) /\ st.kind = "reg"
          /\ stack' = Consumed(e, st)
          /\ nodes' = Append(nodes, Node(e, inodeNr, Top.inode, r, Truncated(st)))
          /\ inodeNr' = inodeNr + 1
    BY DEF AddFile
  <1>2. /\ Len(nodes') = Len(nodes) + 1 /\ \A i \in 1 .. Len(nodes) : nodes'[i] = nodes[i]
        /\ nodes'[Len(nodes) + 1] = Node(e, inodeNr, Top.inode, r, Truncated(st))
    <2> DEFINE Any == NodeType \cup { Node(e, inodeNr, Top.inode, r, Truncated(st)) }
    <2>1. nodes \in Seq(Any)
      BY SeqMonotonic DEF TypeInv, TypeOK
    <2>2. QED
      BY <1>1, <2>1, AppendOne
  <1>3. QED
    BY <1>1, <1>2

LEMMA Started ==
  ASSUME StartIFS
  PROVE  /\ Len(nodes') = 2 /\ nodes'[1].name = Root /\ IsDirOf(nodes'[1], Root, 0)
         /\ nodes'[2] = DotNode(Root, 0)
         /\ Len(stack') = 1 /\ stack'[1] = Frame(Root, 0)
  <1>1. PICK junk \in Garbage :
          nodes' = << Node(Root, 0, 0, Root, [kind |-> "dir", size |-> junk]),
                      DotNode(Root, 0) >>
    BY DEF StartIFS
  <1>2. nodes'[1] = Node(Root, 0, 0, Root, [kind |-> "dir", size |-> junk])
    BY <1>1
  <1>3. QED
    BY <1>1, <1>2 DEF StartIFS, Node, IsDirOf, IsReal

(* offsets apart, a node is what the walk made it *)
SameNode(m, n) == SameTree(m, n) /\ m.size = n.size

LEMMA OffsetAssigned ==
  ASSUME TypeInv, CalculateFileOffset
  PROVE  Len(nodes') = Len(nodes) /\ \A i \in 1 .. Len(nodes) : SameNode(nodes'[i], nodes[i])
  <1>1. nodes \in Seq(NodeType) /\ cursor \in 1 .. Len(nodes)
    BY DEF CalculateFileOffset, TypeInv, TypeOK
  <1>2. nodes' = [nodes EXCEPT ![cursor] = [nodes[cursor] EXCEPT !.offset = offset % Word]]
    BY DEF CalculateFileOffset
  <1>3. nodes[cursor] \in NodeType
    BY <1>1, ElementOfSeq
  <1>4. SameNode([nodes[cursor] EXCEPT !.offset = offset % Word], nodes[cursor])
    BY <1>3 DEF SameNode, SameTree, NodeType
  <1>5. \A i \in 1 .. Len(nodes) : nodes'[i] = IF i = cursor
           THEN [nodes[cursor] EXCEPT !.offset = offset % Word] ELSE nodes[i]
    BY <1>1, <1>2, LenProperties
  <1>6. Len(nodes') = Len(nodes)
    BY <1>1, <1>2, LenProperties
  <1>7. QED
    BY <1>4, <1>5, <1>6 DEF SameNode, SameTree

(* what stat gives for an entry that is there, and that it does so *)
LEMMA ReadStat ==
  ASSUME TypeOK, NEW e \in Entry, NEW r \in Entry \cup {NoEntry}, NEW st \in Stats,
         Reading(e, r, st)
  PROVE  /\ StatOk(r) => st = host[r]
         /\ r \in Entry /\ ~ StatOk(r) => host[r].kind = "nostat"
         /\ r \in Resolves[e] /\ pc = "walk"
         /\ st.kind = "reg" => st = [kind |-> "reg", size |-> st.size]
  <1>1. st.kind = "reg" => st \in [kind : {"reg"}, size : Sizes]
    BY DEF Stats, DirStat, OtherStat
  <1>2. QED
    BY <1>1 DEF Reading, StatOrStale, StatOk

-----------------------------------------------------------------------------
(* Nothing is invented *)

LEMMA TruthInit == Init => TruthInv
  BY DEF Init, TruthInv, NodesTrue, MissedGone

LEMMA RootIsNoEntry == Root \notin Entry /\ Root # NoEntry /\ NoEntry \notin Entry
  BY MkIfsAssumption DEF Root, DotNames

(* a step of another process leaves what is said of the untouched *)
LEMMA TruthKept ==
  ASSUME TypeOK, [Next]_vars, NodesTrue, nodes' = nodes
  PROVE  NodesTrue'
  <1>1. /\ touched \subseteq touched' /\ \A x \in Entry \ touched' : host'[x] = host[x]
        /\ missed \ touched' \subseteq missed'
    BY HostSteps
  <1>2. QED
    BY <1>1 DEF NodesTrue, NodeTrue

LEMMA ReadKept ==
  ASSUME TypeOK, [Next]_vars, pc # "walk", nodes' = nodes, NEW m, ReadTo(m)
  PROVE  \A j \in 2 .. m : nodes'[j].mode = "reg" =>
           nodes'[j].path \in Entry /\ nodes'[j].path \notin missed'
  <1>1. missed' \subseteq missed
    BY HostSteps
  <1>2. QED
    BY <1>1 DEF ReadTo

LEMMA TruthAdded ==
  ASSUME TypeInv, NodesTrue, AddDirectory \/ AddFile
  PROVE  NodesTrue'
  <1>ty. /\ TypeOK /\ Len(nodes) \in Nat /\ host' = host /\ touched' = touched
         /\ missed \subseteq missed'
    BY NodesTyped DEF TypeInv, AddDirectory, AddFile, Reading
  <1>1. CASE AddDirectory
    <2>1. PICK e \in Entry, r \in Entry :
            /\ host[r] = DirStat
            /\ Len(nodes') = Len(nodes) + 3 /\ \A i \in 1 .. Len(nodes) : nodes'[i] = nodes[i]
            /\ nodes'[Len(nodes) + 1] = Node(e, inodeNr, Top.inode, r, DirStat)
            /\ nodes'[Len(nodes) + 2] = DotNode(r, inodeNr)
            /\ nodes'[Len(nodes) + 3] = DotDotNode(r, inodeNr, Top.inode)
      BY <1>1, AddedDirectory
    <2>2. \A i \in {Len(nodes) + 1, Len(nodes) + 2, Len(nodes) + 3} :
            nodes'[i].path = r /\ nodes'[i].mode = "dir" /\ nodes'[i].size = 0
      BY <2>1 DEF Node, DotNode, DotDotNode, DirStat
    <2>3. \A j \in 2 .. Len(nodes') : j \in 2 .. Len(nodes)
            \/ j \in {Len(nodes) + 1, Len(nodes) + 2, Len(nodes) + 3}
      BY <1>ty, <2>1
    <2>4. \A j \in 2 .. Len(nodes) : nodes'[j] = nodes[j] /\ NodeTrue(nodes[j])
      BY <1>ty, <2>1 DEF NodesTrue
    <2>5. \A j \in 2 .. Len(nodes) : NodeTrue(nodes[j])'
      BY <1>ty, <2>4 DEF NodeTrue
    <2>6. \A j \in {Len(nodes) + 1, Len(nodes) + 2, Len(nodes) + 3} : NodeTrue(nodes[j])'
      BY <1>ty, <2>1, <2>2, RootIsNoEntry DEF NodeTrue
    <2>7. QED
      BY <2>3, <2>5, <2>6 DEF NodesTrue
  <1>2. CASE AddFile
    <2>1. PICK e \in Entry, r \in Entry \cup {NoEntry}, st \in Stats :
            /\ Reading(e, r, st) /\ st.kind = "reg"
            /\ Len(nodes') = Len(nodes) + 1 /\ \A i \in 1 .. Len(nodes) : nodes'[i] = nodes[i]
            /\ nodes'[Len(nodes) + 1] = Node(e, inodeNr, Top.inode, r, Truncated(st))
      BY <1>2, AddedFile
    <2>2. /\ nodes'[Len(nodes) + 1].path = r /\ nodes'[Len(nodes) + 1].mode = "reg"
          /\ nodes'[Len(nodes) + 1].size = st.size % Word
      <3>1. st = [kind |-> "reg", size |-> st.size]
        BY <1>ty, <2>1, ReadStat
      <3>2. Truncated(st).kind = "reg" /\ Truncated(st).size = st.size % Word
        BY <3>1 DEF Truncated
      <3>3. QED
        BY <2>1, <3>2 DEF Node
    <2>3. \A j \in 2 .. Len(nodes') : j \in 2 .. Len(nodes) \/ j = Len(nodes) + 1
      BY <1>ty, <2>1
    <2>4. \A j \in 2 .. Len(nodes) : nodes'[j] = nodes[j] /\ NodeTrue(nodes[j])
      BY <1>ty, <2>1 DEF NodesTrue
    <2>5. \A j \in 2 .. Len(nodes) : NodeTrue(nodes[j])'
      BY <1>ty, <2>4 DEF NodeTrue
    <2>6. r \in Entry => r \in missed' \/ (host[r].kind = "reg" /\ host[r].size = st.size)
      BY <1>ty, <2>1, ReadStat DEF Reading
    <2>7. \A j \in {Len(nodes) + 1} : NodeTrue(nodes[j])'
      BY <1>ty, <2>2, <2>6, RootIsNoEntry DEF NodeTrue
    <2>8. QED
      BY <2>3, <2>5, <2>7 DEF NodesTrue
  <1>3. QED
    BY <1>1, <1>2

LEMMA TruthStep == TypeInv /\ TypeInv' /\ TruthInv /\ [Next]_vars => TruthInv'
  <1> SUFFICES ASSUME TypeInv, TypeInv', TruthInv, [Next]_vars PROVE TruthInv'
    OBVIOUS
  <1>ty. TypeOK /\ TypeOK' /\ Len(nodes) \in Nat /\ cursor \in 1 .. Len(nodes) + 1
    BY NodesTyped DEF TypeInv, TypeOK
  <1>mi. MissedGone'
    BY <1>ty, MissedStep DEF TruthInv
  <1>1. CASE AddDirectory \/ AddFile
    <2>1. NodesTrue'
      BY <1>1, TruthAdded DEF TruthInv
    <2>2. pc' = "walk"
      BY <1>1 DEF AddDirectory, AddFile, Reading
    <2>3. QED
      BY <1>mi, <2>1, <2>2 DEF TruthInv
  <1>2. CASE StartIFS
    <2>1. Len(nodes') = 2 /\ nodes'[2] = DotNode(Root, 0) /\ pc' = "walk"
      BY <1>2, Started DEF StartIFS
    <2>2. NodeTrue(nodes[2])'
      BY <2>1, RootIsNoEntry DEF NodeTrue, DotNode, Node, DirStat
    <2>3. QED
      BY <1>mi, <2>1, <2>2 DEF TruthInv, NodesTrue
  <1>3. CASE CalculateFileOffset
    <2>1. Len(nodes') = Len(nodes) /\ \A i \in 1 .. Len(nodes) : SameNode(nodes'[i], nodes[i])
      BY <1>3, OffsetAssigned
    <2>2. pc' = "offsets" /\ host' = host /\ touched' = touched /\ missed' = missed
      BY <1>3 DEF CalculateFileOffset, hostVars
    <2>3. \A j \in 2 .. Len(nodes) : NodeTrue(nodes[j])'
      <3> SUFFICES ASSUME NEW j \in 2 .. Len(nodes) PROVE NodeTrue(nodes[j])'
        OBVIOUS
      <3>1. NodeTrue(nodes[j]) /\ SameNode(nodes'[j], nodes[j])
        BY <2>1, <1>ty DEF TruthInv, NodesTrue
      <3>2. nodes'[j].path = nodes[j].path /\ nodes'[j].mode = nodes[j].mode
            /\ nodes'[j].size = nodes[j].size
        BY <3>1 DEF SameNode, SameTree
      <3>3. QED
        BY <2>2, <3>1, <3>2 DEF NodeTrue
    <2>4. QED
      BY <1>mi, <2>1, <2>2, <2>3 DEF TruthInv, NodesTrue
  <1>4. CASE SkipContents \/ WriteContents
    <2>1. /\ pc = "contents" /\ pc' = "contents" /\ nodes' = nodes /\ cursor' = cursor + 1
          /\ host' = host /\ touched' = touched /\ missed' = missed
          /\ nodes[cursor].mode = "reg" => StatOk(nodes[cursor].path)
      BY <1>4 DEF SkipContents, WriteContents, CopyContents, Readable, Special, Opening, hostVars
    <2>2. NodesTrue'
      BY <1>ty, <2>1, TruthKept DEF TruthInv
    <2>3. \A j \in 2 .. cursor : j \in 2 .. cursor - 1 \/ j = cursor
      BY <1>ty
    <2>4. ReadTo(cursor)
      BY <2>1, <2>3 DEF TruthInv, ReadTo, MissedGone, StatOk
    <2>5. cursor' - 1 = cursor
      BY <1>ty, <2>1
    <2>6. ReadTo(cursor - 1)'
      BY <2>1, <2>4, <2>5 DEF ReadTo
    <2>7. QED
      BY <1>mi, <2>1, <2>2, <2>6 DEF TruthInv
  <1>9. CASE OpenBlocks
    <2>1. /\ pc = "contents" /\ pc' = "blocked" /\ nodes' = nodes /\ cursor' = cursor
          /\ host' = host /\ touched' = touched /\ missed' = missed
          /\ StatOk(nodes[cursor].path)
      BY <1>9 DEF OpenBlocks, Opening, Special, hostVars, layoutVars
    <2>2. NodesTrue'
      BY <1>ty, <2>1, TruthKept DEF TruthInv
    <2>3. \A j \in 2 .. cursor : j \in 2 .. cursor - 1 \/ j = cursor
      BY <1>ty
    <2>4. ReadTo(cursor)
      BY <2>1, <2>3 DEF TruthInv, ReadTo, MissedGone, StatOk
    <2>5. ReadTo(cursor)'
      BY <2>1, <2>4 DEF ReadTo
    <2>6. QED
      BY <1>mi, <2>1, <2>2, <2>5 DEF TruthInv
  <1>10. CASE OpenReturns
    <2>1. /\ pc = "blocked" /\ pc' = "contents" /\ nodes' = nodes /\ cursor' = cursor + 1
          /\ host' = host /\ touched' = touched /\ missed' = missed
      BY <1>10 DEF OpenReturns, CopyContents, hostVars
    <2>2. NodesTrue'
      BY <1>ty, <2>1, TruthKept DEF TruthInv
    <2>3. cursor' - 1 = cursor
      BY <1>ty, <2>1
    <2>4. ReadTo(cursor - 1)'
      BY <2>1, <2>3 DEF TruthInv, ReadTo
    <2>5. QED
      BY <1>mi, <2>1, <2>2, <2>4 DEF TruthInv
  <1>5. CASE PatchBootloader
    <2>1. /\ pc = "contents" /\ cursor > Len(nodes) /\ nodes' = nodes
          /\ pc' \notin {"contents", "blocked"}
          /\ host' = host /\ touched' = touched /\ missed' = missed
      BY <1>5 DEF PatchBootloader, hostVars
    <2>2. cursor - 1 = Len(nodes)
      BY <1>ty, <2>1
    <2>3. ReadTo(Len(nodes))
      BY <2>1, <2>2 DEF TruthInv
    <2>4. ReadTo(Len(nodes))'
      BY <2>1, <2>3 DEF ReadTo
    <2>5. NodesTrue'
      BY <1>ty, <2>1, TruthKept DEF TruthInv
    <2>6. QED
      BY <1>mi, <2>1, <2>4, <2>5 DEF TruthInv
  <1>6. CASE \/ WriteBootloader \/ OpenDirFails \/ SkipOther \/ EndDirectory
             \/ WriteHeader \/ WriteNodeTable
    <2>1. /\ nodes' = nodes /\ pc' \notin {"done", "blocked"} /\ (pc' = "contents" => cursor' = 1)
      BY <1>6 DEF WriteBootloader, OpenDirFails, SkipOther, EndDirectory, WriteHeader,
         WriteNodeTable, Reading
    <2>2. NodesTrue'
      BY <1>ty, <2>1, TruthKept DEF TruthInv
    <2>3. ASSUME pc' = "contents" PROVE ReadTo(cursor - 1)'
      <3>1. cursor' - 1 = 0
        BY <2>1, <2>3
      <3>2. QED
        BY <3>1 DEF ReadTo
    <2>4. QED
      BY <1>mi, <2>1, <2>2, <2>3 DEF TruthInv
  <1>7. CASE ReadFails \/ Exit \/ HostChanges \/ UNCHANGED vars
    <2>1. /\ nodes' = nodes
          /\ (pc' = pc /\ cursor' = cursor) \/ pc' = "failed"
      BY <1>7 DEF ReadFails, Exit, HostChanges, vars, layoutVars
    <2>2. NodesTrue'
      BY <1>ty, <2>1, TruthKept DEF TruthInv
    <2>3. pc # "walk" =>
            \A m : ReadTo(m) => \A j \in 2 .. m : nodes'[j].mode = "reg" =>
              nodes'[j].path \in Entry /\ nodes'[j].path \notin missed'
      BY <1>ty, <2>1, ReadKept
    <2>4. /\ pc' = "contents" => ReadTo(cursor - 1)'
          /\ pc' = "blocked" => ReadTo(cursor)'
      BY <2>1, <2>3 DEF TruthInv, ReadTo
    <2>5. pc' = "done" => ReadTo(Len(nodes))'
      BY <2>1, <2>3 DEF TruthInv, ReadTo
    <2>6. QED
      BY <1>mi, <2>2, <2>4, <2>5 DEF TruthInv
  <1>11. QED
    BY <1>1, <1>2, <1>3, <1>4, <1>5, <1>6, <1>7, <1>9, <1>10 DEF Next, Tool, Walk, Write, Terminated

(* In an image that mkifs completes no path leads nowhere, a file that stat did
   not find has been created since, and what a node says of an entry that no
   process has changed is true: reading the contents finds out the rest. *)
THEOREM NothingInvented == Spec => []NoPhantom
  <1>1. Spec => [](TypeInv /\ TruthInv)
    BY TypeInit, TypeStep, TruthInit, TruthStep, PTL DEF Spec
  <1>2. TypeInv /\ TruthInv => NoPhantom
    <2> SUFFICES ASSUME TypeInv, TruthInv, pc = "done", NEW j \in 2 .. Len(nodes)
                 PROVE  /\ nodes[j].path # NoEntry
                        /\ nodes[j].mode = "reg" => nodes[j].path \notin missed
                        /\ nodes[j].path \in Entry \ touched =>
                             /\ host[nodes[j].path].kind = nodes[j].mode
                             /\ host[nodes[j].path].size % Word = nodes[j].size
      BY DEF NoPhantom
    <2>1. nodes[j] \in NodeType /\ touched \subseteq Entry
      BY ElementOfSeq, NodesTyped DEF TypeInv, TypeOK
    <2>2. NodeTrue(nodes[j]) /\ (nodes[j].mode = "reg" =>
            nodes[j].path \in Entry /\ nodes[j].path \notin missed)
      BY DEF TruthInv, NodesTrue, ReadTo
    <2>3. nodes[j].mode \in {"dir", "reg"} /\ 0 % Word = 0
      BY <2>1, ModWord, WordPositive DEF NodeType
    <2>4. QED
      BY <2>1, <2>2, <2>3, RootIsNoEntry DEF NodeTrue, DirStat
  <1>3. QED
    BY <1>1, <1>2, PTL

-----------------------------------------------------------------------------
(* The calls of Recursive *)

LEMMA CallsInit == Init => CallsInv
  BY DEF Init, CallsInv, RootFirst, Returned, CallsNumbered, Once, Unread, PathsResolve

(* the numbers in use are below the counter *)
LEMMA NumbersBelow ==
  ASSUME TypeInv, WalkInv
  PROVE  /\ inodeNr \in Nat /\ Len(stack) \in Nat
         /\ \A s \in 1 .. Len(stack) : /\ stack[s].inode \in Nat /\ stack[s].inode < inodeNr
                                       /\ stack[s].left \subseteq Entry
         /\ \A j \in 1 .. Len(nodes) : nodes[j].name \in Entry =>
              nodes[j].parent \in Nat /\ nodes[j].parent < inodeNr
  <1>1. inodeNr \in Nat /\ Len(stack) \in Nat
    BY LenProperties DEF TypeInv, TypeOK
  <1>2. \A s \in 1 .. Len(stack) : stack[s] \in FrameType
    BY ElementOfSeq DEF TypeInv, TypeOK
  <1>3. \A j \in 1 .. Len(nodes) : nodes[j] \in NodeType
    BY ElementOfSeq DEF TypeInv, TypeOK
  <1>4. \A d \in 1 .. Len(nodes) : \A p, i : IsDirOf(nodes[d], p, i) => i < inodeNr
    BY DEF WalkInv, Numbered, IsDirOf
  <1>5. \A s \in 1 .. Len(stack) : stack[s].inode < inodeNr
    BY <1>4 DEF WalkInv, FramesSound, FrameSound
  <1>6. ASSUME NEW j \in 1 .. Len(nodes), nodes[j].name \in Entry
        PROVE  nodes[j].parent < inodeNr
    <2>1. \E d \in 1 .. j - 1 : IsDirOf(nodes[d], Parent[nodes[j].name], nodes[j].parent)
      BY <1>6 DEF WalkInv, TreeSound, NodeSound
    <2>2. \A d \in 1 .. j - 1 : d \in 1 .. Len(nodes)
      BY NodesTyped DEF TypeInv
    <2>3. QED
      BY <1>4, <2>1, <2>2
  <1>7. QED
    BY <1>1, <1>2, <1>3, <1>5, <1>6 DEF FrameType, NodeType

(* the stack of a call that has read an entry *)
LEMMA CallsConsumed ==
  ASSUME TypeInv, WalkInv, CallsInv, NEW e \in Entry, NEW r \in Entry \cup {NoEntry},
         NEW st \in Stats, Reading(e, r, st)
  PROVE  LET calls == Consumed(e, st) IN
         /\ Len(calls) = Len(stack) /\ Len(stack) \in Nat \ {0}
         /\ Top.inode \in Nat /\ Top.inode < inodeNr
         /\ \A s \in 1 .. Len(stack) : /\ calls[s].inode \in Nat /\ calls[s].inode < inodeNr
                                       /\ calls[s].left \subseteq Entry
         /\ \A s, t \in 1 .. Len(stack) : s < t => calls[s].inode < calls[t].inode
         /\ \A s \in 1 .. Len(stack), j \in 1 .. Len(nodes) :
              nodes[j].name \in calls[s].left => nodes[j].parent # calls[s].inode
         /\ \A s \in 1 .. Len(stack) : e \in calls[s].left => calls[s].inode # Top.inode
         /\ \A j \in 1 .. Len(nodes) : nodes[j].name = e => nodes[j].parent # Top.inode
  <1> DEFINE calls == Consumed(e, st)
  <1>1. /\ Len(stack) \in Nat \ {0} /\ Top \in FrameType
        /\ Len(calls) = Len(stack)
        /\ calls[Len(stack)] = [Top EXCEPT !.left = @ \ {e}, !.st = st]
        /\ \A i \in 1 .. Len(stack) - 1 : calls[i] = stack[i]
    BY ReadingTypes, ZenonT(30) DEF TypeInv
  <1>2. /\ calls[Len(stack)].inode = Top.inode /\ calls[Len(stack)].left = Top.left \ {e}
    BY <1>1 DEF FrameType
  <1>3. Top = stack[Len(stack)] /\ e \in Top.left /\ Len(stack) \in 1 .. Len(stack)
    BY <1>1 DEF Top, Reading
  <1>4. \A s \in 1 .. Len(stack) : s = Len(stack) \/ (s \in 1 .. Len(stack) - 1 /\ s < Len(stack))
    BY <1>1
  <1>5. \A s \in 1 .. Len(stack) : /\ calls[s].inode = stack[s].inode
                                   /\ calls[s].left \subseteq stack[s].left
    BY <1>1, <1>2, <1>3, <1>4
  <1>6. \A s \in 1 .. Len(stack) : /\ stack[s].inode \in Nat /\ stack[s].inode < inodeNr
                                   /\ stack[s].left \subseteq Entry
    BY NumbersBelow
  <1>7. \A s, t \in 1 .. Len(stack) : s < t => calls[s].inode < calls[t].inode
    BY <1>5 DEF CallsInv, CallsNumbered
  <1>8. \A s \in 1 .. Len(stack), j \in 1 .. Len(nodes) :
          nodes[j].name \in calls[s].left => nodes[j].parent # calls[s].inode
    BY <1>5 DEF CallsInv, Unread
  <1>9. \A j \in 1 .. Len(nodes) : nodes[j].name = e => nodes[j].parent # Top.inode
    BY <1>3 DEF CallsInv, Unread
  <1>10. \A s \in 1 .. Len(stack) : e \in calls[s].left => calls[s].inode # Top.inode
    <2> SUFFICES ASSUME NEW s \in 1 .. Len(stack), e \in calls[s].left
                 PROVE  calls[s].inode # Top.inode
      OBVIOUS
    <2>1. s # Len(stack)
      BY <1>2
    <2>2. s < Len(stack)
      BY <1>4, <2>1
    <2>3. stack[s].inode < stack[Len(stack)].inode
      BY <1>3, <2>2 DEF CallsInv, CallsNumbered
    <2>4. QED
      BY <1>3, <1>5, <1>6, <2>3
  <1>11. QED
    BY <1>1, <1>3, <1>5, <1>6, <1>7, <1>8, <1>9, <1>10

LEMMA CallsAddDirectory ==
  ASSUME TypeInv, WalkInv, CallsInv, AddDirectory
  PROVE  CallsInv'
  <1>1. PICK e \in Entry, r \in Entry :
          /\ Reading(e, r, DirStat)
          /\ Len(nodes') = Len(nodes) + 3 /\ \A i \in 1 .. Len(nodes) : nodes'[i] = nodes[i]
          /\ nodes'[Len(nodes) + 1] = Node(e, inodeNr, Top.inode, r, DirStat)
          /\ nodes'[Len(nodes) + 2] = DotNode(r, inodeNr)
          /\ nodes'[Len(nodes) + 3] = DotDotNode(r, inodeNr, Top.inode)
          /\ stack' = Append(Consumed(e, DirStat), Frame(r, inodeNr))
          /\ inodeNr' = inodeNr + 3
    BY AddedDirectory
  <1>2. PICK calls : calls = Consumed(e, DirStat)
    OBVIOUS
  <1>3. PICK n \in Nat, m \in Nat : n = Len(nodes) /\ m = Len(stack)
    BY NodesTyped, NumbersBelow DEF TypeInv
  <1>4. /\ Len(calls) = m /\ m # 0
        /\ Top.inode \in Nat /\ Top.inode < inodeNr /\ inodeNr \in Nat
        /\ \A s \in 1 .. m : /\ calls[s].inode \in Nat /\ calls[s].inode < inodeNr
                             /\ calls[s].left \subseteq Entry
        /\ \A s, t \in 1 .. m : s < t => calls[s].inode < calls[t].inode
        /\ \A s \in 1 .. m, j \in 1 .. n :
             nodes[j].name \in calls[s].left => nodes[j].parent # calls[s].inode
        /\ \A s \in 1 .. m : e \in calls[s].left => calls[s].inode # Top.inode
        /\ \A j \in 1 .. n : nodes[j].name = e => nodes[j].parent # Top.inode
    <2>1. DirStat \in Stats /\ r \in Entry \cup {NoEntry} /\ inodeNr \in Nat
      BY StatTypes, NumbersBelow
    <2>2. /\ Len(Consumed(e, DirStat)) = Len(stack) /\ Len(stack) \in Nat \ {0}
          /\ Top.inode \in Nat /\ Top.inode < inodeNr
          /\ \A s \in 1 .. Len(stack) :
               /\ Consumed(e, DirStat)[s].inode \in Nat
               /\ Consumed(e, DirStat)[s].inode < inodeNr
               /\ Consumed(e, DirStat)[s].left \subseteq Entry
          /\ \A s, t \in 1 .. Len(stack) :
               s < t => Consumed(e, DirStat)[s].inode < Consumed(e, DirStat)[t].inode
          /\ \A s \in 1 .. Len(stack), j \in 1 .. Len(nodes) :
               nodes[j].name \in Consumed(e, DirStat)[s].left
                 => nodes[j].parent # Consumed(e, DirStat)[s].inode
          /\ \A s \in 1 .. Len(stack) :
               e \in Consumed(e, DirStat)[s].left => Consumed(e, DirStat)[s].inode # Top.inode
          /\ \A j \in 1 .. Len(nodes) : nodes[j].name = e => nodes[j].parent # Top.inode
      BY <1>1, <2>1, CallsConsumed
    <2>3. QED
      BY <1>2, <1>3, <2>1, <2>2
  <1>5. /\ Len(stack') = m + 1 /\ \A s \in 1 .. m : stack'[s] = calls[s]
        /\ stack'[m + 1].inode = inodeNr /\ stack'[m + 1].left \subseteq Entry
    <2>1. calls \in Seq(FrameType)
      BY <1>1, <1>2, StatTypes, ReadingTypes DEF TypeInv
    <2>2. Frame(r, inodeNr) \in FrameType
      BY <1>4, FrameTypes
    <2>3. /\ Len(stack') = m + 1 /\ \A s \in 1 .. m : stack'[s] = calls[s]
          /\ stack'[m + 1] = Frame(r, inodeNr)
      BY <1>1, <1>2, <1>4, <2>1, <2>2, AppendOne
    <2>4. QED
      BY <2>3 DEF Frame, Children
  <1>6. /\ Len(nodes') = n + 3 /\ \A i \in 1 .. n : nodes'[i] = nodes[i]
        /\ nodes'[n + 1].name = e /\ nodes'[n + 1].parent = Top.inode /\ nodes'[n + 1].path = r
        /\ nodes'[n + 2].name \notin Entry /\ nodes'[n + 3].name \notin Entry
    BY <1>1, <1>3, DotNamesNotReal DEF Node, DotNode, DotDotNode
  <1>7. \A j \in 1 .. n + 3 : j \in 1 .. n \/ j = n + 1 \/ j = n + 2 \/ j = n + 3
    BY <1>3
  <1>8. \A s \in 1 .. m + 1 : s \in 1 .. m \/ s = m + 1
    BY <1>3
  <1>9. \A j \in 1 .. n : nodes[j].name \in Entry => nodes[j].parent \in Nat /\ nodes[j].parent < inodeNr
    BY <1>3, NumbersBelow
  <1>10. CallsNumbered'
    <2> SUFFICES ASSUME NEW s \in 1 .. m + 1, NEW t \in 1 .. m + 1, s < t
                 PROVE  stack'[s].inode < stack'[t].inode
      BY <1>5 DEF CallsNumbered
    <2>1. s \in 1 .. m
      OBVIOUS
    <2>2. QED
      BY <1>4, <1>5, <1>8, <2>1
  <1>11. Once'
    <2> SUFFICES ASSUME NEW j \in 1 .. n + 3, NEW k \in 1 .. n + 3,
                        nodes'[j].name \in Entry, nodes'[j].name = nodes'[k].name,
                        nodes'[j].parent = nodes'[k].parent
                 PROVE  j = k
      BY <1>6 DEF Once
    <2>1. (j \in 1 .. n \/ j = n + 1) /\ (k \in 1 .. n \/ k = n + 1)
      BY <1>6, <1>7
    <2>2. CASE j \in 1 .. n /\ k \in 1 .. n
      BY <1>3, <1>6, <2>2 DEF CallsInv, Once
    <2>3. CASE j \in 1 .. n /\ k = n + 1
      BY <1>4, <1>6, <2>3
    <2>4. CASE k \in 1 .. n /\ j = n + 1
      BY <1>4, <1>6, <2>4
    <2>5. QED
      BY <2>1, <2>2, <2>3, <2>4
  <1>12. Unread'
    <2> SUFFICES ASSUME NEW s \in 1 .. m + 1, NEW j \in 1 .. n + 3,
                        nodes'[j].name \in stack'[s].left
                 PROVE  nodes'[j].parent # stack'[s].inode
      BY <1>5, <1>6 DEF Unread
    <2>1. nodes'[j].name \in Entry
      BY <1>4, <1>5, <1>8
    <2>2. j \in 1 .. n \/ j = n + 1
      BY <1>6, <1>7, <2>1
    <2>3. CASE s \in 1 .. m
      <3>1. CASE j \in 1 .. n
        BY <1>4, <1>5, <1>6, <2>3, <3>1, SMTT(30)
      <3>2. CASE j = n + 1
        BY <1>4, <1>5, <1>6, <2>3, <3>2
      <3>3. QED
        BY <2>2, <3>1, <3>2
    <2>4. CASE s = m + 1
      BY <1>4, <1>5, <1>6, <1>9, <2>1, <2>2, <2>4
    <2>5. QED
      BY <1>8, <2>3, <2>4
  <1>13. PathsResolve'
    <2>1. r \in Resolves[e]
      BY <1>1 DEF Reading
    <2>2. \A j \in 1 .. n : nodes'[j].name \in Entry => nodes'[j].path \in Resolves[nodes'[j].name]
      BY <1>3, <1>6 DEF CallsInv, PathsResolve
    <2>3. QED
      BY <1>6, <1>7, <2>1, <2>2 DEF PathsResolve
  <1>14. RootFirst'
    <2>1. n >= 2 /\ 1 \in 1 .. n
      BY <1>1, <1>3 DEF TypeInv, Built, Reading
    <2>2. QED
      BY <1>3, <1>6, <2>1 DEF CallsInv, RootFirst, IsDirOf, IsReal
  <1>15. Returned'
    BY DEF AddDirectory, Reading, Returned
  <1>16. QED
    BY <1>10, <1>11, <1>12, <1>13, <1>14, <1>15 DEF CallsInv

LEMMA CallsAddFile ==
  ASSUME TypeInv, WalkInv, CallsInv, AddFile
  PROVE  CallsInv'
  <1>1. PICK e \in Entry, r \in Entry \cup {NoEntry}, st \in Stats :
          /\ Reading(e, r, st)
          /\ Len(nodes') = Len(nodes) + 1 /\ \A i \in 1 .. Len(nodes) : nodes'[i] = nodes[i]
          /\ nodes'[Len(nodes) + 1] = Node(e, inodeNr, Top.inode, r, Truncated(st))
          /\ stack' = Consumed(e, st)
    BY AddedFile
  <1>2. PICK n \in Nat, m \in Nat : n = Len(nodes) /\ m = Len(stack)
    BY NodesTyped, NumbersBelow DEF TypeInv
  <1>3. /\ Len(stack') = m
        /\ \A s \in 1 .. m : stack'[s].left \subseteq Entry
        /\ \A s, t \in 1 .. m : s < t => stack'[s].inode < stack'[t].inode
        /\ \A s \in 1 .. m, j \in 1 .. n :
             nodes[j].name \in stack'[s].left => nodes[j].parent # stack'[s].inode
        /\ \A s \in 1 .. m : e \in stack'[s].left => stack'[s].inode # Top.inode
        /\ \A j \in 1 .. n : nodes[j].name = e => nodes[j].parent # Top.inode
    BY <1>1, <1>2, CallsConsumed, ZenonT(30)
  <1>4. /\ Len(nodes') = n + 1 /\ \A i \in 1 .. n : nodes'[i] = nodes[i]
        /\ nodes'[n + 1].name = e /\ nodes'[n + 1].parent = Top.inode /\ nodes'[n + 1].path = r
    BY <1>1, <1>2 DEF Node
  <1>5. \A j \in 1 .. n + 1 : j \in 1 .. n \/ j = n + 1
    BY <1>2
  <1>6. CallsNumbered'
    BY <1>3 DEF CallsNumbered
  <1>7. Once'
    <2> SUFFICES ASSUME NEW j \in 1 .. n + 1, NEW k \in 1 .. n + 1,
                        nodes'[j].name \in Entry, nodes'[j].name = nodes'[k].name,
                        nodes'[j].parent = nodes'[k].parent
                 PROVE  j = k
      BY <1>4 DEF Once
    <2>1. CASE j \in 1 .. n /\ k \in 1 .. n
      BY <1>2, <1>4, <2>1 DEF CallsInv, Once
    <2>2. CASE j \in 1 .. n /\ k = n + 1
      BY <1>3, <1>4, <2>2
    <2>3. CASE k \in 1 .. n /\ j = n + 1
      BY <1>3, <1>4, <2>3
    <2>4. QED
      BY <1>5, <2>1, <2>2, <2>3
  <1>8. Unread'
    <2> SUFFICES ASSUME NEW s \in 1 .. m, NEW j \in 1 .. n + 1,
                        nodes'[j].name \in stack'[s].left
                 PROVE  nodes'[j].parent # stack'[s].inode
      BY <1>3, <1>4 DEF Unread
    <2>1. CASE j \in 1 .. n
      BY <1>3, <1>4, <2>1
    <2>2. CASE j = n + 1
      BY <1>3, <1>4, <2>2
    <2>3. QED
      BY <1>5, <2>1, <2>2
  <1>9. PathsResolve'
    <2>1. r \in Resolves[e]
      BY <1>1 DEF Reading
    <2>2. \A j \in 1 .. n : nodes'[j].name \in Entry => nodes'[j].path \in Resolves[nodes'[j].name]
      BY <1>2, <1>4 DEF CallsInv, PathsResolve
    <2>3. QED
      BY <1>4, <1>5, <2>1, <2>2 DEF PathsResolve
  <1>10. RootFirst'
    <2>1. n >= 2 /\ 1 \in 1 .. n
      BY <1>1, <1>2 DEF TypeInv, Built, Reading
    <2>2. QED
      BY <1>2, <1>4, <2>1 DEF CallsInv, RootFirst, IsDirOf, IsReal
  <1>11. Returned'
    BY DEF AddFile, Reading, Returned
  <1>12. QED
    BY <1>6, <1>7, <1>8, <1>9, <1>10, <1>11 DEF CallsInv

(* steps that leave the list alone, or assign an offset *)
LEMMA CallsSameNodes ==
  ASSUME CallsInv, Len(nodes') = Len(nodes),
         \A i \in 1 .. Len(nodes) : SameNode(nodes'[i], nodes[i])
  PROVE  /\ Once' /\ PathsResolve'
         /\ Len(nodes) \in Nat => RootFirst'
         /\ stack' = stack => CallsNumbered' /\ Unread'
  <1>1. \A i \in 1 .. Len(nodes) : /\ nodes'[i].name = nodes[i].name
                                   /\ nodes'[i].parent = nodes[i].parent
                                   /\ nodes'[i].path = nodes[i].path
    BY DEF SameNode, SameTree
  <1>2. Once'
    BY <1>1 DEF CallsInv, Once
  <1>3. PathsResolve'
    BY <1>1 DEF CallsInv, PathsResolve
  <1>4. ASSUME Len(nodes) \in Nat PROVE RootFirst'
    <2>1. Len(nodes) >= 1 => 1 \in 1 .. Len(nodes)
      BY <1>4
    <2>2. QED
      BY <2>1 DEF CallsInv, RootFirst, IsDirOf, IsReal, SameNode, SameTree
  <1>5. stack' = stack => CallsNumbered' /\ Unread'
    BY <1>1 DEF CallsInv, CallsNumbered, Unread
  <1>6. QED
    BY <1>2, <1>3, <1>4, <1>5

LEMMA CallsStart ==
  ASSUME StartIFS
  PROVE  CallsInv'
  <1>1. /\ Len(nodes') = 2 /\ nodes'[1].name = Root /\ IsDirOf(nodes'[1], Root, 0)
        /\ nodes'[2].name = "." /\ Len(stack') = 1 /\ stack'[1].left \subseteq Entry
    BY Started DEF DotNode, Node, Frame, Children
  <1>2. \A j \in 1 .. 2 : nodes'[j].name \notin Entry
    BY <1>1, DotNamesNotReal
  <1>3. Once' /\ Unread' /\ PathsResolve' /\ CallsNumbered'
    BY <1>1, <1>2 DEF Once, Unread, PathsResolve, CallsNumbered
  <1>4. RootFirst'
    BY <1>1 DEF RootFirst, IsDirOf, IsReal
  <1>5. Returned'
    BY DEF StartIFS, Returned
  <1>6. QED
    BY <1>3, <1>4, <1>5 DEF CallsInv

LEMMA CallsStep == TypeInv /\ WalkInv /\ CallsInv /\ [Next]_vars => CallsInv'
  <1> SUFFICES ASSUME TypeInv, WalkInv, CallsInv, [Next]_vars PROVE CallsInv'
    OBVIOUS
  <1>ty. Len(nodes) \in Nat
    BY NodesTyped DEF TypeInv
  <1>same. \A i \in 1 .. Len(nodes) : SameNode(nodes[i], nodes[i])
    BY DEF SameNode, SameTree
  <1>1. CASE AddDirectory
    BY <1>1, CallsAddDirectory
  <1>2. CASE AddFile
    BY <1>2, CallsAddFile
  <1>3. CASE StartIFS
    BY <1>3, CallsStart
  <1>4. CASE SkipOther
    <2>1. PICK e \in Entry, r \in Entry \cup {NoEntry}, st \in Stats :
            Reading(e, r, st) /\ stack' = Consumed(e, st)
      BY <1>4 DEF SkipOther
    <2>2. nodes' = nodes /\ pc' = "walk"
      BY <1>4 DEF SkipOther, Reading
    <2>3. /\ Len(stack') = Len(stack)
          /\ \A s, t \in 1 .. Len(stack) : s < t => stack'[s].inode < stack'[t].inode
          /\ \A s \in 1 .. Len(stack), j \in 1 .. Len(nodes) :
               nodes[j].name \in stack'[s].left => nodes[j].parent # stack'[s].inode
      BY <2>1, CallsConsumed
    <2>4. CallsNumbered' /\ Unread'
      BY <2>2, <2>3 DEF CallsNumbered, Unread
    <2>5. Once' /\ PathsResolve' /\ RootFirst'
      BY <1>ty, <1>same, <2>2, CallsSameNodes
    <2>6. QED
      BY <2>2, <2>4, <2>5 DEF CallsInv, Returned
  <1>5. CASE EndDirectory
    <2>1. Len(stack) \in Nat \ {0} /\ stack \in Seq(FrameType)
      BY <1>5, EmptySeq DEF EndDirectory, TypeInv, TypeOK
    <2>2. stack' = SubSeq(stack, 1, Len(stack) - 1) /\ nodes' = nodes
          /\ pc' = IF Len(stack) = 1 THEN "table" ELSE "walk"
      BY <1>5 DEF EndDirectory
    <2>3. /\ Len(stack') = Len(stack) - 1
          /\ \A s \in 1 .. Len(stack') : s \in 1 .. Len(stack) /\ stack'[s] = stack[s]
      BY <2>1, <2>2, DropLast
    <2>4. CallsNumbered' /\ Unread'
      BY <2>2, <2>3 DEF CallsInv, CallsNumbered, Unread
    <2>5. Once' /\ PathsResolve' /\ RootFirst'
      BY <1>ty, <1>same, <2>2, CallsSameNodes
    <2>6. Returned'
      BY <2>1, <2>2, <2>3 DEF Returned
    <2>7. QED
      BY <2>4, <2>5, <2>6 DEF CallsInv
  <1>6. CASE CalculateFileOffset
    <2>1. Len(nodes') = Len(nodes) /\ \A i \in 1 .. Len(nodes) : SameNode(nodes'[i], nodes[i])
      BY <1>6, OffsetAssigned
    <2>2. stack' = stack /\ pc' = pc
      BY <1>6 DEF CalculateFileOffset
    <2>3. Once' /\ PathsResolve' /\ RootFirst' /\ CallsNumbered' /\ Unread'
      BY <1>ty, <2>1, <2>2, CallsSameNodes
    <2>4. QED
      BY <2>2, <2>3 DEF CallsInv, Returned
  <1>7. CASE \/ WriteBootloader \/ OpenDirFails \/ WriteHeader \/ WriteNodeTable
             \/ SkipContents \/ WriteContents \/ ReadFails \/ OpenBlocks \/ OpenReturns
             \/ PatchBootloader \/ Exit \/ HostChanges \/ UNCHANGED vars
    <2>1. /\ nodes' = nodes /\ stack' = stack
          /\ \/ pc' \in {"start", "failed"} \/ pc' = pc
             \/ pc \in {"table", "offsets", "contents", "blocked"}
      BY <1>7 DEF WriteBootloader, OpenDirFails, WriteHeader, WriteNodeTable, SkipContents,
         WriteContents, ReadFails, OpenBlocks, OpenReturns, CopyContents, Opening, PatchBootloader, Exit, HostChanges, vars
    <2>2. Once' /\ PathsResolve' /\ RootFirst' /\ CallsNumbered' /\ Unread'
      BY <1>ty, <1>same, <2>1, CallsSameNodes
    <2>3. QED
      BY <2>1, <2>2 DEF CallsInv, Returned
  <1>8. QED
    BY <1>1, <1>2, <1>3, <1>4, <1>5, <1>6, <1>7 DEF Next, Tool, Walk, Write, Terminated

-----------------------------------------------------------------------------
(* Nothing is lost *)

LEMMA CoveredInit == Init => Covered
  BY DEF Init, Covered

LEMMA UntouchedInit == Init => KeptUntouched
  BY DEF Init, KeptUntouched

(* reading an entry takes it, and nothing else, from what is to be read *)
LEMMA ConsumedFrames ==
  ASSUME TypeOK, NEW e \in Entry, NEW r \in Entry \cup {NoEntry}, NEW st \in Stats,
         Reading(e, r, st)
  PROVE  /\ Len(Consumed(e, st)) = Len(stack)
         /\ \A s \in 1 .. Len(stack) :
              /\ Consumed(e, st)[s].inode = stack[s].inode
              /\ \A x \in stack[s].left :
                   x \in Consumed(e, st)[s].left \/ (x = e /\ stack[s].inode = Top.inode)
  <1>1. /\ Len(stack) \in Nat \ {0} /\ Top \in FrameType
        /\ Len(Consumed(e, st)) = Len(stack)
        /\ Consumed(e, st)[Len(stack)] = [Top EXCEPT !.left = @ \ {e}, !.st = st]
        /\ \A i \in 1 .. Len(stack) - 1 : Consumed(e, st)[i] = stack[i]
    BY ReadingTypes, ZenonT(30)
  <1>2. /\ Consumed(e, st)[Len(stack)].inode = Top.inode
        /\ Consumed(e, st)[Len(stack)].left = Top.left \ {e}
    BY <1>1 DEF FrameType
  <1>3. \A s \in 1 .. Len(stack) : s = Len(stack) \/ s \in 1 .. Len(stack) - 1
    BY <1>1
  <1>4. QED
    BY <1>1, <1>2, <1>3 DEF Top

(* a kept entry is found where it is *)
LEMMA KeptRead ==
  ASSUME TypeOK, NEW e \in Kept, NEW r \in Entry \cup {NoEntry}, NEW st \in Stats,
         Reading(e, r, st)
  PROVE  r = e /\ st = host[e] /\ st.kind \in {"dir", "reg"}
  <1>1. /\ e \in Entry /\ Resolves[e] = {e}
        /\ host[e] = DirStat \/ (host[e].kind = "reg" /\ e \notin touched)
    BY KeptFacts, TypeParts DEF Kept
  <1>2. r = e
    BY <1>1 DEF Reading
  <1>3. StatOk(e) /\ host[e].kind \in {"dir", "reg"}
    BY <1>1 DEF StatOk, DirStat
  <1>4. QED
    BY <1>1, <1>2, <1>3 DEF Reading, StatOrStale

LEMMA KeptSame ==
  ASSUME UNCHANGED <<host, touched>>
  PROVE  Kept' = Kept /\ host' = host
  BY DEF Kept, KeptIn, KeptStill

LEMMA UntouchedStep ==
  ASSUME TypeOK, TypeOK', KeptUntouched, [Next]_vars
  PROVE  KeptUntouched'
  <1>1. \A e \in Kept' : e \in Kept /\ host'[e] = host[e]
    BY KeptStays
  <1>2. \A e \in touched' \ touched : host'[e] # host[e]
    BY HostSteps
  <1>3. QED
    BY <1>1, <1>2 DEF KeptUntouched

LEMMA CoveredAddDirectory ==
  ASSUME TypeInv, Covered, AddDirectory
  PROVE  Covered'
  <1>1. PICK e0 \in Entry, r \in Entry :
          /\ Reading(e0, r, DirStat) /\ host[r] = DirStat
          /\ Len(nodes') = Len(nodes) + 3 /\ \A i \in 1 .. Len(nodes) : nodes'[i] = nodes[i]
          /\ nodes'[Len(nodes) + 1] = Node(e0, inodeNr, Top.inode, r, DirStat)
          /\ nodes'[Len(nodes) + 2] = DotNode(r, inodeNr)
          /\ nodes'[Len(nodes) + 3] = DotDotNode(r, inodeNr, Top.inode)
          /\ stack' = Append(Consumed(e0, DirStat), Frame(r, inodeNr))
    BY AddedDirectory
  <1>2. PICK n \in Nat, m \in Nat : n = Len(nodes) /\ m = Len(stack)
    BY NodesTyped, LenProperties DEF TypeInv, TypeOK
  <1>3. /\ Kept' = Kept /\ host' = host /\ TypeOK /\ DirStat \in Stats /\ inodeNr \in Nat
    BY KeptSame, StatTypes DEF AddDirectory, TypeInv, TypeOK
  <1>4. /\ Len(stack') = m + 1
        /\ \A s \in 1 .. m :
             /\ stack'[s].inode = stack[s].inode
             /\ \A x \in stack[s].left :
                  x \in stack'[s].left \/ (x = e0 /\ stack[s].inode = Top.inode)
        /\ stack'[m + 1].inode = inodeNr /\ stack'[m + 1].left = Children(r)
    <2>1. PICK calls : calls = Consumed(e0, DirStat)
      OBVIOUS
    <2>2. /\ calls \in Seq(FrameType) /\ Len(calls) = m
          /\ \A s \in 1 .. m :
               /\ calls[s].inode = stack[s].inode
               /\ \A x \in stack[s].left :
                    x \in calls[s].left \/ (x = e0 /\ stack[s].inode = Top.inode)
      <3>1. r \in Entry \cup {NoEntry} /\ DirStat \in Stats
        BY <1>3
      <3>2. Consumed(e0, DirStat) \in Seq(FrameType)
        BY <1>1, <1>3, <3>1, ReadingTypes
      <3>3. /\ Len(Consumed(e0, DirStat)) = Len(stack)
            /\ \A s \in 1 .. Len(stack) :
                 /\ Consumed(e0, DirStat)[s].inode = stack[s].inode
                 /\ \A x \in stack[s].left : \/ x \in Consumed(e0, DirStat)[s].left
                                             \/ (x = e0 /\ stack[s].inode = Top.inode)
        BY <1>1, <1>3, <3>1, ConsumedFrames
      <3>4. QED
        BY <1>2, <2>1, <3>2, <3>3
    <2>3. Frame(r, inodeNr) \in FrameType
      BY <1>3, FrameTypes
    <2>4. /\ Len(stack') = m + 1 /\ \A s \in 1 .. m : stack'[s] = calls[s]
          /\ stack'[m + 1] = Frame(r, inodeNr)
      BY <1>1, <2>1, <2>2, <2>3, AppendOne
    <2>5. QED
      BY <2>2, <2>4 DEF Frame
  <1>5. /\ Len(nodes') = n + 3 /\ \A i \in 1 .. n : nodes'[i] = nodes[i]
        /\ nodes'[n + 1].name = e0 /\ nodes'[n + 1].parent = Top.inode
        /\ nodes'[n + 1].path = r /\ nodes'[n + 1].inode = inodeNr
        /\ nodes'[n + 1].mode = "dir" /\ nodes'[n + 1].size = 0
        /\ ~ IsReal(nodes'[n + 2]) /\ ~ IsReal(nodes'[n + 3])
    BY <1>1, <1>2, DotNamesNotReal DEF Node, DotNode, DotDotNode, DirStat, IsReal
  <1>6. \A j \in 1 .. n + 3 : j \in 1 .. n \/ j = n + 1 \/ j = n + 2 \/ j = n + 3
    BY <1>2
  <1>7. SUFFICES ASSUME NEW e \in Kept, NEW d \in 1 .. n + 3,
                        IsDirOf(nodes'[d], Parent[e], nodes'[d].inode)
                 PROVE  \/ \E s \in 1 .. m + 1 :
                             stack'[s].inode = nodes'[d].inode /\ e \in stack'[s].left
                        \/ \E j \in 1 .. n + 3 : IsNodeOf(nodes'[j], e, nodes'[d].inode)
    BY <1>3, <1>4, <1>5 DEF Covered, IsDirOf, IsReal, IsNodeOf
  <1>8. d \in 1 .. n \/ d = n + 1
    BY <1>5, <1>6, <1>7 DEF IsDirOf
  <1>9. CASE d \in 1 .. n
    <2>1. nodes'[d] = nodes[d]
      BY <1>5, <1>9
    <2>2. CASE \E s \in 1 .. m : stack[s].inode = nodes[d].inode /\ e \in stack[s].left
      <3>1. PICK s \in 1 .. m : stack[s].inode = nodes[d].inode /\ e \in stack[s].left
        BY <2>2
      <3>2. CASE e \in stack'[s].left
        BY <1>2, <1>4, <2>1, <3>1, <3>2
      <3>3. CASE e = e0 /\ stack[s].inode = Top.inode
        <4>1. r = e
          BY <1>1, <1>3, <3>3, KeptRead
        <4>2. IsNodeOf(nodes'[n + 1], e, nodes'[d].inode)
          BY <1>1, <1>5, <2>1, <3>1, <3>3, <4>1, ModWord, WordPositive DEF IsNodeOf, DirStat
        <4>3. n + 1 \in 1 .. n + 3
          BY <1>2
        <4>4. QED
          BY <4>2, <4>3
      <3>4. QED
        BY <1>4, <3>1, <3>2, <3>3
    <2>3. CASE \E j \in 1 .. n : IsNodeOf(nodes[j], e, nodes[d].inode)
      <3>1. PICK j \in 1 .. n : IsNodeOf(nodes[j], e, nodes[d].inode)
        BY <2>3
      <3>2. j \in 1 .. n + 3 /\ nodes'[j] = nodes[j]
        BY <1>2, <1>5
      <3>3. QED
        BY <2>1, <3>1, <3>2
    <2>4. QED
      BY <1>2, <1>7, <1>9, <2>1, <2>2, <2>3 DEF Covered
  <1>10. CASE d = n + 1
    <2>1. Parent[e] = r /\ nodes'[d].inode = inodeNr
      BY <1>5, <1>7, <1>10 DEF IsDirOf
    <2>2. e \in Children(r)
      BY <2>1 DEF Children, Kept, KeptIn
    <2>3. m + 1 \in 1 .. m + 1
      BY <1>2
    <2>4. QED
      BY <1>4, <2>1, <2>2, <2>3
  <1>11. QED
    BY <1>8, <1>9, <1>10

LEMMA CoveredAddFile ==
  ASSUME TypeInv, Covered, AddFile
  PROVE  Covered'
  <1>1. PICK e0 \in Entry, r \in Entry \cup {NoEntry}, st \in Stats :
          /\ Reading(e0, r, st) /\ st.kind = "reg"
          /\ Len(nodes') = Len(nodes) + 1 /\ \A i \in 1 .. Len(nodes) : nodes'[i] = nodes[i]
          /\ nodes'[Len(nodes) + 1] = Node(e0, inodeNr, Top.inode, r, Truncated(st))
          /\ stack' = Consumed(e0, st)
    BY AddedFile
  <1>2. PICK n \in Nat, m \in Nat : n = Len(nodes) /\ m = Len(stack)
    BY NodesTyped, LenProperties DEF TypeInv, TypeOK
  <1>3. Kept' = Kept /\ host' = host /\ TypeOK
    BY KeptSame DEF AddFile, TypeInv
  <1>4. /\ Len(stack') = m
        /\ \A s \in 1 .. m :
             /\ stack'[s].inode = stack[s].inode
             /\ \A x \in stack[s].left :
                  x \in stack'[s].left \/ (x = e0 /\ stack[s].inode = Top.inode)
    BY <1>1, <1>2, <1>3, ConsumedFrames, SMTT(30)
  <1>5. /\ Len(nodes') = n + 1 /\ \A i \in 1 .. n : nodes'[i] = nodes[i]
        /\ nodes'[n + 1].name = e0 /\ nodes'[n + 1].parent = Top.inode
        /\ nodes'[n + 1].path = r /\ nodes'[n + 1].mode = "reg"
        /\ nodes'[n + 1].size = st.size % Word
    <2>1. st = [kind |-> "reg", size |-> st.size]
      BY <1>1, <1>3, ReadStat
    <2>2. Truncated(st).kind = "reg" /\ Truncated(st).size = st.size % Word
      BY <2>1 DEF Truncated
    <2>3. QED
      BY <1>1, <1>2, <2>2 DEF Node
  <1>5a. Len(nodes') = n + 1 /\ Len(stack') = m
    BY <1>4, <1>5
  <1>6. SUFFICES ASSUME NEW e \in Kept, NEW d \in 1 .. n + 1,
                        IsDirOf(nodes'[d], Parent[e], nodes'[d].inode)
                 PROVE  \/ \E s \in 1 .. m :
                             stack'[s].inode = nodes'[d].inode /\ e \in stack'[s].left
                        \/ \E j \in 1 .. n + 1 : IsNodeOf(nodes'[j], e, nodes'[d].inode)
    <2>1. ASSUME \A e \in Kept', d \in 1 .. Len(nodes') :
                   IsDirOf(nodes'[d], Parent[e], nodes'[d].inode) =>
                     \/ \E s \in 1 .. Len(stack') :
                          stack'[s].inode = nodes'[d].inode /\ e \in stack'[s].left
                     \/ \E j \in 1 .. Len(nodes') :
                          /\ nodes'[j].name = e /\ nodes'[j].path = e
                          /\ nodes'[j].parent = nodes'[d].inode
                          /\ nodes'[j].mode = host'[e].kind /\ nodes'[j].size = host'[e].size % Word
          PROVE  Covered'
      BY ONLY <2>1 DEF Covered, IsDirOf, IsReal, IsNodeOf
    <2>2. QED
      BY <1>3, <1>5a, <2>1 DEF IsNodeOf
  <1>7. d \in 1 .. n /\ nodes'[d] = nodes[d]
    <2>1. d # n + 1
      BY <1>1, <1>5, <1>6 DEF IsDirOf
    <2>2. QED
      BY <1>5, <2>1
  <1>8. CASE \E s \in 1 .. m : stack[s].inode = nodes[d].inode /\ e \in stack[s].left
    <2>1. PICK s \in 1 .. m : stack[s].inode = nodes[d].inode /\ e \in stack[s].left
      BY <1>8
    <2>2. CASE e \in stack'[s].left
      BY <1>4, <1>7, <2>1, <2>2
    <2>3. CASE e = e0 /\ stack[s].inode = Top.inode
      <3>1. r = e /\ st = host[e]
        BY <1>1, <1>3, <2>3, KeptRead
      <3>2. IsNodeOf(nodes'[n + 1], e, nodes'[d].inode)
        BY <1>1, <1>5, <1>7, <2>1, <2>3, <3>1 DEF IsNodeOf
      <3>3. n + 1 \in 1 .. n + 1
        BY <1>2
      <3>4. QED
        BY <3>2, <3>3
    <2>4. QED
      BY <1>4, <2>1, <2>2, <2>3
  <1>9. CASE \E j \in 1 .. n : IsNodeOf(nodes[j], e, nodes[d].inode)
    <2>1. PICK j \in 1 .. n : IsNodeOf(nodes[j], e, nodes[d].inode)
      BY <1>9
    <2>2. j \in 1 .. n + 1 /\ nodes'[j] = nodes[j]
      BY <1>2, <1>5
    <2>3. QED
      BY <1>7, <2>1, <2>2
  <1>10. QED
    BY <1>2, <1>6, <1>7, <1>8, <1>9 DEF Covered

(* steps that take nothing kept from the calls, and leave the nodes *)
LEMMA CoveredSame ==
  ASSUME Covered, Kept' \subseteq Kept, \A e \in Kept' : host'[e] = host[e],
         Len(nodes') = Len(nodes), \A i \in 1 .. Len(nodes) : SameNode(nodes'[i], nodes[i]),
         \A s \in 1 .. Len(stack), e \in Kept : e \in stack[s].left =>
           \E t \in 1 .. Len(stack') : /\ stack'[t].inode = stack[s].inode
                                       /\ e \in stack'[t].left
  PROVE  Covered'
  <1>1. SUFFICES ASSUME NEW e \in Kept', NEW d \in 1 .. Len(nodes),
                        IsDirOf(nodes'[d], Parent[e], nodes'[d].inode)
                 PROVE  \/ \E s \in 1 .. Len(stack') :
                             stack'[s].inode = nodes'[d].inode /\ e \in stack'[s].left
                        \/ \E j \in 1 .. Len(nodes) :
                             /\ nodes'[j].name = e /\ nodes'[j].path = e
                             /\ nodes'[j].parent = nodes'[d].inode
                             /\ nodes'[j].mode = host'[e].kind /\ nodes'[j].size = host'[e].size % Word
    BY SMTT(20) DEF Covered, IsDirOf, IsReal, IsNodeOf
  <1>2. e \in Kept /\ host'[e] = host[e]
    OBVIOUS
  <1>3. nodes'[d].inode = nodes[d].inode /\ IsDirOf(nodes[d], Parent[e], nodes[d].inode)
    BY <1>1 DEF IsDirOf, IsReal, SameNode, SameTree
  <1>4. CASE \E s \in 1 .. Len(stack) : stack[s].inode = nodes[d].inode /\ e \in stack[s].left
    BY <1>2, <1>3, <1>4
  <1>5. CASE \E j \in 1 .. Len(nodes) : IsNodeOf(nodes[j], e, nodes[d].inode)
    BY <1>2, <1>3, <1>5 DEF IsNodeOf, SameNode, SameTree
  <1>6. QED
    BY <1>2, <1>3, <1>4, <1>5 DEF Covered

LEMMA CoveredStep == TypeInv /\ TypeInv' /\ KeptUntouched /\ Covered /\ [Next]_vars => Covered'
  <1> SUFFICES ASSUME TypeInv, TypeInv', KeptUntouched, Covered, [Next]_vars PROVE Covered'
    OBVIOUS
  <1>ty. TypeOK /\ TypeOK' /\ Len(nodes) \in Nat
    BY NodesTyped DEF TypeInv
  <1>kept. Kept' \subseteq Kept /\ \A e \in Kept' : host'[e] = host[e]
    BY <1>ty, KeptStays
  <1>same. \A i \in 1 .. Len(nodes) : SameNode(nodes[i], nodes[i])
    BY DEF SameNode, SameTree
  <1>1. CASE AddDirectory
    BY <1>1, CoveredAddDirectory
  <1>2. CASE AddFile
    BY <1>2, CoveredAddFile
  <1>3. CASE StartIFS
    <2>1. /\ Len(nodes') = 2 /\ IsDirOf(nodes'[1], Root, 0) /\ ~ IsReal(nodes'[2])
          /\ Len(stack') = 1 /\ stack'[1].left = Children(Root) /\ stack'[1].inode = 0
      BY <1>3, Started, DotNamesNotReal DEF DotNode, Node, Frame, IsReal
    <2>2. SUFFICES ASSUME NEW e \in Kept', NEW d \in 1 .. 2,
                          IsDirOf(nodes'[d], Parent[e], nodes'[d].inode)
                   PROVE  \E s \in 1 .. 1 : stack'[s].inode = nodes'[d].inode /\ e \in stack'[s].left
      BY <2>1 DEF Covered, IsDirOf, IsReal
    <2>3. d = 1
      BY <2>1, <2>2 DEF IsDirOf
    <2>4. Parent[e] = Root /\ nodes'[d].inode = 0 /\ e \in Entry
      BY <1>kept, <2>1, <2>2, <2>3 DEF IsDirOf, Kept, KeptIn
    <2>5. QED
      BY <2>1, <2>4 DEF Children
  <1>4. CASE SkipOther
    <2>1. PICK e0 \in Entry, r \in Entry \cup {NoEntry}, st \in Stats :
            Reading(e0, r, st) /\ st.kind = "other" /\ stack' = Consumed(e0, st)
      BY <1>4 DEF SkipOther
    <2>2. nodes' = nodes
      BY <1>4 DEF SkipOther
    <2>3. e0 \notin Kept
      BY <1>ty, <2>1, KeptRead
    <2>4. /\ Len(stack') = Len(stack)
          /\ \A s \in 1 .. Len(stack) :
               /\ stack'[s].inode = stack[s].inode
               /\ \A x \in stack[s].left : x \in stack'[s].left \/ x = e0
      BY <1>ty, <2>1, ConsumedFrames
    <2>5. QED
      BY <1>kept, <1>same, <2>2, <2>3, <2>4, CoveredSame
  <1>5. CASE EndDirectory
    <2>1. Len(stack) \in Nat \ {0} /\ stack \in Seq(FrameType)
      BY <1>5, EmptySeq DEF EndDirectory, TypeInv, TypeOK
    <2>2. stack' = SubSeq(stack, 1, Len(stack) - 1) /\ nodes' = nodes
          /\ \A e \in Top.left : host[e].kind = "nostat" \/ e \in touched
      BY <1>5 DEF EndDirectory
    <2>3. /\ Len(stack') = Len(stack) - 1
          /\ \A s \in 1 .. Len(stack) : s = Len(stack)
               \/ (s \in 1 .. Len(stack') /\ stack'[s] = stack[s])
      BY <2>1, <2>2, DropLast
    <2>4. \A e \in Kept : host[e].kind # "nostat" /\ e \notin touched
      BY <1>ty, KeptFacts, TypeParts DEF Kept, DirStat, KeptUntouched
    <2>5. \A e \in Kept : e \notin stack[Len(stack)].left
      BY <2>2, <2>4 DEF Top
    <2>6. QED
      BY <1>kept, <1>same, <2>2, <2>3, <2>5, CoveredSame
  <1>6. CASE CalculateFileOffset
    <2>1. Len(nodes') = Len(nodes) /\ \A i \in 1 .. Len(nodes) : SameNode(nodes'[i], nodes[i])
      BY <1>6, OffsetAssigned
    <2>2. stack' = stack
      BY <1>6 DEF CalculateFileOffset
    <2>3. QED
      BY <1>kept, <2>1, <2>2, CoveredSame
  <1>7. CASE \/ WriteBootloader \/ OpenDirFails \/ WriteHeader \/ WriteNodeTable
             \/ SkipContents \/ WriteContents \/ ReadFails \/ OpenBlocks \/ OpenReturns
             \/ PatchBootloader \/ Exit \/ HostChanges \/ UNCHANGED vars
    <2>1. nodes' = nodes /\ stack' = stack
      BY <1>7 DEF WriteBootloader, OpenDirFails, WriteHeader, WriteNodeTable, SkipContents,
         WriteContents, ReadFails, OpenBlocks, OpenReturns, CopyContents, PatchBootloader,
         Exit, HostChanges, vars
    <2>2. QED
      BY <1>kept, <1>same, <2>1, CoveredSame
  <1>8. QED
    BY <1>1, <1>2, <1>3, <1>4, <1>5, <1>6, <1>7 DEF Next, Tool, Walk, Write, Terminated

AllInv == TypeInv /\ WalkInv /\ LayoutInv /\ ContentsInv /\ TruthInv /\ CallsInv
          /\ KeptUntouched /\ Covered

LEMMA AllCorrect == Spec => []AllInv
  <1>1. Init => AllInv
    BY TypeInit, WalkInit, LayoutInit, ContentsInit, TruthInit, CallsInit, UntouchedInit, CoveredInit
    DEF AllInv
  <1>2. AllInv /\ [Next]_vars => AllInv'
    BY TypeStep, WalkStep, LayoutStep, ContentsStep, TruthStep, CallsStep, UntouchedStep,
       CoveredStep DEF AllInv, TypeInv
  <1>3. QED
    BY <1>1, <1>2, PTL DEF Spec

(* the root has a node *)
LEMMA RootNode ==
  ASSUME AllInv, pc = "done"
  PROVE  /\ Len(nodes) \in Nat /\ Len(nodes) >= 2 /\ 1 \in 1 .. Len(nodes)
         /\ nodes[1].name = Root /\ IsDirOf(nodes[1], Root, 0) /\ nodes[1].inode = 0
         /\ Len(stack) = 0
  <1>1. Len(nodes) \in Nat /\ Len(nodes) >= 2
    BY NodesTyped DEF AllInv, TypeInv, Built
  <1>2. QED
    BY <1>1 DEF AllInv, CallsInv, RootFirst, Returned, IsDirOf

(* in the end every kept entry has a node below one of its directory *)
LEMMA KeptHasNode ==
  ASSUME AllInv, pc = "done", NEW e \in Kept
  PROVE  \E j, d \in 1 .. Len(nodes) :
           IsNodeOf(nodes[j], e, nodes[d].inode) /\ nodes[d].name = Parent[e]
  <1> DEFINE Has(x) == \E j, d \in 1 .. Len(nodes) :
                         IsNodeOf(nodes[j], x, nodes[d].inode) /\ nodes[d].name = Parent[x]
             Lost == {x \in Kept : ~ Has(x)}
  <1>1. SUFFICES ASSUME Lost # {} PROVE FALSE
    OBVIOUS
  <1>2. Lost \in SUBSET Entry
    BY DEF Kept, KeptIn
  <1>3. PICK x \in Lost : Parent[x] \notin Lost
    BY <1>1, <1>2, TreeAssumption
  <1>4. /\ x \in Kept /\ TypeOK
        /\ Parent[x] = Root \/ (Parent[x] \in Kept /\ host[Parent[x]] = DirStat)
    BY <1>3, KeptFacts, TypeParts DEF Kept, AllInv, TypeInv
  <1>5. PICK d \in 1 .. Len(nodes) : /\ nodes[d].name = Parent[x]
                                     /\ IsDirOf(nodes[d], Parent[x], nodes[d].inode)
    <2>1. CASE Parent[x] = Root
      BY <2>1, RootNode
    <2>2. CASE Parent[x] \in Kept /\ host[Parent[x]] = DirStat
      <3>1. Has(Parent[x])
        BY <1>3, <2>2
      <3>2. PICK d \in 1 .. Len(nodes) : \E i : IsNodeOf(nodes[d], Parent[x], i)
        BY <3>1
      <3>3. Parent[x] \in Entry
        BY <2>2 DEF Kept, KeptIn
      <3>4. QED
        BY <2>2, <3>2, <3>3 DEF IsNodeOf, IsDirOf, IsReal, DirStat
    <2>3. QED
      BY <1>4, <2>1, <2>2
  <1>6. \E j \in 1 .. Len(nodes) : IsNodeOf(nodes[j], x, nodes[d].inode)
    <2>1. ~ \E s \in 1 .. Len(stack) : TRUE
      BY RootNode
    <2>2. QED
      BY <1>4, <1>5, <2>1 DEF AllInv, Covered
  <1>7. QED
    BY <1>3, <1>5, <1>6

(* the contents of a file are where its node says, and stay there *)
LEMMA FileStored ==
  ASSUME AllInv, pc = "done", ~ wrapped, NEW j \in 1 .. Len(nodes), nodes[j].mode = "reg"
  PROVE  Stored(j)
  <1>1. PICK k \in 1 .. Len(writes) : writes[k].what = "file" /\ writes[k].node = j
    BY DEF AllInv, ContentsInv, WrittenTo, HasFile
  <1>2. writes[k].at = ifsBase + nodes[j].offset /\ writes[k].len = nodes[j].size
    BY <1>1 DEF AllInv, LayoutInv, WritesSound, WriteSound
  <1>3. writes[k] \in WriteType
    BY ElementOfSeq DEF AllInv, TypeInv, TypeOK
  <1>4. writes[k] = [at |-> ifsBase + nodes[j].offset, len |-> nodes[j].size,
                     what |-> "file", node |-> j]
    BY <1>1, <1>2, <1>3 DEF WriteType
  <1>5. NoClobber /\ Len(writes) \in Nat
    BY LayoutImpliesNoClobber, WritesTyped DEF AllInv, TypeInv
  <1>6. \A l \in k + 1 .. Len(writes) : ~ Overlap(writes[l], writes[k])
    <2> SUFFICES ASSUME NEW l \in k + 1 .. Len(writes), Overlap(writes[l], writes[k]) PROVE FALSE
      OBVIOUS
    <2>1. l \in 1 .. Len(writes) /\ k < l
      BY <1>5
    <2>2. Overlap(writes[k], writes[l])
      BY DEF Overlap
    <2>3. QED
      BY <1>1, <1>5, <2>1, <2>2 DEF NoClobber
  <1>7. QED
    BY <1>4, <1>6 DEF Stored

LEMMA StillIsKept ==
  ASSUME NEW e \in Entry \ touched, Plain[e], host[e].kind \in {"dir", "reg"}
  PROVE  e \in Kept
  <1>1. Above(e, e)
    BY DEF Above
  <1>2. QED
    BY <1>1 DEF Kept, KeptIn, KeptStill

LEMMA HostSizes ==
  ASSUME TypeOK, NEW e \in Entry
  PROVE  host[e].size \in Nat
  <1>1. host[e] \in Stats \cup {NoStat}
    BY DEF TypeOK
  <1>2. CASE host[e] \in [kind : {"reg"}, size : Sizes]
    BY <1>2, SizeTypes
  <1>3. CASE host[e] \in {DirStat, OtherStat, NoStat}
    BY <1>3 DEF NoStat, DirStat, OtherStat
  <1>4. QED
    BY <1>1, <1>2, <1>3 DEF Stats

(* Every entry that kept still is in each image that is completed, once below
   its directory and, below 4 GiB, with its bytes, whatever other processes did
   to the rest of the tree, the directories above it included. *)
THEOREM NoEntryLost == Spec => []NothingLost
  <1>1. AllInv => NothingLost
    <2> SUFFICES ASSUME AllInv, pc = "done", ~ wrapped, NEW e \in Entry \ touched,
                        Plain[e], host[e].kind \in {"dir", "reg"}
                 PROVE  \E j, d \in 1 .. Len(nodes) :
                          /\ nodes[j].name = e /\ nodes[j].mode = host[e].kind
                          /\ nodes[d].name = Parent[e] /\ nodes[d].inode = nodes[j].parent
                          /\ \A k \in 1 .. Len(nodes) :
                               nodes[k].name = e /\ nodes[k].parent = nodes[j].parent => k = j
                          /\ nodes[j].mode = "reg" /\ host[e].size < Word =>
                               nodes[j].size = host[e].size /\ Stored(j)
      BY DEF NothingLost
    <2>1. PICK j \in 1 .. Len(nodes), d \in 1 .. Len(nodes) :
            IsNodeOf(nodes[j], e, nodes[d].inode) /\ nodes[d].name = Parent[e]
      BY StillIsKept, KeptHasNode
    <2>2. \A k \in 1 .. Len(nodes) :
            nodes[k].name = e /\ nodes[k].parent = nodes[j].parent => k = j
      BY <2>1 DEF AllInv, CallsInv, Once, IsNodeOf
    <2>3. nodes[j].mode = "reg" => Stored(j)
      BY FileStored
    <2>4. host[e].size \in Nat
      BY HostSizes DEF AllInv, TypeInv
    <2>5. host[e].size < Word => nodes[j].size = host[e].size
      BY <2>1, <2>4, ModWord DEF IsNodeOf
    <2>6. QED
      BY <2>1, <2>2, <2>3, <2>5 DEF IsNodeOf
  <1>2. QED
    BY <1>1, AllCorrect, PTL

-----------------------------------------------------------------------------
(* What the bootloader finds *)

LEMMA TableFacts ==
  ASSUME TypeOK
  PROVE  /\ Len(ImageTable) \in Nat /\ Len(nodes) \in Nat /\ Len(nodes) <= Len(ImageTable)
         /\ \A t \in 1 .. Len(nodes) :
              /\ ImageTable[t].name = StoredName(nodes[t])
              /\ ImageTable[t].inode = nodes[t].inode
              /\ ImageTable[t].parent = nodes[t].parent
         /\ \A t \in 1 .. Len(ImageTable) : t \in 1 .. Len(nodes) \/ ImageTable[t].name = ""
  <1> DEFINE Row(j) == [name |-> StoredName(nodes[j]), inode |-> nodes[j].inode,
                        parent |-> nodes[j].parent]
             Rows == {Row(j) : j \in 1 .. Len(nodes)} \cup {FreeNode(t - 1) : t \in 1 .. 16}
  <1>1. PICK n \in Nat : n = Len(nodes)
    BY NodesTyped
  <1> DEFINE real == [j \in 1 .. n |-> Row(j)]
  <1>2. /\ \A j \in 1 .. n : Row(j) \in Rows
        /\ \A t \in 1 .. 16 : FreeNode(t - 1) \in Rows
    BY <1>1
  <1>3. \A j \in 1 .. n : /\ Row(j).name = StoredName(nodes[j])
                          /\ Row(j).inode = nodes[j].inode
                          /\ Row(j).parent = nodes[j].parent
    OBVIOUS
  <1>4. FreeNodes = [t \in 1 .. 16 |-> FreeNode(t - 1)]
    BY DEF FreeNodes, FreeNodeCnt
  <1>5. \A t \in 1 .. 16 : FreeNodes[t].name = ""
    BY <1>4 DEF FreeNode
  <1>6. ImageTable = real \o FreeNodes
    BY <1>1 DEF ImageTable
  <1> HIDE DEF Row, Rows
  <1>7. real \in Seq(Rows) /\ Len(real) = n /\ \A j \in 1 .. n : real[j] = Row(j)
    BY <1>2
  <1>8. FreeNodes \in Seq(Rows) /\ Len(FreeNodes) = 16
    BY <1>2, <1>4
  <1> HIDE DEF real
  <1>9. /\ Len(ImageTable) \in Nat /\ n <= Len(ImageTable)
        /\ \A t \in 1 .. n : ImageTable[t] = real[t]
        /\ \A t \in 1 .. Len(ImageTable) :
             t \in 1 .. n \/ \E k \in 1 .. Len(FreeNodes) : ImageTable[t] = FreeNodes[k]
    <2> DEFINE r == real
               f == FreeNodes
    <2>0. r \in Seq(Rows) /\ f \in Seq(Rows)
      BY <1>7, <1>8
    <2>1. Len(r) = n /\ Len(f) = 16 /\ ImageTable = r \o f
      BY <1>6, <1>7, <1>8
    <2> HIDE DEF r, f
    <2>2. Len(r \o f) = Len(r) + Len(f)
      BY ONLY <2>0
    <2>3. PICK m \in Nat : m = n + 16 /\ Len(ImageTable) = m
      BY <2>1, <2>2
    <2>4. ASSUME NEW t \in 1 .. n PROVE (r \o f)[t] = r[t]
      BY <2>0, <2>1, <2>4
    <2>5. ASSUME NEW t \in 1 .. m, t \notin 1 .. n
          PROVE  \E k \in 1 .. 16 : (r \o f)[t] = f[k]
      <3>1. /\ t - Len(r) \in 1 .. Len(f) /\ ~ (t <= Len(r))
            /\ t \in 1 .. Len(r) + Len(f)
        BY <2>1, <2>3, <2>5
      <3>2. (r \o f)[t] = f[t - Len(r)]
        BY <2>0, <3>1
      <3>3. QED
        BY <2>1, <3>1, <3>2
    <2>6. QED
      BY <1>8, <2>1, <2>3, <2>4, <2>5, SMTT(30) DEF r, f
  <1>10. \A t \in 1 .. Len(ImageTable) : t \in 1 .. n \/ ImageTable[t].name = ""
    <2> SUFFICES ASSUME NEW t \in 1 .. Len(ImageTable), t \notin 1 .. n PROVE ImageTable[t].name = ""
      OBVIOUS
    <2>1. PICK k \in 1 .. Len(FreeNodes) : ImageTable[t] = FreeNodes[k]
      BY <1>9
    <2>2. FreeNodes[k].name = ""
      BY <1>5, <1>8
    <2>3. QED
      BY <2>1, <2>2
  <1>11. QED
    BY <1>1, <1>3, <1>7, <1>9, <1>10

(* a row of the table with a name of its own is a node of an entry *)
LEMMA RowIsNode ==
  ASSUME TypeOK, NEW t \in 1 .. Len(ImageTable), NEW name \in {"boot", "kernel"},
         ImageTable[t].name = name
  PROVE  /\ t \in 1 .. Len(nodes) /\ t >= 1 /\ t <= Len(nodes)
         /\ nodes[t].name \in Entry /\ NameOf[nodes[t].name] = name
         /\ ImageTable[t].inode = nodes[t].inode /\ ImageTable[t].parent = nodes[t].parent
  <1>1. t \in 1 .. Len(nodes)
    BY TableFacts
  <1>2. ImageTable[t].name = StoredName(nodes[t])
    BY <1>1, TableFacts
  <1>3. nodes[t].name \in Entry \cup DotNames
    <2>1. nodes[t] \in NodeType
      BY <1>1, ElementOfSeq DEF TypeOK
    <2>2. QED
      BY <2>1 DEF NodeType
  <1>4. name \notin DotNames
    BY DEF DotNames, Root
  <1>5. nodes[t].name \in Entry /\ NameOf[nodes[t].name] = name
    BY <1>2, <1>3, <1>4 DEF StoredName
  <1>6. Len(nodes) \in Nat
    BY TableFacts
  <1>7. ImageTable[t].inode = nodes[t].inode /\ ImageTable[t].parent = nodes[t].parent
    BY <1>1, TableFacts
  <1>8. QED
    BY <1>1, <1>5, <1>6, <1>7

LEMMA NamedNats ==
  ASSUME TypeOK, NEW name \in {"boot", "kernel"}, NEW i
  PROVE  /\ Named(ImageTable, name) \in SUBSET Nat
         /\ NamedIn(ImageTable, name, i) \in SUBSET Nat
         /\ \A t \in NamedIn(ImageTable, name, i) : t \in Named(ImageTable, name) /\ ImageTable[t].parent = i
         /\ \A t \in Named(ImageTable, name) : t \in 1 .. Len(ImageTable) /\ ImageTable[t].name = name
         /\ \A t \in 1 .. Len(nodes) : nodes[t].name \in Entry /\ NameOf[nodes[t].name] = name =>
              /\ t \in Named(ImageTable, name)
              /\ nodes[t].parent = i => t \in NamedIn(ImageTable, name, i)
  <1>1. Len(ImageTable) \in Nat /\ Len(nodes) \in Nat /\ Len(nodes) <= Len(ImageTable)
    BY TableFacts
  <1>2. ASSUME NEW t \in 1 .. Len(nodes), nodes[t].name \in Entry, NameOf[nodes[t].name] = name
        PROVE  /\ t \in Named(ImageTable, name)
               /\ nodes[t].parent = i => t \in NamedIn(ImageTable, name, i)
    <2>1. ImageTable[t].name = name /\ ImageTable[t].parent = nodes[t].parent
      BY <1>2, TableFacts DEF StoredName
    <2>2. t \in 1 .. Len(ImageTable)
      BY <1>1
    <2>3. QED
      BY <2>1, <2>2 DEF Named, NamedIn
  <1>3. Named(ImageTable, name) \in SUBSET Nat /\ NamedIn(ImageTable, name, i) \in SUBSET Nat
    BY <1>1 DEF Named, NamedIn
  <1>4. QED
    BY <1>2, <1>3 DEF Named, NamedIn

FirstBoot(b) == \A j \in 1 .. b - 1 : StoredName(nodes[j]) # "boot"

(* what a lookup that succeeds has found: the first node called boot, and the
   first node called kernel with the number of that one as its parent *)
LEMMA LookupFinds ==
  ASSUME TypeOK, NEW t, t = Lookup(ImageTable, "boot", "kernel")
  PROVE  /\ t # NotFound =>
              /\ t \in 1 .. Len(nodes)
              /\ nodes[t].name \in Entry /\ NameOf[nodes[t].name] = "kernel"
              /\ \E b \in 1 .. Len(nodes) :
                   /\ nodes[b].name \in Entry /\ NameOf[nodes[b].name] = "boot"
                   /\ FirstBoot(b) /\ nodes[t].parent = nodes[b].inode
         /\ \A d \in 1 .. Len(nodes) : nodes[d].name \in Entry /\ NameOf[nodes[d].name] = "boot" =>
              \E b \in 1 .. Len(nodes) :
                /\ nodes[b].name \in Entry /\ NameOf[nodes[b].name] = "boot" /\ FirstBoot(b)
                /\ \A j \in 1 .. Len(nodes) :
                     /\ nodes[j].name \in Entry /\ NameOf[nodes[j].name] = "kernel"
                     /\ nodes[j].parent = nodes[b].inode
                     => t # NotFound
  <1> DEFINE dirs == Named(ImageTable, "boot")
             b == Min(dirs)
             files == NamedIn(ImageTable, "kernel", ImageTable[b].inode)
  <1>1. dirs \in SUBSET Nat /\ files \in SUBSET Nat
    BY NamedNats
  <1>2. t = IF dirs = {} \/ files = {} THEN NotFound ELSE Min(files)
    BY DEF Lookup
  <1>3. /\ \A c \in dirs : c \in 1 .. Len(ImageTable) /\ ImageTable[c].name = "boot"
        /\ \A c \in files : /\ c \in 1 .. Len(ImageTable) /\ ImageTable[c].name = "kernel"
                            /\ ImageTable[c].parent = ImageTable[b].inode
    BY NamedNats
  <1>4. /\ \A d \in 1 .. Len(nodes) :
             nodes[d].name \in Entry /\ NameOf[nodes[d].name] = "boot" => d \in dirs
        /\ \A j \in 1 .. Len(nodes) :
             /\ nodes[j].name \in Entry /\ NameOf[nodes[j].name] = "kernel"
             /\ nodes[j].parent = ImageTable[b].inode
             => j \in files
    BY NamedNats
  <1> HIDE DEF dirs, files
  <1>5. /\ dirs # {} => Min(dirs) \in dirs
        /\ files # {} => Min(files) \in files /\ Min(files) # 0
    <2>1. dirs # {} => Min(dirs) \in dirs
      BY <1>1, MinIsLeast
    <2>2. files # {} => Min(files) \in files
      BY <1>1, MinIsLeast
    <2>3. Len(ImageTable) \in Nat
      BY TableFacts
    <2>4. QED
      BY <1>3, <2>1, <2>2, <2>3
  <1>6. dirs # {} => /\ b \in 1 .. Len(nodes) /\ nodes[b].name \in Entry
                     /\ NameOf[nodes[b].name] = "boot"
                     /\ ImageTable[b].inode = nodes[b].inode
    BY <1>3, <1>5, RowIsNode
  <1>7. files # {} => /\ Min(files) \in 1 .. Len(nodes) /\ nodes[Min(files)].name \in Entry
                      /\ NameOf[nodes[Min(files)].name] = "kernel"
                      /\ nodes[Min(files)].parent = ImageTable[b].inode
    BY <1>3, <1>5, RowIsNode
  <1>8. dirs # {} => FirstBoot(b)
    <2> SUFFICES ASSUME dirs # {}, NEW j \in 1 .. b - 1, StoredName(nodes[j]) = "boot"
                 PROVE  FALSE
      BY DEF FirstBoot
    <2>1. Len(ImageTable) \in Nat /\ Len(nodes) \in Nat /\ Len(nodes) <= Len(ImageTable)
      BY TableFacts
    <2>2. j \in 1 .. Len(nodes) /\ j \in 1 .. Len(ImageTable) /\ j < b /\ j \in Nat /\ b \in Nat
      BY <1>6, <2>1
    <2>3. ImageTable[j].name = "boot"
      BY <2>2, TableFacts
    <2>4. j \in dirs
      BY <2>2, <2>3 DEF dirs, Named
    <2>5. b <= j
      BY <1>1, <2>4, MinIsLeast
    <2>6. QED
      BY <2>2, <2>5
  <1> HIDE DEF b
  <1>9. QED
    BY <1>2, <1>4, <1>5, <1>6, <1>7, <1>8 DEF NotFound

(* two directory nodes with one number are one node *)
LEMMA SameDirectory ==
  ASSUME AllInv, NEW j \in 1 .. Len(nodes), NEW b \in 1 .. Len(nodes),
         nodes[j].name \in Entry, nodes[b].name \in Entry,
         nodes[j].parent = nodes[b].inode
  PROVE  /\ nodes[b].path = Parent[nodes[j].name]
         /\ nodes[b].mode = "dir" /\ b < j
  <1>1. j \in Nat /\ Len(nodes) \in Nat /\ j <= Len(nodes)
    BY NodesTyped DEF AllInv, TypeInv
  <1>2. NodeSound(nodes, j)
    BY DEF AllInv, WalkInv, TreeSound
  <1>3. PICK d \in 1 .. j - 1 : IsDirOf(nodes[d], Parent[nodes[j].name], nodes[j].parent)
    BY <1>2 DEF NodeSound
  <1>4. d \in 1 .. Len(nodes) /\ d < j
    BY <1>1
  <1>5. IsReal(nodes[d]) /\ IsReal(nodes[b]) /\ nodes[d].inode = nodes[b].inode
    BY <1>3 DEF IsDirOf, IsReal
  <1>6. d = b
    BY <1>4, <1>5 DEF AllInv, WalkInv, InodesUnique
  <1>7. QED
    BY <1>3, <1>4, <1>6 DEF IsDirOf

(* the node of an untouched entry with a short name says what stat says *)
LEMMA NodeOfUntouched ==
  ASSUME AllInv, pc = "done", NEW j \in 1 .. Len(nodes), NEW e \in Entry \ touched,
         nodes[j].name = e, Plain[e], host[e].kind \in {"dir", "reg"}
  PROVE  /\ nodes[j].path = e /\ nodes[j].mode = host[e].kind
         /\ host[e].kind = "reg" => nodes[j].size = host[e].size % Word
  <1>1. Resolves[e] = {e}
    BY PlainIs
  <1>2. nodes[j].path = e
    BY <1>1 DEF AllInv, CallsInv, PathsResolve
  <1>3. j # 1 /\ j \in 2 .. Len(nodes)
    <2>1. j # 1
      BY RootNode, RootIsNoEntry
    <2>2. QED
      BY <2>1, RootNode
  <1>4. NodeTrue(nodes[j])
    BY <1>3 DEF AllInv, TruthInv, NodesTrue
  <1>5. nodes[j].mode \in {"dir", "reg"}
    <2>1. nodes[j] \in NodeType
      BY ElementOfSeq DEF AllInv, TypeInv, TypeOK
    <2>2. QED
      BY <2>1 DEF NodeType
  <1>6. CASE nodes[j].mode = "dir"
    BY <1>2, <1>4, <1>6 DEF NodeTrue, DirStat
  <1>7. CASE nodes[j].mode = "reg"
    <2>1. e \notin missed
      BY <1>2, <1>3, <1>7 DEF AllInv, TruthInv, ReadTo
    <2>2. QED
      BY <1>2, <1>4, <1>7, <2>1 DEF NodeTrue
  <1>8. QED
    BY <1>2, <1>5, <1>6, <1>7

LEMMA KernelIsFound == AllInv => KernelFound
  <1> SUFFICES ASSUME AllInv, pc = "done", ~ wrapped, NEW dir \in Entry \ touched,
                      NEW file \in Entry \ touched,
                      NameOf[dir] = "boot", host[dir].kind = "dir", FirstOfName(dir),
                      NameOf[file] = "kernel", host[file].kind = "reg", Parent[file] = dir,
                      host[file].size < Word, Plain[file], NEW t, t = Lookup(ImageTable, "boot", "kernel")
               PROVE  /\ t \in 1 .. Len(nodes)
                      /\ nodes[t].name = file /\ nodes[t].size = host[file].size /\ Stored(t)
    BY DEF KernelFound, HasKernel
  <1>1. TypeOK
    BY DEF AllInv, TypeInv
  <1>2. Plain[dir]
    BY PlainIs, RootIsNoEntry
  <1>3. PICK j, d \in 1 .. Len(nodes) : IsNodeOf(nodes[j], file, nodes[d].inode) /\ nodes[d].name = dir
    BY StillIsKept, KeptHasNode
  <1>4. PICK b \in 1 .. Len(nodes) :
          /\ nodes[b].name \in Entry /\ NameOf[nodes[b].name] = "boot" /\ FirstBoot(b)
          /\ \A k \in 1 .. Len(nodes) :
               /\ nodes[k].name \in Entry /\ NameOf[nodes[k].name] = "kernel"
               /\ nodes[k].parent = nodes[b].inode
               => t # NotFound
    BY <1>1, <1>3, LookupFinds
  <1>first. ASSUME NEW c \in 1 .. Len(nodes), FirstBoot(c),
                   nodes[c].name \in Entry, NameOf[nodes[c].name] = "boot"
            PROVE  nodes[c].name = dir
    <2>1. PICK d0 \in 1 .. Len(nodes) :
            nodes[d0].name = dir /\ \A i \in 1 .. d0 - 1 : StoredName(nodes[i]) # "boot"
      BY DEF FirstOfName
    <2>2. StoredName(nodes[d0]) = "boot" /\ StoredName(nodes[c]) = "boot"
      BY <1>first, <2>1 DEF StoredName
    <2>3. ~ (c \in 1 .. d0 - 1) /\ ~ (d0 \in 1 .. c - 1)
      BY <1>first, <2>1, <2>2 DEF FirstBoot
    <2>4. Len(nodes) \in Nat
      BY <1>1, NodesTyped
    <2>5. c = d0
      BY <2>3, <2>4
    <2>6. QED
      BY <2>1, <2>5
  <1>5. nodes[b].name = dir
    BY <1>4, <1>first
  <1>6. IsDirOf(nodes[b], dir, nodes[b].inode)
    <2>1. nodes[b].path = dir /\ nodes[b].mode = "dir"
      BY <1>2, <1>5, NodeOfUntouched
    <2>2. QED
      BY <1>5, <2>1 DEF IsDirOf, IsReal
  <1>7. \E k \in 1 .. Len(nodes) : IsNodeOf(nodes[k], file, nodes[b].inode)
    <2>1. file \in Kept
      BY StillIsKept
    <2>2. ~ \E s \in 1 .. Len(stack) : TRUE
      BY RootNode
    <2>3. QED
      BY <1>6, <2>1, <2>2 DEF AllInv, Covered
  <1>8. t # NotFound
    BY <1>4, <1>7 DEF IsNodeOf
  <1>9. PICK b2 \in 1 .. Len(nodes) :
          /\ t \in 1 .. Len(nodes)
          /\ nodes[t].name \in Entry /\ NameOf[nodes[t].name] = "kernel"
          /\ nodes[b2].name \in Entry /\ NameOf[nodes[b2].name] = "boot" /\ FirstBoot(b2)
          /\ nodes[t].parent = nodes[b2].inode
    BY <1>1, <1>8, LookupFinds
  <1>10. nodes[b2].name = dir /\ nodes[b2].path = dir
    <2>1. nodes[b2].name = dir
      BY <1>9, <1>first
    <2>2. QED
      BY <1>2, <2>1, NodeOfUntouched
  <1>11. Parent[nodes[t].name] = dir
    BY <1>9, <1>10, SameDirectory
  <1>12. nodes[t].name = file
    BY <1>9, <1>11, NameOfAssumption
  <1>13. nodes[t].mode = "reg" /\ nodes[t].size = host[file].size
    <2>1. nodes[t].mode = "reg" /\ nodes[t].size = host[file].size % Word
      BY <1>9, <1>12, NodeOfUntouched
    <2>2. host[file].size \in Nat
      BY <1>1, HostSizes
    <2>3. QED
      BY <2>1, <2>2, ModWord
  <1>14. Stored(t)
    BY <1>9, <1>13, FileStored
  <1>15. QED
    BY <1>9, <1>12, <1>13, <1>14

LEMMA OnlyKernelFound == AllInv => NothingElseFound
  <1> SUFFICES ASSUME AllInv, pc = "done",
                      NEW t, t = Lookup(ImageTable, "boot", "kernel"), t # NotFound
               PROVE  /\ t <= Len(nodes) /\ nodes[t].name \in Entry
                      /\ Parent[nodes[t].name] \in Entry
                      /\ NameOf[nodes[t].name] = "kernel"
                      /\ \E d \in 1 .. t :
                           /\ nodes[d].inode = nodes[t].parent /\ IsReal(nodes[d])
                           /\ StoredName(nodes[d]) = "boot"
    BY DEF NothingElseFound
  <1>1. TypeOK /\ Len(nodes) \in Nat
    BY NodesTyped DEF AllInv, TypeInv
  <1>2. PICK b \in 1 .. Len(nodes) :
          /\ t \in 1 .. Len(nodes)
          /\ nodes[t].name \in Entry /\ NameOf[nodes[t].name] = "kernel"
          /\ nodes[b].name \in Entry /\ NameOf[nodes[b].name] = "boot"
          /\ nodes[t].parent = nodes[b].inode
    BY <1>1, LookupFinds
  <1>3. nodes[b].path = Parent[nodes[t].name] /\ b < t
    BY <1>2, SameDirectory
  <1>4. Parent[nodes[t].name] \in Entry
    <2>1. nodes[b].path \in Resolves[nodes[b].name]
      BY <1>2 DEF AllInv, CallsInv, PathsResolve
    <2>2. nodes[b].path \in Entry \cup {NoEntry}
      BY <1>2, <2>1, MkIfsAssumption
    <2>3. Parent[nodes[t].name] \in Entry \cup {Root}
      BY <1>2, MkIfsAssumption
    <2>4. QED
      BY <1>3, <2>2, <2>3, RootIsNoEntry
  <1>5. StoredName(nodes[b]) = "boot" /\ IsReal(nodes[b])
    BY <1>2 DEF StoredName, IsReal
  <1>6. b \in 1 .. t /\ t <= Len(nodes)
    BY <1>1, <1>2, <1>3
  <1>7. QED
    BY <1>2, <1>4, <1>5, <1>6

(* The boot/kernel of the host tree is what the bootloader's lookup finds in
   each image that is completed, whole and in its place, unless another entry
   called boot comes before it in the table; and nothing but a node called kernel
   in a directory called boot is ever found. *)
THEOREM BootloaderFindsKernel == Spec => []LookupRight
  <1>1. AllInv => LookupRight
    BY KernelIsFound, OnlyKernelFound DEF LookupRight
  <1>2. QED
    BY <1>1, AllCorrect, PTL
=============================================================================
