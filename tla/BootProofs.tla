----------------------------- MODULE BootProofs ------------------------------
(***************************************************************************)
(* Proofs about Boot, for every image, every size of memory and every      *)
(* alignment: with what the bootloader relies on granted, the kernel and   *)
(* the IFS are whole when the kernel is entered.                           *)
(***************************************************************************)
EXTENDS Boot, FiniteSetsExt, WellFoundedInduction, TLAPS

-----------------------------------------------------------------------------
(* The rounding macros, and the least element of a set *)

(* ALIGN_DOWN stays at or below the address, by less than the alignment *)
LEMMA AlignDownBounds ==
  ASSUME NEW x \in Int, NEW n \in Nat \ {0}
  PROVE  AlignDown(x, n) \in Int /\ AlignDown(x, n) <= x /\ AlignDown(x, n) > x - n
  BY DEF AlignDown

LEMMA AlignDownNat ==
  ASSUME NEW x \in Nat, NEW n \in Nat \ {0}
  PROVE  AlignDown(x, n) \in Nat
  BY DEF AlignDown

(* ALIGN_UP stays at or above the address, by less than the alignment *)
LEMMA AlignUpBounds ==
  ASSUME NEW x \in Int, NEW n \in Nat \ {0}
  PROVE  AlignUp(x, n) \in Int /\ AlignUp(x, n) >= x /\ AlignUp(x, n) < x + n
  BY DEF AlignUp

(* the order of the naturals as a relation, which is well founded *)
Less == {ss \in Nat \X Nat : ss[1] < ss[2]}

LEMMA LessWellFounded == IsWellFoundedOn(Less, Nat)
  BY NatLessThanWellFounded DEF OpToRel, Less

LEMMA LeastExists ==
  ASSUME NEW S \in SUBSET Nat, S # {}
  PROVE  \E x \in S : \A y \in S : x <= y
  <1>1. \E x \in S : \A y \in S : ~ (<<y, x>> \in Less)
    BY WFMin, LessWellFounded
  <1>2. \A x, y \in Nat : ~ (<<y, x>> \in Less) => x <= y
    BY DEF Less
  <1>3. QED
    BY <1>1, <1>2

LEMMA MinIsLeast ==
  ASSUME NEW S \in SUBSET Nat, S # {}
  PROVE  Min(S) \in S /\ \A y \in S : Min(S) <= y
  <1>1. \E x \in S : \A y \in S : x <= y
    BY LeastExists
  <1>2. QED
    BY <1>1 DEF Min


(* where main moves the IFS image *)
Top == AlignDown(memSize - image.ifsSize, RelocAlign)

(* the type invariant, and that the mailbox has been asked before the image is
   moved *)
BootTypes == TypeOK /\ (pc # "init" => memSize \in MemSizes)

(* until the image is moved, memory is as the firmware left it *)
Untouched == pc \in {"init", "relocate"} =>
  mem = [a \in Addr |-> IF a >= BootStart /\ a < BootStart + ImageSize(image)
                        THEN Img(a - BootStart) ELSE Junk]

(* after that the copy is whole, and stays so *)
Copied == pc \notin {"init", "relocate"} =>
  ifsImage = Top /\ Holds(mem, ifsImage, image.ifsSize, image.ifsOffset)

Found == pc \in {"load", "server", "bootstrap", "kernel"} =>
  /\ Kernel # NotFound
  /\ phdrs = image.phdrs
  /\ elfBase = ifsImage + image.table[Kernel].offset
  /\ pc # "load" => t > Len(phdrs)

(* the segments before the one that is worked on are in memory, the ceiling
   kept so far is the highest of theirs *)
Loaded == pc \in {"load", "server", "bootstrap", "kernel"} =>
  /\ \A i \in Loads(image) : i < t =>
       /\ image.phdrs[i].filesz <= image.phdrs[i].memsz
       /\ SegmentLoaded(image.phdrs[i])
       /\ SegmentCeiling(image.phdrs[i]) <= ceiling
  /\ \/ ceiling = 0
     \/ \E i \in Loads(image) : ceiling = SegmentCeiling(image.phdrs[i])

ServerFound == pc \in {"bootstrap", "kernel"} =>
  /\ Server # NotFound
  /\ ifsExe = [base |-> ifsImage + image.table[Server].offset,
               size |-> image.table[Server].size]

BootGranted == Copied /\ Found /\ Loaded /\ ServerFound

BootInv ==
  /\ BootTypes
  /\ Untouched
  /\ NeverLost
  /\ BootloaderIntact
  /\ Granted => BootGranted

-----------------------------------------------------------------------------
(* Lemmas about memory *)

LEMMA FillAt ==
  ASSUME NEW m, NEW at, NEW cells, NEW a \in Addr
  PROVE  Fill(m, at, cells)[a] = IF a - at \in DOMAIN cells THEN cells[a - at] ELSE m[a]
  BY DEF Fill

LEMMA FillType ==
  ASSUME NEW m \in [Addr -> Cell], NEW at \in Int, NEW len,
         NEW cells \in [0 .. len - 1 -> Cell]
  PROVE  Fill(m, at, cells) \in [Addr -> Cell]
  BY DEF Fill

LEMMA CellTypes ==
  /\ Zero \in Cell /\ Junk \in Cell /\ Table \in Cell
  /\ \A i \in Addr : Img(i) \in Cell
  BY DEF Cell

LEMMA BytesType ==
  ASSUME NEW m \in [Addr -> Cell], NEW at \in Int, NEW len
  PROVE  Bytes(m, at, len) \in [0 .. len - 1 -> Cell]
  BY CellTypes DEF Bytes, Fetch

LEMMA SameType ==
  ASSUME NEW len, NEW c \in Cell
  PROVE  Same(len, c) \in [0 .. len - 1 -> Cell]
  BY DEF Same

(* what is stored elsewhere leaves a stretch of kernel.img alone *)
LEMMA HoldsKept ==
  ASSUME NEW m, NEW at \in Int, NEW len \in Nat, NEW i, Holds(m, at, len, i),
         NEW x \in Int, NEW n \in Int, NEW cells, DOMAIN cells = 0 .. n - 1,
         x + n <= at \/ at + len <= x
  PROVE  Holds(Fill(m, x, cells), at, len, i)
  <1> SUFFICES ASSUME NEW k \in 0 .. len - 1
               PROVE  Fetch(Fill(m, x, cells), at + k) = Img(i + k)
    BY DEF Holds
  <1>1. Fetch(m, at + k) = Img(i + k)
    BY DEF Holds
  <1>2. CASE at + k \in Addr
    <2>1. at + k - x \notin 0 .. n - 1
      OBVIOUS
    <2>2. Fill(m, x, cells)[at + k] = m[at + k]
      BY <1>2, <2>1, FillAt
    <2>3. QED
      BY <1>1, <1>2, <2>2 DEF Fetch
  <1>3. CASE at + k \notin Addr
    BY <1>1, <1>3 DEF Fetch
  <1>4. QED
    BY <1>2, <1>3

LEMMA BytesDomain ==
  ASSUME NEW m, NEW at, NEW len
  PROVE  DOMAIN Bytes(m, at, len) = 0 .. len - 1
  BY DEF Bytes

LEMMA SameDomain ==
  ASSUME NEW len, NEW cell
  PROVE  DOMAIN Same(len, cell) = 0 .. len - 1
  BY DEF Same

(* a file found in a table is one of its nodes *)
LEMMA LookupInTable ==
  ASSUME NEW table, Len(table) \in Nat, NEW dirname, NEW filename
  PROVE  LET f == Lookup(table, dirname, filename)
         IN  f = NotFound \/ (f \in 1 .. Len(table) /\ f # NotFound)
  <1> DEFINE d == table[Min(Named(table, dirname))].inode
             files == NamedIn(table, filename, d)
  <1>1. files \in SUBSET Nat /\ files \subseteq 1 .. Len(table)
    BY DEF NamedIn, Named
  <1>2. files # {} => Min(files) \in files
    BY <1>1, MinIsLeast
  <1>3. Lookup(table, dirname, filename) \in {NotFound, Min(files)}
    BY DEF Lookup
  <1>4. files = {} => Lookup(table, dirname, filename) = NotFound
    BY DEF Lookup
  <1>5. QED
    BY <1>1, <1>2, <1>3, <1>4 DEF NotFound

(* the fields of an image *)
LEMMA ImageFields ==
  ASSUME NEW im \in Images
  PROVE  /\ im.bootSize \in Nat /\ im.ifsOffset \in Nat /\ im.ifsSize \in Nat
         /\ im.tableSize \in Nat
         /\ im.bootSize <= im.ifsOffset /\ im.tableSize <= im.ifsSize
         /\ Len(im.table) \in Nat /\ Len(im.phdrs) \in Nat
  BY ImagesAssumption

LEMMA TableFields ==
  ASSUME NEW im \in Images, NEW i \in 1 .. Len(im.table)
  PROVE  /\ im.table[i].offset \in Nat /\ im.table[i].size \in Nat
         /\ im.table[i].offset + im.table[i].size <= im.ifsSize
  <1>1. im.table \in Seq(IfsNode)
    BY ImagesAssumption
  <1>2. im.table[i] \in IfsNode
    BY <1>1
  <1>3. im.table[i].offset + im.table[i].size <= im.ifsSize
    BY ImagesAssumption
  <1>4. QED
    BY <1>2, <1>3 DEF IfsNode

LEMMA PhdrType ==
  ASSUME NEW im \in Images, NEW i \in 1 .. Len(im.phdrs)
  PROVE  im.phdrs[i] \in Phdr
  <1>1. im.phdrs \in Seq(Phdr)
    BY ImagesAssumption
  <1>2. QED
    BY <1>1

LEMMA Constants ==
  /\ Page \in Nat \ {0} /\ RelocAlign \in Nat \ {0} /\ PtAlign \in Nat \ {0}
  /\ PtSize \in Nat /\ BootStart \in Nat /\ VM_KERNEL_BASE \in Nat
  /\ MaxMem \in Nat /\ MemSizes \subseteq Nat
  /\ \A m \in MemSizes : m <= MaxMem
  /\ \A im \in Images : \A m \in MemSizes : im.ifsSize <= m
  BY BootAssumption

(* the extent of the pages of a segment *)
LEMMA SegmentBounds ==
  ASSUME NEW p \in Phdr
  PROVE  /\ PhysAddr(p.vaddr) \in Int /\ p.filesz \in Nat /\ p.memsz \in Nat
         /\ SegmentBase(p) \in Int /\ SegmentCeiling(p) \in Int
         /\ SegmentBase(p) <= PhysAddr(p.vaddr)
         /\ PhysAddr(p.vaddr) + p.memsz <= SegmentCeiling(p)
  <1>1. PICK v \in Nat, m \in Nat : p.vaddr = v /\ p.memsz = m /\ p.filesz \in Nat
    BY DEF Phdr
  <1>2. AlignDown(v, Page) \in Int /\ AlignDown(v, Page) <= v
    BY AlignDownBounds, Constants
  <1>3. AlignUp(v + m, Page) \in Int /\ AlignUp(v + m, Page) >= v + m
    BY AlignUpBounds, Constants
  <1>4. QED
    BY <1>1, <1>2, <1>3, Constants DEF SegmentBase, SegmentCeiling, PhysAddr

-----------------------------------------------------------------------------
(* Type correctness *)

(* the place the IFS image is moved to *)
LEMMA TopBounds ==
  ASSUME NEW im \in Images, NEW size \in MemSizes
  PROVE  /\ AlignDown(size - im.ifsSize, RelocAlign) \in Nat
         /\ AlignDown(size - im.ifsSize, RelocAlign) + im.ifsSize <= MaxMem
  <1>1. /\ size \in Nat /\ size <= MaxMem /\ im.ifsSize \in Nat
        /\ im.ifsSize <= size /\ MaxMem \in Nat
    BY Constants, ImageFields
  <1>2. PICK x \in Nat : x = size - im.ifsSize
    BY <1>1
  <1>3. AlignDown(x, RelocAlign) \in Nat /\ AlignDown(x, RelocAlign) <= x
    BY AlignDownNat, AlignDownBounds, Constants
  <1>4. QED
    BY <1>1, <1>2, <1>3

LEMMA BootTypesInit == Init => BootTypes
  <1> SUFFICES ASSUME Init PROVE BootTypes
    OBVIOUS
  <1>1. \A a \in Addr : a >= BootStart => a - BootStart \in Addr
    BY Constants DEF Addr
  <1>2. mem \in [Addr -> Cell]
    BY <1>1, CellTypes DEF Init
  <1>3. QED
    BY <1>2 DEF Init, BootTypes, TypeOK

LEMMA BootTypesStep == BootTypes /\ [Next]_vars => BootTypes'
  <1> SUFFICES ASSUME BootTypes, [Next]_vars PROVE BootTypes'
    OBVIOUS
  <1> USE DEF BootTypes, TypeOK
  <1>0. /\ image.ifsSize \in Nat /\ Len(image.phdrs) \in Nat
        /\ Len(image.table) \in Nat
    BY ImageFields
  <1>1. CASE BoardInit
    BY <1>1 DEF BoardInit
  <1>2. CASE Relocate
    <2>1. PICK copy \in [0 .. image.ifsSize - 1 -> Cell] : mem' = Fill(mem, Top, copy)
      <3>1. Same(image.ifsSize, Junk) \in [0 .. image.ifsSize - 1 -> Cell]
        BY SameType, CellTypes
      <3>2. IfsSource \in Int
        BY ImageFields, Constants DEF IfsSource
      <3>3. Bytes(mem, IfsSource, image.ifsSize) \in [0 .. image.ifsSize - 1 -> Cell]
        BY <3>2, BytesType
      <3>4. QED
        BY <1>2, <3>1, <3>3 DEF Relocate, Top
    <2>2. Top \in Nat
      BY <1>2, TopBounds DEF Relocate, Top
    <2>3. mem' \in [Addr -> Cell]
      BY <2>1, <2>2, FillType
    <2>4. QED
      BY <1>2, <2>2, <2>3 DEF Relocate, Top
  <1>3. CASE FindKernel
    <2>1. Kernel \in 1 .. Len(image.table)
      BY <1>0, <1>3, LookupInTable DEF FindKernel, Kernel
    <2>2. image.table[Kernel].offset \in Nat
      BY <2>1, TableFields
    <2>3. /\ elfBase' = ifsImage + image.table[Kernel].offset
          /\ phdrs' = image.phdrs /\ ceiling' = 0 /\ t' = 1 /\ pc' = "load"
          /\ UNCHANGED <<image, memSize, mem, ifsImage, ifsExe>>
          /\ pc = "find"
      BY <1>3 DEF FindKernel
    <2>4. elfBase' \in Nat
      BY <2>2, <2>3
    <2>5. t' \in 1 .. Len(phdrs') + 1
      BY <1>0, <2>3
    <2>6. QED
      BY <2>3, <2>4, <2>5
  <1>4. CASE CannotLoadKernel
    BY <1>4 DEF CannotLoadKernel, Panic
  <1>5. CASE ReadsGarbage
    BY <1>5 DEF ReadsGarbage, Lost
  <1>6. CASE LoadSegment
    <2> DEFINE p == phdrs[t]
               cleared == Fill(mem, SegmentBase(p),
                               Same(SegmentCeiling(p) - SegmentBase(p), Zero))
    <2>1. p \in Phdr /\ t \in 1 .. Len(phdrs)
      BY <1>6, PhdrType DEF LoadSegment
    <2>2. /\ PhysAddr(p.vaddr) \in Int /\ SegmentBase(p) \in Int
          /\ SegmentCeiling(p) \in Int
      BY <2>1, SegmentBounds
    <2>3. cleared \in [Addr -> Cell]
      BY <2>2, SameType, FillType, CellTypes
    <2>4. elfBase + p.offset \in Int
      BY <2>1 DEF Phdr
    <2>5. /\ mem' = Fill(cleared, PhysAddr(p.vaddr),
                         Bytes(cleared, elfBase + p.offset, p.filesz))
          /\ ceiling' = IF SegmentCeiling(p) > ceiling THEN SegmentCeiling(p) ELSE ceiling
      BY <1>6 DEF LoadSegment
    <2> HIDE DEF cleared, p
    <2>6. mem' \in [Addr -> Cell]
      BY <2>2, <2>3, <2>4, <2>5, BytesType, FillType
    <2>7. ceiling' \in Nat
      BY <2>2, <2>5
    <2>8. QED
      BY <1>6, <2>1, <2>6, <2>7 DEF LoadSegment
  <1>7. CASE SkipSegment
    BY <1>0, <1>7 DEF SkipSegment
  <1>8. CASE BadSegment
    BY <1>8 DEF BadSegment, Panic
  <1>9. CASE KernelLoadedOk
    BY <1>9 DEF KernelLoadedOk
  <1>10. CASE FindServer
    <2>1. Server \in 1 .. Len(image.table)
      BY <1>0, <1>10, LookupInTable DEF FindServer, Server
    <2>2. image.table[Server].offset \in Nat /\ image.table[Server].size \in Nat
      BY <2>1, TableFields
    <2>3. QED
      BY <1>10, <2>2 DEF FindServer
  <1>11. CASE NoServer
    BY <1>11 DEF NoServer, Panic
  <1>12. CASE Bootstrap
    <2>1. PtBase \in Int
      BY AlignUpBounds, Constants DEF PtBase
    <2>2. Same(PtSize, Table) \in [0 .. PtSize - 1 -> Cell]
      BY SameType, CellTypes
    <2>3. mem' \in [Addr -> Cell]
      BY <1>12, <2>1, <2>2, FillType DEF Bootstrap
    <2>4. QED
      BY <1>12, <2>3 DEF Bootstrap
  <1>13. CASE Halted \/ UNCHANGED vars
    BY <1>13 DEF Halted, vars
  <1>14. QED
    BY <1>1, <1>2, <1>3, <1>4, <1>5, <1>6, <1>7, <1>8, <1>9, <1>10, <1>11, <1>12,
       <1>13 DEF Next

LEMMA BootTyped == Spec => []BootTypes
  BY BootTypesInit, BootTypesStep, PTL DEF Spec

(* Addresses, the table index and the program headers keep their types on every
   path through Main, elf_load and elf_find. *)
THEOREM BootTypeCorrect == Spec => []TypeOK
  <1>1. BootTypes => TypeOK
    BY DEF BootTypes
  <1>2. QED
    BY <1>1, BootTyped, PTL

-----------------------------------------------------------------------------
(* What the grants say of addresses *)

LEMMA GrantedBounds ==
  ASSUME BootTypes, Granted, pc # "init"
  PROVE  /\ Top \in Nat /\ Top + image.ifsSize <= MaxMem
         /\ BootStart + image.bootSize <= Top
         /\ BootStart + image.ifsOffset + image.ifsSize <= Top
  <1>1. memSize \in MemSizes /\ memSize \in Nat /\ memSize <= MaxMem
    BY Constants DEF BootTypes
  <1>2. image \in Images
    BY DEF BootTypes, TypeOK
  <1>3. Top \in Nat /\ Top + image.ifsSize <= MaxMem
    BY <1>1, <1>2, TopBounds DEF Top
  <1>5. BootStart + ImageSize(image) <= Top
    BY DEF Granted, RoomInMemory, Top
  <1>6. QED
    BY <1>2, <1>3, <1>5, ImageFields, Constants DEF ImageSize

LEMMA GrantedSegment ==
  ASSUME BootTypes, Granted, pc # "init", NEW i \in Loads(image)
  PROVE  LET p == image.phdrs[i]
         IN  /\ p \in Phdr /\ i \in 1 .. Len(image.phdrs)
             /\ PhysAddr(p.vaddr) \in Int /\ p.filesz \in Nat /\ p.memsz \in Nat
             /\ SegmentBase(p) \in Int /\ SegmentCeiling(p) \in Int
             /\ BootStart + image.bootSize <= SegmentBase(p)
             /\ SegmentBase(p) <= PhysAddr(p.vaddr)
             /\ PhysAddr(p.vaddr) + p.memsz <= SegmentCeiling(p)
             /\ SegmentCeiling(p) <= AlignUp(SegmentCeiling(p), PtAlign)
             /\ AlignUp(SegmentCeiling(p), PtAlign) \in Int
             /\ AlignUp(SegmentCeiling(p), PtAlign) + PtSize <= Top
  <1> DEFINE p == image.phdrs[i]
  <1>1. i \in 1 .. Len(image.phdrs) /\ p \in Phdr
    BY PhdrType DEF Loads, BootTypes, TypeOK
  <1>2. BootStart + image.bootSize <= SegmentBase(p)
    BY DEF Granted, KernelLinked
  <1>3. AlignUp(SegmentCeiling(p), PtAlign) + PtSize <= Top
    BY DEF Granted, RoomInMemory, Top
  <1> HIDE DEF p
  <1>4. /\ PhysAddr(p.vaddr) \in Int /\ p.filesz \in Nat /\ p.memsz \in Nat
        /\ SegmentBase(p) \in Int /\ SegmentCeiling(p) \in Int
        /\ SegmentBase(p) <= PhysAddr(p.vaddr)
        /\ PhysAddr(p.vaddr) + p.memsz <= SegmentCeiling(p)
    BY <1>1, SegmentBounds
  <1>5. /\ AlignUp(SegmentCeiling(p), PtAlign) \in Int
        /\ SegmentCeiling(p) <= AlignUp(SegmentCeiling(p), PtAlign)
    BY <1>4, AlignUpBounds, Constants
  <1>6. QED
    BY <1>1, <1>2, <1>3, <1>4, <1>5 DEF p

(* the pages of two segments are apart, if either has any *)
LEMMA GrantedApart ==
  ASSUME BootTypes, Granted, pc # "init",
         NEW i \in Loads(image), NEW j \in Loads(image), i # j,
         image.phdrs[i].memsz > 0
  PROVE  \/ SegmentCeiling(image.phdrs[j]) <= SegmentBase(image.phdrs[i])
         \/ SegmentCeiling(image.phdrs[i]) <= SegmentBase(image.phdrs[j])
         \/ SegmentCeiling(image.phdrs[j]) = SegmentBase(image.phdrs[j])
  <1> DEFINE p == image.phdrs[i]
             q == image.phdrs[j]
  <1>1. ~ Overlap(Pages(p), Pages(q))
    BY DEF Granted, KernelLinked
  <1> HIDE DEF p, q
  <1>2. /\ Pages(p).at = SegmentBase(p)
        /\ Pages(p).len = SegmentCeiling(p) - SegmentBase(p)
        /\ Pages(q).at = SegmentBase(q)
        /\ Pages(q).len = SegmentCeiling(q) - SegmentBase(q)
    BY DEF Pages
  <1>3. /\ SegmentBase(p) \in Int /\ SegmentCeiling(p) \in Int
        /\ SegmentBase(p) < SegmentCeiling(p)
    BY GrantedSegment DEF p
  <1>4. /\ PhysAddr(q.vaddr) \in Int /\ q.memsz \in Nat
        /\ SegmentBase(q) \in Int /\ SegmentCeiling(q) \in Int
        /\ SegmentBase(q) <= PhysAddr(q.vaddr)
        /\ PhysAddr(q.vaddr) + q.memsz <= SegmentCeiling(q)
    BY GrantedSegment DEF q
  <1>5. SegmentBase(q) <= SegmentCeiling(q)
    BY <1>4
  <1>6. \/ SegmentCeiling(q) <= SegmentBase(p)
        \/ SegmentCeiling(p) <= SegmentBase(q)
        \/ SegmentCeiling(q) = SegmentBase(q)
    BY <1>1, <1>2, <1>3, <1>4, <1>5 DEF Overlap
  <1>7. QED
    BY <1>6 DEF p, q

-----------------------------------------------------------------------------
(* The inductive invariant *)

LEMMA BootInvInit == Init => BootInv
  BY BootTypesInit DEF Init, BootInv, BootTypes, Untouched, NeverLost,
     BootloaderIntact, BootGranted, Copied, Found, Loaded, ServerFound

(* an action that leaves the image and the size of memory alone leaves alone
   what is granted and what is looked up *)
LEMMA SameGrants ==
  ASSUME image' = image, memSize' = memSize
  PROVE  Granted' = Granted /\ Kernel' = Kernel /\ Server' = Server /\ Top' = Top
  BY DEF Granted, RoomInMemory, KernelLinked, KernelWhole, Kernel, Server, Top

LEMMA BoardInitInv ==
  ASSUME BootInv, BoardInit
  PROVE  BootInv'
  <1>1. BootTypes'
    BY BootTypesStep DEF BootInv, Next
  <1>2. Untouched' /\ NeverLost' /\ BootGranted'
    BY DEF BootInv, BoardInit, Untouched, NeverLost, BootGranted, Copied, Found,
           Loaded, ServerFound
  <1>3. BootloaderIntact'
    <2> SUFFICES ASSUME Granted', NEW k \in 0 .. image.bootSize - 1
                 PROVE  Fetch(mem', BootStart + k) = Img(k)
      BY DEF BootloaderIntact, Holds, BoardInit
    <2>1. image' = image /\ mem' = mem /\ pc' # "init"
      BY DEF BoardInit
    <2>2. image \in Images
      BY DEF BootInv, BootTypes, TypeOK
    <2>3. PICK to \in Nat : to <= MaxMem /\ BootStart + ImageSize(image) <= to
      <3>1. BootStart + ImageSize(image) <= AlignDown(memSize' - image.ifsSize, RelocAlign)
        BY <2>1 DEF Granted, RoomInMemory
      <3>2. memSize' \in MemSizes
        BY DEF BoardInit
      <3>3. QED
        BY <2>2, <3>1, <3>2, TopBounds, ImageFields, Constants
    <2>4. BootStart + k \in Addr /\ k < ImageSize(image)
      BY <2>2, <2>3, ImageFields, Constants DEF Addr, ImageSize
    <2>5. mem[BootStart + k] = Img(BootStart + k - BootStart)
      BY <2>2, <2>4, ImageFields, Constants DEF BootInv, Untouched, BoardInit, ImageSize
    <2>6. QED
      BY <2>1, <2>4, <2>5, Constants DEF Fetch
  <1>4. QED
    BY <1>1, <1>2, <1>3 DEF BootInv

(* the relocated image overlaps neither its original nor the bootloader *)
LEMMA RelocateInv ==
  ASSUME BootInv, Relocate
  PROVE  BootInv'
  <1>1. BootTypes'
    BY BootTypesStep DEF BootInv, Next
  <1>2. Untouched' /\ NeverLost'
    BY DEF Relocate, Untouched, NeverLost
  <1>3. ASSUME Granted
        PROVE  /\ Holds(mem', Top, image.ifsSize, image.ifsOffset)
               /\ Holds(mem', BootStart, image.bootSize, 0)
    <2>1. image \in Images /\ pc = "relocate" /\ BootTypes
      BY DEF BootInv, BootTypes, TypeOK, Relocate
    <2>2. /\ Top \in Nat /\ Top + image.ifsSize <= MaxMem
          /\ BootStart + image.bootSize <= Top
          /\ BootStart + image.ifsOffset + image.ifsSize <= Top
      BY <1>3, <2>1, GrantedBounds
    <2>3. /\ image.bootSize \in Nat /\ image.ifsOffset \in Nat
          /\ image.ifsSize \in Nat /\ BootStart \in Nat /\ MaxMem \in Nat
          /\ image.bootSize <= image.ifsOffset
      BY <2>1, ImageFields, Constants
    <2> DEFINE n == image.ifsSize
               source == [at |-> IfsSource, len |-> n]
    <2>4. ~ Overlap(source, [source EXCEPT !.at = Top])
      BY <2>2, <2>3 DEF Overlap, IfsSource
    <2>5. mem' = Fill(mem, Top, Bytes(mem, IfsSource, n))
      BY <2>4 DEF Relocate, Top
    <2>6. \A k \in 0 .. n - 1 : Fetch(mem, IfsSource + k) = Img(image.ifsOffset + k)
      <3> SUFFICES ASSUME NEW k \in 0 .. n - 1
                   PROVE  Fetch(mem, IfsSource + k) = Img(image.ifsOffset + k)
        OBVIOUS
      <3>1. IfsSource + k \in Addr
        BY <2>2, <2>3 DEF Addr, IfsSource
      <3>2. mem[IfsSource + k] = Img(IfsSource + k - BootStart)
        BY <2>1, <2>3, <3>1 DEF BootInv, Untouched, IfsSource, ImageSize
      <3>3. QED
        BY <2>3, <3>1, <3>2 DEF Fetch, IfsSource
    <2>7. Holds(mem', Top, n, image.ifsOffset)
      <3> SUFFICES ASSUME NEW k \in 0 .. n - 1
                   PROVE  Fetch(mem', Top + k) = Img(image.ifsOffset + k)
        BY DEF Holds
      <3>1. Top + k \in Addr
        BY <2>2, <2>3 DEF Addr
      <3>2. k \in DOMAIN Bytes(mem, IfsSource, n)
        BY BytesDomain
      <3>3. mem'[Top + k] = Bytes(mem, IfsSource, n)[k]
        <4> DEFINE a == Top + k
                   cells == Bytes(mem, IfsSource, n)
        <4>1. a \in Addr /\ a - Top = k
          BY <2>2, <3>1
        <4> HIDE DEF a, cells
        <4>2. Fill(mem, Top, cells)[a] =
                IF a - Top \in DOMAIN cells THEN cells[a - Top] ELSE mem[a]
          BY <4>1, FillAt
        <4>3. QED
          BY <2>5, <3>2, <4>1, <4>2 DEF a, cells
      <3>4. QED
        BY <2>6, <3>1, <3>3 DEF Fetch, Bytes
    <2>8. Holds(mem, BootStart, image.bootSize, 0)
      BY <1>3, <2>1 DEF BootInv, BootloaderIntact
    <2>9. Holds(mem', BootStart, image.bootSize, 0)
      BY <2>2, <2>3, <2>5, <2>8, HoldsKept, BytesDomain
    <2>10. QED
      BY <2>7, <2>9
  <1>4. image' = image /\ memSize' = memSize /\ ifsImage' = Top /\ pc' = "find"
    BY DEF Relocate, Top
  <1>5. BootloaderIntact'
    BY <1>3, <1>4, SameGrants DEF BootloaderIntact
  <1>6. Granted' => BootGranted'
    BY <1>3, <1>4, SameGrants
    DEF BootGranted, Copied, Found, Loaded, ServerFound
  <1>7. QED
    BY <1>1, <1>2, <1>5, <1>6 DEF BootInv

(* when memory is left alone, so is what it holds *)
LEMMA SameMemory ==
  ASSUME BootInv, image' = image, memSize' = memSize, mem' = mem, ifsImage' = ifsImage,
         pc \notin {"init", "relocate"}, pc' \notin {"init", "relocate"}
  PROVE  /\ Untouched' /\ BootloaderIntact'
         /\ Granted' => Granted /\ Copied'
         /\ \A i \in Loads(image) :
              SegmentLoaded(image.phdrs[i])' = SegmentLoaded(image.phdrs[i])
  <1>1. Granted' = Granted /\ Kernel' = Kernel /\ Top' = Top
    BY SameGrants
  <1>2. Untouched' /\ BootloaderIntact'
    BY <1>1 DEF BootInv, Untouched, BootloaderIntact
  <1>3. Granted' => Granted /\ Copied'
    BY <1>1 DEF BootInv, BootGranted, Copied
  <1>4. \A i \in Loads(image) :
          SegmentLoaded(image.phdrs[i])' = SegmentLoaded(image.phdrs[i])
    BY <1>1 DEF SegmentLoaded
  <1>5. QED
    BY <1>2, <1>3, <1>4

LEMMA FindKernelInv ==
  ASSUME BootInv, FindKernel
  PROVE  BootInv'
  <1>1. BootTypes'
    BY BootTypesStep DEF BootInv, Next
  <1>2. /\ image' = image /\ memSize' = memSize /\ mem' = mem /\ ifsImage' = ifsImage
        /\ pc = "find" /\ pc' = "load" /\ t' = 1 /\ ceiling' = 0 /\ ifsExe' = ifsExe
        /\ elfBase' = ifsImage + image.table[Kernel].offset
        /\ phdrs' = image.phdrs /\ Kernel # NotFound
    BY DEF FindKernel
  <1>3. /\ Untouched' /\ BootloaderIntact' /\ NeverLost'
        /\ Granted' => Granted /\ Copied'
    BY <1>2, SameMemory DEF NeverLost
  <1>4. Found' /\ ServerFound'
    BY <1>2, SameGrants DEF Found, ServerFound
  <1>5. Loaded'
    <2>1. \A i \in Loads(image) : ~ (i < 1)
      BY DEF Loads
    <2>2. QED
      BY <1>2, <2>1 DEF Loaded
  <1>6. QED
    BY <1>1, <1>3, <1>4, <1>5 DEF BootInv, BootGranted

LEMMA StopsInv ==
  ASSUME BootInv, Panic, pc \notin {"init", "relocate"}
  PROVE  BootTypes' => BootInv'
  <1>1. /\ image' = image /\ memSize' = memSize /\ mem' = mem /\ ifsImage' = ifsImage
        /\ pc' = "panic"
    BY DEF Panic
  <1>2. /\ Untouched' /\ BootloaderIntact' /\ NeverLost'
        /\ Granted' => Granted /\ Copied'
    BY <1>1, SameMemory DEF NeverLost
  <1>3. Found' /\ ServerFound' /\ Loaded'
    BY <1>1 DEF Found, ServerFound, Loaded
  <1>4. QED
    BY <1>2, <1>3 DEF BootInv, BootGranted

(* the table of the copy is intact as long as the copy is *)
LEMMA GarbageInv ==
  ASSUME BootInv, ReadsGarbage
  PROVE  BootInv'
  <1>1. BootTypes'
    BY BootTypesStep DEF BootInv, Next
  <1>2. /\ image' = image /\ memSize' = memSize /\ mem' = mem /\ ifsImage' = ifsImage
        /\ pc \in {"find", "server"} /\ pc' = "lost" /\ ~ TableIntact
    BY DEF ReadsGarbage, Lost
  <1>3. ~ Granted
    <2> SUFFICES ASSUME Granted PROVE FALSE
      OBVIOUS
    <2>1. Holds(mem, ifsImage, image.ifsSize, image.ifsOffset)
      BY <1>2 DEF BootInv, BootGranted, Copied
    <2>2. image.tableSize \in Nat /\ image.ifsSize \in Nat
          /\ image.tableSize <= image.ifsSize
      BY ImageFields DEF BootInv, BootTypes, TypeOK
    <2>3. TableIntact
      BY <2>1, <2>2 DEF TableIntact, Holds
    <2>4. QED
      BY <1>2, <2>3
  <1>4. ~ Granted'
    BY <1>2, <1>3, SameGrants
  <1>5. Untouched' /\ BootloaderIntact' /\ NeverLost'
    BY <1>2, <1>4 DEF Untouched, BootloaderIntact, NeverLost
  <1>6. QED
    BY <1>1, <1>4, <1>5 DEF BootInv

LEMMA SkipInv ==
  ASSUME BootInv, SkipSegment
  PROVE  BootInv'
  <1>1. BootTypes'
    BY BootTypesStep DEF BootInv, Next
  <1>2. /\ image' = image /\ memSize' = memSize /\ mem' = mem /\ ifsImage' = ifsImage
        /\ pc = "load" /\ pc' = pc /\ t' = t + 1 /\ ceiling' = ceiling
        /\ elfBase' = elfBase /\ phdrs' = phdrs /\ ifsExe' = ifsExe
        /\ ~ phdrs[t].load
    BY DEF SkipSegment
  <1>3. /\ Untouched' /\ BootloaderIntact' /\ NeverLost'
        /\ Granted' => Granted /\ Copied'
        /\ \A i \in Loads(image) :
             SegmentLoaded(image.phdrs[i])' = SegmentLoaded(image.phdrs[i])
    BY <1>2, SameMemory DEF NeverLost
  <1>4. Granted => Found' /\ ServerFound'
    BY <1>2, SameGrants DEF BootInv, BootGranted, Found, ServerFound
  <1>5. Granted => Loaded'
    <2> SUFFICES ASSUME Granted PROVE Loaded'
      OBVIOUS
    <2>1. Loaded /\ Found
      BY DEF BootInv, BootGranted
    <2>2. t \notin Loads(image)
      BY <1>2, <2>1 DEF Loads, Found
    <2>3. \A i \in Loads(image) : i < t + 1 => i < t
      BY <2>2 DEF Loads, BootInv, BootTypes, TypeOK
    <2>4. QED
      BY <1>2, <1>3, <2>1, <2>3 DEF Loaded
  <1>6. QED
    BY <1>1, <1>3, <1>4, <1>5 DEF BootInv, BootGranted

LEMMA LoadedOkInv ==
  ASSUME BootInv, KernelLoadedOk
  PROVE  BootInv'
  <1>1. BootTypes'
    BY BootTypesStep DEF BootInv, Next
  <1>2. /\ image' = image /\ memSize' = memSize /\ mem' = mem /\ ifsImage' = ifsImage
        /\ pc = "load" /\ pc' = "server" /\ t' = t /\ ceiling' = ceiling
        /\ elfBase' = elfBase /\ phdrs' = phdrs /\ ifsExe' = ifsExe
        /\ t > Len(phdrs)
    BY DEF KernelLoadedOk
  <1>3. /\ Untouched' /\ BootloaderIntact' /\ NeverLost'
        /\ Granted' => Granted /\ Copied'
        /\ \A i \in Loads(image) :
             SegmentLoaded(image.phdrs[i])' = SegmentLoaded(image.phdrs[i])
    BY <1>2, SameMemory DEF NeverLost
  <1>4. Granted => Found' /\ ServerFound'
    BY <1>2, SameGrants DEF BootInv, BootGranted, Found, ServerFound
  <1>5. Granted => Loaded'
    BY <1>2, <1>3 DEF BootInv, BootGranted, Loaded
  <1>6. QED
    BY <1>1, <1>3, <1>4, <1>5 DEF BootInv, BootGranted

LEMMA FindServerInv ==
  ASSUME BootInv, FindServer
  PROVE  BootInv'
  <1>1. BootTypes'
    BY BootTypesStep DEF BootInv, Next
  <1>2. /\ image' = image /\ memSize' = memSize /\ mem' = mem /\ ifsImage' = ifsImage
        /\ pc = "server" /\ pc' \in {"bootstrap", "panic"} /\ t' = t
        /\ ceiling' = ceiling /\ elfBase' = elfBase /\ phdrs' = phdrs
        /\ Server # NotFound
        /\ ifsExe' = [base |-> ifsImage + image.table[Server].offset,
                      size |-> image.table[Server].size]
    BY DEF FindServer
  <1>3. /\ Untouched' /\ BootloaderIntact' /\ NeverLost'
        /\ Granted' => Granted /\ Copied'
        /\ \A i \in Loads(image) :
             SegmentLoaded(image.phdrs[i])' = SegmentLoaded(image.phdrs[i])
    BY <1>2, SameMemory DEF NeverLost
  <1>4. Granted => Found' /\ ServerFound'
    BY <1>2, SameGrants DEF BootInv, BootGranted, Found, ServerFound
  <1>5. Granted => Loaded'
    BY <1>2, <1>3 DEF BootInv, BootGranted, Loaded
  <1>6. QED
    BY <1>1, <1>3, <1>4, <1>5 DEF BootInv, BootGranted

(* memories m and n differ at most from lo up to hi *)
DifferIn(m, n, lo, hi) == \A a \in Addr : a < lo \/ a >= hi => n[a] = m[a]

LEMMA HoldsOutside ==
  ASSUME NEW m, NEW n, NEW lo \in Int, NEW hi \in Int, DifferIn(m, n, lo, hi),
         NEW at \in Int, NEW len \in Nat, NEW i, Holds(m, at, len, i),
         hi <= at \/ at + len <= lo
  PROVE  Holds(n, at, len, i)
  <1> SUFFICES ASSUME NEW k \in 0 .. len - 1
               PROVE  Fetch(n, at + k) = Img(i + k)
    BY DEF Holds
  <1>1. Fetch(m, at + k) = Img(i + k)
    BY DEF Holds
  <1>2. at + k < lo \/ at + k >= hi
    OBVIOUS
  <1>3. at + k \in Addr => n[at + k] = m[at + k]
    BY <1>2 DEF DifferIn
  <1>4. QED
    BY <1>1, <1>3 DEF Fetch

LEMMA FillDiffers ==
  ASSUME NEW m, NEW lo \in Int, NEW len \in Int, NEW cells,
         DOMAIN cells = 0 .. len - 1, NEW hi, hi = lo + len
  PROVE  DifferIn(m, Fill(m, lo, cells), lo, hi)
  <1> SUFFICES ASSUME NEW a \in Addr, a < lo \/ a >= hi
               PROVE  Fill(m, lo, cells)[a] = m[a]
    BY DEF DifferIn
  <1>1. a \in Int
    BY Constants DEF Addr
  <1>2. a - lo \notin DOMAIN cells
    BY <1>1
  <1>3. QED
    BY <1>2, FillAt

(* a segment in memory survives what is stored outside its pages *)
LEMMA SegmentKept ==
  ASSUME BootTypes, Granted, pc # "init", NEW i \in Loads(image),
         SegmentLoaded(image.phdrs[i]),
         image.phdrs[i].filesz <= image.phdrs[i].memsz,
         image' = image, NEW lo \in Int, NEW hi \in Int, DifferIn(mem, mem', lo, hi),
         \/ image.phdrs[i].memsz = 0
         \/ hi <= SegmentBase(image.phdrs[i])
         \/ SegmentCeiling(image.phdrs[i]) <= lo
         \/ hi = lo
  PROVE  SegmentLoaded(image.phdrs[i])'
  <1> DEFINE p == image.phdrs[i]
             at == PhysAddr(p.vaddr)
             from == image.ifsOffset + image.table[Kernel].offset + p.offset
  <1>1. /\ at \in Int /\ p.filesz \in Nat /\ p.memsz \in Nat
        /\ SegmentBase(p) \in Int /\ SegmentCeiling(p) \in Int
        /\ SegmentBase(p) <= at /\ at + p.memsz <= SegmentCeiling(p)
        /\ 0 <= SegmentBase(p) /\ SegmentCeiling(p) <= MaxMem
    <2>1. /\ Top \in Nat /\ Top + image.ifsSize <= MaxMem
      BY GrantedBounds
    <2>2. image.ifsSize \in Nat /\ image.bootSize \in Nat
      BY ImageFields DEF BootTypes, TypeOK
    <2>3. /\ at \in Int /\ p.filesz \in Nat /\ p.memsz \in Nat
          /\ SegmentBase(p) \in Int /\ SegmentCeiling(p) \in Int
          /\ BootStart + image.bootSize <= SegmentBase(p)
          /\ SegmentBase(p) <= at /\ at + p.memsz <= SegmentCeiling(p)
          /\ SegmentCeiling(p) <= AlignUp(SegmentCeiling(p), PtAlign)
          /\ AlignUp(SegmentCeiling(p), PtAlign) \in Int
          /\ AlignUp(SegmentCeiling(p), PtAlign) + PtSize <= Top
      BY GrantedSegment
    <2> HIDE DEF p, at
    <2>4. QED
      BY <2>1, <2>2, <2>3, Constants
  <1>2. /\ \A k \in 0 .. p.filesz - 1 : mem[at + k] = Img(from + k)
        /\ \A k \in p.filesz .. p.memsz - 1 : mem[at + k] = Zero
    BY DEF SegmentLoaded
  <1>3. \A k \in 0 .. p.memsz - 1 : mem'[at + k] = mem[at + k]
    <2> SUFFICES ASSUME NEW k \in 0 .. p.memsz - 1
                 PROVE  mem'[at + k] = mem[at + k]
      OBVIOUS
    <2>1. \/ p.memsz = 0 \/ hi <= SegmentBase(p) \/ SegmentCeiling(p) <= lo \/ hi = lo
      OBVIOUS
    <2>2. p.filesz <= p.memsz
      OBVIOUS
    <2> HIDE DEF p, at, from
    <2>3. at + k \in Addr
      BY <1>1, Constants DEF Addr
    <2>4. at + k < lo \/ at + k >= hi
      BY <1>1, <2>1
    <2>5. QED
      BY <2>3, <2>4 DEF DifferIn
  <1>4. p.filesz <= p.memsz
    OBVIOUS
  <1>5. /\ \A k \in 0 .. p.filesz - 1 : mem'[at + k] = Img(from + k)
        /\ \A k \in p.filesz .. p.memsz - 1 : mem'[at + k] = Zero
    <2> HIDE DEF p, at, from
    <2>1. QED
      BY <1>1, <1>2, <1>3, <1>4
  <1>6. QED
    BY <1>5 DEF SegmentLoaded, Kernel

(* What one turn of elf_load's loop does to memory: outside the pages of the
   segment nothing, and inside them it puts the bytes of the file and zeros. *)
LEMMA SegmentStored ==
  ASSUME BootInv, Granted, LoadSegment, NEW i, i = t
  PROVE  /\ i \in Loads(image) /\ phdrs = image.phdrs
         /\ DifferIn(mem, mem', SegmentBase(image.phdrs[i]), SegmentCeiling(image.phdrs[i]))
         /\ SegmentLoaded(image.phdrs[i])'
  <1> DEFINE p == image.phdrs[i]
             at == PhysAddr(p.vaddr)
             lo == SegmentBase(p)
             hi == SegmentCeiling(p)
             cleared == Fill(mem, lo, Same(hi - lo, Zero))
             file == elfBase + p.offset
             copy == Bytes(cleared, file, p.filesz)
  <1>1. /\ image' = image /\ pc = "load" /\ t \in Nat /\ t <= Len(phdrs)
        /\ phdrs[t].load /\ phdrs[t].memsz >= phdrs[t].filesz
    BY DEF LoadSegment, BootInv, BootTypes, TypeOK
  <1>2. /\ phdrs = image.phdrs /\ Kernel # NotFound
        /\ elfBase = ifsImage + image.table[Kernel].offset
        /\ ifsImage = Top /\ Holds(mem, Top, image.ifsSize, image.ifsOffset)
    BY <1>1 DEF BootInv, BootGranted, Found, Copied
  <1>3. i \in Loads(image)
    BY <1>1, <1>2 DEF Loads, BootInv, BootTypes, TypeOK
  <1>4. image \in Images /\ BootTypes /\ pc # "init"
    BY <1>1 DEF BootInv, BootTypes, TypeOK
  <1>5. /\ Top \in Nat /\ Top + image.ifsSize <= MaxMem
        /\ image.ifsSize \in Nat /\ image.bootSize \in Nat /\ image.ifsOffset \in Nat
    BY <1>4, GrantedBounds, ImageFields
  <1>6. /\ p \in Phdr /\ at \in Int /\ p.filesz \in Nat /\ p.memsz \in Nat
        /\ lo \in Int /\ hi \in Int
        /\ BootStart + image.bootSize <= lo
        /\ lo <= at /\ at + p.memsz <= hi
        /\ hi <= AlignUp(hi, PtAlign) /\ AlignUp(hi, PtAlign) \in Int
        /\ AlignUp(hi, PtAlign) + PtSize <= Top
    BY <1>3, <1>4, GrantedSegment
  <1>7. mem' = Fill(cleared, at, copy)
    BY <1>2 DEF LoadSegment
  <1>8. p.filesz <= p.memsz /\ p.offset \in Nat
    BY <1>1, <1>2, <1>6 DEF Phdr
  <1>9. /\ image.table[Kernel].offset \in Nat
        /\ image.table[Kernel].offset + p.offset + p.filesz <= image.ifsSize
    <2>1. Kernel \in 1 .. Len(image.table)
      BY <1>2, <1>4, LookupInTable, ImageFields DEF Kernel
    <2>2. /\ image.table[Kernel].offset \in Nat /\ image.table[Kernel].size \in Nat
          /\ image.table[Kernel].offset + image.table[Kernel].size <= image.ifsSize
      BY <1>4, <2>1, TableFields
    <2>3. p.offset + p.filesz <= image.table[Kernel].size
      BY <1>2, <1>3 DEF Granted, KernelWhole
    <2> HIDE DEF p
    <2>4. QED
      BY <1>5, <1>6, <1>8, <2>2, <2>3
  <1> HIDE DEF p
  <1>10. lo <= hi /\ 0 <= lo /\ hi <= Top
    BY <1>5, <1>6, Constants
  <1>11. /\ DifferIn(mem, cleared, lo, hi)
         /\ \A a \in Addr : lo <= a /\ a < hi => cleared[a] = Zero
    <2> HIDE DEF lo, hi
    <2>1. DifferIn(mem, cleared, lo, hi)
      <3>1. PICK n \in Int : n = hi - lo /\ hi = lo + n
        BY <1>6
      <3>2. DOMAIN Same(hi - lo, Zero) = 0 .. n - 1
        BY <3>1, SameDomain
      <3>3. QED
        BY <1>6, <3>1, <3>2, FillDiffers
    <2>2. ASSUME NEW a \in Addr, lo <= a, a < hi
          PROVE  cleared[a] = Zero
      <3>1. a - lo \in 0 .. (hi - lo) - 1
        BY <1>6, <2>2, Constants DEF Addr
      <3>2. QED
        BY <3>1, FillAt, SameDomain, ZenonT(30) DEF Same
    <2>3. QED
      BY <2>1, <2>2
  <1>12. /\ DifferIn(cleared, mem', at, at + p.filesz)
         /\ \A k \in 0 .. p.filesz - 1 : at + k \in Addr => mem'[at + k] = Fetch(cleared, file + k)
    <2> HIDE DEF at, cleared, file
    <2>1. DOMAIN copy = 0 .. p.filesz - 1
      BY BytesDomain
    <2>2. DifferIn(cleared, mem', at, at + p.filesz)
      <3> HIDE DEF copy
      <3>1. PICK n \in Int, h \in Int : n = p.filesz /\ h = at + n
        BY <1>6
      <3>2. DOMAIN copy = 0 .. n - 1
        BY <2>1, <3>1
      <3>3. DifferIn(cleared, Fill(cleared, at, copy), at, h)
        BY <1>6, <3>1, <3>2, FillDiffers
      <3>4. QED
        BY <1>7, <3>1, <3>3
    <2>3. ASSUME NEW k \in 0 .. p.filesz - 1, at + k \in Addr
          PROVE  mem'[at + k] = Fetch(cleared, file + k)
      <3> DEFINE a == at + k
      <3>1. a \in Addr /\ a - at = k
        BY <1>6, <2>3
      <3>2. copy[k] = Fetch(cleared, file + k)
        BY DEF Bytes
      <3> HIDE DEF a, copy
      <3>3. mem'[a] = copy[k]
        BY <1>7, <2>1, <3>1, FillAt
      <3>4. QED
        BY <3>2, <3>3 DEF a
    <2>4. QED
      BY <2>2, <2>3
  <1>13. DifferIn(mem, mem', lo, hi)
    <2> SUFFICES ASSUME NEW a \in Addr, a < lo \/ a >= hi
                 PROVE  mem'[a] = mem[a]
      BY DEF DifferIn
    <2> HIDE DEF at, cleared, lo, hi
    <2>1. cleared[a] = mem[a]
      BY <1>11 DEF DifferIn
    <2>2. a < at \/ a >= at + p.filesz
      BY <1>6, <1>8, Constants DEF Addr
    <2>3. QED
      BY <1>12, <2>1, <2>2 DEF DifferIn
  <1>14. \A k \in 0 .. p.memsz - 1 : at + k \in Addr /\ lo <= at + k /\ at + k < hi
    <2> HIDE DEF at, lo, hi
    <2>1. QED
      BY <1>5, <1>6, <1>10, Constants DEF Addr
  <1>15. \A k \in 0 .. p.filesz - 1 :
           mem'[at + k] = Img(image.ifsOffset + image.table[Kernel].offset + p.offset + k)
    <2> SUFFICES ASSUME NEW k \in 0 .. p.filesz - 1
                 PROVE  mem'[at + k] =
                          Img(image.ifsOffset + image.table[Kernel].offset + p.offset + k)
      OBVIOUS
    <2> DEFINE o == image.table[Kernel].offset + p.offset + k
    <2>1. o \in 0 .. image.ifsSize - 1
      BY <1>5, <1>6, <1>8, <1>9
    <2>2. file + k = Top + o
      BY <1>2, <1>5, <1>8, <1>9
    <2>3. Fetch(mem, Top + o) = Img(image.ifsOffset + o)
      BY <1>2, <2>1 DEF Holds
    <2>4. image.ifsOffset + o = image.ifsOffset + image.table[Kernel].offset + p.offset + k
      BY <1>5, <1>8, <1>9
    <2> HIDE DEF o, at, lo, hi, cleared, file
    <2>5. Top + o \in Addr /\ Top + o >= hi
      BY <1>5, <1>6, <1>10, <2>1, Constants DEF Addr
    <2>6. Fetch(cleared, Top + o) = Fetch(mem, Top + o)
      BY <1>11, <2>5 DEF DifferIn, Fetch
    <2>7. at + k \in Addr
      BY <1>6, <1>8, <1>14
    <2>8. mem'[at + k] = Fetch(cleared, Top + o)
      BY <1>12, <2>2, <2>7
    <2>9. QED
      BY <2>3, <2>4, <2>6, <2>8
  <1>16. \A k \in p.filesz .. p.memsz - 1 : mem'[at + k] = Zero
    <2> SUFFICES ASSUME NEW k \in p.filesz .. p.memsz - 1
                 PROVE  mem'[at + k] = Zero
      OBVIOUS
    <2> HIDE DEF at, lo, hi, cleared
    <2>1. k \in 0 .. p.memsz - 1 /\ k >= p.filesz
      BY <1>6
    <2>2. cleared[at + k] = Zero
      BY <1>11, <1>14, <2>1
    <2>3. at + k \in Addr /\ at + k >= at + p.filesz
      BY <1>6, <1>14, <2>1
    <2>4. QED
      BY <1>12, <2>2, <2>3 DEF DifferIn
  <1>17. SegmentLoaded(p)'
    BY <1>1, <1>15, <1>16 DEF SegmentLoaded, Kernel, p
  <1>18. QED
    BY <1>2, <1>3, <1>13, <1>17 DEF p

LEMMA LoadSegmentInv ==
  ASSUME BootInv, LoadSegment
  PROVE  BootInv'
  <1>1. BootTypes'
    BY BootTypesStep DEF BootInv, Next
  <1>2. /\ image' = image /\ memSize' = memSize /\ ifsImage' = ifsImage
        /\ pc = "load" /\ pc' = "load" /\ t' = t + 1
        /\ elfBase' = elfBase /\ phdrs' = phdrs /\ ifsExe' = ifsExe
        /\ phdrs[t].memsz >= phdrs[t].filesz
        /\ ceiling' = IF SegmentCeiling(phdrs[t]) > ceiling
                      THEN SegmentCeiling(phdrs[t]) ELSE ceiling
    BY DEF LoadSegment
  <1>3. Untouched' /\ NeverLost'
    BY <1>2 DEF Untouched, NeverLost
  <1>4. ASSUME Granted
        PROVE  /\ Holds(mem', BootStart, image.bootSize, 0)
               /\ Copied' /\ Loaded'
    <2>0. PICK j : j = t
      OBVIOUS
    <2> DEFINE p == image.phdrs[j]
               lo == SegmentBase(p)
               hi == SegmentCeiling(p)
    <2>1. /\ j \in Loads(image) /\ phdrs = image.phdrs /\ DifferIn(mem, mem', lo, hi)
          /\ SegmentLoaded(p)'
      BY <1>4, <2>0, SegmentStored
    <2>2. BootTypes /\ image \in Images /\ pc # "init" /\ t \in Nat /\ ceiling \in Nat
      BY <1>2 DEF BootInv, BootTypes, TypeOK
    <2>3. /\ Top \in Nat /\ BootStart \in Nat
          /\ image.bootSize \in Nat /\ image.ifsSize \in Nat
      BY <1>4, <2>2, GrantedBounds, ImageFields, Constants
    <2>4. /\ lo \in Int /\ hi \in Int /\ BootStart + image.bootSize <= lo
          /\ lo <= hi /\ hi <= Top
      <3>1. /\ PhysAddr(p.vaddr) \in Int /\ p.memsz \in Nat
            /\ lo \in Int /\ hi \in Int
            /\ BootStart + image.bootSize <= lo
            /\ lo <= PhysAddr(p.vaddr) /\ PhysAddr(p.vaddr) + p.memsz <= hi
            /\ hi <= AlignUp(hi, PtAlign) /\ AlignUp(hi, PtAlign) \in Int
            /\ AlignUp(hi, PtAlign) + PtSize <= Top
        BY <1>4, <2>1, <2>2, GrantedSegment
      <3> HIDE DEF p, lo, hi
      <3>2. QED
        BY <2>3, <3>1, Constants
    <2>5. Holds(mem', BootStart, image.bootSize, 0)
      <3>1. Holds(mem, BootStart, image.bootSize, 0)
        BY <1>4, <2>2 DEF BootInv, BootloaderIntact
      <3> HIDE DEF lo, hi
      <3>2. QED
        BY <2>1, <2>3, <2>4, <3>1, HoldsOutside
    <2>6. Copied'
      <3>1. ifsImage = Top /\ Holds(mem, Top, image.ifsSize, image.ifsOffset)
        BY <1>2, <1>4 DEF BootInv, BootGranted, Copied
      <3>2. Holds(mem', Top, image.ifsSize, image.ifsOffset)
        <4> HIDE DEF lo, hi
        <4>1. QED
          BY <2>1, <2>3, <2>4, <3>1, HoldsOutside
      <3>3. QED
        BY <1>2, <3>1, <3>2, SameGrants DEF Copied
    <2>7. ceiling <= ceiling' /\ hi <= ceiling' /\ ceiling' \in {ceiling, hi}
      <3>1. ceiling' = IF hi > ceiling THEN hi ELSE ceiling
        BY <1>2, <2>0, <2>1
      <3> HIDE DEF lo, hi
      <3>2. QED
        BY <2>2, <2>4, <3>1
    <2>8. Loaded
      BY <1>4 DEF BootInv, BootGranted
    <2>9. ASSUME NEW i \in Loads(image), i < t
          PROVE  /\ image.phdrs[i].filesz <= image.phdrs[i].memsz
                 /\ SegmentLoaded(image.phdrs[i])'
                 /\ SegmentCeiling(image.phdrs[i]) <= ceiling'
      <3>1. /\ image.phdrs[i].filesz <= image.phdrs[i].memsz
            /\ SegmentLoaded(image.phdrs[i])
            /\ SegmentCeiling(image.phdrs[i]) <= ceiling
        BY <1>2, <2>8, <2>9 DEF Loaded
      <3>2. i # j /\ image.phdrs[i].memsz \in Nat
        BY <1>4, <2>0, <2>2, <2>9, GrantedSegment
      <3>3. \/ image.phdrs[i].memsz = 0
            \/ hi <= SegmentBase(image.phdrs[i])
            \/ SegmentCeiling(image.phdrs[i]) <= lo
            \/ hi = lo
        BY <1>4, <2>1, <2>2, <3>2, GrantedApart
      <3>4. SegmentLoaded(image.phdrs[i])'
        <4> HIDE DEF lo, hi
        <4>1. QED
          BY <1>2, <1>4, <2>1, <2>2, <2>4, <3>1, <3>3, SegmentKept
      <3>5. SegmentCeiling(image.phdrs[i]) \in Int
        BY <1>4, <2>2, GrantedSegment
      <3>6. SegmentCeiling(image.phdrs[i]) <= ceiling'
        <4> HIDE DEF lo, hi
        <4>1. QED
          BY <2>2, <2>4, <2>7, <3>1, <3>5
      <3>7. QED
        BY <3>1, <3>4, <3>6
    <2>10. Loaded'
      <3>1. \A i \in Loads(image) : i < t' => i < t \/ i = j
        BY <1>2, <2>0, <2>2 DEF Loads
      <3>2. p.filesz <= p.memsz
        <4>1. p.filesz \in Nat /\ p.memsz \in Nat
          BY <1>4, <2>1, <2>2, GrantedSegment
        <4>2. QED
          BY <1>2, <2>0, <2>1, <4>1
      <3>3. \A i \in Loads(image) : i < t' =>
              /\ image.phdrs[i].filesz <= image.phdrs[i].memsz
              /\ SegmentLoaded(image.phdrs[i])'
              /\ SegmentCeiling(image.phdrs[i]) <= ceiling'
        BY <2>1, <2>7, <2>9, <3>1, <3>2
      <3>4. \/ ceiling' = 0
            \/ \E i \in Loads(image) : ceiling' = SegmentCeiling(image.phdrs[i])
        BY <1>2, <2>1, <2>7, <2>8 DEF Loaded
      <3>5. QED
        BY <1>2, <3>3, <3>4 DEF Loaded
    <2>11. QED
      BY <2>5, <2>6, <2>10
  <1>5. BootloaderIntact'
    BY <1>2, <1>4, SameGrants DEF BootloaderIntact
  <1>6. Granted => Found' /\ ServerFound'
    BY <1>2, SameGrants DEF BootInv, BootGranted, Found, ServerFound
  <1>7. Granted' = Granted
    BY <1>2, SameGrants
  <1>8. QED
    BY <1>1, <1>3, <1>4, <1>5, <1>6, <1>7 DEF BootInv, BootGranted

(* the page tables start at or above the end of every segment and end below the
   relocated image *)
LEMMA BootstrapInv ==
  ASSUME BootInv, Bootstrap
  PROVE  BootInv'
  <1>1. BootTypes'
    BY BootTypesStep DEF BootInv, Next
  <1>2. /\ image' = image /\ memSize' = memSize /\ ifsImage' = ifsImage
        /\ pc = "bootstrap" /\ pc' = "kernel" /\ t' = t /\ ceiling' = ceiling
        /\ elfBase' = elfBase /\ phdrs' = phdrs /\ ifsExe' = ifsExe
        /\ mem' = Fill(mem, PtBase, Same(PtSize, Table))
    BY DEF Bootstrap
  <1>3. Untouched' /\ NeverLost'
    BY <1>2 DEF Untouched, NeverLost
  <1>4. ASSUME Granted
        PROVE  /\ Holds(mem', BootStart, image.bootSize, 0)
               /\ Copied' /\ Loaded'
    <2>1. BootTypes /\ image \in Images /\ pc # "init" /\ t \in Nat /\ ceiling \in Nat
      BY <1>2 DEF BootInv, BootTypes, TypeOK
    <2>2. /\ Top \in Nat /\ BootStart \in Nat /\ PtSize \in Nat
          /\ image.bootSize \in Nat /\ image.ifsSize \in Nat
      BY <1>4, <2>1, GrantedBounds, ImageFields, Constants
    <2>3. Loaded /\ Found
      BY <1>4 DEF BootInv, BootGranted
    <2>4. \A i \in Loads(image) :
            /\ image.phdrs[i].filesz <= image.phdrs[i].memsz
            /\ SegmentLoaded(image.phdrs[i])
            /\ SegmentCeiling(image.phdrs[i]) <= ceiling
      <3>1. \A i \in Loads(image) : i < t
        <4>1. Len(image.phdrs) \in Nat /\ t > Len(image.phdrs)
          BY <1>2, <2>1, <2>3, ImageFields DEF Found
        <4>2. QED
          BY <2>1, <4>1 DEF Loads
      <3>2. QED
        BY <1>2, <2>3, <3>1 DEF Loaded
    <2>5. PICK top \in Loads(image) : ceiling = SegmentCeiling(image.phdrs[top])
      <3>1. PICK i \in Loads(image) : TRUE
        BY <1>4 DEF Granted, KernelLinked
      <3> DEFINE p == image.phdrs[i]
      <3>2. /\ PhysAddr(p.vaddr) \in Int /\ p.memsz \in Nat
            /\ SegmentBase(p) \in Int /\ SegmentCeiling(p) \in Int
            /\ BootStart + image.bootSize <= SegmentBase(p)
            /\ SegmentBase(p) <= PhysAddr(p.vaddr)
            /\ PhysAddr(p.vaddr) + p.memsz <= SegmentCeiling(p)
        BY <1>4, <2>1, GrantedSegment
      <3>3. SegmentCeiling(p) <= ceiling
        BY <2>4
      <3>4. ceiling = 0 => ceiling = SegmentCeiling(p)
        <4> HIDE DEF p
        <4>1. QED
          BY <2>2, <3>2, <3>3
      <3>5. QED
        BY <1>2, <2>3, <3>4 DEF Loaded
    <2>6. PICK lo \in Int, hi \in Int :
            /\ lo = PtBase /\ hi = lo + PtSize
            /\ ceiling <= lo /\ hi <= Top
      <3> DEFINE c == SegmentCeiling(image.phdrs[top])
      <3>1. /\ AlignUp(c, PtAlign) \in Int /\ c <= AlignUp(c, PtAlign)
            /\ AlignUp(c, PtAlign) + PtSize <= Top
        BY <1>4, <2>1, GrantedSegment
      <3>2. PtBase = AlignUp(c, PtAlign)
        BY <2>5 DEF PtBase
      <3> HIDE DEF c
      <3>3. c = ceiling
        BY <2>5 DEF c
      <3>4. QED
        BY <2>2, <3>1, <3>2, <3>3
    <2>7. DifferIn(mem, mem', lo, hi)
      <3>1. PICK n \in Int : n = PtSize /\ hi = lo + n
        BY <2>2, <2>6
      <3>2. DOMAIN Same(PtSize, Table) = 0 .. n - 1
        BY <3>1, SameDomain
      <3>3. DifferIn(mem, Fill(mem, lo, Same(PtSize, Table)), lo, hi)
        BY <3>1, <3>2, FillDiffers
      <3>4. QED
        BY <1>2, <2>6, <3>3
    <2>8. BootStart + image.bootSize <= lo
      <3> DEFINE p == image.phdrs[top]
      <3>1. /\ PhysAddr(p.vaddr) \in Int /\ p.memsz \in Nat
            /\ SegmentBase(p) \in Int /\ SegmentCeiling(p) \in Int
            /\ BootStart + image.bootSize <= SegmentBase(p)
            /\ SegmentBase(p) <= PhysAddr(p.vaddr)
            /\ PhysAddr(p.vaddr) + p.memsz <= SegmentCeiling(p)
        BY <1>4, <2>1, GrantedSegment
      <3>2. SegmentCeiling(p) = ceiling
        BY <2>5
      <3> HIDE DEF p
      <3>3. QED
        BY <2>2, <2>6, <3>1, <3>2
    <2>9. Holds(mem', BootStart, image.bootSize, 0)
      <3>1. Holds(mem, BootStart, image.bootSize, 0)
        BY <1>4, <2>1 DEF BootInv, BootloaderIntact
      <3>2. QED
        BY <2>2, <2>7, <2>8, <3>1, HoldsOutside
    <2>10. Copied'
      <3>1. ifsImage = Top /\ Holds(mem, Top, image.ifsSize, image.ifsOffset)
        BY <1>2, <1>4 DEF BootInv, BootGranted, Copied
      <3>2. Holds(mem', Top, image.ifsSize, image.ifsOffset)
        BY <2>2, <2>6, <2>7, <3>1, HoldsOutside
      <3>3. QED
        BY <1>2, <3>1, <3>2, SameGrants DEF Copied
    <2>11. ASSUME NEW i \in Loads(image)
           PROVE  SegmentLoaded(image.phdrs[i])'
      <3>1. SegmentCeiling(image.phdrs[i]) \in Int
        BY <1>4, <2>1, GrantedSegment
      <3>2. SegmentCeiling(image.phdrs[i]) <= lo
        BY <2>1, <2>4, <2>6, <3>1
      <3>3. QED
        BY <1>2, <1>4, <2>1, <2>4, <2>6, <2>7, <3>2, SegmentKept
    <2>12. Loaded'
      BY <1>2, <2>3, <2>4, <2>11 DEF Loaded
    <2>13. QED
      BY <2>9, <2>10, <2>12
  <1>5. BootloaderIntact'
    BY <1>2, <1>4, SameGrants DEF BootloaderIntact
  <1>6. Granted => Found' /\ ServerFound'
    BY <1>2, SameGrants DEF BootInv, BootGranted, Found, ServerFound
  <1>7. Granted' = Granted
    BY <1>2, SameGrants
  <1>8. QED
    BY <1>1, <1>3, <1>4, <1>5, <1>6, <1>7 DEF BootInv, BootGranted

LEMMA BootInvStep == BootInv /\ [Next]_vars => BootInv'
  <1> SUFFICES ASSUME BootInv, [Next]_vars PROVE BootInv'
    OBVIOUS
  <1>1. BootTypes'
    BY BootTypesStep DEF BootInv
  <1>2. CASE CannotLoadKernel
    BY <1>1, <1>2, StopsInv DEF CannotLoadKernel
  <1>3. CASE BadSegment
    BY <1>1, <1>3, StopsInv DEF BadSegment
  <1>4. CASE NoServer
    BY <1>1, <1>4, StopsInv DEF NoServer
  <1>5. CASE Halted \/ UNCHANGED vars
    BY <1>1, <1>5, SameGrants
    DEF Halted, vars, BootInv, Untouched, NeverLost, BootloaderIntact, BootGranted,
        Copied, Found, Loaded, ServerFound, SegmentLoaded
  <1>6. QED
    BY <1>2, <1>3, <1>4, <1>5, BoardInitInv, RelocateInv, FindKernelInv, GarbageInv,
       LoadSegmentInv, SkipInv, LoadedOkInv, FindServerInv, BootstrapInv DEF Next

LEMMA BootCorrect == Spec => []BootInv
  BY BootInvInit, BootInvStep, PTL DEF Spec

-----------------------------------------------------------------------------
(* No part of Main reads a node table that has been overwritten. *)
THEOREM TableNeverLost == Spec => []NeverLost
  <1>1. BootInv => NeverLost
    BY DEF BootInv
  <1>2. QED
    BY <1>1, BootCorrect, PTL

(* memcpy, elf_load and bootstrap_kernel never write over the bootloader. *)
THEOREM BootloaderNeverOverwritten == Spec => []BootloaderIntact
  <1>1. BootInv => BootloaderIntact
    BY DEF BootInv
  <1>2. QED
    BY <1>1, BootCorrect, PTL

(* The kernel is entered with every loadable segment in place: neither a later
   segment nor the page tables have been put over an earlier one. *)
THEOREM KernelEntersWhole == Spec => []KernelComplete
  <1>1. BootInv => KernelComplete
    <2> SUFFICES ASSUME BootInv, pc = "kernel", Granted, NEW i \in Loads(image)
                 PROVE  SegmentLoaded(image.phdrs[i])
      BY DEF KernelComplete
    <2>1. Loaded /\ Found
      BY DEF BootInv, BootGranted
    <2>2. Len(image.phdrs) \in Nat /\ t > Len(image.phdrs) /\ t \in Nat
      BY <2>1, ImageFields DEF Found, BootInv, BootTypes, TypeOK
    <2>3. i < t
      BY <2>2 DEF Loads
    <2>4. QED
      BY <2>1, <2>3 DEF Loaded
  <1>2. QED
    BY <1>1, BootCorrect, PTL

(* The IFS and the file system server the kernel is told about are those of
   kernel.img, byte by byte, wherever they have been moved. *)
THEOREM ImageArrivesWhole == Spec => []ImageComplete
  <1>1. BootInv => ImageComplete
    <2> SUFFICES ASSUME BootInv, pc = "kernel", Granted
                 PROVE  /\ Holds(mem, ifsImage, image.ifsSize, image.ifsOffset)
                        /\ Holds(mem, ifsExe.base, ifsExe.size,
                                 image.ifsOffset + image.table[Server].offset)
      BY DEF ImageComplete
    <2>1. /\ ifsImage = Top /\ Holds(mem, ifsImage, image.ifsSize, image.ifsOffset)
          /\ Server # NotFound
          /\ ifsExe = [base |-> ifsImage + image.table[Server].offset,
                       size |-> image.table[Server].size]
      BY DEF BootInv, BootGranted, Copied, ServerFound
    <2>2. image \in Images /\ BootTypes /\ ifsImage \in Nat
      BY DEF BootInv, BootTypes, TypeOK
    <2>3. Server \in 1 .. Len(image.table)
      BY <2>1, <2>2, LookupInTable, ImageFields DEF Server
    <2>4. PICK o \in Nat, n \in Nat :
            /\ o = image.table[Server].offset /\ n = image.table[Server].size
            /\ o + n <= image.ifsSize
      BY <2>2, <2>3, TableFields
    <2>5. image.ifsSize \in Nat /\ image.ifsOffset \in Nat
      BY <2>2, ImageFields
    <2>6. Holds(mem, ifsImage + o, n, image.ifsOffset + o)
      <3> SUFFICES ASSUME NEW k \in 0 .. n - 1
                   PROVE  Fetch(mem, (ifsImage + o) + k) = Img((image.ifsOffset + o) + k)
        BY DEF Holds
      <3>1. o + k \in 0 .. image.ifsSize - 1
        BY <2>4, <2>5
      <3>2. Fetch(mem, ifsImage + (o + k)) = Img(image.ifsOffset + (o + k))
        BY <2>1, <3>1 DEF Holds
      <3>3. /\ ifsImage + (o + k) = (ifsImage + o) + k
            /\ image.ifsOffset + (o + k) = (image.ifsOffset + o) + k
        BY <2>2, <2>4, <2>5
      <3>4. QED
        BY <3>2, <3>3
    <2>7. QED
      BY <2>1, <2>4, <2>6
  <1>2. QED
    BY <1>1, BootCorrect, PTL
=============================================================================
