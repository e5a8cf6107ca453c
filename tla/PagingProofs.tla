---------------------------- MODULE PagingProofs -----------------------------
(***************************************************************************)
(* Proofs about Paging, for every number of table entries, every amount of *)
(* memory and every list of devices.                                       *)
(***************************************************************************)
EXTENDS Paging, TLAPS

-----------------------------------------------------------------------------
(* Division and multiplication *)

(* a place in a table of tables: which table, and where in it *)
LEMMA Place ==
  ASSUME NEW d \in Nat, NEW n \in Nat \ {0}, NEW r \in 0 .. n - 1,
         NEW v, v = d * n + r
  PROVE  v \div n = d /\ v % n = r
  <1>1. (d * n + r) \div n = d /\ (d * n + r) % n = r
    OBVIOUS
  <1>2. QED
    BY <1>1

LEMMA Division ==
  ASSUME NEW v \in Nat, NEW n \in Nat \ {0}
  PROVE  \E d \in Nat, r \in 0 .. n - 1 : v = d * n + r /\ v \div n = d /\ v % n = r
  <1> DEFINE d == v \div n
             r == v % n
  <1>1. d \in Int /\ r \in 0 .. n - 1 /\ d * n <= v /\ v < d * n + n
    OBVIOUS
  <1>2. d \in Nat
    BY <1>1
  <1>3. PICK s \in 0 .. n - 1 : v = d * n + s
    <2> HIDE DEF d
    <2>1. d * n \in Int
      BY <1>2
    <2>2. v - d * n \in 0 .. n - 1
      BY <1>1, <2>1
    <2>3. QED
      BY <2>1, <2>2
  <1>4. r = s
    <2> HIDE DEF d
    <2>1. v % n = s
      BY <1>2, <1>3, Place
    <2>2. QED
      BY <2>1
  <1>5. v \div n = d /\ v % n = r
    OBVIOUS
  <1> HIDE DEF d, r
  <1>6. QED
    BY <1>1, <1>2, <1>3, <1>4, <1>5

LEMMA TimesMonotone ==
  ASSUME NEW x \in Int, NEW y \in Int, NEW n \in Nat \ {0}
  PROVE  /\ x * n \in Int
         /\ x <= y => x * n <= y * n
         /\ x * n < y * n => x < y
         /\ (x - y) * n = x * n - y * n
         /\ (x + y) * n = x * n + y * n
  OBVIOUS


(* how far bootstrap_kernel has come *)
DirectoryDone == pc # "init_page_directory"
KernelDone == DirectoryDone /\ pc # "init_kernel_pagetables"
BootDone == KernelDone /\ pc # "init_bootloader_pagetables"
IoDone == BootDone /\ pc # "init_io_pagetable"

KernelSections == KernelPde .. KernelPde + KernelTables - 1

Directory == \A d \in 0 .. NPde - 1 :
  word[d] = IF d = IoPde THEN Coarse(IoPagetable)
            ELSE IF d \in KernelSections
              THEN Coarse(KernelPagetables + (d - KernelPde) * NPte)
            ELSE IF d = 0 THEN Coarse(BootloaderPagetables)
            ELSE Inv

KernelTable == \A i \in 0 .. memSize - 1 : word[KernelPagetables + i] = Small(i)

BootTable == \A i \in 0 .. TablePage - 1 :
  word[BootloaderPagetables + i] =
    IF i \in 1 .. BootCeiling - 1 THEN Small(i) ELSE Inv

IoTable == \A i \in 0 .. NPte - 1 :
  word[IoPagetable + i] = IF i < mapped THEN Small(Devices[i + 1]) ELSE Inv

(* io_map gives out the addresses one behind the other *)
Given ==
  /\ base \in Seq(Nat) /\ Len(base) = mapped
  /\ \A i \in 1 .. mapped : base[i] = IoPage + i - 1

PagingInv ==
  /\ TypeOK
  /\ DirectoryDone => Directory
  /\ KernelDone => KernelTable
  /\ BootDone => BootTable
  /\ IoDone => IoTable
  /\ Given
  /\ paging <=> pc \in {"paging", "kernel"}
  /\ paging => mapped = Len(Devices)
  /\ auxRegs = IF pc = "kernel" THEN base[3] ELSE Uart
  /\ ~ IoDone => mapped = 0

-----------------------------------------------------------------------------
(* Lemmas about the sizes and the words *)

LEMMA Sizes ==
  /\ NPde \in Nat /\ NPte \in Nat \ {0} /\ TablePage \in Nat /\ NPte <= TablePage
  /\ KernelTables \in Nat /\ KernelWords \in Nat
  /\ KernelTables * NPte <= KernelWords
  /\ KernelPde \in Nat \ {0} /\ KernelPde + KernelTables <= NPde
  /\ IoPde \in 1 .. NPde - 1
  /\ BootCeiling \in 0 .. NPte /\ CodePages \subseteq 1 .. BootCeiling - 1
  /\ \A m \in MemPages : m \in Nat /\ m <= KernelTables * NPte
  /\ Len(Devices) \in 3 .. NPte /\ Len(Devices) \in Nat
  /\ \A i \in 1 .. Len(Devices) : Devices[i] \in Nat
  <1>1. \A m \in MemPages : m \in 0 .. KernelTables * NPte
    BY PagingAssumption
  <1>2. KernelTables * NPte \in Nat
    BY PagingAssumption
  <1>3. \A m \in MemPages : m \in Nat /\ m <= KernelTables * NPte
    BY <1>1, <1>2
  <1>4. QED
    BY <1>3, PagingAssumption

LEMMA Addresses ==
  /\ BootloaderPagetables = NPde
  /\ KernelPagetables = NPde + TablePage
  /\ IoPagetable = NPde + TablePage + KernelWords
  /\ PagetableCeiling = NPde + TablePage + KernelWords + TablePage
  /\ Words = 0 .. NPde + TablePage + KernelWords + TablePage - 1
  BY Sizes DEF RootPagedir, BootloaderPagetables, KernelPagetables, IoPagetable,
     PagetableCeiling, Words

EntryType == [type : {"junk", "inv", "table", "page"}, to : Nat]

LEMMA EntryTypes ==
  /\ Inv \in EntryType /\ Junk \in EntryType
  /\ \A n \in Nat : Small(n) \in EntryType /\ Coarse(n) \in EntryType
  BY DEF Inv, Junk, Small, Coarse, EntryType

LEMMA StoreAt ==
  ASSUME NEW entries, NEW w \in Words
  PROVE  Store(entries)[w] = IF w \in DOMAIN entries THEN entries[w] ELSE word[w]
  BY DEF Store

LEMMA StoreType ==
  ASSUME word \in [Words -> EntryType], NEW entries,
         \A w \in DOMAIN entries : entries[w] \in EntryType
  PROVE  Store(entries) \in [Words -> EntryType]
  BY DEF Store

-----------------------------------------------------------------------------
(* The inductive invariant *)

LEMMA PagingInit == Init => PagingInv
  <1> SUFFICES ASSUME Init PROVE PagingInv
    OBVIOUS
  <1>1. word \in [Words -> EntryType]
    BY EntryTypes DEF Init
  <1>2. Uart \in Nat
    BY Sizes DEF Uart
  <1>3. base \in Seq(Nat) /\ Len(base) = 0
    BY DEF Init
  <1>4. TypeOK
    <2>1. mapped \in 0 .. Len(Devices) /\ Len(base) <= Len(Devices)
      BY <1>3, Sizes DEF Init
    <2>2. QED
      BY <1>1, <1>2, <1>3, <2>1 DEF Init, TypeOK, EntryType
  <1>5. Given
    BY <1>3 DEF Init, Given
  <1>6. ~ DirectoryDone /\ ~ KernelDone /\ ~ BootDone /\ ~ IoDone
    BY DEF Init, DirectoryDone, KernelDone, BootDone, IoDone
  <1>7. QED
    BY <1>4, <1>5, <1>6 DEF Init, PagingInv

LEMMA DirectoryStep ==
  ASSUME PagingInv, InitPageDirectory
  PROVE  PagingInv'
  <1> DEFINE entry(d) == IF d = IoPde THEN Coarse(IoPagetable)
                         ELSE IF d \in KernelSections
                           THEN Coarse(KernelPagetables + (d - KernelPde) * NPte)
                         ELSE IF d = 0 THEN Coarse(BootloaderPagetables)
                         ELSE Inv
             entries == [d \in 0 .. NPde - 1 |-> entry(d)]
  <1>1. word' = Store(entries)
    BY DEF InitPageDirectory, KernelSections
  <1>2. \A d \in 0 .. NPde - 1 : entry(d) \in EntryType
    <2> SUFFICES ASSUME NEW d \in 0 .. NPde - 1 PROVE entry(d) \in EntryType
      OBVIOUS
    <2>1. IoPagetable \in Nat /\ KernelPagetables \in Nat /\ BootloaderPagetables \in Nat
      BY Sizes, Addresses
    <2>2. ASSUME d \in KernelSections
          PROVE  KernelPagetables + (d - KernelPde) * NPte \in Nat
      <3>1. PICK x \in Nat : x = d - KernelPde
        BY <2>2, Sizes DEF KernelSections
      <3>2. x * NPte \in Nat
        BY Sizes
      <3>3. QED
        BY <2>1, <3>1, <3>2
    <2>3. QED
      BY <2>1, <2>2, EntryTypes
  <1>3. word' \in [Words -> EntryType]
    BY <1>1, <1>2, StoreType DEF PagingInv, TypeOK, EntryType
  <1>4. Directory'
    <2>1. \A d \in 0 .. NPde - 1 : d \in Words
      BY Sizes, Addresses
    <2>2. \A d \in 0 .. NPde - 1 : word'[d] = entry(d)
      BY <1>1, <2>1, StoreAt
    <2>3. QED
      BY <2>2 DEF Directory
  <1>5. QED
    BY <1>3, <1>4
    DEF InitPageDirectory, PagingInv, TypeOK, EntryType, DirectoryDone, KernelDone,
        BootDone, IoDone, Given

LEMMA KernelStep ==
  ASSUME PagingInv, InitKernelPagetables
  PROVE  PagingInv'
  <1> DEFINE entries == [w \in KernelPagetables .. KernelPagetables + memSize - 1 |->
                           Small(w - KernelPagetables)]
  <1>1. word' = Store(entries)
    BY DEF InitKernelPagetables
  <1>2. /\ memSize \in Nat /\ memSize <= KernelWords
        /\ KernelPagetables \in Nat
    <2>1. memSize \in MemPages
      BY DEF PagingInv, TypeOK
    <2>2. KernelTables * NPte \in Int
      BY Sizes
    <2>3. QED
      BY <2>1, <2>2, Sizes, Addresses
  <1>3. word' \in [Words -> EntryType]
    <2>1. \A w \in DOMAIN entries : entries[w] \in EntryType
      BY <1>2, EntryTypes
    <2>2. QED
      BY <1>1, <2>1, StoreType DEF PagingInv, TypeOK, EntryType
  <1>4. Directory'
    <2>1. Directory
      BY DEF PagingInv, InitKernelPagetables, DirectoryDone
    <2>2. \A d \in 0 .. NPde - 1 : word'[d] = word[d]
      <3> SUFFICES ASSUME NEW d \in 0 .. NPde - 1 PROVE word'[d] = word[d]
        OBVIOUS
      <3>1. d \in Words /\ d \notin DOMAIN entries
        BY <1>2, Sizes, Addresses
      <3>2. QED
        BY <1>1, <3>1, StoreAt
    <2>3. QED
      BY <2>1, <2>2 DEF Directory
  <1>5. KernelTable'
    <2> SUFFICES ASSUME NEW i \in 0 .. memSize - 1
                 PROVE  word'[KernelPagetables + i] = Small(i)
      BY DEF KernelTable, InitKernelPagetables
    <2>1. PICK w \in Words : w = KernelPagetables + i /\ w \in DOMAIN entries
                             /\ w - KernelPagetables = i
      BY <1>2, Sizes, Addresses
    <2>2. word'[w] = entries[w]
      BY <1>1, <2>1, StoreAt
    <2>3. QED
      BY <2>1, <2>2
  <1>6. QED
    BY <1>3, <1>4, <1>5
    DEF InitKernelPagetables, PagingInv, TypeOK, EntryType, DirectoryDone, KernelDone,
        BootDone, IoDone, Given

LEMMA BootStep ==
  ASSUME PagingInv, InitBootloaderPagetables
  PROVE  PagingInv'
  <1> DEFINE pt == BootloaderPagetables
             entries == [w \in pt .. pt + TablePage - 1 |->
                           IF w - pt \in 1 .. BootCeiling - 1 THEN Small(w - pt) ELSE Inv]
  <1>1. Directory /\ KernelTable
    BY DEF PagingInv, InitBootloaderPagetables, DirectoryDone, KernelDone
  <1>2. word' = Store(entries)
    <2>1. word[0] = Coarse(BootloaderPagetables)
      BY <1>1, Sizes DEF Directory, KernelSections
    <2>2. word[0].to = BootloaderPagetables
      BY <2>1 DEF Coarse
    <2>3. QED
      BY <2>2 DEF InitBootloaderPagetables
  <1>3. /\ memSize \in Nat /\ memSize <= KernelWords
        /\ KernelPagetables \in Nat /\ pt \in Nat
    <2>1. memSize \in MemPages
      BY DEF PagingInv, TypeOK
    <2>2. KernelTables * NPte \in Int
      BY Sizes
    <2>3. QED
      BY <2>1, <2>2, Sizes, Addresses
  <1>4. word' \in [Words -> EntryType]
    <2>1. \A w \in DOMAIN entries : entries[w] \in EntryType
      BY <1>3, EntryTypes
    <2>2. QED
      BY <1>2, <2>1, StoreType DEF PagingInv, TypeOK, EntryType
  <1>5. Directory'
    <2>1. \A d \in 0 .. NPde - 1 : word'[d] = word[d]
      <3> SUFFICES ASSUME NEW d \in 0 .. NPde - 1 PROVE word'[d] = word[d]
        OBVIOUS
      <3>1. d \in Words /\ d \notin DOMAIN entries
        BY <1>3, Sizes, Addresses
      <3>2. QED
        BY <1>2, <3>1, StoreAt
    <2>2. QED
      BY <1>1, <2>1 DEF Directory
  <1>6. KernelTable'
    <2> SUFFICES ASSUME NEW i \in 0 .. memSize - 1
                 PROVE  word'[KernelPagetables + i] = Small(i)
      BY DEF KernelTable, InitBootloaderPagetables
    <2>1. PICK w \in Words : w = KernelPagetables + i /\ w \notin DOMAIN entries
      BY <1>3, Sizes, Addresses
    <2>2. word'[w] = word[w]
      BY <1>2, <2>1, StoreAt
    <2>3. QED
      BY <1>1, <2>1, <2>2 DEF KernelTable
  <1>7. BootTable'
    <2> SUFFICES ASSUME NEW i \in 0 .. TablePage - 1
                 PROVE  word'[pt + i] = IF i \in 1 .. BootCeiling - 1 THEN Small(i) ELSE Inv
      BY DEF BootTable
    <2>1. PICK w \in Words : w = pt + i /\ w \in DOMAIN entries /\ w - pt = i
      BY <1>3, Sizes, Addresses
    <2>2. word'[w] = entries[w]
      BY <1>2, <2>1, StoreAt
    <2>3. QED
      BY <2>1, <2>2
  <1>8. QED
    BY <1>4, <1>5, <1>6, <1>7
    DEF InitBootloaderPagetables, PagingInv, TypeOK, EntryType, DirectoryDone,
        KernelDone, BootDone, IoDone, Given

(* the other tables lie below the one of the devices *)
LEMMA LowerTablesKept ==
  ASSUME PagingInv, memSize' = memSize,
         \A w \in Words : w < IoPagetable => word'[w] = word[w]
  PROVE  /\ Directory => Directory'
         /\ KernelTable => KernelTable'
         /\ BootTable => BootTable'
  <1>1. /\ memSize \in Nat /\ memSize <= KernelWords
        /\ KernelPagetables \in Nat /\ BootloaderPagetables \in Nat
    <2>1. memSize \in MemPages
      BY DEF PagingInv, TypeOK
    <2>2. KernelTables * NPte \in Int
      BY Sizes
    <2>3. QED
      BY <2>1, <2>2, Sizes, Addresses
  <1>2. \A d \in 0 .. NPde - 1 : word'[d] = word[d]
    <2>1. \A d \in 0 .. NPde - 1 : d \in Words /\ d < IoPagetable
      BY Sizes, Addresses
    <2>2. QED
      BY <2>1
  <1>3. \A i \in 0 .. memSize - 1 : word'[KernelPagetables + i] = word[KernelPagetables + i]
    BY <1>1, Sizes, Addresses
  <1>4. \A i \in 0 .. TablePage - 1 :
          word'[BootloaderPagetables + i] = word[BootloaderPagetables + i]
    BY <1>1, Sizes, Addresses
  <1>5. QED
    BY <1>2, <1>3, <1>4 DEF Directory, KernelTable, BootTable

LEMMA IoTableStep ==
  ASSUME PagingInv, InitIoPagetable
  PROVE  PagingInv'
  <1> DEFINE entries == [w \in IoPagetable .. IoPagetable + NPte - 1 |-> Inv]
  <1>1. word' = Store(entries) /\ memSize' = memSize
    BY DEF InitIoPagetable
  <1>2. IoPagetable \in Nat
    BY Sizes, Addresses
  <1>3. word' \in [Words -> EntryType]
    <2>1. \A w \in DOMAIN entries : entries[w] \in EntryType
      BY EntryTypes
    <2>2. QED
      BY <1>1, <2>1, StoreType DEF PagingInv, TypeOK, EntryType
  <1>4. Directory' /\ KernelTable' /\ BootTable'
    <2>1. \A w \in Words : w < IoPagetable => word'[w] = word[w]
      <3> SUFFICES ASSUME NEW w \in Words, w < IoPagetable PROVE word'[w] = word[w]
        OBVIOUS
      <3>1. w \notin DOMAIN entries
        BY <1>2, Sizes, Addresses
      <3>2. QED
        BY <1>1, <3>1, StoreAt
    <2>2. Directory /\ KernelTable /\ BootTable
      BY DEF PagingInv, InitIoPagetable, DirectoryDone, KernelDone, BootDone
    <2>3. QED
      BY <1>1, <2>1, <2>2, LowerTablesKept
  <1>5. IoTable'
    <2> SUFFICES ASSUME NEW i \in 0 .. NPte - 1
                 PROVE  word'[IoPagetable + i] = Inv
      <3>1. \A i \in 0 .. NPte - 1 : ~ (i < mapped')
        BY DEF InitIoPagetable
      <3>2. QED
        BY <3>1 DEF IoTable
    <2>1. PICK w \in Words : w = IoPagetable + i /\ w \in DOMAIN entries
      BY <1>2, Sizes, Addresses
    <2>2. QED
      BY <1>1, <2>1, StoreAt
  <1>6. mapped = 0 /\ mapped' = 0
    BY DEF InitIoPagetable, PagingInv, IoDone
  <1>7. QED
    BY <1>3, <1>4, <1>5, <1>6
    DEF InitIoPagetable, PagingInv, TypeOK, EntryType, Given, IoDone

LEMMA IoMapStep ==
  ASSUME PagingInv, IoMap
  PROVE  PagingInv'
  <1> DEFINE device == Devices[mapped + 1]
             entries == [w \in {IoPagetable + mapped} |-> Small(device)]
  <1>1. /\ base \in Seq(Nat) /\ Len(base) = mapped /\ mapped \in Nat
        /\ mapped < Len(Devices) /\ mapped < NPte
        /\ Len(Devices) \in Nat /\ NPte \in Nat /\ NPte <= TablePage
        /\ TablePage \in Nat /\ IoPagetable \in Nat
    BY Sizes, Addresses DEF PagingInv, TypeOK, Given, IoMap
  <1>2. word' = Store(entries) /\ memSize' = memSize /\ mapped' = mapped + 1
    BY <1>1 DEF IoMap
  <1>3. device \in Nat
    BY <1>1, Sizes
  <1>4. word' \in [Words -> EntryType]
    <2>1. \A w \in DOMAIN entries : entries[w] \in EntryType
      BY <1>3, EntryTypes
    <2>2. QED
      BY <1>2, <2>1, StoreType DEF PagingInv, TypeOK, EntryType
  <1>5. Directory' /\ KernelTable' /\ BootTable'
    <2>1. \A w \in Words : w < IoPagetable => word'[w] = word[w]
      <3> SUFFICES ASSUME NEW w \in Words, w < IoPagetable PROVE word'[w] = word[w]
        OBVIOUS
      <3>1. w \notin DOMAIN entries
        BY <1>1, Sizes, Addresses
      <3>2. QED
        BY <1>2, <3>1, StoreAt
    <2>2. Directory /\ KernelTable /\ BootTable
      BY DEF PagingInv, IoMap, DirectoryDone, KernelDone, BootDone
    <2>3. QED
      BY <1>2, <2>1, <2>2, LowerTablesKept
  <1>6. IoTable'
    <2> SUFFICES ASSUME NEW i \in 0 .. NPte - 1
                 PROVE  word'[IoPagetable + i] =
                          IF i < mapped + 1 THEN Small(Devices[i + 1]) ELSE Inv
      BY <1>2 DEF IoTable
    <2>1. PICK w \in Words : w = IoPagetable + i /\ (w \in DOMAIN entries <=> i = mapped)
      BY <1>1, Sizes, Addresses
    <2>2. word[w] = IF i < mapped THEN Small(Devices[i + 1]) ELSE Inv
      BY <2>1 DEF PagingInv, IoMap, IoDone, BootDone, KernelDone, DirectoryDone, IoTable
    <2>3. word'[w] = IF i = mapped THEN Small(device) ELSE word[w]
      BY <1>2, <2>1, StoreAt
    <2>4. QED
      BY <1>1, <2>1, <2>2, <2>3
  <1>7. Given' /\ Len(base') <= Len(Devices)
    <2>1. base' = Append(base, IoPage + mapped) /\ IoPage \in Nat
      BY Sizes DEF IoMap, IoPage
    <2>2. base' \in Seq(Nat) /\ Len(base') = mapped + 1
      BY <1>1, <2>1
    <2>3. \A i \in 1 .. mapped : base'[i] = base[i]
      BY <1>1, <2>1
    <2>4. base'[mapped + 1] = IoPage + mapped
      BY <1>1, <2>1
    <2>5. \A i \in 1 .. mapped + 1 : base'[i] = IoPage + i - 1
      BY <1>1, <2>1, <2>3, <2>4 DEF PagingInv, Given
    <2>6. QED
      BY <1>1, <1>2, <2>2, <2>5 DEF Given
  <1>8. mapped' \in 0 .. Len(Devices)
    BY <1>1, <1>2
  <1>9. TypeOK'
    BY <1>4, <1>7, <1>8 DEF IoMap, PagingInv, TypeOK, EntryType, Given
  <1>10. pc = "io_map" /\ pc' = "io_map" /\ paging' = paging /\ auxRegs' = auxRegs
    BY DEF IoMap
  <1>11. IoDone' /\ ~ paging /\ auxRegs = Uart
    BY <1>10 DEF PagingInv, IoDone, BootDone, KernelDone, DirectoryDone
  <1>12. QED
    BY <1>5, <1>6, <1>7, <1>9, <1>10, <1>11 DEF PagingInv

LEMMA EnableStep ==
  ASSUME PagingInv, EnablePaging
  PROVE  PagingInv'
  BY DEF EnablePaging, PagingInv, TypeOK, Given, Directory, KernelTable, BootTable,
     IoTable, IoDone, BootDone, KernelDone, DirectoryDone

LEMMA MoveStep ==
  ASSUME PagingInv, MoveAuxRegs
  PROVE  PagingInv'
  <1>1. base[3] \in Nat
    <2>1. base \in Seq(Nat) /\ Len(base) = Len(Devices)
      BY DEF PagingInv, MoveAuxRegs, Given
    <2>2. 3 \in 1 .. Len(base)
      BY <2>1, Sizes
    <2>3. QED
      BY <2>1, <2>2
  <1>2. QED
    BY <1>1 DEF MoveAuxRegs, PagingInv, TypeOK, Given, Directory, KernelTable,
       BootTable, IoTable, IoDone, BootDone, KernelDone, DirectoryDone

LEMMA PagingStep == PagingInv /\ [Next]_vars => PagingInv'
  <1> SUFFICES ASSUME PagingInv, [Next]_vars PROVE PagingInv'
    OBVIOUS
  <1>1. CASE Kernel \/ UNCHANGED vars
    BY <1>1 DEF Kernel, vars, PagingInv, TypeOK, Given, Directory, KernelTable,
       BootTable, IoTable, IoDone, BootDone, KernelDone, DirectoryDone
  <1>2. QED
    BY <1>1, DirectoryStep, KernelStep, BootStep, IoTableStep, IoMapStep, EnableStep,
       MoveStep DEF Next

LEMMA PagingCorrect == Spec => []PagingInv
  BY PagingInit, PagingStep, PTL DEF Spec

-----------------------------------------------------------------------------
(* What the MMU makes of a page, once the tables are filled *)

LEMMA BootPage ==
  ASSUME PagingInv, paging, NEW v \in 1 .. NPte - 1
  PROVE  Translate(v) = IF v < BootCeiling THEN Small(v) ELSE Inv
  <1>1. v \div NPte = 0 /\ v % NPte = v /\ v \in Nat
    <2>1. PICK d \in Nat : d = 0 /\ v = d * NPte + v
      BY Sizes
    <2>2. NPte \in Nat \ {0} /\ v \in 0 .. NPte - 1
      BY Sizes
    <2>3. v \div NPte = d /\ v % NPte = v
      BY <2>1, <2>2, Place
    <2>4. QED
      BY <2>1, <2>3
  <1>2. word[0] = Coarse(BootloaderPagetables)
    BY Sizes DEF PagingInv, DirectoryDone, Directory, KernelSections
  <1>3. word[BootloaderPagetables + v] = IF v \in 1 .. BootCeiling - 1 THEN Small(v) ELSE Inv
    BY Sizes DEF PagingInv, BootDone, KernelDone, DirectoryDone, BootTable
  <1>4. word[0].type = "table" /\ word[0].to = BootloaderPagetables
    BY <1>2 DEF Coarse
  <1>5. Translate(v) = word[BootloaderPagetables + v]
    BY <1>1, <1>4, Zenon DEF Translate, Entry
  <1>6. v \in 1 .. BootCeiling - 1 <=> v < BootCeiling
    BY Sizes
  <1>7. QED
    BY <1>3, <1>5, <1>6, Zenon

LEMMA IoDevicePage ==
  ASSUME PagingInv, paging, NEW r \in 0 .. NPte - 1
  PROVE  Translate(IoPage + r) = IF r < mapped THEN Small(Devices[r + 1]) ELSE Inv
  <1>1. (IoPage + r) \div NPte = IoPde /\ (IoPage + r) % NPte = r
    <2>1. PICK v \in Int : v = IoPage + r /\ v = IoPde * NPte + r
      BY Sizes DEF IoPage
    <2>2. NPte \in Nat \ {0} /\ IoPde \in Nat
      BY Sizes
    <2>3. v \in Int /\ v = IoPde * NPte + r
      BY <2>1
    <2>4. v \div NPte = IoPde /\ v % NPte = r
      BY <2>2, <2>3
    <2>5. QED
      BY <2>1, <2>4
  <1>2. word[IoPde] = Coarse(IoPagetable)
    BY Sizes DEF PagingInv, DirectoryDone, Directory
  <1>3. word[IoPagetable + r] = IF r < mapped THEN Small(Devices[r + 1]) ELSE Inv
    BY DEF PagingInv, IoDone, BootDone, KernelDone, DirectoryDone, IoTable
  <1>4. QED
    BY <1>1, <1>2, <1>3 DEF Translate, Entry, Coarse

(* the tables of the kernel are one long table *)
LEMMA KernelPageEntry ==
  ASSUME PagingInv, paging, NEW p \in 0 .. KernelTables * NPte - 1,
         (KernelPage + p) \div NPte # IoPde
  PROVE  Translate(KernelPage + p) = word[KernelPagetables + p]
  <1>1. /\ p \in Nat /\ KernelPage \in Nat /\ NPte \in Nat \ {0}
        /\ KernelTables * NPte \in Nat
    BY Sizes DEF KernelPage
  <1>2. PICK d \in Nat, r \in 0 .. NPte - 1 : p = d * NPte + r
    BY <1>1, Division
  <1>3. d < KernelTables
    <2>1. d * NPte < KernelTables * NPte
      BY <1>1, <1>2
    <2>2. QED
      BY <1>1, <2>1, Sizes, TimesMonotone
  <1>4. PICK e \in Nat : e = KernelPde + d /\ e \in KernelSections /\ e - KernelPde = d
                         /\ e \in 0 .. NPde - 1
    BY <1>3, Sizes DEF KernelSections
  <1>5. KernelPage + p = e * NPte + r
    <2>1. (KernelPde + d) * NPte = KernelPde * NPte + d * NPte
      BY <1>1, Sizes, TimesMonotone
    <2>2. PICK x \in Int, k \in Int : x = d * NPte /\ k = KernelPde * NPte
      BY <1>1, Sizes
    <2>3. p = x + r /\ KernelPage = k /\ e * NPte = k + x
      BY <1>2, <1>4, <2>1, <2>2 DEF KernelPage
    <2>4. QED
      BY <2>2, <2>3
  <1>6. (KernelPage + p) \div NPte = e /\ (KernelPage + p) % NPte = r
    <2>1. PICK v \in Int : v = KernelPage + p /\ v = e * NPte + r
      BY <1>1, <1>5
    <2>2. v \div NPte = e /\ v % NPte = r
      <3>1. v \in Int /\ v = e * NPte + r /\ NPte \in Nat \ {0}
        BY <1>1, <2>1
      <3>2. QED
        BY <3>1
    <2>3. QED
      BY <2>1, <2>2
  <1>7. word[e] = Coarse(KernelPagetables + d * NPte)
    BY <1>4, <1>6 DEF PagingInv, DirectoryDone, Directory
  <1>8. (KernelPagetables + d * NPte) + r = KernelPagetables + p
    <2>1. d * NPte \in Int /\ KernelPagetables \in Int
      BY <1>1, Sizes, Addresses
    <2>2. QED
      BY <1>2, <2>1
  <1>9. QED
    BY <1>6, <1>7, <1>8 DEF Translate, Entry, Coarse

LEMMA DevicePage ==
  ASSUME PagingInv, paging, NEW i \in 1 .. Len(Devices)
  PROVE  base[i] = IoPage + i - 1 /\ Translate(base[i]) = Small(Devices[i])
  <1>1. mapped = Len(Devices) /\ Len(Devices) \in Nat /\ Len(Devices) <= NPte
        /\ NPte \in Nat /\ IoPage \in Int
    BY Sizes DEF PagingInv, IoPage
  <1>2. base[i] = IoPage + i - 1
    BY <1>1 DEF PagingInv, Given
  <1>3. PICK r \in 0 .. NPte - 1 : r + 1 = i /\ r < mapped /\ base[i] = IoPage + r
    <2>1. i - 1 \in 0 .. NPte - 1 /\ (i - 1) + 1 = i /\ i - 1 < mapped
          /\ base[i] = IoPage + (i - 1)
      BY <1>1, <1>2
    <2>2. QED
      BY <2>1
  <1>4. QED
    BY <1>2, <1>3, IoDevicePage

-----------------------------------------------------------------------------
(* Every word of the tables is a table entry, and io_map never runs over its
   table, for tables and devices of any number that fit each other. *)
THEOREM PagingTypeCorrect == Spec => []TypeOK
  <1>1. PagingInv => TypeOK
    BY DEF PagingInv
  <1>2. QED
    BY <1>1, PagingCorrect, PTL

(* Whenever bootstrap_kernel logs, its pointer leads to the UART. *)
THEOREM UartAlwaysReachable == Spec => []UartReachable
  <1>1. PagingInv => UartReachable
    <2> SUFFICES ASSUME PagingInv, pc # "paging" PROVE Reach(auxRegs) = Small(Uart)
      BY DEF UartReachable
    <2>1. CASE pc = "kernel"
      <3>1. 3 \in 1 .. Len(Devices)
        BY Sizes
      <3>2. paging /\ auxRegs = base[3]
        BY <2>1 DEF PagingInv
      <3>3. QED
        BY <3>1, <3>2, DevicePage DEF Reach, Uart
    <2>2. CASE pc # "kernel"
      BY <2>2 DEF PagingInv, Reach
    <2>3. QED
      BY <2>1, <2>2
  <1>2. QED
    BY <1>1, PagingCorrect, PTL

(* Turning the MMU on does not move the code that turns it on. *)
THEOREM CodeAlwaysStays == Spec => []CodeStays
  <1>1. PagingInv => CodeStays
    <2> SUFFICES ASSUME PagingInv, paging, NEW p \in CodePages
                 PROVE  Translate(p) = Small(p)
      BY DEF CodeStays
    <2>1. p \in 1 .. NPte - 1 /\ p < BootCeiling
      BY Sizes
    <2>2. QED
      BY <2>1, BootPage
  <1>2. QED
    BY <1>1, PagingCorrect, PTL

(* However many tables the kernel's window spans, page p of it is page p of
   memory. *)
THEOREM KernelSeesMemory == Spec => []KernelWindow
  <1>1. PagingInv => KernelWindow
    <2> SUFFICES ASSUME PagingInv, paging, NEW p \in 0 .. memSize - 1,
                        (KernelPage + p) \div NPte # IoPde
                 PROVE  Translate(KernelPage + p) = Small(p)
      BY DEF KernelWindow
    <2>1. memSize \in Nat /\ memSize <= KernelTables * NPte /\ KernelTables * NPte \in Nat
      BY Sizes DEF PagingInv, TypeOK
    <2>2. p \in 0 .. KernelTables * NPte - 1
      BY <2>1
    <2>3. word[KernelPagetables + p] = Small(p)
      BY DEF PagingInv, KernelDone, DirectoryDone, KernelTable
    <2>4. QED
      BY <2>2, <2>3, KernelPageEntry
  <1>2. QED
    BY <1>1, PagingCorrect, PTL

(* What bootinfo says of a device leads to it. *)
THEOREM DevicesAlwaysMapped == Spec => []DevicesMapped
  <1>1. PagingInv => DevicesMapped
    BY DevicePage DEF DevicesMapped, PagingInv, Given
  <1>2. QED
    BY <1>1, PagingCorrect, PTL

(* The MMU maps nothing else, the part of the kernel's window above the end of
   memory left aside. *)
THEOREM NothingStray == Spec => []NoStray
  <1>1. PagingInv => NoStray
    <2> SUFFICES ASSUME PagingInv, paging, NEW v \in 0 .. NPde * NPte - 1
                 PROVE  \/ Translate(v).type \in {"fault", "inv"}
                        \/ v \in 1 .. BootCeiling - 1 /\ Translate(v) = Small(v)
                        \/ /\ v - KernelPage \in 0 .. memSize - 1
                           /\ Translate(v) = Small(v - KernelPage)
                        \/ \E i \in 1 .. Len(base) :
                             v = base[i] /\ Translate(v) = Small(Devices[i])
                        \/ /\ v - KernelPage \in memSize .. KernelTables * NPte - 1
                           /\ v \div NPte # IoPde
      BY DEF NoStray
    <2>1. /\ NPde * NPte \in Nat /\ NPte \in Nat \ {0} /\ v \in Nat
          /\ memSize \in Nat /\ mapped = Len(Devices) /\ Len(base) = mapped
          /\ mapped \in Nat /\ KernelPage \in Nat /\ IoPage \in Nat
      BY Sizes DEF PagingInv, TypeOK, Given, KernelPage, IoPage
    <2>2. PICK d \in Nat, r \in 0 .. NPte - 1 :
            v = d * NPte + r /\ v \div NPte = d /\ v % NPte = r
      BY <2>1, Division
    <2>3. d \in 0 .. NPde - 1
      <3>1. d * NPte < NPde * NPte
        BY <2>1, <2>2
      <3>2. QED
        BY <2>1, <3>1, Sizes, TimesMonotone
    <2>4. CASE d = IoPde
      <3>1. v = IoPage + r
        BY <2>2, <2>4 DEF IoPage
      <3>2. Translate(v) = IF r < mapped THEN Small(Devices[r + 1]) ELSE Inv
        BY <3>1, IoDevicePage
      <3>3. CASE r < mapped
        <4>1. PICK i \in 1 .. Len(Devices) : i = r + 1
          BY <2>1, <3>3
        <4>2. base[i] = IoPage + i - 1
          BY DevicePage
        <4>3. v = base[i]
          BY <2>1, <3>1, <4>1, <4>2
        <4>4. QED
          BY <2>1, <3>2, <3>3, <4>1, <4>3
      <3>4. CASE ~ (r < mapped)
        BY <3>2, <3>4 DEF Inv
      <3>5. QED
        BY <3>3, <3>4
    <2>5. CASE d # IoPde /\ d \in KernelSections
      <3>1. PICK p \in 0 .. KernelTables * NPte - 1 : v = KernelPage + p
        <4>1. PICK e \in Nat : d = KernelPde + e /\ e + 1 <= KernelTables
          <5>1. d - KernelPde \in Nat /\ (d - KernelPde) + 1 <= KernelTables
                /\ d = KernelPde + (d - KernelPde)
            BY <2>5, Sizes DEF KernelSections
          <5>2. QED
            BY <5>1
        <4>2. d * NPte = KernelPde * NPte + e * NPte
          BY <2>1, <4>1, Sizes, TimesMonotone
        <4>3. PICK x \in Nat, y \in Nat :
                x = e * NPte /\ y = KernelTables * NPte /\ x + NPte <= y
          <5>1. (e + 1) * NPte = e * NPte + NPte
            BY <2>1
          <5>2. (e + 1) * NPte <= KernelTables * NPte
            BY <2>1, <4>1, Sizes, TimesMonotone
          <5>3. e * NPte \in Nat /\ KernelTables * NPte \in Nat
            BY <2>1, Sizes
          <5>4. QED
            BY <5>1, <5>2, <5>3
        <4>4. x + r \in 0 .. y - 1 /\ v = KernelPage + (x + r)
          BY <2>1, <2>2, <4>2, <4>3, SMTT(30) DEF KernelPage
        <4>5. QED
          BY <4>3, <4>4
      <3>2. Translate(v) = word[KernelPagetables + p]
        BY <2>2, <2>5, <3>1, KernelPageEntry
      <3>3. CASE p < memSize
        <4>1. word[KernelPagetables + p] = Small(p)
          BY <2>1, <3>3 DEF PagingInv, KernelDone, DirectoryDone, KernelTable
        <4>2. v - KernelPage = p
          BY <2>1, <3>1
        <4>3. QED
          BY <2>1, <3>2, <3>3, <4>1, <4>2
      <3>4. CASE ~ (p < memSize)
        <4>1. v - KernelPage \in memSize .. KernelTables * NPte - 1
          BY <2>1, <3>1, <3>4
        <4>2. QED
          BY <2>2, <2>5, <4>1
      <3>5. QED
        BY <3>3, <3>4
    <2>6. CASE d # IoPde /\ d \notin KernelSections
      <3>1. CASE d = 0
        <4>1. v = r
          <5>1. 0 * NPte = 0
            BY <2>1
          <5>2. v = 0 * NPte + r
            BY <2>2, <3>1
          <5>3. QED
            BY <5>1, <5>2
        <4>2. word[0] = Coarse(BootloaderPagetables)
          BY <2>6, <3>1, Sizes DEF PagingInv, DirectoryDone, Directory
        <4>3. word[BootloaderPagetables + r] =
                IF r \in 1 .. BootCeiling - 1 THEN Small(r) ELSE Inv
          BY <2>2, Sizes DEF PagingInv, BootDone, KernelDone, DirectoryDone, BootTable
        <4>4. Translate(v) = IF r \in 1 .. BootCeiling - 1 THEN Small(r) ELSE Inv
          BY <2>2, <3>1, <4>2, <4>3 DEF Translate, Entry, Coarse
        <4>5. QED
          BY <4>1, <4>4 DEF Inv
      <3>2. CASE d # 0
        <4>1. word[d] = Inv
          BY <2>3, <2>6, <3>2 DEF PagingInv, DirectoryDone, Directory
        <4>2. Translate(v) = Fault
          BY <2>2, <4>1 DEF Translate, Inv
        <4>3. QED
          BY <4>2 DEF Fault
      <3>3. QED
        BY <3>1, <3>2
    <2>7. QED
      BY <2>4, <2>5, <2>6
  <1>2. QED
    BY <1>1, PagingCorrect, PTL
=============================================================================
