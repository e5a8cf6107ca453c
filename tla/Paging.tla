------------------------------- MODULE Paging --------------------------------
(***************************************************************************)
(* bootstrap_kernel of the Raspberry Pi 4: it fills the page directory and *)
(* the page tables of the bootloader, the kernel and the devices, which    *)
(* lie one behind the other in memory, turns paging on and moves its own   *)
(* pointer to the UART to the address the UART then has.  Addresses are    *)
(* page numbers; table entries are words counted from the page directory.  *)
(***************************************************************************)
EXTENDS Integers, Sequences

CONSTANTS
  NPde,          \* N_PAGEDIR_PDE: entries of the page directory
  NPte,          \* N_PAGETABLE_PTE: entries of a page table
  TablePage,     \* words of the page reserved for the bootloader's table
                 \* (entries, then virtual-PTEs), and for the one of devices
  KernelTables,  \* KERNEL_PAGETABLES_CNT
  KernelWords,   \* words reserved for the kernel's tables: 2 MB in the code
  KernelPde,     \* KERNEL_PAGETABLES_PDE_BASE
  IoPde,         \* IO_PAGETABLES_PDE_BASE
  BootCeiling,   \* VM_BOOTLOADER_CEILING
  CodePages,     \* pages the bootloader's code, data and stack may be in
  MemPages,      \* what bootinfo.mem_size may be
  Devices        \* pages io_map is called for, in order: the UART is third

Uart == Devices[3]

(***************************************************************************)
(* The sizes come from the header of a hardware library, which is not part *)
(* of the repository; the code needs them to fit each other like this.  It *)
(* is written for one bootloader page table (BOOTLOADER_PAGETABLES_CNT).   *)
(***************************************************************************)
ASSUME PagingAssumption ==
  /\ NPde \in Nat /\ NPte \in Nat \ {0}
  /\ TablePage \in Nat /\ TablePage >= NPte
  /\ KernelTables \in Nat /\ KernelWords \in Nat /\ KernelTables * NPte <= KernelWords
  /\ KernelPde \in Nat \ {0} /\ KernelPde + KernelTables <= NPde
  /\ IoPde \in 1 .. NPde - 1
  /\ BootCeiling \in 0 .. NPte /\ CodePages \subseteq 1 .. BootCeiling - 1
  /\ MemPages \subseteq 0 .. KernelTables * NPte
  /\ Devices \in Seq(Nat) /\ Len(Devices) \in 3 .. NPte
  /\ \A i, j \in 1 .. Len(Devices) : Devices[i] = Devices[j] => i = j

VARIABLES
  memSize,   \* bootinfo.mem_size
  word,      \* the words from root_pagedir to the end of io_pagetable
  pc,        \* the function that runs next
  mapped,    \* how many devices io_map has mapped: io_map_current
  base,      \* where it said they are: bootinfo.timer_base and so on
  paging,    \* SCTLR_M
  auxRegs    \* aux_regs

vars == <<memSize, word, pc, mapped, base, paging, auxRegs>>

(* where bootstrap_kernel puts the tables *)
RootPagedir == 0
BootloaderPagetables == RootPagedir + NPde
KernelPagetables == BootloaderPagetables + TablePage
IoPagetable == KernelPagetables + KernelWords
PagetableCeiling == IoPagetable + TablePage

Words == 0 .. PagetableCeiling - 1

Junk == [type |-> "junk", to |-> 0]       \* whatever was in memory
Inv == [type |-> "inv", to |-> 0]         \* L1_TYPE_INV, L2_TYPE_INV
Coarse(at) == [type |-> "table", to |-> at]
Small(page) == [type |-> "page", to |-> page]

(* words with those at the addresses of entries replaced *)
Store(entries) ==
  [w \in Words |-> IF w \in DOMAIN entries THEN entries[w] ELSE word[w]]

(***************************************************************************)
(* What the MMU makes of a virtual page.                                   *)
(***************************************************************************)
Fault == [type |-> "fault", to |-> 0]

Entry(v) == word[word[v \div NPte].to + (v % NPte)]

Translate(v) ==
  IF word[v \div NPte].type # "table" THEN Fault ELSE Entry(v)

Reach(v) == IF paging THEN Translate(v) ELSE Small(v)

KernelPage == KernelPde * NPte     \* VM_KERNEL_BASE
IoPage == IoPde * NPte             \* VM_IO_BASE

Init ==
  /\ memSize \in MemPages
  /\ word = [w \in Words |-> Junk]
  /\ pc = "init_page_directory"
  /\ mapped = 0 /\ base = <<>>
  /\ paging = FALSE
  /\ auxRegs = Uart

(* mutant: each kernel table is taken to have a page of its own *)
InitPageDirectorySpread ==
  /\ pc = "init_page_directory"
  /\ word' = Store([t \in 0 .. NPde - 1 |->
       IF t = IoPde THEN Coarse(IoPagetable)
       ELSE IF t \in KernelPde .. KernelPde + KernelTables - 1
         THEN Coarse(KernelPagetables + (t - KernelPde) * TablePage)
       ELSE IF t = 0 THEN Coarse(BootloaderPagetables)
       ELSE Inv])
  /\ pc' = "init_kernel_pagetables"
  /\ UNCHANGED <<memSize, mapped, base, paging, auxRegs>>

(* the entries of the directory; where the ranges meet, the later one wins *)
InitPageDirectory ==
  /\ pc = "init_page_directory"
  /\ word' = Store([t \in 0 .. NPde - 1 |->
       IF t = IoPde THEN Coarse(IoPagetable)
       ELSE IF t \in KernelPde .. KernelPde + KernelTables - 1
         THEN Coarse(KernelPagetables + (t - KernelPde) * NPte)
       ELSE IF t = 0 THEN Coarse(BootloaderPagetables)
       ELSE Inv])
  /\ pc' = "init_kernel_pagetables"
  /\ UNCHANGED <<memSize, mapped, base, paging, auxRegs>>

InitKernelPagetables ==
  /\ pc = "init_kernel_pagetables"
  /\ word' = Store([w \in KernelPagetables .. KernelPagetables + memSize - 1 |->
                      Small(w - KernelPagetables)])
  /\ pc' = "init_bootloader_pagetables"
  /\ UNCHANGED <<memSize, mapped, base, paging, auxRegs>>

(* mutant: pages are numbered from the first one that is mapped *)
InitBootloaderPagetablesShifted ==
  /\ pc = "init_bootloader_pagetables"
  /\ LET pt == word[0].to
     IN  word' = Store([w \in pt .. pt + TablePage - 1 |->
                          IF w - pt + 1 \in 1 .. BootCeiling - 1 THEN Small(w - pt + 1)
                          ELSE Inv])
  /\ pc' = "init_io_pagetable"
  /\ UNCHANGED <<memSize, mapped, base, paging, auxRegs>>

(* entries and virtual-PTEs are cleared, all pages but the first mapped to
   themselves *)
InitBootloaderPagetables ==
  /\ pc = "init_bootloader_pagetables"
  /\ LET pt == word[0].to
     IN  word' = Store([w \in pt .. pt + TablePage - 1 |->
                          IF w - pt \in 1 .. BootCeiling - 1 THEN Small(w - pt) ELSE Inv])
  /\ pc' = "init_io_pagetable"
  /\ UNCHANGED <<memSize, mapped, base, paging, auxRegs>>

(* mutant: the table of the devices is not cleared *)
InitIoPagetableUncleared ==
  /\ pc = "init_io_pagetable"
  /\ mapped' = 0
  /\ pc' = "io_map"
  /\ UNCHANGED <<memSize, word, base, paging, auxRegs>>

InitIoPagetable ==
  /\ pc = "init_io_pagetable"
  /\ word' = Store([w \in IoPagetable .. IoPagetable + NPte - 1 |-> Inv])
  /\ mapped' = 0
  /\ pc' = "io_map"
  /\ UNCHANGED <<memSize, base, paging, auxRegs>>

(* mutant: io_map_current stays where it is *)
IoMapInPlace ==
  /\ pc = "io_map" /\ Len(base) < Len(Devices)
  /\ word' = Store([w \in {IoPagetable + mapped} |-> Small(Devices[Len(base) + 1])])
  /\ base' = Append(base, IoPage + mapped)
  /\ UNCHANGED <<memSize, pc, mapped, paging, auxRegs>>

(* mutant: io_map leaves a page free behind each device *)
IoMapGap ==
  /\ pc = "io_map" /\ Len(base) < Len(Devices)
  /\ word' = Store([w \in {IoPagetable + mapped} |-> Small(Devices[Len(base) + 1])])
  /\ base' = Append(base, IoPage + mapped)
  /\ mapped' = mapped + 2
  /\ UNCHANGED <<memSize, pc, paging, auxRegs>>

(* mutant: aux_regs is assigned where its new address becomes known *)
IoMapMovesUart ==
  /\ pc = "io_map" /\ Len(base) < Len(Devices)
  /\ word' = Store([w \in {IoPagetable + mapped} |-> Small(Devices[Len(base) + 1])])
  /\ base' = Append(base, IoPage + mapped)
  /\ auxRegs' = IF Len(base) = 2 THEN IoPage + mapped ELSE auxRegs
  /\ mapped' = mapped + 1
  /\ UNCHANGED <<memSize, pc, paging>>

(* one call of io_map; it logs through the UART *)
IoMap ==
  /\ pc = "io_map" /\ Len(base) < Len(Devices)
  /\ word' = Store([w \in {IoPagetable + mapped} |-> Small(Devices[Len(base) + 1])])
  /\ base' = Append(base, IoPage + mapped)
  /\ mapped' = mapped + 1
  /\ UNCHANGED <<memSize, pc, paging, auxRegs>>

(* the messages about registers, then the MMU is turned on *)
EnablePaging ==
  /\ pc = "io_map" /\ Len(base) = Len(Devices)
  /\ paging' = TRUE
  /\ pc' = "paging"
  /\ UNCHANGED <<memSize, word, mapped, base, auxRegs>>

MoveAuxRegs ==
  /\ pc = "paging"
  /\ auxRegs' = base[3]
  /\ pc' = "kernel"
  /\ UNCHANGED <<memSize, word, mapped, base, paging>>

(* the last messages of the bootloader, and the kernel *)
Kernel == pc = "kernel" /\ UNCHANGED vars

Next == \/ InitPageDirectory \/ InitKernelPagetables \/ InitBootloaderPagetables
        \/ InitIoPagetable \/ IoMap \/ EnablePaging \/ MoveAuxRegs \/ Kernel

Spec == Init /\ [][Next]_vars

-----------------------------------------------------------------------------
TypeOK ==
  /\ memSize \in MemPages
  /\ word \in [Words -> [type : {"junk", "inv", "table", "page"}, to : Nat]]
  /\ pc \in {"init_page_directory", "init_kernel_pagetables",
             "init_bootloader_pagetables", "init_io_pagetable", "io_map", "paging",
             "kernel"}
  /\ mapped \in 0 .. Len(Devices) /\ base \in Seq(Nat) /\ Len(base) <= Len(Devices)
  /\ paging \in BOOLEAN /\ auxRegs \in Nat

(* The bootloader logs between all its steps but the switch to paging and the
   assignment after it: wherever it logs, the pointer it uses leads to the
   UART, through the tables once the MMU is on. *)
UartReachable == pc # "paging" => Reach(auxRegs) = Small(Uart)

(* The switch does not pull the rug: the code that runs, its stack and the
   bootinfo structure keep their addresses. *)
CodeStays == paging => \A p \in CodePages : Translate(p) = Small(p)

(* The kernel finds all of memory in its window, whatever tables lie one
   behind the other in it, but for the section the devices take. *)
KernelWindow == paging => \A p \in 0 .. memSize - 1 :
  (KernelPage + p) \div NPte # IoPde => Translate(KernelPage + p) = Small(p)

(* What bootinfo says of a device leads to that device and to no other. *)
DevicesMapped == paging =>
  /\ Len(base) = Len(Devices)
  /\ \A i \in 1 .. Len(Devices) : Translate(base[i]) = Small(Devices[i])

(* Apart from the kernel's window above the end of memory, where the tables
   are never cleared, nothing is mapped that was not meant to be. *)
NoStray == paging => \A v \in 0 .. NPde * NPte - 1 :
  \/ Translate(v).type \in {"fault", "inv"}
  \/ v \in 1 .. BootCeiling - 1 /\ Translate(v) = Small(v)
  \/ v - KernelPage \in 0 .. memSize - 1 /\ Translate(v) = Small(v - KernelPage)
  \/ \E i \in 1 .. Len(base) : v = base[i] /\ Translate(v) = Small(Devices[i])
  \/ v - KernelPage \in memSize .. KernelTables * NPte - 1 /\ v \div NPte # IoPde
=============================================================================
