-------------------------------- MODULE Boot ---------------------------------
(***************************************************************************)
(* The bootloader's Main: it moves the IFS image behind it to the top of   *)
(* RAM, loads the kernel out of the copy, finds the file system server in  *)
(* the copy, puts the page tables behind the kernel and jumps.  Memory is  *)
(* a function from addresses to cells; a cell remembers which byte of      *)
(* kernel.img it holds, so that the model moves data as the code does and  *)
(* the properties can ask what finally is where.                           *)
(***************************************************************************)
EXTENDS Layout, Sequences, IfsLookup

CONSTANTS
  Page,               \* 4096 in the code
  RelocAlign,         \* 0x10000: alignment of the relocated IFS
  PtAlign, PtSize,    \* page tables: 16384, and 16384 + 4096 + 2097152 + 4096
  BootStart,          \* 0x8000: where the firmware loads kernel.img
  VM_KERNEL_BASE,     \* where the kernel maps physical address 0
  MaxPhdr,            \* MAX_PHDR: what elf_load accepts
  MaxBootinfoPhdrs,   \* MAX_BOOTINFO_PHDRS: slots of bootinfo.kernel_phdr
  MemSizes,           \* what board_init may find
  MaxMem,             \* bound: no address is modelled from here on
  Images              \* kernel.img files

(***************************************************************************)
(* An image: the bootloader's size, offset and size of the IFS (the words  *)
(* mkifs patches), the size of its header and node table, the node table,  *)
(* and the ELF file of the kernel: whether its header is accepted, and its *)
(* program headers.                                                        *)
(***************************************************************************)
ASSUME BootAssumption ==
  /\ Page \in Nat \ {0} /\ RelocAlign \in Nat \ {0} /\ PtAlign \in Nat \ {0}
  /\ RelocAlign % Page = 0 /\ PtAlign % Page = 0
  /\ PtSize \in Nat /\ BootStart \in Nat /\ VM_KERNEL_BASE \in Nat
  /\ VM_KERNEL_BASE % Page = 0
  /\ MaxPhdr \in Nat /\ MaxBootinfoPhdrs \in Nat
  /\ MaxMem \in Nat /\ MemSizes \subseteq 0 .. MaxMem
  /\ \A im \in Images : \A m \in MemSizes : im.ifsSize <= m

(* a node of the IFS, and a program header of an ELF file *)
IfsNode == [name : STRING, inode : Int, parent : Int, offset : Nat, size : Nat]
Phdr == [load : BOOLEAN, offset : Nat, vaddr : Nat, filesz : Nat, memsz : Nat]

(* What mkifs and the linker put into an image: the IFS lies behind the
   bootloader, its header and node table and every file inside its size. *)
ASSUME ImagesAssumption ==
  \A im \in Images :
    /\ {im.bootSize, im.ifsOffset, im.ifsSize, im.tableSize} \subseteq Nat
    /\ im.bootSize <= im.ifsOffset /\ im.tableSize <= im.ifsSize
    /\ im.table \in Seq(IfsNode)
    /\ \A i \in 1 .. Len(im.table) :
         im.table[i].offset + im.table[i].size <= im.ifsSize
    /\ im.elfOk \in BOOLEAN
    /\ im.phdrs \in Seq(Phdr)

VARIABLES
  image,      \* the kernel.img that was loaded
  memSize,    \* bootinfo.mem_size
  mem,        \* physical memory
  pc,
  ifsImage,   \* ifs_image: where the IFS has been moved to
  elfBase,    \* elf_base: where the kernel file is
  phdrs,      \* bootinfo.kernel_phdr
  t,          \* the program header elf_load works on
  ceiling,    \* kernel_ceiling
  ifsExe      \* bootinfo.ifs_exe_base and ifs_exe_size

vars == <<image, memSize, mem, pc, ifsImage, elfBase, phdrs, t, ceiling, ifsExe>>

Addr == 0 .. MaxMem - 1

Img(i) == [from |-> "image", i |-> i]      \* byte i of kernel.img
Zero == [from |-> "zero", i |-> 0]
Junk == [from |-> "junk", i |-> 0]
Table == [from |-> "pagetable", i |-> 0]
Cell == {Img(i) : i \in Addr} \cup {Zero, Junk, Table}

Fetch(m, a) == IF a \in Addr THEN m[a] ELSE Junk

(* memory m after cells have been stored from address at on *)
Fill(m, at, cells) ==
  [a \in Addr |-> IF a - at \in DOMAIN cells THEN cells[a - at] ELSE m[a]]

(* len cells: all alike, or those in memory m from address at on *)
Same(len, cell) == [k \in 0 .. len - 1 |-> cell]
Bytes(m, at, len) == [k \in 0 .. len - 1 |-> Fetch(m, at + k)]

ImageSize(im) == im.ifsOffset + im.ifsSize
(* mutant: the offset in the file for the address in memory *)
IfsSourceInFile == image.ifsOffset

IfsSource == BootStart + image.ifsOffset

(* cells [at, at + len) hold kernel.img from byte i on *)
Holds(m, at, len, i) == \A k \in 0 .. len - 1 : Fetch(m, at + k) = Img(i + k)

Init ==
  /\ image \in Images
  /\ memSize = 0
  /\ mem = [a \in Addr |-> IF a >= BootStart /\ a < BootStart + ImageSize(image)
                           THEN Img(a - BootStart) ELSE Junk]
  /\ pc = "init"
  /\ ifsImage = 0 /\ elfBase = 0 /\ phdrs = <<>> /\ t = 1 /\ ceiling = 0
  /\ ifsExe = [base |-> 0, size |-> 0]

(* board_init asks the mailbox how much memory there is *)
BoardInit ==
  /\ pc = "init"
  /\ memSize' \in MemSizes
  /\ pc' = "relocate"
  /\ UNCHANGED <<image, mem, ifsImage, elfBase, phdrs, t, ceiling, ifsExe>>

(* mutant: the end of memory is rounded, not the start of the image *)
RelocateUnaligned ==
  /\ pc = "relocate"
  /\ LET to == AlignDown(memSize, RelocAlign) - image.ifsSize
     IN /\ ifsImage' = to
        /\ mem' = Fill(mem, to, Bytes(mem, IfsSource, image.ifsSize))
  /\ pc' = "find"
  /\ UNCHANGED <<image, memSize, elfBase, phdrs, t, ceiling, ifsExe>>

(* memcpy to the top of RAM; where source and destination overlap the result
   is undefined *)
Relocate ==
  /\ pc = "relocate"
  /\ LET to == AlignDown(memSize - image.ifsSize, RelocAlign)
         source == [at |-> IfsSource, len |-> image.ifsSize]
         copy == IF Overlap(source, [source EXCEPT !.at = to])
                 THEN Same(image.ifsSize, Junk)
                 ELSE Bytes(mem, IfsSource, image.ifsSize)
     IN /\ ifsImage' = to
        /\ mem' = Fill(mem, to, copy)
  /\ pc' = "find"
  /\ UNCHANGED <<image, memSize, elfBase, phdrs, t, ceiling, ifsExe>>

(* header and node table of the relocated image are what mkifs wrote *)
TableIntact == Holds(mem, ifsImage, image.tableSize, image.ifsOffset)

Panic == /\ pc' = "panic"
         /\ UNCHANGED <<image, memSize, mem, ifsImage, elfBase, phdrs, t, ceiling, ifsExe>>

(* reading a table that is no table: what happens is not determined *)
Lost == /\ pc' = "lost"
        /\ UNCHANGED <<image, memSize, mem, ifsImage, elfBase, phdrs, t, ceiling, ifsExe>>

-----------------------------------------------------------------------------
(* elf_load *)

Kernel == Lookup(image.table, "boot", "kernel")

(* elf_load up to its loop: look the kernel up, check its header, and read the
   program headers straight into bootinfo *)
FindKernel ==
  /\ pc = "find" /\ TableIntact
  /\ Kernel # NotFound
  /\ image.elfOk /\ Len(image.phdrs) \in 1 .. MaxPhdr
  /\ elfBase' = ifsImage + image.table[Kernel].offset
  /\ phdrs' = image.phdrs
  /\ ceiling' = 0
  /\ t' = 1
  /\ pc' = "load"
  /\ UNCHANGED <<image, memSize, mem, ifsImage, ifsExe>>

CannotLoadKernel ==
  /\ pc = "find" /\ TableIntact
  /\ \/ Kernel = NotFound
     \/ ~ image.elfOk
     \/ Len(image.phdrs) \notin 1 .. MaxPhdr
  /\ Panic

ReadsGarbage == pc \in {"find", "server"} /\ ~ TableIntact /\ Lost

PhysAddr(vaddr) == vaddr - VM_KERNEL_BASE
SegmentBase(p) == PhysAddr(AlignDown(p.vaddr, Page))
SegmentCeiling(p) == PhysAddr(AlignUp(p.vaddr + p.memsz, Page))

(* mutant: the pages are cleared after the copy *)
ClearAfterCopy ==
  /\ pc = "load" /\ t <= Len(phdrs)
  /\ phdrs[t].load /\ phdrs[t].memsz >= phdrs[t].filesz
  /\ LET p == phdrs[t]
         copied == Fill(mem, PhysAddr(p.vaddr), Bytes(mem, elfBase + p.offset, p.filesz))
     IN /\ ceiling' = IF SegmentCeiling(p) > ceiling THEN SegmentCeiling(p) ELSE ceiling
        /\ mem' = Fill(copied, SegmentBase(p),
                       Same(SegmentCeiling(p) - SegmentBase(p), Zero))
  /\ t' = t + 1
  /\ UNCHANGED <<image, memSize, pc, ifsImage, elfBase, phdrs, ifsExe>>

(* mutant: the ceiling of the kernel is not kept *)
LoadWithoutCeiling ==
  /\ pc = "load" /\ t <= Len(phdrs)
  /\ phdrs[t].load /\ phdrs[t].memsz >= phdrs[t].filesz
  /\ LET p == phdrs[t]
         cleared == Fill(mem, SegmentBase(p),
                         Same(SegmentCeiling(p) - SegmentBase(p), Zero))
     IN mem' = Fill(cleared, PhysAddr(p.vaddr),
                       Bytes(cleared, elfBase + p.offset, p.filesz))
  /\ t' = t + 1
  /\ UNCHANGED <<image, memSize, pc, ifsImage, elfBase, phdrs, ceiling, ifsExe>>

(* one turn of the loop: clear all pages of the segment, then copy its bytes *)
LoadSegment ==
  /\ pc = "load" /\ t <= Len(phdrs)
  /\ phdrs[t].load /\ phdrs[t].memsz >= phdrs[t].filesz
  /\ LET p == phdrs[t]
         cleared == Fill(mem, SegmentBase(p),
                         Same(SegmentCeiling(p) - SegmentBase(p), Zero))
     IN /\ ceiling' = IF SegmentCeiling(p) > ceiling THEN SegmentCeiling(p) ELSE ceiling
        /\ mem' = Fill(cleared, PhysAddr(p.vaddr),
                       Bytes(cleared, elfBase + p.offset, p.filesz))
  /\ t' = t + 1
  /\ UNCHANGED <<image, memSize, pc, ifsImage, elfBase, phdrs, ifsExe>>

(* mutant: a header that is skipped is looked at for ever *)
SkipSegmentStuck ==
  /\ pc = "load" /\ t <= Len(phdrs)
  /\ ~ phdrs[t].load
  /\ UNCHANGED vars

SkipSegment ==
  /\ pc = "load" /\ t <= Len(phdrs)
  /\ ~ phdrs[t].load
  /\ t' = t + 1
  /\ UNCHANGED <<image, memSize, mem, pc, ifsImage, elfBase, phdrs, ceiling, ifsExe>>

BadSegment ==
  /\ pc = "load" /\ t <= Len(phdrs)
  /\ phdrs[t].load /\ phdrs[t].memsz < phdrs[t].filesz
  /\ Panic

KernelLoadedOk ==
  /\ pc = "load" /\ t > Len(phdrs)
  /\ pc' = "server"
  /\ UNCHANGED <<image, memSize, mem, ifsImage, elfBase, phdrs, t, ceiling, ifsExe>>

-----------------------------------------------------------------------------
(* elf_find for the file system server.  It ends without a return statement
   when it has found the file: Main compares whatever is in r0 with -1. *)

Server == Lookup(image.table, "filesystems", "ifs")

(* mutant: the offset in the image for the address in memory *)
FindServerOffset ==
  /\ pc = "server" /\ TableIntact
  /\ Server # NotFound
  /\ ifsExe' = [base |-> image.table[Server].offset, size |-> image.table[Server].size]
  /\ pc' \in {"bootstrap", "panic"}
  /\ UNCHANGED <<image, memSize, mem, ifsImage, elfBase, phdrs, t, ceiling>>

FindServer ==
  /\ pc = "server" /\ TableIntact
  /\ Server # NotFound
  /\ ifsExe' = [base |-> ifsImage + image.table[Server].offset,
                size |-> image.table[Server].size]
  /\ pc' \in {"bootstrap", "panic"}
  /\ UNCHANGED <<image, memSize, mem, ifsImage, elfBase, phdrs, t, ceiling>>

NoServer ==
  /\ pc = "server" /\ TableIntact
  /\ Server = NotFound
  /\ Panic

(* bootstrap_kernel: the page tables take the memory after the kernel *)
PtBase == AlignUp(ceiling, PtAlign)

Bootstrap ==
  /\ pc = "bootstrap"
  /\ mem' = Fill(mem, PtBase, Same(PtSize, Table))
  /\ pc' = "kernel"
  /\ UNCHANGED <<image, memSize, ifsImage, elfBase, phdrs, t, ceiling, ifsExe>>

(* the kernel runs, boot_panic never returns, or anything else *)
Halted == pc \in {"kernel", "panic", "lost"} /\ UNCHANGED vars

Next == \/ BoardInit \/ Relocate \/ FindKernel \/ CannotLoadKernel \/ ReadsGarbage
        \/ LoadSegment \/ SkipSegment \/ BadSegment \/ KernelLoadedOk
        \/ FindServer \/ NoServer \/ Bootstrap \/ Halted

Spec == Init /\ [][Next]_vars

FairSpec == Spec /\ WF_vars(Next)

-----------------------------------------------------------------------------
(* What the bootloader takes for granted and never checks. *)

Loads(im) == {i \in 1 .. Len(im.phdrs) : im.phdrs[i].load}

Pages(p) == [at |-> SegmentBase(p), len |-> SegmentCeiling(p) - SegmentBase(p)]

(* memory is large enough that nothing meets the relocated IFS *)
RoomInMemory ==
  LET to == AlignDown(memSize - image.ifsSize, RelocAlign)
      top(i) == AlignUp(SegmentCeiling(image.phdrs[i]), PtAlign) + PtSize
  IN /\ memSize >= image.ifsSize
     /\ BootStart + ImageSize(image) <= to
     /\ \A i \in Loads(image) : top(i) <= to

(* the kernel has something to load, is linked above the bootloader, and no two
   of its segments share a page *)
KernelLinked ==
  /\ Loads(image) # {}
  /\ \A i \in Loads(image) :
       SegmentBase(image.phdrs[i]) >= BootStart + image.bootSize
  /\ \A i, j \in Loads(image) :
       i # j => ~ Overlap(Pages(image.phdrs[i]), Pages(image.phdrs[j]))

(* the segments lie inside the kernel file, as every linker makes them *)
KernelWhole == Kernel # NotFound =>
  \A i \in Loads(image) :
    image.phdrs[i].offset + image.phdrs[i].filesz <= image.table[Kernel].size

Granted == RoomInMemory /\ KernelLinked /\ KernelWhole

SegmentLoaded(p) ==
  /\ \A k \in 0 .. p.filesz - 1 :
       mem[PhysAddr(p.vaddr) + k] =
         Img(image.ifsOffset + image.table[Kernel].offset + p.offset + k)
  /\ \A k \in p.filesz .. p.memsz - 1 : mem[PhysAddr(p.vaddr) + k] = Zero

-----------------------------------------------------------------------------
TypeOK ==
  /\ image \in Images
  /\ memSize \in MemSizes \cup {0}
  /\ mem \in [Addr -> Cell]
  /\ pc \in {"init", "relocate", "find", "load", "server", "bootstrap", "kernel",
             "panic", "lost"}
  /\ ifsImage \in Nat /\ elfBase \in Nat /\ ceiling \in Nat
  /\ phdrs \in {<<>>, image.phdrs}
  /\ t \in 1 .. Len(phdrs) + 1
  /\ ifsExe.base \in Nat /\ ifsExe.size \in Nat

(* When the kernel is entered every loadable segment is in memory, its bytes
   those of the kernel file and the rest zero, although later segments clear
   whole pages and the page tables are put right behind the kernel. *)
KernelComplete == pc = "kernel" /\ Granted =>
  \A i \in Loads(image) : SegmentLoaded(image.phdrs[i])

(* The IFS the kernel is told about is the one in kernel.img, bit by bit: the
   loading of the kernel may run over the original, never over the copy. *)
ImageComplete == pc = "kernel" /\ Granted =>
  /\ Holds(mem, ifsImage, image.ifsSize, image.ifsOffset)
  /\ Holds(mem, ifsExe.base, ifsExe.size, image.ifsOffset + image.table[Server].offset)

(* The code that is running is never overwritten. *)
BootloaderIntact == Granted /\ pc # "init" => Holds(mem, BootStart, image.bootSize, 0)

(* With an image and a memory size that grant what the bootloader relies on,
   it never reads a table that has been overwritten. *)
NeverLost == Granted => pc # "lost"

(* The bootloader reaches the kernel or stops: no loop over image data hangs. *)
Halts == <>(pc \in {"kernel", "panic", "lost"})

(* What the message of the panic says: the server is not in the image. *)
PanicMeansMissing == pc = "panic" /\ phdrs # <<>> /\ t > Len(phdrs) =>
  Server = NotFound

(* Program headers that elf_load accepts fit the array they are read into. *)
AcceptedPhdrsFit == Len(phdrs) <= MaxBootinfoPhdrs
=============================================================================
