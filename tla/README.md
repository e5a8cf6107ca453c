# Cheviot boot chain: TLA+ models and proofs

cheviot-build holds what turns the binaries of CheviotOS into something a
Raspberry Pi boots: a host tool that packs an initial file system (IFS) behind
the bootloader, the bootloader, the script that brings the system up, and the
scripts that assemble an SD card. This directory models all of it that has logic
of its own: first the part in which one mistake stops a machine from booting
without a word (the IFS image, how `mkifs` writes it, how the bootloader finds
its way through it), then the parts around it: the board, the page tables, the
messages, the lists, the scripts.

## Inventory

| Part | State | Operations | Talks to | Hard behaviour |
|---|---|---|---|---|
| `mkifs/main.c` | node list, inode counter, `ifs_base`, `ifs_size`, the output file | WriteBootloader, Recursive, WriteFileTable, CalculateFileOffsets, WriteFileContents, WriteBootloaderHeader | host file system (calls), bootloader (through the image) | the tree changes during the walk; stale stat results; 32 bit sums; failures half way |
| `bootloader/main.c`, `elf.c` | memory, `bootinfo`, kernel ceiling | relocate the image, elf_load, elf_find, enter the kernel | image (memory), kernel (`bootinfo`) | copies into memory that is in use; unchecked sizes; undefined results |
| `boards/raspberry_pi_4/bootstrap.c` | page directory and tables, `io_map_current` | bootstrap_kernel, init_*_pagetables, io_map | MMU, UART, mailbox | pointers that change meaning when paging starts |
| `boards/raspberry_pi_4/init.c` | mail buffer, revision, `bootinfo.mem_size` | board_init, boot_rpi_mailbox, parse_revision | VideoCore (messages) | retries, ignored failures, decoding |
| `boards/raspberry_pi_4/gpio.c`, `aux_uart.c`, `debug.c` | device registers | configure_gpio, get/set_gpio, read/write a byte, log, panic | devices | shared registers, busy waits |
| `bootloader/doprintf.c` | output position | DoPrintf, ItoA32, UItoA32, PrintFormattedInteger, Snprintf | debug.c (callback) | buffer limit, most negative number |
| `lists.h` (twice, identical) | pointers | macros of LIST, QUEUE, STACK, HEAP, CIRCLEQ | mkifs | pointers that disagree and show it calls later |
| `skeleton-root/root/etc/s.startup` | mounts, running drivers | start, waitfor, mknod, pivot, renamemount | drivers (asynchronous) | order of mounts, waiting for ever |
| `mk-kernel-img.sh`, `mk-sdcard-image-ufs.sh`, `createrpikernelimg`, cmake files | files of the build directory | copy, assemble | each other through files | steps that fail unnoticed, leftovers |
| `boards/raspberry_pi_1` | as above | as above | | does not build at this commit |
| blobs, device trees, autoconf output | | | | vendored or generated |

What makes each correct:

* **mkifs**: the node list is the tree on disk; numbers identify nodes; nothing
  in the image overlaps; what the header says covers what was written; files
  nobody touched arrive with their bytes; a name that is gone does not arrive; an
  unfinished image does not look finished; the tool ends.
* **bootloader**: it finds the kernel if there is one and nothing else; loading
  the kernel destroys neither the image, nor the code that runs, nor the kernel.
* **page tables**: every address the running code uses means the same before
  and after paging starts; nothing is mapped twice; the tables are large enough.
* **board**: `mem_size` never exceeds what is there (that it leaves the VideoCore
  its part is nowhere looked after, see Seen while modelling); a lost mailbox
  answer is not taken for data.
* **console**: the text that arrives is what the format asks for; the buffer
  overruns by no more than the code means it to; a panic's message gets out.
* **lists**: the pointers are the sequence that the caller thinks of.
* **startup**: every path is used only after its driver mounted; a name leads to
  the same mount before and after the pivot; the script ends if the drivers do
  their part.
* **build tools**: a build in which every step succeeded makes a complete image,
  whatever earlier builds left; what fails is no image.

The hazards are listed one by one, each at its line, in `PROJECT.json`.

## Plan

Written, in this order:

1. `Layout`, `MkIfs`: the image builder.
2. `IfsLookup`, `MkIfsBoot`: builder composed with reader, in one run (`MCMkIfs`);
   `MkIfsProofs` about both.
3. `Boot`: memory from reset to the kernel; `BootProofs`.
4. `BoardInit`, `BoardInitProofs`: the questions to the VideoCore, the pins.
5. `Paging`: the page tables and the switch to them; `PagingProofs`.
6. `Startup`: the script, one process per driver.
7. `DoPrintf`, composed with the log and the UART in `Console`; `ConsoleProofs`.
8. `Links`, `Lists`, `Queues`, `Heaps`, `CircleQueue`, composed in `ListMacros`,
   which implements the abstract `ListSpec`; `LinkFacts`, `ListProofs`.
9. `ImageBuild`, `RpiKernelImg`, composed in `BuildTools`; `BuildToolsProofs`.

Left: `BoardInit` composed with `Boot` (the memory size that comes out of the
one goes into the other; the two count memory in units that are far apart); an
abstract specification of the page tables, a partial map of addresses, for
`Paging`; an abstract image, a function from paths to contents, for `MkIfs` and
trees nobody touches.

Proved: the safety of every part but the startup script, and the refinement of
`ListSpec` by all kinds of lists (see Proofs). The script has finitely many
instances, which TLC explores completely.

Theorems still worth proving: the refinements that the abstract specifications
above would state.

## Modules

### Layout
The rounding macros, the page size, and extents of bytes.

### MkIfs: `mkifs/main.c`
One process, `mkifs`, and an environment: `HostChanges` stands for every other
process of the build machine, which creates, resizes, replaces or removes an
entry, or puts a FIFO in its place, between any two steps of the tool (`MaxTouch`
bounds how many distinct entries; `touched` remembers which). An entry stands for
a path; a symbolic link to a directory above, which `stat` follows, is a further
directory at each depth down to where the host gives up on the path. Paths are
taken to fit `real_path`, whose 1024 bytes the code does not watch.

| Variable | Code |
|---|---|
| `host` | what `stat` says of each entry; `nostat` is a name that cannot be resolved |
| `stack` | the active calls of `Recursive`: directory, its inode number, the names `readdir` has not returned, and the local `struct stat st` |
| `nodes` | `ifs_file_list`, in list order; `path` is `real_path` |
| `inodeNr`, `ifsBase`, `ifsSize` | `current_inode_nr`, `ifs_base`, `ifs_size` |
| `cursor`, `offset` | the `node` and `offset` of the loops over the list |
| `writes` | each `write` to the output, as an extent and what it holds |
| `wrapped` | history: some 32 bit sum has wrapped around |
| `missed` | history: names that `stat` did not find and nobody has created since |

`WriteBootloader` and `StartIFS` are the functions up to the first `readdir`.
The walk has one action for each kind of entry: `AddDirectory` (node, recursive
call, `.` and `..`), `OpenDirFails`, `AddFile`, `SkipOther`, `EndDirectory`.
`WriteHeader`, `CalculateFileOffset` (one turn of its loop), `WriteNodeTable`,
`SkipContents`, `WriteContents`, `ReadFails` and `PatchBootloader` are the rest.
`OpenBlocks` is the `open` of what has become a FIFO, and `OpenReturns` the other
end of it, which some process may open or not.
`Exit` is the failure of any other checked call, at any time.

Details kept because properties depend on them: `st` survives a failing `stat`
(`StatOrStale`); the root node's `file_size` is never assigned (`Garbage`);
`.` and `..` consume inode numbers; names are cut after 31 characters, so the
stored path can lead to another entry or nowhere (`Resolves`); offsets and sizes
are taken modulo `Word`, that of a file too, which `stat` gives with 64 bits
(`Truncated`); the write of the patch can fail without the tool
noticing. Left out: permissions, owners, texts, the mtree argument (which the
tool does not read), and the bytes of files (a write remembers its node).

### IfsLookup, MkIfsBoot: writer and reader together
`Lookup` is the pair of loops that `elf_find` and `elf_load` share. `MkIfsBoot`
turns the node list into the table on disk, the 16 spare slots included, and
asks what `Lookup` finds in it. `NameOf` gives entries their names, so that two
entries in different directories can have the same one. `Lookup` takes the first
entry called boot, wherever in the tree it is: `LookupRight` says that it finds
boot/kernel if that directory is the first (`FirstOfName`), and nothing wrong in
any tree; `NotFoundMeansMissing`, without the condition, does not hold.

### Boot: `bootloader/main.c`, `elf.c`, the beginning of `bootstrap_kernel`
Memory is a function from addresses to cells, and a cell remembers which byte
of `kernel.img` it holds. `Relocate` is the `memcpy` to the top of RAM (an
overlapping copy leaves `Junk`), `FindKernel` and `CannotLoadKernel` are
`elf_load` up to its loop, `LoadSegment`, `SkipSegment`, `BadSegment` its turns,
`FindServer` and `NoServer` are `elf_find`, whose result on success is not
defined by the code, `Bootstrap` puts the page tables behind the kernel. When
the table in memory is no longer what mkifs wrote, the code's behaviour is not
determined: `ReadsGarbage` leads to `lost`.

The bootloader checks almost nothing. What it relies on is stated as `Granted`:
memory is large enough for what is put into it (`RoomInMemory`), the kernel is
linked above the bootloader with no page shared between segments
(`KernelLinked`), and its segments lie inside its file (`KernelWhole`). The
memory properties hold under `Granted`; the runs include images that violate it.

### BoardInit: `init.c`, the pins of `gpio.c` and `aux_uart.c`
Two processes: the bootloader, which runs `board_init`, and the VideoCore, which
reads and writes the mail buffer. `Ask` is `boot_rpi_mailbox` up to its loop,
`Nothing` one turn of the loop that reads zero, `ReceiveRevision` and
`ReceiveMemory` the turn that ends it together with the rest of the function and
of its caller. With each turn the VideoCore may put its answer into the buffer,
with or without announcing more than the caller has room for, or leave the value
words alone; the request that goes out in the next turn is what the last one
left. `ParseOldRevision` and `ParseRevision` are the two ways through
`parse_revision`. `ConfigureGpio` is one call of `configure_gpio`: a field of
three bits in one of six registers that start with anything (`FselWords`), and
the pull resistor's, which is written over those of the fifteen pins that share
its register and is shifted by one bit for each pin where the field has two.
Every call asks for no pull resistor, which is zero wherever it is put, so that
`PinsConfigured` holds all the same.

| Variable | Code |
|---|---|
| `mail`, `size` | `mailbuffer[2]`, `[5]`, `[6]` and `mailbuffer[3]` |
| `revision`, `videocore` | `revision`; `videocore_base` and `videocore_size` |
| `bootinfo` | `mem_size`, `videocore_base`, `videocore_ceiling` |
| `fsel`, `pull`, `pins` | `gpio_regs->fsel` and `pup_pdn_cntrl`, and the calls still to be made |
| `emmc` | bit 1 of the register at 0x7E2000D0 of the VideoCore |
| `board`, `fsel0` | what the machine is; what the registers held |

Sizes are in blocks of 64 KB, the largest unit that divides everything
`parse_revision` computes with, so that 8 GB are a number TLC has.

### Paging: the rest of `bootstrap_kernel`
The words from `root_pagedir` to the end of `io_pagetable` are one array that
starts as `Junk`; each of the four functions is an action that overwrites words
in it, `IoMap` is one call of `io_map`, `EnablePaging` the code up to the write
of SCTLR, `MoveAuxRegs` the assignment after it. `Translate` is what the MMU
makes of a page number, through the words that are there. Which sizes fit each
other is stated in `PagingAssumption`: `N_PAGEDIR_PDE`, `KERNEL_PAGETABLES_CNT`
and their like come from a header that is in another repository. The order of
what `init_io_pagetable` maps is the code's; the UART is the third.

### DoPrintf, Console: `doprintf.c`, `debug.c`, `aux_uart_write_byte`
`DoPrintf` reads its format character by character: `Percent`, `Flag`,
`EndFlags`, `WidthDigit`, one action for each conversion, `NextDigit` for a turn
of the loops in `ItoA32` and `UItoA32` (the most negative number with its carry),
`PrintFormattedInteger` for the layout, `Terminate` for the final zero. Words
have `Width` bits; `WidthAssumption` asks that the most negative number makes the
carry run as it does with 32. `Power` stands for the multiplications of the
loops' places. There are two references, both computed from the value.
`Conversion` has the sign, the base, the digits and the field of the width that is
written; `Documented` has fields as the comment above `DoPrintf` describes them,
for every conversion and 10 wide by default. What is sent is the former
(`LinesRead`), not the latter (`WrittenWidth`, `DefaultWidth`).

`Console` is who calls it. `Vsnprintf` composes a step of `DoPrintf` with
`SnprintfPrintChar` for the characters so far; `WriteChar` and `WriteNewline` are
`boot_debug_write_string`; `AuxUartWriteByte` is enabled when its busy wait is
over; `Transmit` is the UART; `Log`, `BootPanic` and `BootPanicNull` are the
callers. `klog` is `klog_entry` with the byte behind it, `mode` whether a panic
is under way, `NDEBUG` whether the build has log messages, `said` what each
message should read; `MaxMessages` and `Repeated` bound how many messages there
are and after which another follows. Left out: which messages the
bootloader prints, the line parameters `init_aux_uart` writes.

### Links, Lists, Queues, Heaps, CircleQueue, ListMacros, ListSpec: `lists.h`
One module per kind of list, one action per macro, pointers as functions from
entries to entries; `Links` has what they share, `Chain` above all: what one
finds by following a link. Headers and links start with whatever was in memory.
Callers keep to what the macros rely on (an entry is on one list at a time, what
is removed is on the list, headers are initialised, and again after their
entries went to another list by `LIST_CONCAT`). `ListSpec` is the promise: a
header stands for a sequence, and each macro is an operation on sequences.
`ListMacros` composes the kinds, one used at a time, and maps each header to the
chain that starts there: `IsSequence` is the refinement, call by call. Two macros
break the promise, and `IsSequence` says how far. `CIRCLEQ_REVERSE` goes forward:
it is held only to turn the circle (`WrongWay`). `QUEUE_REM_AFTER` does
not look at the header: once it has removed a last entry (`strayed`) the tail
names an entry that has left, and nothing is promised of later calls.
`ReverseGoesBack` and `QueueTailRight` are the promises themselves, which do not
hold.

### Startup: `s.startup`
The script is a sequence of commands, in the order of the file. `sysinit` runs
them one by one (`DoStart`, `DoWaitFor`, `DoMknod`, `DoPivot`, `DoRenameMount`,
`DoOther`); each started driver is a process that mounts itself at any moment
later (`Mount`) or dies before (`Die`). The SD card's driver mounts the card and
then each partition. `Resolve` is the path lookup across mounts, by which
commands, programs and mounts find their places, before and after the pivot.
Kernel, sysinit and drivers are in other repositories: they are modelled from how
the script uses them and what its comments say.

### ImageBuild, RpiKernelImg, BuildTools: the scripts and `createrpikernelimg`
`ImageBuild` is the image target: the commands of `mk-kernel-img.sh`, the check
of its status by make, and those of `mk-sdcard-image-ufs.sh`, which runs the first
again. Files outlive a build; between builds the programs change or vanish and
the partitions get other sizes. Every command may fail, and the script goes on.
Sizes are in megabytes, and `Dd` is what dd does to a file: seek, fill, cut off.
`RpiKernelImg` is `createrpikernelimg`, cell by cell: the output is cut first,
then both inputs are measured, read into one buffer and written, while another
process may replace either at any time. `BuildTools` composes the two, one used
at a time.

## Runs

Twelve runs; none takes more than two minutes with two workers.

| Run | Configuration | Question | Result |
|---|---|---|---|
| `mkifs` | MkIfs.cfg | the whole tool on all trees of three entries, and the bootloader's lookup in what it wrote | holds, 111 thousand states |
| `boot` | Boot.cfg | memory from reset to the kernel | holds, 3 thousand states |
| `board_init` | BoardInit.cfg | memory, answers and pins, on eight boards | holds, 10 thousand states |
| `paging` | Paging.cfg | where every address leads after the switch | holds, 377 states |
| `console` | Console.cfg | what arrives on the line when messages are formatted, cut and sent | holds, 189 thousand states |
| `lists` | ListMacros.cfg | do the pointers implement sequences, macro by macro | holds, 100 thousand (up to symmetry) states |
| `startup` | Startup.cfg | the name space and the end of the script, for every order of mounts | holds, 131 states |
| `build` | BuildTools.cfg | is what both tools call a success a complete image | holds, 1.8 million states |
| `mkifs_wrap` | MkIfsWrap.cfg | `ifs_size` is the size of the image (main.c:44) | violated |
| `boot_panic` | BootPanicMeansMissing.cfg | the panic means what it says (main.c:67) | violated |
| `boot_phdrs` | BootAcceptedPhdrsFit.cfg | accepted headers fit `bootinfo` (elf.c:182) | violated |
| `board_emmc` | BoardInitEmmc.cfg | the SD card is routed to EMMC2 (init.c:83) | violated |

**Bounds.** Three entries, one inside another, give each `readdir` order, a
nested call with entries after it, and an entry that vanishes at each point; the
proofs show that depth and number do not matter for any of the invariants. Sizes
0 and 5000 are an empty file and one longer than a page that is not a multiple
of it, 1053576 one that is wider than `Word` and keeps 5000 of it. What `malloc`
leaves in the root node is 0 or 1044480, which is within one page of `Word`
(2^20 instead of 2^32, still more than any image of the run needs), so that the
sums wrap when a file follows and do not when none does. One touched entry is
enough for every race of the tool with one other process. `MCMkIfs` has three
kinds of trees, with short names, with names at the 31 character limit, and with
two entries called boot, never two kinds in one tree (`OneKind`, which also
keeps the names that `readdir` returns although they are gone to one kind); in
the last the other boot is in a directory that comes before or after. Only the
file `kernel` may be empty there, only the other file of that name is wider than
`Word`, and the leftover that makes the sums wrap is tried on trees with at most
one entry, where they wrap as they do on larger ones. In `Boot`, pages have two
cells and images seven; among the 20 or so kernels are ones that share a page,
run into the image or the bootloader, have a segment shorter in memory than in
the file, or no segment at all; the memory sizes are: as large as the IFS, too
small, just large enough, and comfortable. `BoardInit` needs no bound: one board
for each amount of memory the code knows, one with an old code and one with an
amount it does not know, and registers that are all input, all output or all
FN3. Each board keeps 76 MB for its VideoCore at the end of the first GB or of
memory, whichever is less. In `Paging` a section has seven pages instead of 256,
one more than there are devices, the directory eight entries instead of 4096,
and the window of the kernel ends with the section of the devices, which is
where the tables meet; the amount of memory runs through every number of pages,
and the space for the kernel's tables is a little larger than they are.
`Console` formats every word of 8 bits with every conversion, and the nine words
at the edges with every set of flags and four widths; strings are shorter than,
as long as and longer than the buffer of 12; there are two messages, the second
after those in `Repeated` (an empty one, one that is too long, one that is not),
and a panic instead of either or after both. Four entries and two headers give
the list macros a first, a last, two middle entries and a list to take them
from; the whole graph of calls is explored, so that there is no bound on their
number. In `Startup` only the partitions of the card are chosen, from none to
two. `build` has two builds, which is one to leave something behind and one to
find it; two versions of each of two programs, and partitions that exchange
their sizes. `createrpikernelimg` gets bootloaders around a multiple of the
alignment, an IFS that is empty, short, aligned or long, and two replacements of
its inputs.

**Fairness.** `mkifs` is one process that waits for another only in the `open` of
a FIFO: weak fairness of its other steps, failures excluded, so that `Termination`
does not rest on a call that fails. Nothing says that anybody opens the other end
(`OpenReturns` has no fairness), so that `Termination` names that one exception.
The bootloader is the only thing that runs: weak fairness of `Next`.
`boot_rpi_mailbox` asks until the VideoCore returns something, without a bound:
`FairSpec` of `BoardInit` assumes that it does at last. The VideoCore is
firmware that answers every message; without the assumption the loop is endless
and the boot stops there. In `Console` the UART sends what is in its FIFO (weak
fairness of `Transmit`), without which the busy wait of `aux_uart_write_byte`
never ends, and the bootloader, which runs alone, goes on with a message it has
begun; nothing says that there is another message. In `Startup` sysinit takes
its next command when it can, and each driver that was started mounts if it does
not die: they are processes of a scheduler that runs every one of them. Nothing
is assumed of `lists` and `build`, which have no liveness property. Deadlock is
not checked where the program comes to an end of its own: the script in
`startup`, the tools in `build`.

**Findings.** (1) The root node's `file_size` is what `malloc` left, and moves
all files and the recorded size; if it is large the size wraps. (2) `elf_find`
has no `return` on success, so the boot may stop with a panic that says the
server is missing. (3) `elf_load` accepts 64 program headers and stores them in
an array of 16. (4) The register that routes the SD card pins is accessed at its
address on the VideoCore's bus, before paging, so that the bit keeps its value.

**Further disagreements.** These are not among the runs. Each is a property that
says what a line of the repository says, with a configuration in which TLC
refutes it; the properties that hold state the limit that follows from it.

| Property | Configuration (module) | What the repository says | What the code does | Limit of |
|---|---|---|---|---|
| `ContentsCopied` | MkIfs4GB.cfg (`MCMkIfs`) | mkifs copies contents (README.md:27) | main.c:270 keeps 32 bits of `st_size`: a file of 4 GiB or more is stored in part, and the tool reports success | `NothingLost`, `LookupRight` |
| `NotFoundMeansMissing` | MkIfsTwoBoots.cfg (`MCMkIfs`) | "file not found" (elf.c:173) | the first entry called boot of the table hides a later one, /boot of the root directory too | `LookupRight` |
| `QueueTailRight` | ListMacrosQueueTail.cfg (`ListMacros`) | "head and tail pointers in the header" (lists.h:153) | `QUEUE_REM_AFTER` of the last entry leaves the tail at it (lists.h:227), and the next `QUEUE_ADD_TAIL` loses its entry; nothing uses the macro | `HeadersRight`, `IsSequence` |
| `ReverseGoesBack` | ListMacrosReverse.cfg (`ListMacros`) | its name, beside `CIRCLEQ_FORWARD` (lists.h:425) | `CIRCLEQ_REVERSE` goes forward (lists.h:431) | `IsSequence` |
| `WrittenWidth` | ConsoleWrittenWidth.cfg (`MCConsole`) | a width for every conversion (doprintf.c:35, 44) | it is read and not used for `c`, `s` and `%` | `LinesRead` |
| `DefaultWidth` | ConsoleDefaultWidth.cfg (`MCConsole`) | "flag width = 10" (doprintf.c:39) | without a width numbers are not padded | `LinesRead` |

**Seen while modelling, without a run.** None touches what a property
here relies on.

* `Main` moves the image to the top of `mem_size` (main.c:57), from which nothing
  has been taken for the VideoCore. On boards with 1 GB or less the VideoCore keeps
  the top of memory, and the image is moved into it. No line of the repository
  says where the VideoCore's memory is, or that the image is not: no property.
* `QUEUE_INSERT_AFTER` and `STACK_INSERT_AFTER` name a parameter `prec_entry` and
  use `prev_entry`.
* `s.startup` gives devfs the same `-d` twice and ufs none, below a comment that
  asks for unique ones (s.startup:8-9, 15, 18, 55).
* `debug.h:11-12` defines NDEBUG below "Enable debug logging", which makes every
  log macro expand to nothing: only panics speak. `Console` is checked for builds
  with the line (`NDEBUG`) and without it.
* Both scripts print that they are complete after a step has failed
  (mk-sdcard-image-ufs.sh:143), and `build/kernel_ifs_dir` is never emptied:
  `CompleteUnlessFailed` asks only for builds in which every step succeeded.
* The pull field is shifted by `pin % 16` instead of twice that, and written over
  its neighbours (gpio.c:45): all callers ask for none.
* `get_gpio` compares before it masks (gpio.c:77) and returns the lowest pin's
  level; nothing calls it.

## Proofs

Eight modules hold theorems. `LinkFacts` has lemmas about links, the others
theorems about one part each. A theorem says `Spec => []Inv`, or, of the lists,
that `Spec` implies the abstract specification. It comes from an inductive
invariant, with one lemma for the initial states, one for a step (by action,
below that by conjunct) and one for what the invariant implies. A run of TLC has
each theorem's property on a small instance; the theorem has it for all values
of the constants that the module's ASSUMEs admit.

| Theorem | Property | Run |
|---|---|---|
| `TypeCorrect`, `UniqueInodes`, `SoundTree`, `NothingClobbered`, `RecordedSizeCovers`, `NothingAfterPatch`, `NothingInvented`, `NoEntryLost`, `BootloaderFindsKernel` | `TypeOK`, `InodesUnique`, `TreeSound`, `NoClobber`, `SizeCovers`, `PatchedLast`, `NoPhantom`, `NothingLost`, `LookupRight` | `mkifs` |
| `BootTypeCorrect`, `TableNeverLost`, `BootloaderNeverOverwritten`, `KernelEntersWhole`, `ImageArrivesWhole` | `TypeOK`, `NeverLost`, `BootloaderIntact`, `KernelComplete`, `ImageComplete` | `boot` |
| `BoardTypeCorrect`, `TrueAnswers`, `ClaimedMemoryIsThere`, `EveryPinIsConfigured` | `TypeOK`, `AnswersTrue`, `MemoryIsThere`, `PinsConfigured` | `board_init` |
| `PagingTypeCorrect`, `UartAlwaysReachable`, `CodeAlwaysStays`, `KernelSeesMemory`, `DevicesAlwaysMapped`, `NothingStray` | `TypeOK`, `UartReachable`, `CodeStays`, `KernelWindow`, `DevicesMapped`, `NoStray` | `paging` |
| `HeadersAreRight`, `MacrosKeepPromise` | `HeadersRight`, `IsSequence` | `lists` |
| `DigitsMakeTheNumber`, `LinesAreRead`, `OneByteIsBehind` | `DigitsMakeNumber`, `LinesRead`, `OneByteBehind` | `console` |
| `DiskImageComplete`, `ImageOrNoImage` | `CompleteUnlessFailed`, `OutputIsImage` | `build` |

**Induction.** The library's induction theorem takes a predicate as parameter,
which the provers cannot instantiate. But a *set* that holds zero and the
successor of each of its members can be handed to a lemma (`Induction` of
`LinkFacts` and `ConsoleProofs`, which follows from there being a least element,
`LeastExists`), and the functions that are defined by recursion (`Chain`,
`Power`, the sum of the digits, the lines that were said) are dealt with in that
form: the set is that of the numbers up to which a function of the kind exists.

### MkIfsProofs
For every host tree whose paths fit `real_path`, every set of sizes of files (those
that do not fit `file_size` among them), every word size that is a multiple of the
page size, and every interference. The invariants build on each other, up to
`AllInv`:

* `TypeInv == TypeOK /\ Built /\ Narrow`. `TypeOK` contains that offsets and the
  size fit 32 bits once the table is written. It is not inductive: `Narrow` says
  the same of the nodes the loop has passed, `Built` that the list is not empty
  when a loop starts.
* `WalkInv`, behind `UniqueInodes` and `SoundTree`. A new number is unique
  because every number given out is below the counter (`Numbered`); a new node
  has a parent in the list because each active call of `Recursive` has its
  directory node there (`FramesSound`), which is what the recursion passes down.
* `LayoutInv`, behind `NothingClobbered` and `RecordedSizeCovers`. `Phases` ties
  the program counter to what has been written, `WritesSound` each write to the
  node or table it holds, `FilesInOrder` says that files are written in list
  order, and `PlacedSoFar`, the loop invariant of `CalculateFileOffsets`, that
  the nodes passed so far follow each other above the table and below `offset`.
* `ContentsInv`, behind `NothingAfterPatch`: every file before the cursor has
  been written, and all of them once the header is patched.
* `TruthInv`, behind `NothingInvented`: what a node says of its entry was so when
  it was looked up and is so as long as nobody touches the entry, what `stat`
  missed is not there as long as nobody creates it, and a file that has been read
  was there to be read.
* `CallsInv` and `Covered`, behind `NoEntryLost`: for every entry that kept still,
  and for the directories above it, each node of its directory has a node for it
  below, or a call in progress has still to read it; calls further in have
  higher numbers, and no call has still to read what the list has already.

`BootloaderFindsKernel` needs all of `AllInv`: that a completed image holds
boot/kernel once, in its place and with its bytes, is what the loops of
`elf_load` need in order to find it, and no other node with that name below
`boot` can be in the list. That the first loop stops at this `boot` is its
hypothesis, which the table decides (`FirstOfName`). `NoEntryLost` and it speak
of the bytes of files below 4 GiB only, as the others are cut. Besides
`MkIfsAssumption` this rests on `TreeAssumption` (no directory contains itself,
for trees of any size) and `NameOfAssumption` (names in a directory differ).

### BootProofs
For every image, memory size, alignment and number of segments. `BootInv` says
of each phase what is in memory: until `Relocate` what the firmware loaded
(`Untouched`), afterwards the copy of the IFS, whole, where it was put
(`Copied`); the segments before the present one loaded, page by page, and the
ceiling the highest of their ends (`Loaded`). `Copied` and `Loaded` hold under
`Granted`, and the heart of the proof is that nothing later reaches them: the
copy overlaps neither its original nor the bootloader, a turn of the loop
changes memory only in the pages of its own segment (`DifferIn`), the pages of
two segments are apart, and the page tables lie between the highest segment and
the copy. `TypeOK` needs no grant. Assumed are `BootAssumption` (the alignments
are multiples of the page size) and `ImagesAssumption`, what mkifs and the
linker put into an image: the node table and all files lie in the IFS.

### BoardInitProofs
For every board that `BoardAssumption` admits (a new style code with a known
amount tells the truth, and every board has 256 MB at least), every contents of
the registers before the boot, and every behaviour of the VideoCore.

* `BoardInv`: while a loop of `boot_rpi_mailbox` runs the buffer holds the whole
  answer to the present question or zeros (`Mailed`), which is what clearing it
  before each question is for; so an answer that failed is the revision 0, which
  is an old code, for which 128 MB are there on every board.
* `PinInv`: after m calls the registers have the functions of the first m pins
  and otherwise what they held (`RegistersInv`), and the calls that are left are
  the others (`LeftFrom`). A call changes one octal digit of one register, and
  none above or below it (`FieldWritten`, `FieldAbove`, `FieldBelow`).
* `TypesLeft`: the types that need both of the above.

### PagingProofs
For every number of entries, tables, pages of memory and devices that fit each
other as `PagingAssumption` says. `PagingInv` says which words are filled after
each function and with what (`Directory`, `KernelTable`, `BootTable`, `IoTable`,
the last as far as `io_map` has come), and that `io_map` gives out consecutive
addresses. The theorems are then about `Translate` of those words; the one with
substance is that the tables of the kernel, one behind the other, are one long
table (`KernelSeesMemory`).

### BuildToolsProofs
`ImageOrNoImage`, for files of any size, replaced in any step: `RpiInv` follows
the buffer part by part (`Buffered`, `BootRead`, `IfsRead`, `Patched`), and
`Written` says of the output that it is the buffer or a part of it that is too
short for its own header.

`DiskImageComplete`, for any finite set of programs, any sizes of the partitions
and any number of builds: `BuildInv` is that as long as no command has failed
each command before the present one has left what it is for (`Progress`). The
number of commands depends on the number of programs, so that places are counted
from the second mkifs (`Second`), and `OrderIs` says that each program has its cp.

### LinkFacts, ListProofs
`LinkFacts` is about links, not about any macro: `ChainIs` shows that the
recursive function `Chain` finds the sequence that is linked, `PutIn`,
`TakenOut`, `PutBehind` what the assignments of a macro do to all the sequences
that share the links, `RingGrown`, `RingShrunk`, `RingTurned` the same for a
circle, where the last entry is followed by the first.

`ListProofs` has one lemma per macro. Its invariant, `Linked`, is that *there
are* sequences of distinct entries, no entry on two of them, which the links
link forwards and, where there are links back, backwards (`AllOnward`,
`AllBack`; `RingOn`, `RingBack`), and whose ends the headers name. The state
functions of `ListMacros` that read sequences off the pointers then yield these
sequences, the step lemmas show that the sequences a macro leaves behind are
those `ListSpec` says, and so `MacrosKeepPromise` is the refinement, initial
states and every step, for any finite set of entries and any set of headers. After
`QUEUE_REM_AFTER` of a last entry there is nothing to hold: the invariant is
`strayed` or this (`StrayedStep`), and the step that makes it so still removes the
entry. `PromiseTurn` shows that `CIRCLEQ_REVERSE` turns the circle.

### ConsoleProofs
For any set of conversions that `ItemsAssumption` admits (flags in any number and
order, a width of at most two digits, any word), any width of words that meets
`WidthAssumption` (8, 32 and 128 bits do; 64 do not, the greatest number is then
7...7 in octal and not 17...7), any size of the log buffer and of the
transmitter's FIFO, and any number of messages.

* `Numbered(v, b)` is the invariant of the loops in `ItoA32` and `UItoA32`: the
  digits in `buf` are the lowest ones of v to base b, and what is left of the
  number plus the carry is v without them. That the carry is right needs
  `Carries`: it runs only where the number that is left ends in 7, in decimal, at
  the first digit, or is a 1 followed by sevens, in octal.
  `NumeralIs` says that the digits at the end are those of the reference.
* `Reads(i, o, text, last)` says how far `DoPrintf` has come within conversion i,
  which begins behind the first o characters of the format: before it, in its
  flags, in its width, in its digits; and of each place what has been made of the
  flags and the width. `ReadsStep` shows that a step leads on, and at the end to
  `Printed`: what has been added is `Conversion(i)`, for each of the eleven
  conversions. `LogStep` and `PanicStep` put conversions, literals and the end of
  the format together, so that the flags and the width of the first conversion
  have no effect on the second.
* `ConsoleInv` composes it with the buffer and the UART: while `DoPrintf` runs,
  `klog` holds what was printed as far as it fits (`Kept`) and nothing is
  written; while the text is written, what is sent is that much of the message
  (`Writing`), and the zero is met where the message ends or the buffer does
  (`Writes`), which is why what an earlier message has left there is not sent;
  between messages everything is sent or in the FIFO.

`ConsoleInv` is inductive and implies the three properties (`NumberHeld`,
`SentInOrder`; `OneByteBehind` is part of it).

### Model-checked only
* Liveness (`Termination`, `Halts`, `Initialised`, `Ready`, `AllSent`): the prover
  has neither fairness reasoning nor ENABLED.
* `Startup`: finitely many drivers, commands and names, none of them a parameter;
  the one constant is how many partitions a card has, and TLC explores every
  instance.
* The findings, which are about single executions.

## Not modelled

See the components in `PROJECT.json`.

* `start.S`: straight-line assembly. The Raspberry Pi 1 port: names functions and
  headers that the rest no longer has, and no target builds it.
* Binary blobs, device trees, generated build files: vendored or generated.
* Drivers, kernel, `sysinit` and the tools the scripts call are in other
  repositories; what is modelled of them comes from how this one uses them.
* `cmake`: other than the image target, declarations of what depends on what, for
  components that mostly are not here.
* `set_gpio`, `get_gpio` and reading from the UART, which nothing calls; the line
  parameters of the UART; access permissions and cache attributes of the page
  tables; text and board names that are handed to the kernel.
* A dd that fails half way (in `ImageBuild` a command that fails changes nothing,
  but for those that remove their output first), and a card with more than two
  partitions.
