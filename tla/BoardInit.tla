------------------------------ MODULE BoardInit ------------------------------
(***************************************************************************)
(* board_init of the Raspberry Pi 4: pins of the UART, two questions to    *)
(* the VideoCore through one mail buffer, the decoding of the revision     *)
(* code, pins of wireless and SD card.  The VideoCore is a process of its  *)
(* own: it answers, answers with an error, or answers with nothing at all. *)
(* Memory sizes are in blocks of 64 KB, so that 8 GB can be computed with. *)
(***************************************************************************)
EXTENDS Integers, Sequences

CONSTANTS
  Boards,       \* what the machine is: see BoardAssumption
  FselWords,    \* contents of a function select register before the boot
  PullWords     \* contents of a pull resistor register before the boot

MB == 16        \* blocks in a megabyte

(***************************************************************************)
(* A board has a revision code, blocks of memory, and the extent of it     *)
(* that the VideoCore keeps for itself.  A new style code (bit 23) tells   *)
(* the memory of the board; every board has 256 MB at least.               *)
(***************************************************************************)
New(code) == (code \div 8388608) % 2 = 1
MemoryConfig(code) == (code \div 1048576) % 8

ASSUME BoardAssumption ==
  /\ \A b \in Boards :
       /\ b.revision \in Nat /\ b.ram \in Nat /\ b.ram >= 256 * MB
       /\ New(b.revision) /\ MemoryConfig(b.revision) <= 5
            => b.ram = 256 * MB * 2^MemoryConfig(b.revision)
       /\ b.vc.at \in Nat /\ b.vc.len \in Nat
  /\ FselWords \subseteq 0 .. 2^30 - 1 /\ PullWords \subseteq Nat

VARIABLES
  board,
  pc,
  pins,       \* calls of configure_gpio still to be made
  fsel,       \* GPIO function select registers
  fsel0,      \* history: what they held before
  pull,       \* GPIO pull resistor registers
  emmc,       \* the bit that routes the SD card pins to the legacy controller
  mail,       \* mailbuffer: tag, and the two words of the value buffer
  size,       \* mailbuffer[3], the size of the value buffer in bytes
  revision,   \* revision
  videocore,  \* videocore_base and videocore_size
  bootinfo    \* mem_size, videocore_base and videocore_ceiling

mailVars == <<mail, size>>
pinVars == <<pins, fsel, fsel0, pull, emmc>>
vars == <<board, pc, pinVars, mailVars, revision, videocore, bootinfo>>

-----------------------------------------------------------------------------
(* GPIO: ten fields of three bits in a function select register, sixteen of two
   bits in a pull resistor register *)

INPUT == 0
FN5 == 2
FN3 == 7
PULL_NONE == 0

Configure(gpios, fn) == [i \in DOMAIN gpios |-> <<gpios[i], fn, PULL_NONE>>]
UartPins == Configure(<<14, 15>>, FN5)
BoardPins == Configure(<<34, 35, 36, 37, 38, 39>>, INPUT) \o Configure(<<48, 49, 50, 51, 52, 44>>, FN3)

Field(w, pin) == (w \div 8^(pin % 10)) % 8

(* mutant: a pin that has a function keeps it *)
Unmasked(w, pin, fn) == IF Field(w, pin) = 0 THEN w + fn * 8^(pin % 10) ELSE w

(* mutant: the function is added to what the register holds *)
Added(w, pin, fn) == w + fn * 8^(pin % 10)

(* (w & mask) | (fn << shift) *)
WithField(w, pin, fn) == w + (fn - Field(w, pin)) * 8^(pin % 10)

PullOf(w, pin) == (w \div 4^(pin % 16)) % 4

(* physical addresses, in blocks, that lead to devices: from PERIPHERAL_BASE,
   0xFE000000; the VideoCore sees the same devices at 0x7E000000 *)
IsDevice(block) == block >= 65024

-----------------------------------------------------------------------------
NoWords == <<0, 0>>

Init ==
  /\ board \in Boards
  /\ pc = "uart"
  /\ pins = UartPins
  /\ \E w \in FselWords : fsel = [r \in 0 .. 5 |-> w]
  /\ fsel0 = fsel
  /\ \E w \in PullWords : pull = [r \in 0 .. 3 |-> w]
  /\ emmc \in BOOLEAN
  /\ mail = [tag |-> "none", value |-> NoWords] /\ size = 0
  /\ revision = 0 /\ videocore = NoWords
  /\ bootinfo = [memSize |-> 0, base |-> 0, ceiling |-> 0]

(* configure_gpio of the next pin; its pull is written over those of the fifteen
   others, and one bit for each pin is skipped instead of two *)
ConfigureGpio ==
  /\ pc \in {"uart", "gpios"} /\ pins # <<>>
  /\ LET pin == Head(pins)[1]
     IN  /\ pull' = [pull EXCEPT ![pin \div 16] = (Head(pins)[3] % 4) * 2^(pin % 16)]
         /\ fsel' = [fsel EXCEPT ![pin \div 10] = WithField(@, pin, Head(pins)[2])]
  /\ pins' = Tail(pins)
  /\ UNCHANGED <<board, pc, fsel0, emmc, mailVars, revision, videocore, bootinfo>>

(* mutant: the buffer still holds the last answer *)
AskUncleared(step, tag, wait) ==
  /\ pc = step /\ pins = <<>>
  /\ mail' = [mail EXCEPT !.tag = tag]
  /\ size' = 8
  /\ pc' = wait
  /\ UNCHANGED <<board, pinVars, revision, videocore, bootinfo>>

(* boot_rpi_mailbox up to its loop: the buffer is cleared and the request
   written into it *)
Ask(step, tag, wait) ==
  /\ pc = step /\ pins = <<>>
  /\ mail' = [tag |-> tag, value |-> NoWords]
  /\ size' = 8
  /\ pc' = wait
  /\ UNCHANGED <<board, pinVars, revision, videocore, bootinfo>>

AskRevision == Ask("uart", "revision", "await_revision")
AskMemory == Ask("memory", "memory", "await_memory")

(* What the VideoCore knows under a tag. *)
Answer(tag) == CASE tag = "revision" -> <<board.revision, 0>>
                 [] tag = "memory" -> <<board.vc.at, board.vc.len>>

(* The VideoCore has the message.  It fills in the answer, or leaves the value
   buffer alone when it refuses the message, or says it has more to tell. *)
Treated(value, sz) == \/ value = Answer(mail.tag) /\ sz \in {8, 12}
                      \/ value = mail.value /\ sz = 8

(* mutant: the message is only repeated, its answer never taken *)
ReceiveRevisionNever == pc = "await_revision" /\ UNCHANGED vars

(* the loop: the read returned zero, whatever happened to the buffer *)
Nothing ==
  /\ pc \in {"await_revision", "await_memory"}
  /\ \E value \in {Answer(mail.tag), mail.value}, sz \in {8, 12} :
       /\ Treated(value, sz)
       /\ mail' = [mail EXCEPT !.value = value]
       /\ size' = sz
  /\ UNCHANGED <<board, pc, pinVars, revision, videocore, bootinfo>>

(* the end of boot_rpi_mailbox: the response, unless it is too long; the
   callers do not look at the result and use what they initialised *)
Response(value, sz) == IF sz > 8 THEN NoWords ELSE value

ReceiveRevision ==
  /\ pc = "await_revision"
  /\ \E value \in {Answer(mail.tag), mail.value}, sz \in {8, 12} :
       /\ Treated(value, sz)
       /\ mail' = [mail EXCEPT !.value = value]
       /\ size' = sz
       /\ revision' = Response(value, sz)[1]
  /\ pc' = "memory"
  /\ UNCHANGED <<board, pinVars, videocore, bootinfo>>

ReceiveMemory ==
  /\ pc = "await_memory"
  /\ \E value \in {Answer(mail.tag), mail.value}, sz \in {8, 12} :
       /\ Treated(value, sz)
       /\ mail' = [mail EXCEPT !.value = value]
       /\ size' = sz
       /\ videocore' = Response(value, sz)
  /\ pc' = "parse"
  /\ UNCHANGED <<board, pinVars, revision, bootinfo>>

-----------------------------------------------------------------------------
(* mutant: the limit is not applied *)
Unlimited(memSize) == memSize

(* 0x7FF00000: the last megabyte below 2 GB is left for the devices *)
Limited(memSize) == IF memSize >= 2047 * MB THEN 2047 * MB ELSE memSize

Decoded(config) == IF config <= 5 THEN 256 * MB * 2^config ELSE 128 * MB

(* an old style code ends the function before the videocore is recorded *)
ParseOldRevision ==
  /\ pc = "parse" /\ ~ New(revision)
  /\ bootinfo' = [bootinfo EXCEPT !.memSize = 128 * MB]
  /\ pc' = "select"
  /\ UNCHANGED <<board, pinVars, mailVars, revision, videocore>>

ParseRevision ==
  /\ pc = "parse" /\ New(revision)
  /\ bootinfo' = [memSize |-> Limited(Decoded(MemoryConfig(revision))),
                  base |-> videocore[1], ceiling |-> videocore[1] + videocore[2]]
  /\ pc' = "select"
  /\ UNCHANGED <<board, pinVars, mailVars, revision, videocore>>

(* init_gpios: bit 1 of the word at 0x7e2000d0, in block 0x7e20, is cleared *)
SelectEmmc2 ==
  /\ pc = "select"
  /\ emmc' = (emmc /\ ~ IsDevice(32288))
  /\ pins' = BoardPins
  /\ pc' = "gpios"
  /\ UNCHANGED <<board, fsel, fsel0, pull, mailVars, revision, videocore, bootinfo>>

Done ==
  /\ pc = "gpios" /\ pins = <<>>
  /\ UNCHANGED vars

Next == \/ ConfigureGpio \/ AskRevision \/ AskMemory \/ Nothing
        \/ ReceiveRevision \/ ReceiveMemory \/ ParseOldRevision \/ ParseRevision
        \/ SelectEmmc2 \/ Done

Spec == Init /\ [][Next]_vars

(* The bootloader runs alone, and the VideoCore does not answer with nothing
   for ever. *)
FairSpec == /\ Spec /\ WF_vars(Next)
            /\ WF_vars(ReceiveRevision) /\ WF_vars(ReceiveMemory)

-----------------------------------------------------------------------------
Finished == pc = "gpios" /\ pins = <<>>

TypeOK ==
  /\ board \in Boards
  /\ pc \in {"uart", "await_revision", "memory", "await_memory", "parse", "select", "gpios"}
  /\ pins \in Seq((0 .. 59) \X (0 .. 7) \X (0 .. 3)) /\ pull \in [0 .. 3 -> Nat]
  /\ fsel \in [0 .. 5 -> 0 .. 2^30 - 1] /\ fsel0 \in [0 .. 5 -> FselWords]
  /\ emmc \in BOOLEAN
  /\ mail.tag \in {"none", "revision", "memory"} /\ mail.value \in Nat \X Nat
  /\ size \in {0, 8, 12}
  /\ revision \in Nat /\ videocore \in Nat \X Nat
  /\ bootinfo \in [memSize : Nat, base : Nat, ceiling : Nat]

(* An answer is the whole answer to the question that was asked, or zero: no
   retry, refusal or overlong response leaves words of an older message in the
   revision or in the extent of the VideoCore's memory. *)
AnswersTrue == pc \in {"parse", "select", "gpios"} =>
  /\ revision \in {board.revision, 0}
  /\ videocore \in {<<board.vc.at, board.vc.len>>, NoWords}

(* The memory the bootloader goes on with is there on every board, whatever the
   VideoCore answers, and leaves the last section below 2 GB to the devices. *)
MemoryIsThere == pc \in {"select", "gpios"} =>
  bootinfo.memSize > 0 /\ bootinfo.memSize <= board.ram /\ bootinfo.memSize <= 2047 * MB

(* Every pin ends with the function and the pull resistor that were asked for
   it, and the functions of all others are kept, although ten of them share a
   register. *)
PinsConfigured == Finished => \A pin \in 0 .. 57 :
  LET asked == {i \in 1 .. Len(UartPins \o BoardPins) : (UartPins \o BoardPins)[i][1] = pin}
      now == Field(fsel[pin \div 10], pin)
  IN  IF asked = {} THEN now = Field(fsel0[pin \div 10], pin)
      ELSE \A i \in asked : /\ now = (UartPins \o BoardPins)[i][2]
                            /\ PullOf(pull[pin \div 16], pin) = (UartPins \o BoardPins)[i][3]

(* The board is set up at last, however often the VideoCore has to be asked. *)
Initialised == <>Finished

(* What the comment in init_gpios says the register write does. *)
Emmc2Selected == Finished => ~ emmc
=============================================================================
