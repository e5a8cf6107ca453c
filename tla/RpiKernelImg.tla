----------------------------- MODULE RpiKernelImg -----------------------------
(***************************************************************************)
(* createrpikernelimg: puts bootloader and IFS, two files, into one image  *)
(* and writes where the IFS is into the bootloader's header.  Another      *)
(* process may replace either file at any time.  Memory and files are      *)
(* sequences of cells; IFS_ALIGNMENT is four of them, and each word of the *)
(* header one.                                                             *)
(***************************************************************************)
EXTENDS Integers, Sequences, SequencesExt

CONSTANTS
  BootSizes, IfsSizes,   \* sizes the files can have
  MaxChanges             \* how often they are replaced (bounds the model)

Alignment == 4
MagicHeader == 1         \* cell in front of the two words

VARIABLES
  boot, ifs,        \* the input files: version and size
  bootSize, ifsSize, \* st_size of both
  buf,              \* the buffer
  output,           \* the output file
  changes,
  pc

inputs == <<boot, ifs, changes>>
vars == <<inputs, bootSize, ifsSize, buf, output, pc>>

Old == [of |-> "old", version |-> 0, at |-> 0]
Junk == [of |-> "junk", version |-> 0, at |-> 0]
Word(n) == [of |-> "word", version |-> 0, at |-> n]
Contents(of, file, n) == [i \in 1 .. n |-> [of |-> of, version |-> file.version, at |-> i]]

AlignUp(n) == ((n + Alignment - 1) \div Alignment) * Alignment
IfsOffset == AlignUp(bootSize)

-----------------------------------------------------------------------------
Init ==
  /\ boot \in [version : {0}, size : BootSizes] /\ ifs \in [version : {0}, size : IfsSizes]
  /\ bootSize = 0 /\ ifsSize = 0
  /\ buf = <<>> /\ output = <<Old>>
  /\ changes = 0 /\ pc = "open"

(* the output is cut before the inputs are looked for *)
Open ==
  /\ pc = "open"
  /\ output' = <<>>
  /\ pc' = "stat"
  /\ UNCHANGED <<inputs, bootSize, ifsSize, buf>>

Stat ==
  /\ pc = "stat"
  /\ bootSize' = boot.size /\ ifsSize' = ifs.size
  /\ buf' = [i \in 1 .. AlignUp(boot.size) + AlignUp(ifs.size) |-> Junk]
  /\ pc' = "bootloader"
  /\ UNCHANGED <<inputs, output>>

Store(at, cells) == [i \in DOMAIN buf |-> IF i > at /\ i <= at + Len(cells) THEN cells[i - at] ELSE buf[i]]

ReadBootloader ==
  /\ pc = "bootloader" /\ boot.size >= bootSize
  /\ buf' = Store(0, Contents("boot", boot, bootSize))
  /\ pc' = "ifs"
  /\ UNCHANGED <<inputs, bootSize, ifsSize, output>>

(* mutant: a file that has become shorter is taken for what it was *)
ReadIfsUnchecked ==
  /\ pc = "ifs"
  /\ buf' = Store(IfsOffset, Contents("ifs", ifs, IF ifs.size < ifsSize THEN ifs.size ELSE ifsSize))
  /\ pc' = "patch"
  /\ UNCHANGED <<inputs, bootSize, ifsSize, output>>

ReadIfs ==
  /\ pc = "ifs" /\ ifs.size >= ifsSize
  /\ buf' = Store(IfsOffset, Contents("ifs", ifs, ifsSize))
  /\ pc' = "patch"
  /\ UNCHANGED <<inputs, bootSize, ifsSize, output>>

Patch ==
  /\ pc = "patch"
  /\ buf' = Store(MagicHeader, <<Word(IfsOffset), Word(AlignUp(ifsSize))>>)
  /\ pc' = "write"
  /\ UNCHANGED <<inputs, bootSize, ifsSize, output>>

Write ==
  /\ pc = "write"
  /\ output' = buf
  /\ pc' = "success"
  /\ UNCHANGED <<inputs, bootSize, ifsSize, buf>>

WriteShort ==
  /\ pc = "write"
  /\ \E n \in 0 .. Len(buf) - 1 : output' = SubSeq(buf, 1, n)
  /\ pc' = "failure"
  /\ UNCHANGED <<inputs, bootSize, ifsSize, buf>>

(* an open, malloc or read fails, a read also when the file has become shorter *)
Fail ==
  /\ pc \in {"open", "stat", "bootloader", "ifs"}
  /\ pc' = "failure"
  /\ \/ output' = output
     \/ pc = "open" /\ output' = <<>>
  /\ UNCHANGED <<inputs, bootSize, ifsSize, buf>>

(* another process replaces a file *)
InputChanges ==
  /\ changes < MaxChanges /\ pc \notin {"success", "failure"}
  /\ \/ \E n \in BootSizes : boot' = [version |-> changes + 1, size |-> n] /\ ifs' = ifs
     \/ \E n \in IfsSizes : ifs' = [version |-> changes + 1, size |-> n] /\ boot' = boot
  /\ changes' = changes + 1
  /\ UNCHANGED <<bootSize, ifsSize, buf, output, pc>>

Next == \/ Open \/ Stat \/ ReadBootloader \/ ReadIfs \/ Patch \/ Write
        \/ WriteShort \/ Fail \/ InputChanges

Spec == Init /\ [][Next]_vars

-----------------------------------------------------------------------------
(* Success: the header, read where the bootloader reads it, leads to cells of one
   version of the IFS, from its first on, as many as it said it had, and all of
   the bootloader but the header is there. *)
SuccessIsImage == pc = "success" =>
  LET at == output[MagicHeader + 1].at
      size == output[MagicHeader + 2].at
  IN  /\ at + size = Len(output) /\ size >= ifsSize /\ at >= bootSize
      /\ \E v \in 0 .. MaxChanges :
           SubSeq(output, at + 1, at + ifsSize) = Contents("ifs", [version |-> v], ifsSize)
      /\ \E v \in 0 .. MaxChanges : \A i \in 1 .. bootSize :
           i \notin {MagicHeader + 1, MagicHeader + 2}
             => output[i] = Contents("boot", [version |-> v], bootSize)[i]

(* Failure: the output is the old image, or the start of a new one whose header
   says more than there is. *)
FailureIsNoImage == pc = "failure" =>
  \/ output = <<Old>> \/ Len(output) < MagicHeader + 2
  \/ output[MagicHeader + 1].at + output[MagicHeader + 2].at > Len(output)
=============================================================================
