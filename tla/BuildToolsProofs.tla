-------------------------- MODULE BuildToolsProofs ---------------------------
(***************************************************************************)
(* Proofs about the two ways to an image: createrpikernelimg for files of  *)
(* any size, replaced any number of times, and the scripts for any set of  *)
(* programs and any number of builds.                                      *)
(***************************************************************************)
EXTENDS BuildTools, SequenceTheorems, FiniteSetTheorems, TLAPS

-----------------------------------------------------------------------------
(* createrpikernelimg *)

Kinds == {"old", "junk", "word", "boot", "ifs"}
Cells == [of : Kinds, version : Nat, at : Nat]

(* the sizes the tool read, and those of the buffer's two parts *)
BootRoom == R!AlignUp(bootSize)
IfsRoom == R!AlignUp(ifsSize)

InputsOK ==
  /\ changes \in 0 .. MaxChanges
  /\ boot.version \in 0 .. MaxChanges /\ boot.size \in BootSizes
  /\ ifs.version \in 0 .. MaxChanges /\ ifs.size \in IfsSizes

Buffered == step \in {"bootloader", "ifs", "patch", "write", "success"} =>
  /\ bootSize \in BootSizes /\ ifsSize \in IfsSizes
  /\ buf \in Seq(Cells) /\ Len(buf) = BootRoom + IfsRoom

BootRead == step \in {"ifs", "patch", "write", "success"} =>
  \E v \in 0 .. MaxChanges : \A i \in 1 .. bootSize :
    i \notin {R!MagicHeader + 1, R!MagicHeader + 2}
      => buf[i] = [of |-> "boot", version |-> v, at |-> i]

IfsRead == step \in {"patch", "write", "success"} =>
  \E v \in 0 .. MaxChanges : \A i \in 1 .. ifsSize :
    buf[BootRoom + i] = [of |-> "ifs", version |-> v, at |-> i]

Patched == step \in {"write", "success"} =>
  buf[2].at = BootRoom /\ buf[3].at = IfsRoom

Written ==
  /\ step = "open" => output = <<R!Old>>
  /\ step \in {"stat", "bootloader", "ifs", "patch", "write"} => output = <<>>
  /\ step = "success" => output = buf
  /\ R!FailureIsNoImage

Steps == {"open", "stat", "bootloader", "ifs", "patch", "write", "success", "failure"}

RpiInv == step \in Steps /\ InputsOK /\ Buffered /\ BootRead /\ IfsRead /\ Patched /\ Written

(* the alignment makes room for the header in front of the IFS *)
LEMMA Rooms ==
  /\ \A n \in Nat : R!AlignUp(n) \in Nat /\ n <= R!AlignUp(n)
  /\ \A n \in Nat : n >= 3 => R!AlignUp(n) >= 4
  /\ R!MagicHeader = 1
  BY DEF R!AlignUp, R!Alignment, R!MagicHeader

LEMMA RpiSizes ==
  /\ \A n \in BootSizes : n \in Nat /\ n >= 3
  /\ \A n \in IfsSizes : n \in Nat
  /\ MaxChanges \in Nat
  BY RpiKernelImgAssumption

(* a buffer in which some cells are stored *)
LEMMA StoreCells ==
  ASSUME buf \in Seq(Cells), NEW at \in Nat, NEW cells \in Seq(Cells)
  PROVE  /\ R!Store(at, cells) \in Seq(Cells)
         /\ Len(R!Store(at, cells)) = Len(buf)
         /\ \A hi \in Int : hi = at + Len(cells) =>
              \A i \in 1 .. Len(buf) : R!Store(at, cells)[i] =
                IF i > at /\ i <= hi THEN cells[i - at] ELSE buf[i]
  <1>1. Len(buf) \in Nat /\ DOMAIN buf = 1 .. Len(buf) /\ Len(cells) \in Nat
    BY LenProperties
  <1>2. \A i \in 1 .. Len(buf) : buf[i] \in Cells
    BY ElementOfSeq
  <1>3. \A i \in 1 .. Len(cells) : cells[i] \in Cells
    BY ElementOfSeq
  <1>6. PICK hi \in Int : hi = at + Len(cells)
    BY <1>1
  <1>4. \A i \in 1 .. Len(buf) :
          (IF i > at /\ i <= hi THEN cells[i - at] ELSE buf[i]) \in Cells
    BY <1>1, <1>2, <1>3, <1>6
  <1>5. R!Store(at, cells) = [i \in 1 .. Len(buf) |-> IF i > at /\ i <= hi THEN cells[i - at] ELSE buf[i]]
    BY <1>1, <1>6 DEF R!Store
  <1>7. QED
    BY <1>1, <1>4, <1>5, <1>6

LEMMA ContentsCells ==
  ASSUME NEW of \in Kinds, NEW file, file.version \in Nat, NEW n \in Nat
  PROVE  /\ R!Contents(of, file, n) \in Seq(Cells)
         /\ Len(R!Contents(of, file, n)) = n
         /\ \A i \in 1 .. n : R!Contents(of, file, n)[i] =
              [of |-> of, version |-> file.version, at |-> i]
  BY DEF R!Contents, Cells

LEMMA RpiStart == ToolInit => RpiInv
  <1> SUFFICES ASSUME ToolInit PROVE RpiInv
    OBVIOUS
  <1>1. R!Init
    BY DEF ToolInit
  <1>2. InputsOK
    BY <1>1, RpiSizes DEF R!Init, InputsOK
  <1>3. R!FailureIsNoImage
    BY <1>1 DEF R!Init, R!FailureIsNoImage
  <1>4. QED
    BY <1>1, <1>2, <1>3 DEF R!Init, RpiInv, Steps, Buffered, BootRead, IfsRead, Patched, Written

LEMMA OpenStep ==
  ASSUME RpiInv, R!Open
  PROVE  RpiInv'
  BY DEF R!Open, R!inputs, RpiInv, Steps, InputsOK, Buffered, BootRead, IfsRead, Patched, Written,
     R!FailureIsNoImage

LEMMA StatStep ==
  ASSUME RpiInv, R!Stat
  PROVE  RpiInv'
  <1>1. Buffered'
    <2>1. /\ bootSize' = boot.size /\ ifsSize' = ifs.size
          /\ boot.size \in BootSizes /\ ifs.size \in IfsSizes
          /\ buf' = [i \in 1 .. R!AlignUp(boot.size) + R!AlignUp(ifs.size) |-> R!Junk]
      BY DEF R!Stat, RpiInv, InputsOK
    <2>2. R!AlignUp(boot.size) \in Nat /\ R!AlignUp(ifs.size) \in Nat
      BY <2>1, Rooms, RpiSizes
    <2>3. PICK room \in Nat : room = R!AlignUp(boot.size) + R!AlignUp(ifs.size)
      BY <2>2
    <2>4. buf' \in Seq(Cells) /\ Len(buf') = R!AlignUp(boot.size) + R!AlignUp(ifs.size)
      <3>1. R!Junk = [of |-> "junk", version |-> 0, at |-> 0]
        BY DEF R!Junk
      <3>2. [of |-> "junk", version |-> 0, at |-> 0] \in Cells
        BY DEF Cells, Kinds
      <3>3. buf' = [i \in 1 .. room |-> [of |-> "junk", version |-> 0, at |-> 0]]
        BY <2>1, <2>3, <3>1
      <3>4. QED
        BY <2>3, <3>2, <3>3
    <2>5. BootRoom' = R!AlignUp(boot.size) /\ IfsRoom' = R!AlignUp(ifs.size)
      BY <2>1 DEF BootRoom, IfsRoom
    <2>6. QED
      BY <2>1, <2>4, <2>5 DEF Buffered
  <1>2. QED
    BY <1>1 DEF R!Stat, R!inputs, RpiInv, Steps, InputsOK, BootRead, IfsRead, Patched, Written,
       R!FailureIsNoImage

LEMMA ReadBootloaderStep ==
  ASSUME RpiInv, R!ReadBootloader
  PROVE  RpiInv'
  <1> DEFINE cells == R!Contents("boot", boot, bootSize)
  <1>1. /\ step = "bootloader" /\ step' = "ifs" /\ buf' = R!Store(0, cells)
        /\ bootSize' = bootSize /\ ifsSize' = ifsSize /\ output' = output
        /\ boot' = boot /\ ifs' = ifs /\ changes' = changes
    BY DEF R!ReadBootloader, R!inputs
  <1>2. /\ bootSize \in Nat /\ ifsSize \in Nat /\ boot.version \in 0 .. MaxChanges
        /\ boot.version \in Nat /\ bootSize <= BootRoom /\ BootRoom \in Nat
        /\ IfsRoom \in Nat /\ buf \in Seq(Cells) /\ Len(buf) = BootRoom + IfsRoom
    BY <1>1, RpiSizes, Rooms DEF RpiInv, Buffered, InputsOK, BootRoom, IfsRoom
  <1>3. /\ cells \in Seq(Cells) /\ Len(cells) = bootSize
        /\ \A i \in 1 .. bootSize : cells[i] =
             [of |-> "boot", version |-> boot.version, at |-> i]
    <2>1. "boot" \in Kinds
      BY DEF Kinds
    <2>2. QED
      BY <1>2, <2>1, ContentsCells
  <1> HIDE DEF cells
  <1>4. /\ buf' \in Seq(Cells) /\ Len(buf') = Len(buf)
        /\ \A i \in 1 .. Len(buf) : buf'[i] =
             IF i > 0 /\ i <= bootSize THEN cells[i - 0] ELSE buf[i]
    <2>1. /\ R!Store(0, cells) \in Seq(Cells) /\ Len(R!Store(0, cells)) = Len(buf)
          /\ \A hi \in Int : hi = 0 + Len(cells) =>
               \A i \in 1 .. Len(buf) : R!Store(0, cells)[i] =
                 IF i > 0 /\ i <= hi THEN cells[i - 0] ELSE buf[i]
      BY <1>2, <1>3, 0 \in Nat, StoreCells
    <2>2. bootSize \in Int /\ bootSize = 0 + Len(cells)
      BY <1>2, <1>3
    <2>3. QED
      BY <1>1, <2>1, <2>2
  <1>5. BootRoom' = BootRoom /\ IfsRoom' = IfsRoom
    BY <1>1 DEF BootRoom, IfsRoom
  <1>6. Buffered'
    BY <1>1, <1>4, <1>5 DEF RpiInv, Buffered
  <1>7. BootRead'
    <2>1. \A i \in 1 .. bootSize : buf'[i] = [of |-> "boot", version |-> boot.version, at |-> i]
      BY <1>2, <1>3, <1>4
    <2>2. QED
      BY <1>1, <1>2, <2>1 DEF BootRead
  <1>8. QED
    BY <1>1, <1>6, <1>7 DEF RpiInv, Steps, InputsOK, IfsRead, Patched, Written,
       R!FailureIsNoImage

LEMMA ReadIfsStep ==
  ASSUME RpiInv, R!ReadIfs
  PROVE  RpiInv'
  <1> DEFINE cells == R!Contents("ifs", ifs, ifsSize)
  <1>1. /\ step = "ifs" /\ step' = "patch" /\ buf' = R!Store(BootRoom, cells)
        /\ bootSize' = bootSize /\ ifsSize' = ifsSize /\ output' = output
        /\ boot' = boot /\ ifs' = ifs /\ changes' = changes
    BY DEF R!ReadIfs, R!inputs, R!IfsOffset, BootRoom
  <1>2. /\ bootSize \in Nat /\ ifsSize \in Nat /\ ifs.version \in 0 .. MaxChanges
        /\ ifs.version \in Nat /\ bootSize <= BootRoom /\ BootRoom \in Nat
        /\ ifsSize <= IfsRoom
        /\ IfsRoom \in Nat /\ buf \in Seq(Cells) /\ Len(buf) = BootRoom + IfsRoom
    BY <1>1, RpiSizes, Rooms DEF RpiInv, Buffered, InputsOK, BootRoom, IfsRoom
  <1>3. /\ cells \in Seq(Cells) /\ Len(cells) = ifsSize
        /\ \A i \in 1 .. ifsSize : cells[i] =
             [of |-> "ifs", version |-> ifs.version, at |-> i]
    <2>1. "ifs" \in Kinds
      BY DEF Kinds
    <2>2. QED
      BY <1>2, <2>1, ContentsCells
  <1> HIDE DEF cells
  <1>10. PICK hi \in Nat : hi = BootRoom + Len(cells)
    BY <1>2, <1>3
  <1>4. /\ buf' \in Seq(Cells) /\ Len(buf') = Len(buf)
        /\ \A i \in 1 .. Len(buf) : buf'[i] =
             IF i > BootRoom /\ i <= hi THEN cells[i - BootRoom] ELSE buf[i]
    <2>1. /\ R!Store(BootRoom, cells) \in Seq(Cells) /\ Len(R!Store(BootRoom, cells)) = Len(buf)
          /\ \A hi2 \in Int : hi2 = BootRoom + Len(cells) =>
               \A i \in 1 .. Len(buf) : R!Store(BootRoom, cells)[i] =
                 IF i > BootRoom /\ i <= hi2 THEN cells[i - BootRoom] ELSE buf[i]
      BY <1>2, <1>3, StoreCells
    <2>2. QED
      BY <1>1, <1>10, <2>1
  <1>5. BootRoom' = BootRoom /\ IfsRoom' = IfsRoom
    BY <1>1 DEF BootRoom, IfsRoom
  <1>6. Buffered'
    BY <1>1, <1>4, <1>5 DEF RpiInv, Buffered
  <1>7. BootRead'
    <2>1. \A i \in 1 .. bootSize : buf'[i] = buf[i]
      BY <1>2, <1>3, <1>4
    <2>2. QED
      BY <1>1, <2>1 DEF RpiInv, BootRead
  <1>8. IfsRead'
    <2>1. \A i \in 1 .. ifsSize :
            buf'[BootRoom + i] = [of |-> "ifs", version |-> ifs.version, at |-> i]
      <3> SUFFICES ASSUME NEW i \in 1 .. ifsSize
                   PROVE  buf'[BootRoom + i] = [of |-> "ifs", version |-> ifs.version, at |-> i]
        OBVIOUS
      <3>1. PICK j \in 1 .. Len(buf) : j = BootRoom + i /\ j > BootRoom
                                       /\ j <= hi /\ j - BootRoom = i
        BY <1>2, <1>3, <1>10
      <3>2. buf'[j] = cells[i]
        BY <1>4, <3>1
      <3>3. QED
        BY <1>3, <3>1, <3>2
    <2>2. QED
      BY <1>1, <1>2, <1>5, <2>1 DEF IfsRead
  <1>9. QED
    BY <1>1, <1>6, <1>7, <1>8 DEF RpiInv, Steps, InputsOK, Patched, Written,
       R!FailureIsNoImage

LEMMA PatchStep ==
  ASSUME RpiInv, R!Patch
  PROVE  RpiInv'
  <1> DEFINE words == <<R!Word(BootRoom), R!Word(IfsRoom)>>
  <1>1. /\ step = "patch" /\ step' = "write" /\ buf' = R!Store(1, words)
        /\ bootSize' = bootSize /\ ifsSize' = ifsSize /\ output' = output
        /\ boot' = boot /\ ifs' = ifs /\ changes' = changes
    BY DEF R!Patch, R!inputs, R!IfsOffset, BootRoom, IfsRoom, R!MagicHeader
  <1>2. /\ bootSize \in Nat /\ bootSize >= 3 /\ ifsSize \in Nat /\ BootRoom \in Nat
        /\ BootRoom >= 4 /\ IfsRoom \in Nat /\ ifsSize <= IfsRoom /\ bootSize <= BootRoom
        /\ buf \in Seq(Cells) /\ Len(buf) = BootRoom + IfsRoom
    BY <1>1, RpiSizes, Rooms DEF RpiInv, Buffered, BootRoom, IfsRoom
  <1>3. /\ words \in Seq(Cells) /\ Len(words) = 2
        /\ words[1].at = BootRoom /\ words[2].at = IfsRoom
    <2>1. R!Word(BootRoom) \in Cells /\ R!Word(IfsRoom) \in Cells
      BY <1>2 DEF R!Word, Cells, Kinds
    <2>2. R!Word(BootRoom).at = BootRoom /\ R!Word(IfsRoom).at = IfsRoom
      BY DEF R!Word
    <2>3. QED
      BY <2>1, <2>2
  <1> HIDE DEF words
  <1>4. /\ buf' \in Seq(Cells) /\ Len(buf') = Len(buf)
        /\ \A i \in 1 .. Len(buf) : buf'[i] = IF i > 1 /\ i <= 3 THEN words[i - 1] ELSE buf[i]
    <2>1. /\ R!Store(1, words) \in Seq(Cells) /\ Len(R!Store(1, words)) = Len(buf)
          /\ \A hi \in Int : hi = 1 + Len(words) =>
               \A i \in 1 .. Len(buf) : R!Store(1, words)[i] =
                 IF i > 1 /\ i <= hi THEN words[i - 1] ELSE buf[i]
      BY <1>2, <1>3, 1 \in Nat, StoreCells, ZenonT(30)
    <2>2. 3 \in Int /\ 3 = 1 + Len(words)
      BY <1>3
    <2>3. QED
      BY <1>1, <2>1, <2>2
  <1>5. BootRoom' = BootRoom /\ IfsRoom' = IfsRoom
    BY <1>1 DEF BootRoom, IfsRoom
  <1>6. Buffered'
    BY <1>1, <1>4, <1>5 DEF RpiInv, Buffered
  <1>7. BootRead'
    <2>1. \A i \in 1 .. bootSize : i \notin {2, 3} => buf'[i] = buf[i]
      BY <1>2, <1>4
    <2>2. R!MagicHeader + 1 = 2 /\ R!MagicHeader + 2 = 3
      BY DEF R!MagicHeader
    <2>3. PICK v \in 0 .. MaxChanges : \A i \in 1 .. bootSize : i \notin {2, 3}
            => buf[i] = [of |-> "boot", version |-> v, at |-> i]
      BY <1>1, <2>2 DEF RpiInv, BootRead
    <2>4. \A i \in 1 .. bootSize : i \notin {2, 3}
            => buf'[i] = [of |-> "boot", version |-> v, at |-> i]
      BY <2>1, <2>3
    <2>5. QED
      BY <1>1, <2>2, <2>4 DEF BootRead
  <1>8. IfsRead'
    <2>1. \A i \in 1 .. ifsSize : buf'[BootRoom + i] = buf[BootRoom + i]
      <3> SUFFICES ASSUME NEW i \in 1 .. ifsSize PROVE buf'[BootRoom + i] = buf[BootRoom + i]
        OBVIOUS
      <3>1. PICK j \in 1 .. Len(buf) : j = BootRoom + i /\ j > 3
        BY <1>2
      <3>2. buf'[j] = buf[j]
        BY <1>4, <3>1
      <3>3. QED
        BY <3>1, <3>2
    <2>2. QED
      BY <1>1, <1>5, <2>1 DEF RpiInv, IfsRead
  <1>9. Patched'
    BY <1>1, <1>2, <1>3, <1>4, <1>5 DEF Patched
  <1>10. QED
    BY <1>1, <1>6, <1>7, <1>8, <1>9 DEF RpiInv, Steps, InputsOK, Written, R!FailureIsNoImage

LEMMA WriteStep ==
  ASSUME RpiInv, R!Write
  PROVE  RpiInv'
  <1>1. /\ step = "write" /\ step' = "success" /\ output' = buf
        /\ UNCHANGED <<bootSize, ifsSize, buf, boot, ifs, changes>>
    BY DEF R!Write, R!inputs
  <1>2. BootRoom' = BootRoom /\ IfsRoom' = IfsRoom
    BY <1>1 DEF BootRoom, IfsRoom
  <1>3. Buffered' /\ BootRead' /\ IfsRead' /\ Patched' /\ InputsOK'
    BY <1>1, <1>2 DEF RpiInv, Buffered, BootRead, IfsRead, Patched, InputsOK
  <1>4. QED
    BY <1>1, <1>3 DEF RpiInv, Steps, Written, R!FailureIsNoImage

(* an image cut short ends before its header says, or in its header *)
LEMMA WriteShortStep ==
  ASSUME RpiInv, R!WriteShort
  PROVE  RpiInv'
  <1>1. PICK n \in 0 .. Len(buf) - 1 : output' = SubSeq(buf, 1, n)
    BY DEF R!WriteShort
  <1>2. /\ step = "write" /\ step' = "failure"
        /\ UNCHANGED <<bootSize, ifsSize, buf, boot, ifs, changes>>
    BY DEF R!WriteShort, R!inputs
  <1>3. /\ buf \in Seq(Cells) /\ Len(buf) = BootRoom + IfsRoom
        /\ buf[2].at = BootRoom /\ buf[3].at = IfsRoom
    BY <1>2 DEF RpiInv, Buffered, Patched
  <1>4. Len(output') = n /\ \A i \in 1 .. n : output'[i] = buf[i]
    BY <1>1, <1>3, SubSeqProperties
  <1>5. R!FailureIsNoImage'
    <2>1. CASE n < 3
      BY <1>4, <2>1 DEF R!FailureIsNoImage, R!MagicHeader
    <2>2. CASE n >= 3
      <3>1. output'[2].at + output'[3].at > Len(output')
        BY <1>1, <1>3, <1>4, <2>2
      <3>2. QED
        BY <3>1 DEF R!FailureIsNoImage, R!MagicHeader
    <2>3. QED
      BY <1>1, <1>3, <2>1, <2>2
  <1>6. QED
    BY <1>2, <1>5 DEF RpiInv, Steps, InputsOK, Buffered, BootRead, IfsRead, Patched, Written

LEMMA FailStep ==
  ASSUME RpiInv, R!Fail
  PROVE  RpiInv'
  <1>1. /\ step \in {"open", "stat", "bootloader", "ifs"} /\ step' = "failure"
        /\ UNCHANGED <<bootSize, ifsSize, buf, boot, ifs, changes>>
        /\ output' = <<R!Old>> \/ output' = <<>>
    BY DEF R!Fail, R!inputs, RpiInv, Written
  <1>2. R!FailureIsNoImage'
    <2>1. CASE output' = <<R!Old>>
      BY <2>1 DEF R!FailureIsNoImage, R!Old
    <2>2. CASE output' = <<>>
      BY <2>2 DEF R!FailureIsNoImage, R!MagicHeader
    <2>3. QED
      BY <1>1, <2>1, <2>2
  <1>3. QED
    BY <1>1, <1>2 DEF RpiInv, Steps, InputsOK, Buffered, BootRead, IfsRead, Patched, Written

LEMMA InputChangesStep ==
  ASSUME RpiInv, R!InputChanges
  PROVE  RpiInv'
  <1>1. /\ step \notin {"success", "failure"}
        /\ UNCHANGED <<bootSize, ifsSize, buf, output, step>>
    BY DEF R!InputChanges
  <1>2. InputsOK'
    <2>1. changes \in 0 .. MaxChanges /\ changes < MaxChanges /\ changes' = changes + 1
      BY DEF R!InputChanges, RpiInv, InputsOK
    <2>2. changes' \in 0 .. MaxChanges
      BY <2>1, RpiSizes
    <2>3. CASE \E n \in BootSizes : boot' = [version |-> changes + 1, size |-> n] /\ ifs' = ifs
      BY <2>1, <2>2, <2>3 DEF RpiInv, InputsOK
    <2>4. CASE \E n \in IfsSizes : ifs' = [version |-> changes + 1, size |-> n] /\ boot' = boot
      BY <2>1, <2>2, <2>4 DEF RpiInv, InputsOK
    <2>5. QED
      BY <2>3, <2>4 DEF R!InputChanges
  <1>3. BootRoom' = BootRoom /\ IfsRoom' = IfsRoom
    BY <1>1 DEF BootRoom, IfsRoom
  <1>4. Buffered' /\ BootRead' /\ IfsRead' /\ Patched' /\ Written'
    BY <1>1, <1>3 DEF RpiInv, Buffered, BootRead, IfsRead, Patched, Written, R!FailureIsNoImage
  <1>5. QED
    BY <1>1, <1>2, <1>4 DEF RpiInv

LEMMA RpiStep == RpiInv /\ [ToolNext]_toolVars => RpiInv'
  <1> SUFFICES ASSUME RpiInv, [ToolNext]_toolVars PROVE RpiInv'
    OBVIOUS
  <1>1. CASE UNCHANGED rpiVars
    <2>1. UNCHANGED <<boot, ifs, changes, bootSize, ifsSize, buf, output, step>>
      BY <1>1 DEF rpiVars
    <2>2. BootRoom' = BootRoom /\ IfsRoom' = IfsRoom
      BY <2>1 DEF BootRoom, IfsRoom
    <2>3. QED
      BY <2>1, <2>2 DEF RpiInv, InputsOK, Buffered, BootRead, IfsRead, Patched, Written,
         R!FailureIsNoImage
  <1>2. CASE R!Next
    BY <1>2, OpenStep, StatStep, ReadBootloaderStep, ReadIfsStep, PatchStep, WriteStep,
       WriteShortStep, FailStep, InputChangesStep DEF R!Next
  <1>3. QED
    BY <1>1, <1>2 DEF ToolNext, toolVars

LEMMA RpiInvImplies == RpiInv => OutputIsImage
  <1> SUFFICES ASSUME RpiInv, step = "success" PROVE R!SuccessIsImage
    BY DEF RpiInv, Written, OutputIsImage, R!SuccessIsImage
  <1>1. /\ bootSize \in Nat /\ ifsSize \in Nat /\ BootRoom \in Nat
        /\ IfsRoom \in Nat /\ ifsSize <= IfsRoom /\ bootSize <= BootRoom
        /\ output \in Seq(Cells) /\ Len(output) = BootRoom + IfsRoom
        /\ output[2].at = BootRoom /\ output[3].at = IfsRoom /\ output = buf
    BY RpiSizes, Rooms DEF RpiInv, Buffered, Patched, Written, BootRoom, IfsRoom
  <1>2. PICK w \in 0 .. MaxChanges : \A i \in 1 .. ifsSize :
          output[BootRoom + i] = [of |-> "ifs", version |-> w, at |-> i]
    BY <1>1 DEF RpiInv, IfsRead
  <1>3. PICK v \in 0 .. MaxChanges : \A i \in 1 .. bootSize :
          i \notin {R!MagicHeader + 1, R!MagicHeader + 2}
            => output[i] = [of |-> "boot", version |-> v, at |-> i]
    BY <1>1 DEF RpiInv, BootRead
  <1>4. SubSeq(output, BootRoom + 1, BootRoom + ifsSize)
          = R!Contents("ifs", [version |-> w], ifsSize)
    <2>1. PICK lo \in Int, hi \in Int : lo = BootRoom + 1 /\ hi = BootRoom + ifsSize
      BY <1>1
    <2>2. SubSeq(output, lo, hi) = [i \in 1 .. ifsSize |-> output[lo + i - 1]]
      BY <1>1, <2>1
    <2>3. \A i \in 1 .. ifsSize : output[lo + i - 1] = [of |-> "ifs", version |-> w, at |-> i]
      <3> SUFFICES ASSUME NEW i \in 1 .. ifsSize
                   PROVE  output[lo + i - 1] = [of |-> "ifs", version |-> w, at |-> i]
        OBVIOUS
      <3>1. lo + i - 1 = BootRoom + i
        BY <1>1, <2>1
      <3>2. QED
        BY <1>2, <3>1
    <2>4. R!Contents("ifs", [version |-> w], ifsSize)
            = [i \in 1 .. ifsSize |-> [of |-> "ifs", version |-> w, at |-> i]]
      BY DEF R!Contents
    <2>5. QED
      BY <2>1, <2>2, <2>3, <2>4
  <1>5. \A i \in 1 .. bootSize : R!Contents("boot", [version |-> v], bootSize)[i]
          = [of |-> "boot", version |-> v, at |-> i]
    BY DEF R!Contents
  <1>6. \A i \in 1 .. bootSize : i \notin {R!MagicHeader + 1, R!MagicHeader + 2}
            => output[i] = R!Contents("boot", [version |-> v], bootSize)[i]
    BY <1>3, <1>5
  <1>7. output[R!MagicHeader + 1].at = BootRoom /\ output[R!MagicHeader + 2].at = IfsRoom
    BY <1>1 DEF R!MagicHeader
  <1>8. BootRoom + IfsRoom = Len(output) /\ IfsRoom >= ifsSize /\ BootRoom >= bootSize
    BY <1>1
  <1>9. QED
    BY <1>4, <1>6, <1>7, <1>8 DEF R!SuccessIsImage

(* The image createrpikernelimg reports is one: the words in its header, read
   where the bootloader reads them, lead to one version of the IFS, entire,
   with all of the bootloader in front; and what a failure leaves cannot be
   taken for an image.  Both hold for files of any size, replaced in any step. *)
THEOREM ImageOrNoImage == ToolSpec => []OutputIsImage
  <1>1. ToolInit => RpiInv
    BY RpiStart
  <1>2. RpiInv /\ [ToolNext]_toolVars => RpiInv'
    BY RpiStep
  <1>3. RpiInv => OutputIsImage
    BY RpiInvImplies
  <1>4. QED
    BY <1>1, <1>2, <1>3, PTL DEF ToolSpec

-----------------------------------------------------------------------------
(* The scripts.  The commands of the image target by their place: both runs of
   mk-kernel-img.sh copy N programs, and its second mkifs is number Second. *)

N == Cardinality(Programs)
Order == SetToSeq(Programs)
Second == 2 * N + 3

Table == Part("table", 0, sizes)

Progress ==
  /\ \A j \in 1 .. N : pc > N + 2 + j => staged[Order[j]] = host[Order[j]]
  /\ pc > Second => kernelImg = Holding(host)
  /\ pc > Second + 3 => fat = Holding(Holding(host))
  /\ pc > Second + 4 => ufs = Holding(host)
  /\ pc \in {Second + 6, Second + 7} => 0 \in DOMAIN img
  /\ pc = Second + 7 => img[0] = Table
  /\ pc = Second + 8 =>
       img = [i \in 0 .. sizes[1] |-> IF i = 0 THEN Table ELSE Part("fat", i, Holding(Holding(host)))]
  /\ pc > Second + 8 => Complete

BuildInv ==
  /\ pc \in Nat /\ host \in [Programs -> Nat] /\ staged \in [Programs -> Nat]
  /\ sizes \in Sizes
  /\ pc > 0 /\ ~ failed => Progress

(* every program has its cp *)
LEMMA OrderIs ==
  /\ N \in Nat /\ Order \in [1 .. N -> Programs]
  /\ \A p \in Programs : \E j \in 1 .. N : Order[j] = p
  <1>1. N \in Nat /\ ExistsBijection(1 .. N, Programs)
    BY FS_CardinalityType, ImageBuildAssumption DEF N
  <1>2. \E f : f \in [1 .. N -> Programs] /\ IsInjective(f)
    BY <1>1 DEF ExistsBijection, Bijection, Injection
  <1>3. Order \in [1 .. N -> Programs] /\ IsInjective(Order)
    BY <1>2 DEF Order, SetToSeq, N
  <1>4. Order \in Injection(1 .. N, Programs)
    BY <1>3 DEF Injection
  <1>5. Cardinality(1 .. N) = N
    BY <1>1, FS_Interval
  <1>6. Order \in Surjection(1 .. N, Programs)
    BY <1>4, <1>5, FS_Injection, ImageBuildAssumption DEF N
  <1>7. QED
    BY <1>1, <1>3, <1>6 DEF Surjection

Commands == {CopyOf(p) : p \in Programs} \cup
            {Do(c) : c \in {"mkifs", "make", "dd fat", "mkfs", "mcopy", "makefs",
                            "dd image", "sfdisk", "dd 1", "dd 2"}}

LEMMA KernelScriptIs ==
  /\ KernelScript \in Seq(Commands) /\ Len(KernelScript) = N + 1
  /\ \A i \in 1 .. N : KernelScript[i] = CopyOf(Order[i])
  /\ KernelScript[N + 1] = Do("mkifs")
  <1> DEFINE cps == [i \in 1 .. N |-> CopyOf(Order[i])]
             last == <<Do("mkifs")>>
  <1>1. \A i \in 1 .. N : CopyOf(Order[i]) \in Commands
    BY OrderIs DEF Commands
  <1>2. Do("mkifs") \in Commands
    BY DEF Commands
  <1>3. KernelScript = cps \o last
    BY DEF KernelScript, N, Order
  <1> HIDE DEF Commands
  <1>4. cps \in Seq(Commands) /\ Len(cps) = N /\ \A i \in 1 .. N : cps[i] = CopyOf(Order[i])
    BY <1>1, OrderIs
  <1>5. last \in Seq(Commands) /\ Len(last) = 1 /\ last[1] = Do("mkifs")
    BY <1>2
  <1> HIDE DEF cps, last
  <1>6. cps \in Seq(Commands) /\ last \in Seq(Commands)
    BY <1>4, <1>5
  <1>7. cps \o last \in Seq(Commands) /\ Len(cps \o last) = Len(cps) + Len(last)
    BY ONLY <1>6
  <1>8. ASSUME NEW i \in 1 .. N PROVE (cps \o last)[i] = cps[i]
    BY <1>4, <1>5, <1>6, <1>8, OrderIs
  <1>9. (cps \o last)[N + 1] = last[1]
    <2>1. /\ Len(cps) + 1 \in 1 .. Len(cps) + Len(last) /\ ~ (Len(cps) + 1 <= Len(cps))
          /\ N + 1 = Len(cps) + 1 /\ (Len(cps) + 1) - Len(cps) = 1
      BY <1>4, <1>5, OrderIs
    <2>2. (cps \o last)[Len(cps) + 1] = last[(Len(cps) + 1) - Len(cps)]
      BY ONLY <1>6, <2>1
    <2>3. QED
      BY <2>1, <2>2
  <1>10. QED
    BY <1>3, <1>4, <1>5, <1>7, <1>8, <1>9

LEMMA Joined ==
  ASSUME NEW S, NEW s \in Seq(S), NEW t \in Seq(S)
  PROVE  /\ s \o t \in Seq(S) /\ Len(s \o t) = Len(s) + Len(t)
         /\ Len(s) \in Nat /\ Len(t) \in Nat
         /\ \A i \in 1 .. Len(s) : (s \o t)[i] = s[i]
         /\ \A i \in 1 .. Len(t) : (s \o t)[Len(s) + i] = t[i]
  <1>1. ASSUME NEW i \in 1 .. Len(t) PROVE (s \o t)[Len(s) + i] = t[i]
    <2>1. /\ Len(s) + i \in 1 .. Len(s) + Len(t) /\ ~ (Len(s) + i <= Len(s))
          /\ (Len(s) + i) - Len(s) = i
      OBVIOUS
    <2>2. (s \o t)[Len(s) + i] = t[(Len(s) + i) - Len(s)]
      BY <2>1
    <2>3. QED
      BY <2>1, <2>2
  <1>2. QED
    BY <1>1

(* each command of the image target *)
LEMMA ImageIs ==
  /\ Len(Image) = Second + 8
  /\ \A i \in 1 .. N : Image[i].do = "cp"
  /\ Image[N + 1].do = "mkifs" /\ Image[N + 2].do = "make"
  /\ \A j \in 1 .. N : Image[N + 2 + j] = CopyOf(Order[j])
  /\ Image[Second].do = "mkifs"
  /\ Image[Second + 1].do = "dd fat" /\ Image[Second + 2].do = "mkfs"
  /\ Image[Second + 3].do = "mcopy" /\ Image[Second + 4].do = "makefs"
  /\ Image[Second + 5].do = "dd image" /\ Image[Second + 6].do = "sfdisk"
  /\ Image[Second + 7].do = "dd 1" /\ Image[Second + 8].do = "dd 2"
  <1> DEFINE ks == KernelScript
             mk == <<Do("make")>>
             cs == << Do("dd fat"), Do("mkfs"), Do("mcopy"), Do("makefs"),
                      Do("dd image"), Do("sfdisk"), Do("dd 1"), Do("dd 2") >>
             front == ks \o mk
             back == ks \o cs
  <1>1. /\ ks \in Seq(Commands) /\ Len(ks) = N + 1 /\ ks[N + 1] = Do("mkifs")
        /\ \A i \in 1 .. N : ks[i] = CopyOf(Order[i])
    BY KernelScriptIs
  <1>2. mk \in Seq(Commands) /\ Len(mk) = 1 /\ mk[1] = Do("make")
    BY DEF Commands
  <1>3. /\ cs \in Seq(Commands) /\ Len(cs) = 8
        /\ cs[1] = Do("dd fat") /\ cs[2] = Do("mkfs") /\ cs[3] = Do("mcopy")
        /\ cs[4] = Do("makefs") /\ cs[5] = Do("dd image") /\ cs[6] = Do("sfdisk")
        /\ cs[7] = Do("dd 1") /\ cs[8] = Do("dd 2")
    BY DEF Commands
  <1>4. Image = front \o back
    <2>1. Image = (ks \o mk) \o (ks \o cs)
      BY DEF Image, SdCardScript
    <2>2. QED
      BY <2>1
  <1> HIDE DEF ks, mk, cs
  <1>5. ks \in Seq(Commands) /\ mk \in Seq(Commands) /\ cs \in Seq(Commands)
    BY <1>1, <1>2, <1>3
  <1>6. /\ front \in Seq(Commands) /\ Len(front) = Len(ks) + Len(mk)
        /\ \A i \in 1 .. Len(ks) : front[i] = ks[i]
        /\ \A i \in 1 .. Len(mk) : front[Len(ks) + i] = mk[i]
    BY ONLY <1>5, Joined
  <1>7. /\ back \in Seq(Commands) /\ Len(back) = Len(ks) + Len(cs)
        /\ \A i \in 1 .. Len(ks) : back[i] = ks[i]
        /\ \A i \in 1 .. Len(cs) : back[Len(ks) + i] = cs[i]
    BY ONLY <1>5, Joined
  <1> HIDE DEF front, back
  <1>8. front \in Seq(Commands) /\ back \in Seq(Commands)
    BY <1>6, <1>7
  <1>9. /\ Len(front \o back) = Len(front) + Len(back)
        /\ \A i \in 1 .. Len(front) : (front \o back)[i] = front[i]
        /\ \A i \in 1 .. Len(back) : (front \o back)[Len(front) + i] = back[i]
    BY ONLY <1>8, Joined
  <1>10. N \in Nat /\ Second = N + 2 + (N + 1) /\ Len(ks) = N + 1 /\ Len(mk) = 1 /\ Len(cs) = 8
    <2>1. N \in Nat
      BY OrderIs
    <2>2. Second = N + 2 + (N + 1)
      BY <2>1 DEF Second
    <2>3. QED
      BY <1>1, <1>2, <1>3, <2>1, <2>2
  <1>11. Len(front) = N + 2 /\ Len(back) = N + 9
    BY <1>6, <1>7, <1>10
  <1>12. /\ \A i \in 1 .. N : Image[i] = front[i] /\ front[i] = ks[i]
         /\ Image[N + 1] = front[N + 1] /\ front[N + 1] = ks[N + 1]
         /\ Image[N + 2] = front[N + 2]
    <2>1. /\ \A i \in 1 .. N + 2 : (front \o back)[i] = front[i]
          /\ \A i \in 1 .. N + 1 : front[i] = ks[i]
      BY <1>6, <1>9, <1>10, <1>11
    <2>2. \A i \in 1 .. N + 2 : Image[i] = front[i]
      BY <1>4, <2>1
    <2>3. /\ \A i \in 1 .. N : i \in 1 .. N + 2 /\ i \in 1 .. N + 1
          /\ N + 1 \in 1 .. N + 1 /\ N + 1 \in 1 .. N + 2 /\ N + 2 \in 1 .. N + 2
      BY <1>10
    <2>4. QED
      BY <2>1, <2>2, <2>3
  <1>13. front[N + 2] = mk[1]
    <2>1. 1 \in 1 .. Len(mk) /\ Len(ks) + 1 = N + 2
      BY <1>10
    <2>2. front[Len(ks) + 1] = mk[1]
      BY <1>6, <2>1
    <2>3. QED
      BY <2>1, <2>2
  <1>14. \A j \in 1 .. N + 9 : Image[N + 2 + j] = back[j]
    <2>1. ASSUME NEW j \in 1 .. N + 9 PROVE Image[N + 2 + j] = back[j]
      <3>1. (front \o back)[Len(front) + j] = back[j]
        BY <1>9, <1>11
      <3>2. QED
        BY <1>4, <1>11, <3>1
    <2>2. QED
      BY <2>1
  <1>15. /\ \A i \in 1 .. N + 1 : back[i] = ks[i]
         /\ \A i \in 1 .. 8 : back[N + 1 + i] = cs[i]
    BY <1>7, <1>10
  <1>16. /\ \A j \in 1 .. N : Image[N + 2 + j] = CopyOf(Order[j])
         /\ Image[Second] = Do("mkifs")
    <2>1. \A j \in 1 .. N + 1 : j \in 1 .. N + 9
      BY <1>10
    <2>2. \A j \in 1 .. N + 1 : Image[N + 2 + j] = ks[j]
      BY <1>14, <1>15, <2>1
    <2>3. Image[N + 2 + (N + 1)] = ks[N + 1]
      BY <1>10, <2>2
    <2>4. \A j \in 1 .. N : Image[N + 2 + j] = ks[j]
      BY <1>10, <2>2
    <2>5. QED
      BY <1>1, <1>10, <2>3, <2>4
  <1>17. \A i \in 1 .. 8 : Image[Second + i] = cs[i]
    <2>1. ASSUME NEW i \in 1 .. 8 PROVE Image[Second + i] = cs[i]
      <3>1. PICK j \in 1 .. N + 9 : j = N + 1 + i
        BY <1>10
      <3>2. Image[N + 2 + j] = back[j] /\ back[N + 1 + i] = cs[i]
        BY <1>14, <1>15
      <3>3. N + 2 + j = Second + i
        BY <1>10, <3>1
      <3>4. QED
        BY <3>1, <3>2, <3>3
    <2>2. QED
      BY <2>1
  <1>18. Len(Image) = Second + 8
    BY <1>4, <1>9, <1>10, <1>11
  <1>19. /\ \A i \in 1 .. N : Image[i].do = "cp"
         /\ Image[N + 1].do = "mkifs" /\ Image[N + 2].do = "make"
    <2>1. \A i \in 1 .. N : Image[i] = CopyOf(Order[i])
      BY <1>1, <1>12
    <2>2. Image[N + 1] = Do("mkifs") /\ Image[N + 2] = Do("make")
      BY <1>1, <1>2, <1>12, <1>13
    <2>3. \A p : CopyOf(p).do = "cp"
      BY DEF CopyOf
    <2>4. \A c : Do(c).do = c
      BY DEF Do
    <2>5. QED
      BY <2>1, <2>2, <2>3, <2>4
  <1>20. /\ Image[Second + 1] = cs[1] /\ Image[Second + 2] = cs[2]
         /\ Image[Second + 3] = cs[3] /\ Image[Second + 4] = cs[4]
         /\ Image[Second + 5] = cs[5] /\ Image[Second + 6] = cs[6]
         /\ Image[Second + 7] = cs[7] /\ Image[Second + 8] = cs[8]
    BY <1>17
  <1>21. QED
    <2>1. \A c : Do(c).do = c
      BY DEF Do
    <2>2. /\ Image[Second].do = "mkifs"
          /\ Image[Second + 1].do = "dd fat" /\ Image[Second + 2].do = "mkfs"
          /\ Image[Second + 3].do = "mcopy" /\ Image[Second + 4].do = "makefs"
      BY <1>3, <1>16, <1>20, <2>1, ZenonT(30)
    <2>3. /\ Image[Second + 5].do = "dd image" /\ Image[Second + 6].do = "sfdisk"
          /\ Image[Second + 7].do = "dd 1" /\ Image[Second + 8].do = "dd 2"
      BY <1>3, <1>20, <2>1, ZenonT(30)
    <2>4. QED
      BY <1>16, <1>18, <1>19, <2>2, <2>3

(* the place of a command that is carried out *)
LEMMA CommandAt ==
  ASSUME pc \in Nat, NEW do, Command(do)
  PROVE  /\ pc \in 1 .. Second + 8
         /\ do = "cp" => \/ pc \in 1 .. N
                         \/ \E j \in 1 .. N : pc = N + 2 + j /\ Image[pc].program = Order[j]
         /\ do = "mkifs" => pc = N + 1 \/ pc = Second
         /\ do = "make" => pc = N + 2
         /\ do = "dd fat" => pc = Second + 1
         /\ do = "mkfs" => pc = Second + 2
         /\ do = "mcopy" => pc = Second + 3
         /\ do = "makefs" => pc = Second + 4
         /\ do = "dd image" => pc = Second + 5
         /\ do = "sfdisk" => pc = Second + 6
         /\ do = "dd 1" => pc = Second + 7
         /\ do = "dd 2" => pc = Second + 8
  <1>1. N \in Nat /\ Second = N + 2 + (N + 1)
    BY OrderIs DEF Second
  <1>2. pc \in 1 .. Second + 8 /\ Image[pc].do = do
    <2>1. Len(Image) = Second + 8
      BY ImageIs
    <2>2. pc > 0 /\ pc <= Len(Image) /\ Image[pc].do = do
      BY DEF Command
    <2>3. QED
      BY <1>1, <2>1, <2>2
  <1>3. \/ pc \in 1 .. N \/ pc = N + 1 \/ pc = N + 2
        \/ \E j \in 1 .. N : pc = N + 2 + j
        \/ pc = Second \/ pc = Second + 1 \/ pc = Second + 2 \/ pc = Second + 3
        \/ pc = Second + 4 \/ pc = Second + 5 \/ pc = Second + 6 \/ pc = Second + 7
        \/ pc = Second + 8
    <2>1. CASE pc > N + 2 /\ pc <= N + 2 + N
      <3>1. pc - (N + 2) \in 1 .. N /\ pc = N + 2 + (pc - (N + 2))
        BY <1>1, <1>2, <2>1
      <3>2. QED
        BY <3>1
    <2>2. CASE pc <= N + 2 \/ pc > N + 2 + N
      BY <1>1, <1>2, <2>2
    <2>3. QED
      BY <1>1, <1>2, <2>1, <2>2
  <1>4. CASE pc \in 1 .. N
    BY <1>2, <1>4, ImageIs
  <1>5. ASSUME NEW j \in 1 .. N, pc = N + 2 + j
        PROVE  do = "cp" /\ Image[pc].program = Order[j]
    <2>1. Image[pc] = CopyOf(Order[j])
      BY <1>5, ImageIs
    <2>2. CopyOf(Order[j]).do = "cp" /\ CopyOf(Order[j]).program = Order[j]
      BY DEF CopyOf
    <2>3. QED
      BY <1>2, <2>1, <2>2
  <1>6. CASE \E j \in 1 .. N : pc = N + 2 + j
    BY <1>2, <1>5, <1>6
  <1>7. CASE pc \in {N + 1, N + 2, Second, Second + 1, Second + 2, Second + 3, Second + 4}
    BY <1>2, <1>7, ImageIs
  <1>8. CASE pc \in {Second + 5, Second + 6, Second + 7, Second + 8}
    BY <1>2, <1>8, ImageIs
  <1>9. QED
    BY <1>3, <1>4, <1>6, <1>7, <1>8

LEMMA SizesAre ==
  ASSUME NEW s \in Sizes
  PROVE  s[1] \in Nat /\ s[1] > 0 /\ s[2] \in Nat /\ s[2] > 0
  BY ImageBuildAssumption

LEMMA BuildStart == ToolInit => BuildInv
  BY ImageBuildAssumption DEF ToolInit, Init, BuildInv, Absent

(* a partition put behind what the image has in front of it *)
LEMMA DdIs ==
  ASSUME NEW file, NEW seek \in Nat, NEW n \in Nat, NEW of, NEW data
  PROVE  Dd(file, seek, Parts(of, n, data)) =
           [i \in 0 .. seek + n - 1 |->
              IF i >= seek THEN Part(of, i - seek + 1, data)
              ELSE IF i \in DOMAIN file THEN file[i] ELSE Zero]
  <1>1. Len(Parts(of, n, data)) = n
    BY DEF Parts
  <1>2. \A i \in 0 .. seek + n - 1 : i >= seek =>
          Parts(of, n, data)[i - seek + 1] = Part(of, i - seek + 1, data)
    <2> SUFFICES ASSUME NEW i \in 0 .. seek + n - 1, i >= seek
                 PROVE  Parts(of, n, data)[i - seek + 1] = Part(of, i - seek + 1, data)
      OBVIOUS
    <2>1. i - seek + 1 \in 1 .. n
      OBVIOUS
    <2>2. QED
      BY <2>1 DEF Parts
  <1>3. QED
    BY <1>1, <1>2 DEF Dd

(* the partitions as the last two commands leave them *)
LEMMA FirstPart ==
  ASSUME sizes \in Sizes, 0 \in DOMAIN img, img[0] = Table, NEW data
  PROVE  Dd(img, FirstPartition, Parts("fat", sizes[1], data)) =
           [i \in 0 .. sizes[1] |-> IF i = 0 THEN Table ELSE Part("fat", i, data)]
  <1>1. PICK a \in Nat : a = sizes[1]
    BY SizesAre
  <1>2. Dd(img, 1, Parts("fat", a, data)) =
          [i \in 0 .. 1 + a - 1 |->
             IF i >= 1 THEN Part("fat", i - 1 + 1, data)
             ELSE IF i \in DOMAIN img THEN img[i] ELSE Zero]
    BY DdIs
  <1>3. 1 + a - 1 = a
    OBVIOUS
  <1>4. \A i \in 0 .. a :
          (IF i >= 1 THEN Part("fat", i - 1 + 1, data)
           ELSE IF i \in DOMAIN img THEN img[i] ELSE Zero)
          = IF i = 0 THEN Table ELSE Part("fat", i, data)
    <2> SUFFICES ASSUME NEW i \in 0 .. a
                 PROVE  (IF i >= 1 THEN Part("fat", i - 1 + 1, data)
                         ELSE IF i \in DOMAIN img THEN img[i] ELSE Zero)
                        = IF i = 0 THEN Table ELSE Part("fat", i, data)
      OBVIOUS
    <2>1. CASE i = 0
      BY <2>1
    <2>2. CASE i # 0
      <3>1. i >= 1 /\ i - 1 + 1 = i
        BY <2>2
      <3>2. QED
        BY <2>2, <3>1
    <2>3. QED
      BY <2>1, <2>2
  <1>5. QED
    BY <1>1, <1>2, <1>3, <1>4 DEF FirstPartition

LEMMA SecondPart ==
  ASSUME sizes \in Sizes, NEW fst, NEW snd,
         img = [i \in 0 .. sizes[1] |-> IF i = 0 THEN Table ELSE Part("fat", i, fst)]
  PROVE  Dd(img, FirstPartition + sizes[1], Parts("ufs", sizes[2], snd)) =
           [i \in 0 .. sizes[1] + sizes[2] |->
              IF i = 0 THEN Table
              ELSE IF i <= sizes[1] THEN Part("fat", i, fst)
              ELSE Part("ufs", i - sizes[1], snd)]
  <1>1. PICK a, b \in Nat : a = sizes[1] /\ b = sizes[2]
    BY SizesAre
  <1>2. PICK s \in Nat : s = 1 + a
    OBVIOUS
  <1>3. Dd(img, s, Parts("ufs", b, snd)) =
          [i \in 0 .. s + b - 1 |->
             IF i >= s THEN Part("ufs", i - s + 1, snd)
             ELSE IF i \in DOMAIN img THEN img[i] ELSE Zero]
    <2>1. \A file : Dd(file, s, Parts("ufs", b, snd)) =
            [i \in 0 .. s + b - 1 |->
               IF i >= s THEN Part("ufs", i - s + 1, snd)
               ELSE IF i \in DOMAIN file THEN file[i] ELSE Zero]
      BY DdIs
    <2>2. QED
      BY ONLY <2>1, Zenon
  <1>4. s + b - 1 = a + b
    BY <1>2
  <1>5. \A i \in 0 .. a + b :
          (IF i >= s THEN Part("ufs", i - s + 1, snd)
           ELSE IF i \in DOMAIN img THEN img[i] ELSE Zero)
          = IF i = 0 THEN Table
            ELSE IF i <= a THEN Part("fat", i, fst)
            ELSE Part("ufs", i - a, snd)
    <2> SUFFICES ASSUME NEW i \in 0 .. a + b
                 PROVE  (IF i >= s THEN Part("ufs", i - s + 1, snd)
                         ELSE IF i \in DOMAIN img THEN img[i] ELSE Zero)
                        = IF i = 0 THEN Table
                          ELSE IF i <= a THEN Part("fat", i, fst)
                          ELSE Part("ufs", i - a, snd)
      OBVIOUS
    <2>1. CASE i <= a
      <3>1. ~ (i >= s) /\ i \in 0 .. a
        BY <1>2, <2>1
      <3>2. i \in DOMAIN img /\ img[i] = IF i = 0 THEN Table ELSE Part("fat", i, fst)
        BY <1>1, <3>1
      <3>3. QED
        BY <2>1, <3>1, <3>2
    <2>2. CASE ~ (i <= a)
      <3>1. i >= s /\ i - s + 1 = i - a /\ i # 0
        BY <1>2, <2>2
      <3>2. QED
        BY <2>2, <3>1
    <2>3. QED
      BY <2>1, <2>2
  <1>6. FirstPartition + sizes[1] = s
    BY <1>1, <1>2 DEF FirstPartition
  <1>7. QED
    BY <1>1, <1>3, <1>4, <1>5, <1>6

LEMMA Places == N \in Nat /\ Second \in Nat /\ Second = N + 2 + (N + 1)
  BY OrderIs DEF Second

(* before the second mkifs every program has been copied *)
LEMMA StagedWhole ==
  ASSUME BuildInv, Progress, pc >= Second
  PROVE  staged = host
  <1>1. \A j \in 1 .. N : pc > N + 2 + j
    BY Places DEF BuildInv
  <1>2. \A j \in 1 .. N : staged[Order[j]] = host[Order[j]]
    BY <1>1 DEF Progress
  <1>3. \A p \in Programs : staged[p] = host[p]
    BY <1>2, OrderIs
  <1>4. QED
    BY <1>3 DEF BuildInv

LEMMA CpStep == BuildInv /\ Cp => BuildInv'
  <1> SUFFICES ASSUME BuildInv, Cp PROVE BuildInv'
    OBVIOUS
  <1>1. /\ pc \in Nat /\ pc' = pc + 1 /\ pc' \in Nat /\ pc > 0 /\ Command("cp")
        /\ host' = host /\ sizes' = sizes /\ failed' = failed
        /\ kernelImg' = kernelImg /\ fat' = fat /\ ufs' = ufs /\ img' = img
        /\ staged' = [staged EXCEPT ![Image[pc].program] = host[Image[pc].program]]
    BY DEF Cp, Succeed, BuildInv, Command
  <1>2. \/ pc \in 1 .. N
        \/ \E j \in 1 .. N : pc = N + 2 + j /\ Image[pc].program = Order[j]
    BY <1>1, CommandAt
  <1>3. staged' \in [Programs -> Nat]
    BY <1>1 DEF BuildInv
  <1>4. ASSUME ~ failed PROVE Progress'
    <2>1. pc + 1 <= Second /\ pc' <= Second
      BY <1>1, <1>2, Places
    <2>2. \A j \in 1 .. N : pc' > N + 2 + j => staged'[Order[j]] = host'[Order[j]]
      <3> SUFFICES ASSUME NEW j \in 1 .. N, pc' > N + 2 + j
                   PROVE  staged'[Order[j]] = host[Order[j]]
        BY <1>1
      <3>1. PICK k \in 1 .. N : pc = N + 2 + k /\ Image[pc].program = Order[k]
        BY <1>1, <1>2, Places
      <3>2. CASE Order[j] = Order[k]
        BY <1>1, <3>1, <3>2, OrderIs DEF BuildInv
      <3>3. CASE Order[j] # Order[k]
        <4>1. j # k
          BY <3>3
        <4>2. pc > N + 2 + j
          BY <1>1, <3>1, <4>1, Places
        <4>3. staged[Order[j]] = host[Order[j]]
          BY <1>1, <1>4, <4>2 DEF BuildInv, Progress
        <4>4. QED
          BY <1>1, <3>1, <3>3, <4>3, OrderIs DEF BuildInv
      <3>4. QED
        BY <3>2, <3>3
    <2>3. QED
      BY <2>1, <2>2, Places, <1>1 DEF Progress
  <1>5. QED
    BY <1>1, <1>3, <1>4 DEF BuildInv

LEMMA MkIfsStep == BuildInv /\ MkIfs => BuildInv'
  <1> SUFFICES ASSUME BuildInv, MkIfs PROVE BuildInv'
    OBVIOUS
  <1>1. /\ pc \in Nat /\ pc' = pc + 1 /\ pc' \in Nat /\ pc > 0 /\ Command("mkifs")
        /\ host' = host /\ sizes' = sizes /\ failed' = failed
        /\ staged' = staged /\ fat' = fat /\ ufs' = ufs /\ img' = img
        /\ kernelImg' = Holding(staged)
    BY DEF MkIfs, Succeed, BuildInv, Command
  <1>2. pc = N + 1 \/ pc = Second
    BY <1>1, CommandAt
  <1>3. ASSUME ~ failed PROVE Progress'
    <2>1. Progress
      BY <1>1, <1>3 DEF BuildInv
    <2>2. CASE pc = N + 1
      <3>1. pc' = N + 2
        BY <1>1, <2>2, Places
      <3>2. QED
        BY <3>1, Places, SMTT(30) DEF Progress
    <2>3. CASE pc = Second
      <3>1. staged = host
        BY <2>1, <2>3, Places, StagedWhole
      <3>2. pc' = Second + 1
        BY <1>1, <2>3
      <3>3. QED
        BY <1>1, <3>1, <3>2, Places DEF Progress
    <2>4. QED
      BY <1>2, <2>2, <2>3
  <1>4. QED
    BY <1>1, <1>3 DEF BuildInv

LEMMA MakeStep == BuildInv /\ Make => BuildInv'
  <1> SUFFICES ASSUME BuildInv, Make PROVE BuildInv'
    OBVIOUS
  <1>1. /\ pc \in Nat /\ pc' \in {0, pc + 1} /\ pc' \in Nat /\ pc > 0 /\ Command("make")
        /\ host' = host /\ sizes' = sizes /\ staged' = staged
    BY DEF Make, files, BuildInv, Command
  <1>2. pc = N + 2
    BY <1>1, CommandAt
  <1>3. pc' <= N + 3
    BY <1>1, <1>2, Places
  <1>4. Progress'
    BY <1>1, <1>3, Places DEF Progress
  <1>5. QED
    BY <1>1, <1>4 DEF BuildInv

(* a command that failed, and whatever it has changed *)
LEMMA FailedStep ==
  ASSUME BuildInv, Fail, staged' = staged
  PROVE  BuildInv'
  BY DEF BuildInv, Fail

(* the commands behind the second mkifs *)
LEMMA LaterStep ==
  ASSUME BuildInv, Succeed, staged' = staged, kernelImg' = kernelImg, pc > Second,
         ~ failed /\ Progress =>
           /\ pc > Second + 2 => fat' = Holding(Holding(host))
           /\ pc > Second + 3 => ufs' = Holding(host)
           /\ pc \in {Second + 5, Second + 6} => 0 \in DOMAIN img'
           /\ pc = Second + 6 => img'[0] = Table
           /\ pc = Second + 7 => img' =
                [i \in 0 .. sizes[1] |->
                   IF i = 0 THEN Table ELSE Part("fat", i, Holding(Holding(host)))]
           /\ pc > Second + 7 => Complete'
  PROVE  BuildInv'
  <1>1. /\ pc \in Nat /\ pc' = pc + 1 /\ pc' \in Nat /\ pc > 0
        /\ host' = host /\ sizes' = sizes /\ failed' = failed /\ Table' = Table
    BY Places DEF Succeed, BuildInv, Table
  <1>2. ASSUME ~ failed PROVE Progress'
    <2>1. Progress
      BY <1>1, <1>2 DEF BuildInv
    <2>2. \A j \in 1 .. N : pc > N + 2 + j
      BY <1>1, Places
    <2>3. QED
      BY <1>1, <1>2, <2>1, <2>2, Places DEF Progress
  <1>3. QED
    BY <1>1, <1>2 DEF BuildInv

LEMMA PartitionsStep == BuildInv /\ (DdFat \/ Mkfs \/ Mcopy \/ MakeFs) => BuildInv'
  <1> SUFFICES ASSUME BuildInv, DdFat \/ Mkfs \/ Mcopy \/ MakeFs PROVE BuildInv'
    OBVIOUS
  <1>1. pc \in Nat /\ staged' = staged
    BY DEF BuildInv, DdFat, Mkfs, Mcopy, MakeFs
  <1>2. CASE Fail
    BY <1>1, <1>2, FailedStep
  <1>3. CASE DdFat /\ Succeed
    <2>1. pc = Second + 1 /\ kernelImg' = kernelImg
      BY <1>1, <1>3, CommandAt DEF DdFat
    <2>2. QED
      BY <1>1, <1>3, <2>1, LaterStep, Places
  <1>4. CASE Mkfs
    <2>1. pc = Second + 2 /\ kernelImg' = kernelImg /\ Succeed
      BY <1>1, <1>4, CommandAt DEF Mkfs
    <2>2. QED
      BY <1>1, <2>1, LaterStep, Places
  <1>5. CASE Mcopy
    <2>1. pc = Second + 3 /\ kernelImg' = kernelImg /\ fat' = Holding(kernelImg) /\ Succeed
      BY <1>1, <1>5, CommandAt DEF Mcopy
    <2>2. Progress => fat' = Holding(Holding(host))
      BY <2>1, Places DEF Progress
    <2>3. QED
      BY <1>1, <2>1, <2>2, LaterStep, Places
  <1>6. CASE MakeFs /\ Succeed
    <2>1. pc = Second + 4 /\ kernelImg' = kernelImg /\ fat' = fat
      BY <1>1, <1>6, CommandAt DEF MakeFs
    <2>2. ufs' = Holding(host)
      <3>1. CASE Succeed /\ ufs' = Holding(host)
        BY <3>1
      <3>2. CASE Fail
        BY <1>1, <1>6, <3>2 DEF Succeed, Fail
      <3>3. QED
        BY <1>6, <3>1, <3>2 DEF MakeFs
    <2>3. Progress => fat' = Holding(Holding(host))
      BY <2>1, Places DEF Progress
    <2>4. QED
      BY <1>1, <1>6, <2>1, <2>2, <2>3, LaterStep, Places
  <1>7. QED
    BY <1>2, <1>3, <1>4, <1>5, <1>6 DEF DdFat, MakeFs

LEMMA DiskStep == BuildInv /\ (DdImage \/ Sfdisk \/ DdPart1 \/ DdPart2) => BuildInv'
  <1> SUFFICES ASSUME BuildInv, DdImage \/ Sfdisk \/ DdPart1 \/ DdPart2 PROVE BuildInv'
    OBVIOUS
  <1>1. /\ pc \in Nat /\ staged' = staged /\ kernelImg' = kernelImg
        /\ fat' = fat /\ ufs' = ufs /\ Succeed /\ sizes \in Sizes
        /\ sizes' = sizes /\ host' = host
    BY DEF BuildInv, DdImage, Sfdisk, DdPart1, DdPart2, Succeed
  <1>2. Progress => /\ pc > Second + 3 => fat' = Holding(Holding(host))
                    /\ pc > Second + 4 => ufs' = Holding(host)
    BY <1>1 DEF Progress
  <1>3. CASE DdImage
    <2>1. pc = Second + 5
      BY <1>1, <1>3, CommandAt DEF DdImage
    <2>2. 0 \in DOMAIN img'
      <3>1. PICK hi \in Nat : hi = FirstPartition + sizes[1] + sizes[2] - 1
        BY <1>1, SizesAre DEF FirstPartition
      <3>2. img' = [i \in 0 .. hi |-> Zero]
        BY <1>3, <3>1 DEF DdImage
      <3>3. QED
        BY <3>2
    <2>3. QED
      BY <1>1, <1>2, <2>1, <2>2, LaterStep, Places
  <1>4. CASE Sfdisk
    <2>1. pc = Second + 6 /\ img' = [img EXCEPT ![0] = Table]
      BY <1>1, <1>4, CommandAt DEF Sfdisk, Table
    <2>2. Progress => 0 \in DOMAIN img' /\ img'[0] = Table
      <3>1. Progress => 0 \in DOMAIN img
        BY <2>1, Places DEF Progress
      <3>2. QED
        BY <2>1, <3>1
    <2>3. QED
      BY <1>1, <1>2, <2>1, <2>2, LaterStep, Places
  <1>5. CASE DdPart1
    <2>1. pc = Second + 7 /\ img' = Dd(img, FirstPartition, Parts("fat", sizes[1], fat))
      BY <1>1, <1>5, CommandAt DEF DdPart1
    <2>2. Progress => 0 \in DOMAIN img /\ img[0] = Table /\ fat = Holding(Holding(host))
      BY <2>1, Places DEF Progress
    <2>3. Progress => img' = [i \in 0 .. sizes[1] |->
                                IF i = 0 THEN Table ELSE Part("fat", i, Holding(Holding(host)))]
      BY <1>1, <2>1, <2>2, FirstPart
    <2>4. QED
      BY <1>1, <1>2, <2>1, <2>3, LaterStep, Places
  <1>6. CASE DdPart2
    <2>1. pc = Second + 8
      BY <1>1, <1>6, CommandAt DEF DdPart2
    <2>2. img' = Dd(img, FirstPartition + sizes[1], Parts("ufs", sizes[2], ufs))
      BY <1>6 DEF DdPart2
    <2>3. Progress => /\ ufs = Holding(host)
                      /\ img = [i \in 0 .. sizes[1] |->
                           IF i = 0 THEN Table ELSE Part("fat", i, Holding(Holding(host)))]
      BY <2>1, Places DEF Progress
    <2>4. Progress => img' =
            [i \in 0 .. sizes[1] + sizes[2] |->
               IF i = 0 THEN Table
               ELSE IF i <= sizes[1] THEN Part("fat", i, Holding(Holding(host)))
               ELSE Part("ufs", i - sizes[1], Holding(host))]
      BY <1>1, <2>2, <2>3, SecondPart
    <2>5. Progress => Complete'
      BY <1>1, <2>4 DEF Complete, Table
    <2>6. QED
      BY <1>1, <1>2, <2>1, <2>5, LaterStep, Places
  <1>7. QED
    BY <1>3, <1>4, <1>5, <1>6

LEMMA BuildStep == BuildInv /\ [ToolNext]_toolVars => BuildInv'
  <1> SUFFICES ASSUME BuildInv, [ToolNext]_toolVars PROVE BuildInv'
    OBVIOUS
  <1>1. CASE UNCHANGED vars
    BY <1>1 DEF vars, files, BuildInv, Progress, Complete, Table
  <1>2. CASE HostChanges
    <2>1. pc' = 0 /\ sizes' = sizes /\ staged' = staged /\ host' \in [Programs -> Nat]
      BY <1>2, ImageBuildAssumption DEF HostChanges, files, BuildInv
    <2>2. QED
      BY <2>1 DEF BuildInv
  <1>3. CASE Begin
    <2>1. pc' = 1 /\ sizes' \in Sizes /\ staged' = staged /\ host' = host
      BY <1>3 DEF Begin, files
    <2>2. Progress'
      BY <2>1, Places DEF Progress
    <2>3. QED
      BY <2>1, <2>2 DEF BuildInv
  <1>4. CASE MkIfsFails
    BY <1>4, FailedStep DEF MkIfsFails
  <1>5. CASE CommandFails
    BY <1>5, FailedStep DEF CommandFails, files
  <1>6. CASE End
    BY <1>6 DEF End, files, BuildInv
  <1>7. CASE Next
    BY <1>2, <1>3, <1>4, <1>5, <1>6, <1>7, CpStep, MkIfsStep, MakeStep, PartitionsStep,
       DiskStep DEF Next
  <1>8. QED
    BY <1>1, <1>7 DEF ToolNext, toolVars

(* If no command of the image target has failed the disk image is complete, for
   any set of programs, any sizes of the partitions and after any builds. *)
THEOREM DiskImageComplete == ToolSpec => []CompleteUnlessFailed
  <1>1. BuildInv => CompleteUnlessFailed
    <2> SUFFICES ASSUME BuildInv, Announced, ~ failed PROVE Complete
      BY DEF CompleteUnlessFailed
    <2>1. pc > Second + 8 /\ pc > 0
      <3>1. Len(Image) = Second + 8
        BY ImageIs
      <3>2. QED
        BY <3>1, Places DEF Announced, BuildInv
    <2>2. QED
      BY <2>1 DEF BuildInv, Progress
  <1>2. ToolInit => BuildInv
    BY BuildStart
  <1>3. BuildInv /\ [ToolNext]_toolVars => BuildInv'
    BY BuildStep
  <1>4. QED
    BY <1>1, <1>2, <1>3, PTL DEF ToolSpec
=============================================================================
