----------------------------- MODULE ImageBuild -----------------------------
(***************************************************************************)
(* The image target: mk-kernel-img.sh, and mk-sdcard-image-ufs.sh, which   *)
(* runs it again.  Neither stops at a command that fails.  Files live on   *)
(* from build to build, and between builds the programs in build/host are  *)
(* built anew or removed.  Sizes are in megabytes, the unit of every size  *)
(* and alignment in the scripts.                                           *)
(***************************************************************************)
EXTENDS Integers, Sequences, FiniteSets, SequencesExt

CONSTANTS
  Programs,     \* what mk-kernel-img.sh copies, the bootloader among it
  Versions,     \* of a program
  Sizes,        \* of the partitions
  MaxBuilds     \* bounds the model

ASSUME ImageBuildAssumption ==
  /\ IsFiniteSet(Programs) /\ "bootloader" \in Programs /\ Versions \subseteq Nat \ {0}
  /\ Sizes \subseteq (Nat \ {0}) \X (Nat \ {0}) /\ MaxBuilds \in Nat

VARIABLES
  host,         \* build/host: version of each program, or 0
  staged,       \* build/kernel_ifs_dir and output/bootloader.img
  kernelImg,    \* build/boot_partition/kernel.img
  fat, ufs,     \* the files of the two partitions
  img,          \* the disk image, by megabytes
  sizes,        \* partition_size_1_megs and partition_size_2_megs
  pc,           \* the command that is next, or 0 between builds
  builds,
  status,       \* exit status of the last command: did it fail?
  failed        \* history: a command of this build has failed

files == <<staged, kernelImg, fat, ufs, img>>
vars == <<host, files, sizes, pc, builds, status, failed>>

Absent == [p \in Programs |-> 0]

None == [is |-> "none"]
Blank == [is |-> "blank"]
Partial == [is |-> "partial"]
Holding(v) == [is |-> "whole", holds |-> v]

Zero == [of |-> "zero", mb |-> 0, data |-> None]
Part(of, mb, data) == [of |-> of, mb |-> mb, data |-> data]

-----------------------------------------------------------------------------
(* The scripts *)

CopyOf(p) == [do |-> "cp", program |-> p]
Do(command) == [do |-> command]

KernelScript == [i \in 1 .. Cardinality(Programs) |-> CopyOf(SetToSeq(Programs)[i])]
                \o <<Do("mkifs")>>

(* mutant: the partitions are put into the image before it is made *)
SdCardScriptSwapped ==
  KernelScript \o << Do("dd fat"), Do("mkfs"), Do("mcopy"), Do("makefs"),
                     Do("dd 1"), Do("dd 2"), Do("dd image"), Do("sfdisk") >>

SdCardScript ==
  KernelScript \o << Do("dd fat"), Do("mkfs"), Do("mcopy"), Do("makefs"),
                     Do("dd image"), Do("sfdisk"), Do("dd 1"), Do("dd 2") >>

(* the target stops when mk-kernel-img.sh, that is mkifs, has failed *)
Image == KernelScript \o <<Do("make")>> \o SdCardScript

-----------------------------------------------------------------------------
(* dd with a seek and no notrunc cuts the file there, and fills up to there *)
Dd(file, seek, content) ==
  [i \in 0 .. seek + Len(content) - 1 |->
     IF i >= seek THEN content[i - seek + 1]
     ELSE IF i \in DOMAIN file THEN file[i] ELSE Zero]

NoFile == [i \in {} |-> Zero]
Parts(of, n, data) == [i \in 1 .. n |-> Part(of, i, data)]

Init ==
  /\ host = Absent /\ staged = Absent
  /\ kernelImg = None /\ fat = None /\ ufs = None /\ img = NoFile
  /\ sizes \in Sizes
  /\ pc = 0 /\ builds = 0 /\ status = FALSE /\ failed = FALSE

(* other targets of the build *)
HostChanges ==
  /\ pc = 0 /\ builds < MaxBuilds
  /\ \E p \in Programs, v \in Versions \cup {0} : host' = [host EXCEPT ![p] = v]
  /\ UNCHANGED <<files, sizes, pc, builds, status, failed>>

Begin ==
  /\ pc = 0 /\ builds < MaxBuilds
  /\ sizes' \in Sizes
  /\ pc' = 1 /\ builds' = builds + 1
  /\ status' = FALSE /\ failed' = FALSE
  /\ UNCHANGED <<host, files>>

Command(do) == pc > 0 /\ pc <= Len(Image) /\ Image[pc].do = do
Succeed == status' = FALSE /\ pc' = pc + 1 /\ UNCHANGED <<host, sizes, builds, failed>>
Fail == status' = TRUE /\ failed' = TRUE /\ pc' = pc + 1 /\ UNCHANGED <<host, sizes, builds>>

(* cp, and objcopy for the bootloader *)
Cp ==
  /\ Command("cp") /\ Succeed
  /\ LET p == Image[pc].program
     IN  host[p] # 0 /\ staged' = [staged EXCEPT ![p] = host[p]]
  /\ UNCHANGED <<kernelImg, fat, ufs, img>>

MkIfs ==
  /\ Command("mkifs") /\ Succeed
  /\ staged["bootloader"] # 0
  /\ kernelImg' = Holding(staged)
  /\ UNCHANGED <<staged, fat, ufs, img>>

MkIfsFails ==
  /\ Command("mkifs") /\ Fail
  /\ kernelImg' = Partial
  /\ UNCHANGED <<staged, fat, ufs, img>>

Make ==
  /\ Command("make")
  /\ pc' = IF status THEN 0 ELSE pc + 1
  /\ UNCHANGED <<host, files, sizes, builds, status, failed>>

(* rm -f, and dd from /dev/zero; the file is gone if that fails *)
DdFat ==
  /\ Command("dd fat")
  /\ \/ Succeed /\ fat' = Blank
     \/ Fail /\ fat' = None
  /\ UNCHANGED <<staged, kernelImg, ufs, img>>

Mkfs ==
  /\ Command("mkfs") /\ Succeed
  /\ fat # None /\ fat' = Holding(None)
  /\ UNCHANGED <<staged, kernelImg, ufs, img>>

(* the loop over build/boot_partition; the firmware's files never change *)
Mcopy ==
  /\ Command("mcopy") /\ Succeed
  /\ fat.is = "whole" /\ kernelImg # None
  /\ fat' = Holding(kernelImg)
  /\ UNCHANGED <<staged, kernelImg, ufs, img>>

MakeFs ==
  /\ Command("makefs")
  /\ \/ Succeed /\ ufs' = Holding(host)
     \/ Fail /\ ufs' = None
  /\ UNCHANGED <<staged, kernelImg, fat, img>>

FirstPartition == 1
DdImage ==
  /\ Command("dd image") /\ Succeed
  /\ img' = [i \in 0 .. FirstPartition + sizes[1] + sizes[2] - 1 |-> Zero]
  /\ UNCHANGED <<staged, kernelImg, fat, ufs>>

(* sfdisk puts the table into the first megabyte, and refuses what is too large *)
Sfdisk ==
  /\ Command("sfdisk") /\ Succeed
  /\ FirstPartition + sizes[1] + sizes[2] <= Cardinality(DOMAIN img)
  /\ img' = [img EXCEPT ![0] = Part("table", 0, sizes)]
  /\ UNCHANGED <<staged, kernelImg, fat, ufs>>

DdPart1 ==
  /\ Command("dd 1") /\ Succeed
  /\ fat # None /\ img' = Dd(img, FirstPartition, Parts("fat", sizes[1], fat))
  /\ UNCHANGED <<staged, kernelImg, fat, ufs>>

DdPart2 ==
  /\ Command("dd 2") /\ Succeed
  /\ ufs # None /\ img' = Dd(img, FirstPartition + sizes[1], Parts("ufs", sizes[2], ufs))
  /\ UNCHANGED <<staged, kernelImg, fat, ufs>>

(* any of the others fails: what it should have changed is as it was *)
CommandFails ==
  /\ \E do \in {"cp", "mkfs", "mcopy", "dd image", "sfdisk", "dd 1", "dd 2"} : Command(do)
  /\ Fail
  /\ UNCHANGED files

(* "Disk image generation complete" *)
Announced == pc > Len(Image)

End == Announced /\ pc' = 0 /\ UNCHANGED <<host, files, sizes, builds, status, failed>>

Next == \/ HostChanges \/ Begin \/ Cp \/ MkIfs \/ MkIfsFails \/ Make \/ DdFat \/ Mkfs \/ Mcopy
        \/ MakeFs \/ DdImage \/ Sfdisk \/ DdPart1 \/ DdPart2 \/ CommandFails \/ End

Spec == Init /\ [][Next]_vars

-----------------------------------------------------------------------------
(* The table, and where it says: the boot partition with the kernel image of the
   programs as they are, and the root partition with the same programs. *)
Complete ==
  img = [i \in 0 .. sizes[1] + sizes[2] |->
           IF i = 0 THEN Part("table", 0, sizes)
           ELSE IF i <= sizes[1] THEN Part("fat", i, Holding(Holding(host)))
           ELSE Part("ufs", i - sizes[1], Holding(host))]

(* If every command has succeeded the image is complete: nothing of an earlier
   build is left in it, whatever failed then, whatever was removed since, and
   whatever sizes the partitions had; and no dd has cut off what another wrote. *)
CompleteUnlessFailed == Announced /\ ~ failed => Complete
=============================================================================
