------------------------------ MODULE BuildTools ------------------------------
(***************************************************************************)
(* The two ways to an image for the SD card: the image target with its     *)
(* scripts, which has mkifs append the IFS to the bootloader, or           *)
(* createrpikernelimg, which is given both as files.  One of them is used. *)
(***************************************************************************)
EXTENDS ImageBuild

CONSTANTS BootSizes, IfsSizes, MaxChanges     \* of createrpikernelimg

(* the linker script puts the header into every bootloader *)
ASSUME RpiKernelImgAssumption ==
  /\ BootSizes \subseteq Nat /\ \A n \in BootSizes : n >= 3
  /\ IfsSizes \subseteq Nat /\ MaxChanges \in Nat

VARIABLES
  tool,                                    \* which is used
  boot, ifs, changes,                      \* of createrpikernelimg
  bootSize, ifsSize, buf, output, step

R == INSTANCE RpiKernelImg WITH pc <- step

rpiVars == <<boot, ifs, changes, bootSize, ifsSize, buf, output, step>>
toolVars == <<tool, vars, rpiVars>>

(* what the other one would be given makes no difference *)
ToolInit ==
  /\ Init /\ R!Init
  /\ \/ tool = "image" /\ boot.size = Min(BootSizes) /\ ifs.size = Min(IfsSizes)
     \/ tool = "createrpikernelimg" /\ sizes = CHOOSE s \in Sizes : TRUE

ToolNext ==
  /\ UNCHANGED tool
  /\ \/ tool = "image" /\ Next /\ UNCHANGED rpiVars
     \/ tool = "createrpikernelimg" /\ R!Next /\ UNCHANGED vars

ToolSpec == ToolInit /\ [][ToolNext]_toolVars

-----------------------------------------------------------------------------
(* What createrpikernelimg leaves is what its exit status says, whatever fails
   and however the two files are replaced while it runs: a bootable image or
   something the bootloader cannot take for one. *)
OutputIsImage == R!SuccessIsImage /\ R!FailureIsNoImage
=============================================================================
