------------------------------- MODULE Startup -------------------------------
(***************************************************************************)
(* The script that sysinit runs: it starts file systems and drivers, each  *)
(* a process of its own that mounts itself when it gets to it, waits for   *)
(* them, and then makes the file system of the SD card the root.  The      *)
(* commands and the mount calls are the kernel's and sysinit's: they are   *)
(* modelled from how the script uses them.                                 *)
(*                                                                         *)
(* A path is a sequence of names.  A file system is known by the path it   *)
(* was started with; the IFS by the empty one.  A place is a path inside a *)
(* file system.                                                            *)
(***************************************************************************)
EXTENDS Integers, Sequences, SequencesExt

CONSTANT Partitions    \* how many partitions the SD card can have

ASSUME StartupAssumption == Partitions \subseteq 0 .. 2

VARIABLES
  pc,           \* the command that is next
  partitions,   \* how many the card has
  root,         \* the file system that is /
  mounts,       \* what is mounted where
  nodes,        \* directories and device nodes one can mount on
  todo,         \* mounts that running drivers have still to make, in order
  dead,         \* drivers that ended before they mounted
  started       \* history: the start commands

vars == <<pc, partitions, root, mounts, nodes, todo, dead, started>>

-----------------------------------------------------------------------------
(* The script *)

Start(program, at) == [do |-> "start", program |-> program, at |-> at]
StartOn(program, at, device) == [do |-> "start", program |-> program, at |-> at, device |-> device]
WaitFor(at) == [do |-> "waitfor", at |-> at]
Mknod(at) == [do |-> "mknod", at |-> at]
Move(do, new, old) == [do |-> do, new |-> new, old |-> old]
Other == [do |-> "other"]

Driver(name) == <<"system", "drivers", name>>
FileSystem(name) == <<"system", "filesystems", name>>
Dev(name) == <<"dev", name>>

(* mutant: the driver is started without a node to mount on *)
DeviceWithoutNode(name) == <<Start(Driver(name), Dev(name)), WaitFor(Dev(name))>>

(* mutant: the driver is not waited for *)
DeviceUnawaited(name) == <<Mknod(Dev(name)), Start(Driver(name), Dev(name))>>

(* mknod, start, waitfor: a character device *)
Device(name) == <<Mknod(Dev(name)), Start(Driver(name), Dev(name)), WaitFor(Dev(name))>>

(* mutant: the first node is made without waiting for the file system *)
UnawaitedFileSystems ==
  << Start(FileSystem("devfs"), <<"dev">>), Start(FileSystem("devfs"), <<"serv">>) >>

FileSystems ==
  << Start(FileSystem("devfs"), <<"dev">>), WaitFor(<<"dev">>),
     Start(FileSystem("devfs"), <<"serv">>), WaitFor(<<"serv">>) >>

Drivers == <<Mknod(<<"serv", "sysinit">>), Other>>
           \o Device("gpio") \o Device("mailbox") \o Device("tty") \o Device("aux")

SdCard ==
  << Start(Driver("sdcard"), Dev("sda")), WaitFor(Dev("sda")), WaitFor(Dev("sda2")),
     StartOn(FileSystem("ufs"), <<"media", "root">>, Dev("sda2")), WaitFor(<<"media", "root">>) >>

(* mutant: /dev and /serv are left where the IFS went *)
PivotOnly == <<Move("pivot", <<"media", "root">>, <<"media", "root", "media", "boot">>)>>

PivotFileSystems ==
  << Move("pivot", <<"media", "root">>, <<"media", "root", "media", "boot">>),
     Move("renamemount", <<"dev">>, <<"media", "boot", "dev">>),
     Move("renamemount", <<"serv">>, <<"media", "boot", "serv">>) >>

Services == Device("null") \o <<Other>>

Script == FileSystems \o Drivers \o SdCard \o PivotFileSystems \o Services

Pivoting == Len(FileSystems \o Drivers \o SdCard) + 1
Pivoted == Pivoting + Len(PivotFileSystems)

-----------------------------------------------------------------------------
(* The name space *)

IFS == <<>>
UFS == <<"media", "root">>
Place(fs, path) == [fs |-> fs, path |-> path]

(* what mk-kernel-img.sh puts into the IFS; the root partition has it all *)
IfsPrograms == {Driver(d) : d \in {"tty", "aux", "sdcard", "gpio", "mailbox"}}
               \cup {FileSystem(f) : f \in {"ufs", "extfs", "ifs", "devfs"}}
IfsDirectories == {<<"dev">>, <<"serv">>, <<"media", "root">>}
UfsDirectories == {<<"dev">>, <<"serv">>, <<"media", "boot">>}

MountedOn(place) == {m.fs : m \in {n \in mounts : n.on = place}}

(* the place a path leads to: names one by one, and across the mounts *)
Resolve(path) ==
  LET at[n \in 0 .. Len(path)] ==
        IF n = 0 THEN Place(root, <<>>)
        ELSE LET place == Place(at[n - 1].fs, Append(at[n - 1].path, path[n]))
             IN  IF MountedOn(place) = {} THEN place
                 ELSE Place(CHOOSE fs \in MountedOn(place) : TRUE, <<>>)
  IN  at[Len(path)]

IsMounted(path) == Resolve(path).path = <<>>

Runnable(path) == \/ Resolve(path).fs = UFS
                  \/ Resolve(path).fs = IFS /\ Resolve(path).path \in IfsPrograms

-----------------------------------------------------------------------------
(* sysinit *)

Init ==
  /\ pc = 1
  /\ partitions \in Partitions
  /\ root = IFS /\ mounts = {}
  /\ nodes = {Place(IFS, d) : d \in IfsDirectories} \cup {Place(UFS, d) : d \in UfsDirectories}
  /\ todo = <<>> /\ dead = {} /\ started = <<>>

Command == Script[pc]
Running(do) == pc <= Len(Script) /\ Command.do = do /\ pc' = pc + 1

(* the driver of the card mounts the card and then its partitions *)
MountsOf(at) == IF at = Dev("sda") THEN SubSeq(<<at, Dev("sda1"), Dev("sda2")>>, 1, partitions + 1)
                ELSE <<at>>

DoStart ==
  /\ Running("start")
  /\ IF Runnable(Command.program) THEN todo' = Append(todo, [of |-> Command, at |-> MountsOf(Command.at)])
                                  ELSE todo' = todo
  /\ started' = Append(started, Command)
  /\ UNCHANGED <<partitions, root, mounts, nodes, dead>>

DoWaitFor ==
  /\ Running("waitfor")
  /\ IsMounted(Command.at)
  /\ UNCHANGED <<partitions, root, mounts, nodes, todo, dead, started>>

DoMknod ==
  /\ Running("mknod")
  /\ nodes' = nodes \cup {Resolve(Command.at)}
  /\ UNCHANGED <<partitions, root, mounts, todo, dead, started>>

(* new becomes the root, and the old root is mounted on old *)
DoPivot ==
  /\ Running("pivot")
  /\ root' = Resolve(Command.new).fs
  /\ mounts' = {m \in mounts : m.fs # root'} \cup {[on |-> Resolve(Command.old), fs |-> root]}
  /\ UNCHANGED <<partitions, nodes, todo, dead, started>>

(* what is mounted on old is mounted on new instead *)
DoRenameMount ==
  /\ Running("renamemount")
  /\ LET fs == Resolve(Command.old).fs
     IN  mounts' = {m \in mounts : m.fs # fs} \cup {[on |-> Resolve(Command.new), fs |-> fs]}
  /\ UNCHANGED <<partitions, root, nodes, todo, dead, started>>

DoOther ==
  /\ Running("other")
  /\ UNCHANGED <<partitions, root, mounts, nodes, todo, dead, started>>

Sysinit == DoStart \/ DoWaitFor \/ DoMknod \/ DoPivot \/ DoRenameMount \/ DoOther

-----------------------------------------------------------------------------
(* Drivers *)

(* A driver mounts its next node.  There has to be something to mount on, but
   for the nodes of the card, which its driver makes; and a file system opens
   its device first. *)
Mount(i) ==
  /\ i \in DOMAIN todo \ dead /\ todo[i].at # <<>>
  /\ LET at == Head(todo[i].at)
     IN  /\ Resolve(at) \in nodes \/ todo[i].of.at = Dev("sda")
         /\ "device" \in DOMAIN todo[i].of => IsMounted(todo[i].of.device)
         /\ mounts' = mounts \cup {[on |-> Resolve(at), fs |-> at]}
  /\ todo' = [todo EXCEPT ![i].at = Tail(@)]
  /\ UNCHANGED <<pc, partitions, root, nodes, dead, started>>

(* a driver ends without having mounted, its device is not there *)
Die(i) ==
  /\ i \in DOMAIN todo \ dead /\ todo[i].at # <<>>
  /\ dead' = dead \cup {i}
  /\ UNCHANGED <<pc, partitions, root, mounts, nodes, todo, started>>

Finished == pc > Len(Script)

Next == \/ Sysinit
        \/ \E i \in DOMAIN todo : Mount(i) \/ Die(i)

Spec == Init /\ [][Next]_vars

(* sysinit goes on when it can, and so does each driver. *)
FairSpec == Spec /\ WF_vars(Sysinit) /\ \A i \in 1 .. Len(Script) : WF_vars(Mount(i))

-----------------------------------------------------------------------------
(* Every device node is made in the file systems that are meant to hold them,
   never in the directory /dev or /serv that lies under one of them: not before
   they are mounted, and not in the root partition once that is /. *)
NodesInDevfs == \A n \in nodes :
  n.fs \in {<<"dev">>, <<"serv">>} \/ (n.fs = IFS /\ n.path \in IfsDirectories)
                                   \/ (n.fs = UFS /\ n.path \in UfsDirectories)

(* Outside the three commands that move them, whatever was mounted under a name
   is what the name leads to, on both sides of the pivot: no driver mounts so
   late that its name means another place. *)
NamesKept == pc \notin Pivoting + 1 .. Pivoted - 1 => \A m \in mounts :
  IF m.fs = IFS THEN Resolve(<<"media", "boot">>) = Place(IFS, <<>>)
  ELSE Resolve(m.fs) = Place(m.fs, <<>>)

(* The script comes to its end if the card has its second partition and every
   driver it starts mounts at last: each program is in the file system that is
   the root when it is started, and no waitfor waits for what cannot come. *)
Ready == <>(Finished \/ dead # {} \/ partitions < 2)

(* At the end the root partition is /, and all that was started serves. *)
Served == Finished =>
  /\ root = UFS
  /\ \A i \in DOMAIN started : started[i].at \in {m.fs : m \in mounts} \cup {root}
=============================================================================
