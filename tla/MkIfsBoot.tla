------------------------------ MODULE MkIfsBoot ------------------------------
(***************************************************************************)
(* The image builder together with the lookup of the bootloader: what the  *)
(* bootloader finds in a table that mkifs has written.                     *)
(***************************************************************************)
EXTENDS MkIfs, IfsLookup

CONSTANT NameOf      \* the name of each entry in its directory
ASSUME NameOfAssumption ==
  /\ NameOf \in [Entry -> STRING]
  /\ \A e, f \in Entry : NameOf[e] = NameOf[f] /\ Parent[e] = Parent[f] => e = f

(* the node table of the image: the list, then the free slots *)
FreeNode(t) == [name |-> "", inode |-> t, parent |-> -1]

FreeNodes == [t \in 1 .. FreeNodeCnt |-> FreeNode(t - 1)]

StoredName(n) == IF n.name \in Entry THEN NameOf[n.name] ELSE n.name

ImageTable ==
  [j \in 1 .. Len(nodes) |->
     [name |-> StoredName(nodes[j]), inode |-> nodes[j].inode,
      parent |-> nodes[j].parent]] \o FreeNodes

(* the first of its name in the table, of all nodes of the tree *)
FirstOfName(e) == \E d \in 1 .. Len(nodes) :
  /\ nodes[d].name = e
  /\ \A j \in 1 .. d - 1 : StoredName(nodes[j]) # NameOf[e]

(* dir is a directory called boot with a file kernel in it, both undisturbed *)
HasKernel(dir, file) ==
  /\ NameOf[dir] = "boot" /\ host[dir].kind = "dir"
  /\ NameOf[file] = "kernel" /\ Parent[file] = dir
  /\ host[file].kind = "reg" /\ host[file].size < Word
  /\ Plain[file]

(* boot/kernel is found unless another entry called boot comes first *)
KernelFound == pc = "done" /\ ~ wrapped =>
  \A dir, file \in Entry \ touched :
    HasKernel(dir, file) /\ FirstOfName(dir)
    => LET t == Lookup(ImageTable, "boot", "kernel")
       IN  /\ t \in 1 .. Len(nodes)
           /\ nodes[t].name = file /\ nodes[t].size = host[file].size /\ Stored(t)

(* What elf_load logs when it gives up, "file not found", and the bootloader in
   its panic: there is no file kernel in the directory /boot. *)
NotFoundMeansMissing ==
  pc = "done" /\ ~ wrapped /\ Lookup(ImageTable, "boot", "kernel") = NotFound =>
    ~ \E dir, file \in Entry \ touched : HasKernel(dir, file) /\ Parent[dir] = Root

(* never a node that is not called kernel in a directory called boot *)
NothingElseFound == pc = "done" =>
  LET t == Lookup(ImageTable, "boot", "kernel")
  IN  t # NotFound =>
        /\ t <= Len(nodes) /\ nodes[t].name \in Entry
        /\ Parent[nodes[t].name] \in Entry
        /\ NameOf[nodes[t].name] = "kernel"
        /\ \E d \in 1 .. t : /\ nodes[d].inode = nodes[t].parent /\ IsReal(nodes[d])
                             /\ StoredName(nodes[d]) = "boot"

(* elf_load and elf_find find boot/kernel, and nothing else, in every image that
   mkifs has completed in which no other entry called boot, file or directory,
   comes before it: whatever the order readdir returned the entries in, whatever
   other nodes are called kernel, and although the free slots of the table repeat
   inode numbers of real nodes. *)
LookupRight == KernelFound /\ NothingElseFound
=============================================================================
