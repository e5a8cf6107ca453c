------------------------------ MODULE IfsLookup ------------------------------
(***************************************************************************)
(* How the bootloader finds a file in the node table of an IFS image.  A   *)
(* table is a sequence of records with the fields name, inode and parent.  *)
(* elf_find and elf_load contain the same two loops; neither looks at the  *)
(* kind of a node or at where in the tree its directory is.                *)
(***************************************************************************)
EXTENDS Integers, Sequences, FiniteSetsExt

(* positions of the table that hold a node called name, in any directory *)
Named(table, name) == {t \in 1 .. Len(table) : table[t].name = name}

(* positions of the nodes called name in the directory numbered inode *)
NamedIn(table, name, inode) == {t \in Named(table, name) : table[t].parent = inode}

NotFound == 0

(* mutant: any file of that name will do *)
LookupAnywhere(table, dirname, filename) ==
  IF Named(table, dirname) = {} \/ Named(table, filename) = {} THEN NotFound
  ELSE Min(Named(table, filename))

(* elf_find, and the first half of elf_load with dirname "boot" *)
Lookup(table, dirname, filename) ==
  IF Named(table, dirname) = {} THEN NotFound
  ELSE LET boot_inode_nr == table[Min(Named(table, dirname))].inode
           files == NamedIn(table, filename, boot_inode_nr)
       IN  IF files = {} THEN NotFound ELSE Min(files)

=============================================================================
