------------------------------- MODULE MCBoot --------------------------------
(* Images of seven cells on a page of two cells: kernels of up to three program
   headers, among them segments that share a page, that would run into the IFS
   or the bootloader, and tables in which a node is missing. *)
EXTENDS Boot

n(name, inode, parent, offset, size) ==
  [name |-> name, inode |-> inode, parent |-> parent, offset |-> offset, size |-> size]

MCTables == {
  << n("/", 0, 0, 2, 0), n(".", 0, 0, 2, 0), n("kernel", 2, 0, 2, 1),
     n("boot", 3, 0, 2, 0), n("kernel", 6, 3, 2, 4),
     n("filesystems", 7, 0, 6, 0), n("ifs", 10, 7, 6, 1), n("", 0, -1, 0, 0) >>,
  << n("/", 0, 0, 2, 0), n("kernel", 2, 0, 2, 4), n("boot", 3, 0, 6, 0) >>,
  << n("/", 0, 0, 2, 0), n("boot", 3, 0, 2, 0), n("kernel", 6, 3, 2, 4) >> }

p(load, offset, vaddr, filesz, memsz) ==
  [load |-> load, offset |-> offset, vaddr |-> vaddr, filesz |-> filesz, memsz |-> memsz]

MCPhdr == { p(TRUE, 0, 106, 2, 3),     \* text; its pages are 106 .. 109
            p(TRUE, 2, 110, 2, 2),
            p(TRUE, 1, 111, 1, 5),     \* bss behind it, not page aligned
            p(TRUE, 0, 109, 1, 1),     \* shares a page with the first
            p(TRUE, 0, 120, 2, 2),     \* where the IFS may be
            p(TRUE, 3, 112, 2, 1),     \* smaller than its file part
            p(FALSE, 0, 100, 1, 1) }

MCPhdrs == {<<>>} \cup {<<x>> : x \in MCPhdr} \cup {<<x, y>> : x, y \in MCPhdr}
           \cup { << p(FALSE, 0, 100, 1, 1), p(TRUE, 0, 106, 2, 3), p(TRUE, 2, 110, 2, 2) >>,
                  << p(TRUE, 0, 106, 1, 1), p(TRUE, 2, 110, 2, 2), p(TRUE, 1, 112, 1, 3),
                     p(TRUE, 1, 116, 1, 1) >> }

MCImage(table, phdrTable, ok) ==
  [bootSize |-> 3, ifsOffset |-> 4, ifsSize |-> 7, tableSize |-> 2,
   table |-> table, elfOk |-> ok, phdrs |-> phdrTable]

MCImages == {MCImage(tb, ph, TRUE) : tb \in MCTables, ph \in MCPhdrs}
            \cup {MCImage(tb, <<p(TRUE, 0, 106, 2, 3)>>, FALSE) : tb \in MCTables}
=============================================================================
