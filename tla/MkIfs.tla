-------------------------------- MODULE MkIfs --------------------------------
(***************************************************************************)
(* mkifs: the host tool that appends an initial file system (IFS) image to *)
(* the bootloader.  It walks a host directory depth first, keeps a list of *)
(* nodes, computes where each file goes, writes header, node table and     *)
(* contents, and finally patches the base and the size of the IFS into the *)
(* bootloader.  The host tree is shared with every other process of the    *)
(* build machine, which may change it between two system calls of mkifs.   *)
(***************************************************************************)
EXTENDS Layout, Sequences, FiniteSets

CONSTANTS
  Entry,        \* directory entries that may exist below the root directory
  NoEntry,      \* what a path that names no entry resolves to
  Parent,       \* the directory each entry is in: an entry, or Root
  Resolves,     \* the entries the stored path of an entry may lead to
  Sizes,        \* sizes of regular files, st_size: wider than uint32_t
  BootSizes,    \* sizes of the bootloader binary
  Garbage,      \* what malloc may leave in the root node's file_size
  Word,         \* 2^32 in the code: file offsets and sizes are uint32_t
  MaxTouch      \* bound: how often other processes change the host tree

Root == "/"
DotNames == {Root, ".", ".."}

(***************************************************************************)
(* strncpy keeps 31 characters of a name and leaves byte 31 as malloc gave *)
(* it.  Resolves[e] is {e} for a name of at most 30 characters; for longer *)
(* names it holds NoEntry (the stored path may be rubbish) and the entry   *)
(* of that directory, if any, that the first 31 characters name.           *)
(***************************************************************************)
ASSUME MkIfsAssumption ==
  /\ NoEntry \notin Entry
  /\ Entry \cap DotNames = {} /\ NoEntry \notin DotNames
  /\ Parent \in [Entry -> Entry \cup {Root}]
  /\ Resolves \in [Entry -> SUBSET (Entry \cup {NoEntry})]
  /\ Word \in Nat /\ Word > PageSize /\ Word % PageSize = 0
  /\ Sizes \subseteq Nat
  /\ Garbage \subseteq 0 .. Word - 1
  /\ BootSizes \subseteq Nat
  /\ MaxTouch \in Nat

(***************************************************************************)
(* An entry stands for a path, short enough for real_path, and paths form a *)
(* tree.  A link to a directory above is one more directory at each depth, *)
(* down to where the host gives up on the path and stat fails.             *)
(***************************************************************************)
ASSUME TreeAssumption ==
  \A D \in SUBSET Entry : D # {} => \E e \in D : Parent[e] \notin D

VARIABLES
  host,      \* the tree: what stat says of each entry
  touched,   \* history: the entries other processes have changed
  missed,    \* history: what stat did not find, and nobody has created since
  pc,        \* where the tool is
  stack,     \* the active calls of Recursive, innermost last
  nodes,     \* ifs_file_list
  inodeNr,   \* current_inode_nr
  ifsBase,   \* ifs_base
  ifsSize,   \* ifs_size
  cursor,    \* position of the node a loop over the list works on
  offset,    \* running offset of CalculateFileOffsets
  wrapped,   \* history: some uint32_t sum of file offsets wrapped around
  writes     \* everything written to the output file, in order

hostVars == <<host, touched, missed>>
layoutVars == <<ifsSize, cursor, offset, wrapped>>
vars == <<hostVars, pc, stack, nodes, inodeNr, ifsBase, ifsSize,
          cursor, offset, wrapped, writes>>

(***************************************************************************)
(* What stat returns.  "nostat" stands for every name stat cannot resolve: *)
(* absent, removed after readdir buffered it, or a dangling link.          *)
(***************************************************************************)
DirStat == [kind |-> "dir", size |-> 0]
NoStat == [kind |-> "nostat", size |-> 0]
OtherStat == [kind |-> "other", size |-> 0]
Stats == [kind : {"reg"}, size : Sizes] \cup {DirStat, OtherStat}

(* only a directory holds entries that stat can reach *)
WellFormed(h) == \A e \in Entry :
  \/ h[e].kind = "nostat"
  \/ Parent[e] = Root
  \/ Parent[e] \in Entry /\ h[Parent[e]].kind = "dir"

Children(d) == {e \in Entry : Parent[e] = d}

StatOk(r) == r \in Entry /\ host[r].kind # "nostat"

-----------------------------------------------------------------------------
(* Nodes, and the list of them *)

Unset == 51966      \* 0xcafe, until CalculateFileOffsets

Node(name, inode, parent, path, st) ==
  [name |-> name, inode |-> inode, parent |-> parent, path |-> path,
   mode |-> st.kind, size |-> st.size, offset |-> Unset]

(* mutant: ".." refers to the directory itself *)
DotDotToSelf(d, inode, up) == Node("..", inode, inode, d, DirStat)

DotNode(d, inode) == Node(".", inode, inode, d, DirStat)
DotDotNode(d, inode, up) == Node("..", up, inode, d, DirStat)

Frame(d, inode) ==
  [dir |-> d, inode |-> inode, left |-> Children(d), st |-> DirStat]

Top == stack[Len(stack)]

(***************************************************************************)
(* struct stat st is a local of Recursive: when stat fails only a message  *)
(* is printed, and the values of the previous call in this directory stay. *)
(***************************************************************************)
StatOrStale(r) == IF StatOk(r) THEN host[r] ELSE Top.st

-----------------------------------------------------------------------------
Init ==
  /\ host \in [Entry -> Stats \cup {NoStat}] /\ WellFormed(host)
  /\ touched = {} /\ missed = {}
  /\ pc = "bootloader"
  /\ stack = <<>> /\ nodes = <<>> /\ inodeNr = 0
  /\ ifsBase = 0 /\ ifsSize = 0
  /\ cursor = 1 /\ offset = 0 /\ wrapped = FALSE
  /\ writes = <<>>

(* node: position in the list of the node whose file is written, else 0 *)
Emit(at, len, what, node) ==
  writes' = Append(writes, [at |-> at, len |-> len, what |-> what, node |-> node])

(* WriteBootloader: copy the bootloader, the IFS starts at the next page *)
WriteBootloader ==
  /\ pc = "bootloader"
  /\ \E size \in BootSizes :
       /\ Emit(0, size, "bootloader", 0)
       /\ ifsBase' = AlignUp(size, PageSize)
  /\ pc' = "start"
  /\ UNCHANGED <<hostVars, stack, nodes, inodeNr, layoutVars>>

(* WriteIFS up to the loop of the outermost Recursive; the root node comes
   from malloc and its file_size is never assigned *)
StartIFS ==
  /\ pc = "start"
  /\ \E junk \in Garbage :
       nodes' = << Node(Root, 0, 0, Root, [kind |-> "dir", size |-> junk]),
                   DotNode(Root, 0) >>
  /\ inodeNr' = 2
  /\ stack' = << Frame(Root, 0) >>
  /\ pc' = "walk"
  /\ UNCHANGED <<hostVars, ifsBase, layoutVars, writes>>

-----------------------------------------------------------------------------
(* Recursive: one action for each kind of entry readdir can return *)

Reading(e, r, st) ==
  /\ pc = "walk" /\ stack # <<>>
  /\ e \in Top.left /\ r \in Resolves[e]
  /\ st = StatOrStale(r)
  /\ missed' = IF StatOk(r) THEN missed ELSE missed \cup {r}

Consumed(e, st) ==
  [stack EXCEPT ![Len(stack)] = [Top EXCEPT !.left = @ \ {e}, !.st = st]]

(* a directory: its node, then the call of Recursive for it, which adds the
   nodes "." and ".."; both take an inode number they do not use.  A directory
   that another process creates between a failing stat and opendir leads to the
   same state as one that is created before stat. *)
AddDirectory == \E e \in Entry, r \in Entry \cup {NoEntry} :
  /\ \E st \in Stats : /\ Reading(e, r, st) /\ st.kind = "dir"
                       /\ stack' = Append(Consumed(e, st), Frame(r, inodeNr))
  /\ StatOk(r) /\ host[r].kind = "dir"
  /\ nodes' = nodes \o << Node(e, inodeNr, Top.inode, r, DirStat),
                          DotNode(r, inodeNr),
                          DotDotNode(r, inodeNr, Top.inode) >>
  /\ inodeNr' = inodeNr + 3
  /\ UNCHANGED <<host, touched, pc, ifsBase, layoutVars, writes>>

(* what stat left behind says directory, but there is none to open: exit *)
OpenDirFails == \E e \in Entry, r \in Entry \cup {NoEntry}, st \in Stats :
  /\ Reading(e, r, st) /\ st.kind = "dir"
  /\ ~ StatOk(r)
  /\ pc' = "failed"
  /\ UNCHANGED <<host, touched, stack, nodes, inodeNr, ifsBase, layoutVars, writes>>

(* st_size is 64 bits wide, file_size 32 *)
Truncated(st) == [st EXCEPT !.size = @ % Word]

(* mutant: a file does not use up its number *)
AddFileUncounted == \E e \in Entry, r \in Entry \cup {NoEntry}, st \in Stats :
  /\ Reading(e, r, st) /\ st.kind = "reg"
  /\ nodes' = Append(nodes, Node(e, inodeNr, Top.inode, r, Truncated(st)))
  /\ stack' = Consumed(e, st)
  /\ UNCHANGED <<host, touched, pc, inodeNr, ifsBase, layoutVars, writes>>

AddFile == \E e \in Entry, r \in Entry \cup {NoEntry}, st \in Stats :
  /\ Reading(e, r, st) /\ st.kind = "reg"
  /\ nodes' = Append(nodes, Node(e, inodeNr, Top.inode, r, Truncated(st)))
  /\ inodeNr' = inodeNr + 1
  /\ stack' = Consumed(e, st)
  /\ UNCHANGED <<host, touched, pc, ifsBase, layoutVars, writes>>

(* neither file nor directory: the node is dropped, its number is used up *)
SkipOther == \E e \in Entry, r \in Entry \cup {NoEntry}, st \in Stats :
  /\ Reading(e, r, st) /\ st.kind = "other"
  /\ inodeNr' = inodeNr + 1
  /\ stack' = Consumed(e, st)
  /\ UNCHANGED <<host, touched, pc, nodes, ifsBase, layoutVars, writes>>

(* mutant: the loop over a directory may end early *)
EndDirectoryEarly ==
  /\ pc = "walk" /\ stack # <<>>
  /\ stack' = SubSeq(stack, 1, Len(stack) - 1)
  /\ pc' = IF Len(stack) = 1 THEN "table" ELSE "walk"
  /\ UNCHANGED <<hostVars, nodes, inodeNr, ifsBase, layoutVars, writes>>

(* readdir returns NULL: nothing is left but names that are gone, and names it
   need not return, as they came since opendir: here, any that changed *)
EndDirectory ==
  /\ pc = "walk" /\ stack # <<>>
  /\ \A e \in Top.left : host[e].kind = "nostat" \/ e \in touched
  /\ stack' = SubSeq(stack, 1, Len(stack) - 1)
  /\ pc' = IF Len(stack) = 1 THEN "table" ELSE "walk"
  /\ UNCHANGED <<hostVars, nodes, inodeNr, ifsBase, layoutVars, writes>>

-----------------------------------------------------------------------------
(* WriteFileTable *)

HeaderSize == 16
NodeSize == 60
FreeNodeCnt == 16
NodeTableOffset == AlignUp(HeaderSize, 128)
TableSize(nodeCnt) == (nodeCnt + FreeNodeCnt) * NodeSize
(* mutant: ALIGN_DOWN for ALIGN_UP *)
FileTableOffsetDown(nodeCnt) == AlignDown(NodeTableOffset + TableSize(nodeCnt), PageSize)

FileTableOffset(nodeCnt) == AlignUp(NodeTableOffset + TableSize(nodeCnt), PageSize)

WriteHeader ==
  /\ pc = "table"
  /\ Emit(ifsBase, HeaderSize, "header", 0)
  /\ offset' = FileTableOffset(Len(nodes))
  /\ ifsSize' = FileTableOffset(Len(nodes))
  /\ cursor' = 1
  /\ pc' = "offsets"
  /\ UNCHANGED <<hostVars, stack, nodes, inodeNr, ifsBase, wrapped>>

(* mutant: ifs_size is taken before the file, not after it *)
CalculateSizeTooEarly ==
  LET start == offset % Word
      end == start + nodes[cursor].size
      roundUp == (end % Word) + PageSize - 1
  IN /\ pc = "offsets" /\ cursor <= Len(nodes)
     /\ nodes' = [nodes EXCEPT ![cursor].offset = start]
     /\ ifsSize' = start
     /\ offset' = AlignDown(roundUp % Word, PageSize)
     /\ wrapped' = (wrapped \/ offset >= Word \/ end >= Word \/ roundUp >= Word)
     /\ cursor' = cursor + 1
     /\ UNCHANGED <<hostVars, pc, stack, inodeNr, ifsBase, writes>>

(* mutant: offsets and sums are wider than the fields they are written to *)
CalculateWideOffset ==
  LET end == offset + nodes[cursor].size
  IN /\ pc = "offsets" /\ cursor <= Len(nodes)
     /\ nodes' = [nodes EXCEPT ![cursor].offset = offset]
     /\ ifsSize' = end
     /\ offset' = AlignUp(end, PageSize)
     /\ wrapped' = (wrapped \/ end >= Word)
     /\ cursor' = cursor + 1
     /\ UNCHANGED <<hostVars, pc, stack, inodeNr, ifsBase, writes>>

(* one turn of CalculateFileOffsets, for directories as for files; offset
   is a size_t, but the sums are sums of uint32_t fields *)
CalculateFileOffset ==
  LET start == offset % Word
      end == start + nodes[cursor].size
      roundUp == (end % Word) + PageSize - 1
  IN /\ pc = "offsets" /\ cursor <= Len(nodes)
     /\ nodes' = [nodes EXCEPT ![cursor].offset = start]
     /\ ifsSize' = end % Word
     /\ offset' = AlignDown(roundUp % Word, PageSize)
     /\ wrapped' = (wrapped \/ offset >= Word \/ end >= Word \/ roundUp >= Word)
     /\ cursor' = cursor + 1
     /\ UNCHANGED <<hostVars, pc, stack, inodeNr, ifsBase, writes>>

(* the nodes of the list, then the free ones *)
WriteNodeTable ==
  /\ pc = "offsets" /\ cursor > Len(nodes)
  /\ Emit(ifsBase + NodeTableOffset, TableSize(Len(nodes)), "nodes", 0)
  /\ cursor' = 1
  /\ pc' = "contents"
  /\ UNCHANGED <<hostVars, stack, nodes, inodeNr, ifsBase, ifsSize, offset, wrapped>>

-----------------------------------------------------------------------------
(* WriteFileContents *)

(* mutant: the loop goes on without the next node *)
SkipContentsStuck ==
  /\ pc = "contents" /\ cursor <= Len(nodes)
  /\ nodes[cursor].mode # "reg"
  /\ UNCHANGED vars

SkipContents ==
  /\ pc = "contents" /\ cursor <= Len(nodes)
  /\ nodes[cursor].mode # "reg"
  /\ cursor' = cursor + 1
  /\ UNCHANGED <<hostVars, pc, stack, nodes, inodeNr, ifsBase, ifsSize,
                 offset, wrapped, writes>>

(* mutant: neither open nor read is checked *)
ReadableUnchecked(n) == TRUE

(* the file at the stored path can be read to the size stat gave earlier *)
Readable(n) ==
  StatOk(n.path) /\ host[n.path].kind = "reg" /\ host[n.path].size >= n.size

(* a FIFO or a device is there instead, which gives as many bytes, or fewer *)
Special(n) == StatOk(n.path) /\ host[n.path].kind = "other"

Opening == pc = "contents" /\ cursor <= Len(nodes) /\ nodes[cursor].mode = "reg"

CopyContents ==
  /\ Emit(ifsBase + nodes[cursor].offset, nodes[cursor].size, "file", cursor)
  /\ cursor' = cursor + 1
  /\ pc' = "contents"
  /\ UNCHANGED <<hostVars, stack, nodes, inodeNr, ifsBase, ifsSize,
                 offset, wrapped>>

WriteContents ==
  /\ Opening /\ (Readable(nodes[cursor]) \/ Special(nodes[cursor]))
  /\ CopyContents

ReadFails ==
  /\ Opening /\ ~ Readable(nodes[cursor])
  /\ pc' = "failed"
  /\ UNCHANGED <<hostVars, stack, nodes, inodeNr, ifsBase, layoutVars, writes>>

(* open of a FIFO does not return before another process opens it to write *)
OpenBlocks ==
  /\ Opening /\ Special(nodes[cursor])
  /\ pc' = "blocked"
  /\ UNCHANGED <<hostVars, stack, nodes, inodeNr, ifsBase, layoutVars, writes>>

(* one does, and writes what is then read; if it writes less the tool exits *)
OpenReturns == pc = "blocked" /\ CopyContents

(* mutant: the bootloader is patched before the contents are written *)
PatchTooEarly ==
  /\ pc = "contents"
  /\ Emit(16, 8, "patch", 0) \/ UNCHANGED writes
  /\ pc' \in {"done", "failed"}
  /\ UNCHANGED <<hostVars, stack, nodes, inodeNr, ifsBase, layoutVars>>

(* WriteBootloaderHeader: the result of the write is overwritten by that of
   the read after it, so that a failed write goes unnoticed *)
PatchBootloader ==
  /\ pc = "contents" /\ cursor > Len(nodes)
  /\ Emit(16, 8, "patch", 0) \/ UNCHANGED writes
  /\ pc' \in {"done", "failed"}
  /\ UNCHANGED <<hostVars, stack, nodes, inodeNr, ifsBase, layoutVars>>

-----------------------------------------------------------------------------
(* Every other checked call may fail at any time (no memory, no space, too
   many open files), and the tool exits where it is. *)
Exit ==
  /\ pc \notin {"done", "failed"}
  /\ pc' = "failed"
  /\ UNCHANGED <<hostVars, stack, nodes, inodeNr, ifsBase, layoutVars, writes>>

(* Another process creates, replaces, resizes or removes an entry. *)
HostChanges == \E e \in Entry :
  /\ Cardinality(touched) < MaxTouch
  /\ pc \notin {"done", "failed"}
  /\ \E st \in Stats \cup {NoStat} :
       /\ st # host[e]
       /\ host' = [host EXCEPT ![e] = st]
  /\ WellFormed(host')
  /\ touched' = touched \cup {e}
  /\ missed' = missed \ {e}
  /\ UNCHANGED <<pc, stack, nodes, inodeNr, ifsBase, layoutVars, writes>>

Walk == AddDirectory \/ OpenDirFails \/ AddFile \/ SkipOther \/ EndDirectory

Write == \/ WriteHeader \/ CalculateFileOffset \/ WriteNodeTable
         \/ SkipContents \/ WriteContents \/ ReadFails \/ OpenBlocks
         \/ PatchBootloader

Tool == WriteBootloader \/ StartIFS \/ Walk \/ Write \/ Exit

Terminated == pc \in {"done", "failed"} /\ UNCHANGED vars

Next == Tool \/ HostChanges \/ OpenReturns \/ Terminated

Spec == Init /\ [][Next]_vars

(* mkifs is a single process that waits for another one in OpenReturns only:
   it goes on as long as it can, and no call has to fail for that *)
FairSpec == Spec /\ WF_vars(WriteBootloader \/ StartIFS \/ Walk \/ Write)
-----------------------------------------------------------------------------
(* What every run relies on: the domains of the state *)

IsReal(n) == n.name \in Entry \cup {Root}   \* not "." or ".."

NodeType == [name : Entry \cup DotNames, inode : Nat, parent : Nat,
             path : Entry \cup {Root, NoEntry}, mode : {"dir", "reg"},
             size : 0 .. Word - 1, offset : Nat]
FrameType == [dir : Entry \cup {Root}, inode : Nat, left : SUBSET Entry, st : Stats]
WriteType == [at : Nat, len : Nat,
              what : {"bootloader", "header", "nodes", "file", "patch"}, node : Nat]

PCs == {"bootloader", "start", "walk", "table", "offsets", "contents", "blocked",
        "done", "failed"}

(* Type invariant: in particular every offset and size the node table and
   the bootloader header record fits its field, wrapped sums included. *)
TypeOK ==
  /\ host \in [Entry -> Stats \cup {NoStat}] /\ WellFormed(host)
  /\ touched \subseteq Entry /\ missed \subseteq Entry \cup {NoEntry}
  /\ pc \in PCs
  /\ stack \in Seq(FrameType)
  /\ nodes \in Seq(NodeType)
  /\ inodeNr \in Nat /\ ifsBase \in Nat /\ ifsSize \in Nat
  /\ cursor \in 1 .. Len(nodes) + 1
  /\ offset \in Nat /\ wrapped \in BOOLEAN
  /\ writes \in Seq(WriteType)
  /\ pc \in {"contents", "blocked", "done"} =>
        /\ ifsSize < Word
        /\ \A j \in 1 .. Len(nodes) : nodes[j].offset < Word

-----------------------------------------------------------------------------
(* The walk *)

(* No two files or directories get the same inode number, although "." and
   ".." consume numbers and skipped entries leave gaps: Recursive numbers
   nodes from one counter across all its nested calls. *)
InodesUnique == \A j, k \in 1 .. Len(nodes) :
  IsReal(nodes[j]) /\ IsReal(nodes[k]) /\ nodes[j].inode = nodes[k].inode => j = k

IsDirOf(n, d, inode) ==
  IsReal(n) /\ n.mode = "dir" /\ n.path = d /\ n.inode = inode

(* node j of a list hangs below the node of the directory it was read from *)
NodeSound(list, j) == LET n == list[j] IN
  /\ n.name = Root => j = 1 /\ n.inode = 0
  /\ n.name \in Entry => \E d \in 1 .. j - 1 :
       IsDirOf(list[d], Parent[n.name], n.parent)
  /\ n.name = "." => \E d \in 1 .. j - 1 :
       IsDirOf(list[d], n.path, n.parent) /\ n.inode = n.parent
  /\ n.name = ".." => \E d \in 1 .. j - 1 :
       IsDirOf(list[d], n.path, n.parent) /\ n.inode = list[d].parent

(* The parent numbers rebuild the host tree: each node hangs below an earlier
   directory node for the directory it was read from, "." leads back to its
   directory, and ".." to the directory above. *)
TreeSound == \A j \in 1 .. Len(nodes) : NodeSound(nodes, j)

-----------------------------------------------------------------------------
(* The image *)

(* Unless a 32 bit sum wrapped, nothing that is written to the image destroys
   what was written before, the patched words of the bootloader excepted. *)
NoClobber == ~ wrapped => \A j, k \in 1 .. Len(writes) :
  j < k /\ Overlap(writes[j], writes[k]) =>
    writes[j].what = "bootloader" /\ writes[k].what = "patch"

(* Unless a 32 bit sum wrapped, the size the tool records for the bootloader
   covers every byte of the file system. *)
SizeCovers == ~ wrapped /\ pc \in {"contents", "blocked", "done"} =>
  \A k \in 2 .. Len(writes) :
    writes[k].what # "patch" => writes[k].at + writes[k].len <= ifsBase + ifsSize

(* The same without the proviso: what the comment beside ifs_size says. *)
SizeOfIfsPortion == pc \in {"contents", "blocked", "done"} =>
  \A k \in 2 .. Len(writes) :
    writes[k].what # "patch" => writes[k].at + writes[k].len <= ifsBase + ifsSize

(* A reader of the image finds the file of node j where the node says. *)
Stored(j) == \E k \in 1 .. Len(writes) :
  /\ writes[k] = [at |-> ifsBase + nodes[j].offset, len |-> nodes[j].size,
                  what |-> "file", node |-> j]
  /\ \A l \in k + 1 .. Len(writes) : ~ Overlap(writes[l], writes[k])

(* entries whose name, and the names of the directories above, are short *)
Plain[e \in Entry] ==
  Resolves[e] = {e} /\ (Parent[e] = Root \/ Plain[Parent[e]])

(* Nothing is lost: when mkifs ends well, each file and directory that kept
   still is in the image once below its directory, and files with their
   bytes, in spite of what other processes did to the rest of the tree.  Of a
   file of 4 GiB and more, file_size and so the image have only a part. *)
NothingLost == pc = "done" /\ ~ wrapped =>
  \A e \in Entry \ touched :
    Plain[e] /\ host[e].kind \in {"dir", "reg"} =>
      \E j, d \in 1 .. Len(nodes) :
        /\ nodes[j].name = e /\ nodes[j].mode = host[e].kind
        /\ nodes[d].name = Parent[e] /\ nodes[d].inode = nodes[j].parent
        /\ \A k \in 1 .. Len(nodes) :
             nodes[k].name = e /\ nodes[k].parent = nodes[j].parent => k = j
        /\ nodes[j].mode = "reg" /\ host[e].size < Word =>
             nodes[j].size = host[e].size /\ Stored(j)

(* The same of the contents alone, for files of any size: "copies the contents
   of a directory into an IFS image", as the README of the repository has it. *)
ContentsCopied == pc = "done" /\ ~ wrapped =>
  \A e \in Entry \ touched : Plain[e] /\ host[e].kind = "reg" =>
    \E j \in 1 .. Len(nodes) :
      nodes[j].name = e /\ nodes[j].size = host[e].size /\ Stored(j)

(* Where stat fails a node is made from what stat said of another entry.  Such
   a node, or one whose path leads nowhere, is in a completed image only if
   another process has created the entry since; and if no process has changed
   the entry, the node says what is true of it. *)
NoPhantom == pc = "done" => \A j \in 2 .. Len(nodes) :
  /\ nodes[j].path # NoEntry
  /\ nodes[j].mode = "reg" => nodes[j].path \notin missed
  /\ nodes[j].path \in Entry \ touched =>
       LET st == host[nodes[j].path]
       IN st.kind = nodes[j].mode /\ st.size % Word = nodes[j].size

(* The words the bootloader trusts are patched last: an image whose header is
   patched has all its nodes and files, whatever happened before. *)
PatchedLast == \A k \in 1 .. Len(writes) : writes[k].what = "patch" =>
  /\ k = Len(writes)
  /\ \E t \in 1 .. k : writes[t].what = "nodes" /\ writes[t].len = TableSize(Len(nodes))
  /\ \A j \in 1 .. Len(nodes) : nodes[j].mode = "reg" =>
       \E t \in 1 .. k : writes[t].what = "file" /\ writes[t].node = j

(* mkifs ends, whatever the tree and however it changes, but for one case: it
   waits for ever in the open of a FIFO that another process has put in the
   place of a file since the walk. *)
Termination ==
  \/ <>(pc \in {"done", "failed"})
  \/ <>[](pc = "blocked" /\ nodes[cursor].path \in touched)
=============================================================================
