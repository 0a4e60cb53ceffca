------------------------------ MODULE FileSystem ------------------------------
(***************************************************************************)
(* The directory tree, the free lists and the open-file table of           *)
(* filesystem.c, on a disk laid out by format.c: f_opendir, f_mkdir,       *)
(* f_open, f_remove, f_rmdir and f_close, with restarts of the process in  *)
(* between.  ShellNav adds the commands of the shell that call them.       *)
(*                                                                         *)
(* Data is scaled, control is not.  Sizes and offsets count directory      *)
(* entries instead of bytes, EPB of them to a block (512 / 64 in the       *)
(* code) and ND direct blocks to an inode (10).  A free block's link to    *)
(* the next one overlays the inode_index of its first entry, as in the     *)
(* code, where both are the first int of the block.  Regular files stay    *)
(* empty: f_write is not part of this module.                              *)
(*                                                                         *)
(* A call walks its path one component per step and then does the rest of  *)
(* its work in one step; the program has one thread, so calls never        *)
(* overlap.  The call stops in a fault when the code would index           *)
(* file_table[-1] or use a block index outside the data region.            *)
(***************************************************************************)
EXTENDS Integers, Sequences, FiniteSets

CONSTANTS
  NSlots,     \* FILETABLESIZE
  NInodes,    \* inodes on the disk
  NBlocks,    \* blocks of the data region
  EPB,        \* directory entries per block
  ND,         \* N_DBLOCKS
  Names,      \* file names the callers use
  Workload    \* the calls they make: <<function, path of the parent directory, name>>

PathCalls == {"f_opendir", "f_mkdir", "f_open_read", "f_open_write", "f_remove", "f_rmdir"}
OtherCalls == {"restart"}
NoName     == ""
FileNames  == Names \cup {NoName}

ASSUME FSAssumption ==
  /\ NSlots \in Nat \ {0} /\ NInodes \in Nat \ {0} /\ NBlocks \in Nat \ {0, 1}
  /\ EPB \in Nat \ {0, 1, 2} /\ ND \in Nat \ {0}
  /\ Names \cap {".", "..", ""} = {}
  /\ \A w \in Workload : /\ w[1] \in PathCalls \cup OtherCalls
                         /\ w[2] \in Seq(STRING) /\ w[3] \in FileNames

Slot  == 0 .. NSlots - 1
Inode == 0 .. NInodes - 1
Block == 0 .. NBlocks - 1
Root  == 0
None  == -1
BadBlock == NBlocks    \* stands for every index past the data region

VARIABLES
  inodes,           \* disk: inode region
  blocks,           \* disk: data region
  sbdisk,           \* disk: superblock
  sb,               \* current_mounted_disk->superblock1
  file_table,       \* file_table[]: cached inode and byte_offset of each entry
  table_freehead,
  by_open,          \* slots whose present entry was installed by f_open
  fds,              \* <<descriptor, inode>> for each f_open the caller has not closed
  call              \* the call in progress

disk == <<inodes, blocks, sbdisk>>
table == <<file_table, table_freehead, by_open, fds>>
vars == <<inodes, blocks, sbdisk, sb, file_table, table_freehead, by_open, fds, call>>

--------------------------------------------------------------------------------
\* Data

Entry(i, nm) == [inode_index |-> i, filename |-> nm]
NoEntry == Entry(0, NoName)
FreeEntry == [ino |-> None, node |-> <<>>, byte_offset |-> 0]
Open(n, node) == [ino |-> n, node |-> node, byte_offset |-> 0]

Idle == [pc |-> "idle", op |-> "none", todo |-> <<>>, name |-> NoName, at |-> 0, path |-> <<>>]

\* Mutant of FormatInode: the last inode points at one past the end.
FormatInodeOpenChain(i) ==
  [type |-> IF i = Root THEN "DIR" ELSE "none",
   parent |-> IF i = Root THEN Root ELSE None,
   next |-> IF i = Root THEN None ELSE i + 1,
   size |-> IF i = Root THEN 2 ELSE 0,
   dblocks |-> [j \in 1 .. ND |-> 0],
   last |-> IF i = Root THEN 0 ELSE None]

\* write_inode_region: the root directory and the chain of free inodes.
FormatInode(i) ==
  [type |-> IF i = Root THEN "DIR" ELSE "none",
   parent |-> IF i = Root THEN Root ELSE None,
   next |-> IF i = Root \/ i = NInodes - 1 THEN None ELSE i + 1,
   size |-> IF i = Root THEN 2 ELSE 0,
   dblocks |-> [j \in 1 .. ND |-> 0],
   last |-> IF i = Root THEN 0 ELSE None]

\* write_data_region: the root's block and the chain of free blocks.
FormatBlock(b) ==
  [k \in 0 .. EPB - 1 |->
     IF b = 0 THEN IF k = 0 THEN Entry(Root, ".")
                   ELSE IF k = 1 THEN Entry(Root, "..") ELSE NoEntry
     ELSE IF k = 0 THEN Entry(IF b = NBlocks - 1 THEN None ELSE b + 1, NoName)
     ELSE NoEntry]

\* The free list's link in block b.
NextFree(b) == blocks[b][0].inode_index

\* The block holding entry k of a directory.  f_readdir only ever takes the
\* direct case: past dblocks it reads iblocks[0], which is 0.
BlockOf(node, k) == IF k \div EPB < ND THEN node.dblocks[(k \div EPB) + 1] ELSE 0
EntryAt(node, k) == blocks[BlockOf(node, k)][k % EPB]

\* The entries f_readdir delivers from offset k on, up to the first that matches.
Matches(node, k, nm) ==
  {j \in k .. node.size - 1 : EntryAt(node, j).filename = nm}
Least(S) == CHOOSE j \in S : \A l \in S : j <= l

\* Slots by the inode_index they cache.
Ids == [s \in Slot |-> file_table[s].ino]
Stage == CASE call.pc \in {"walk", "ready"} -> call.pc
           [] call.pc = "tablefault" -> "fault"
           [] OTHER -> "idle"
FT == INSTANCE FileTable WITH
        file_table <- Ids,
        fds <- {h[1] : h \in fds},
        pc <- Stage,
        cur <- IF Stage = "idle" THEN 0 ELSE call.at

\* already_in_table and find_next_freehead: the lowest slot that caches inode n.
SlotOf(ft, n) ==
  LET slots == {s \in Slot : ft[s].ino = n}
  IN  IF slots = {} THEN None ELSE Least(slots)
FirstFree(ft) == SlotOf(ft, None)
\* get_inode_from_file_table_from_directory_entry keeps the last match.
LastSlotOf(n) == CHOOSE s \in Slot : /\ file_table[s].ino = n
                                     /\ \A t \in Slot : file_table[t].ino = n => t <= s

Init ==
  /\ inodes = [i \in Inode |-> FormatInode(i)]
  /\ blocks = [b \in Block |-> FormatBlock(b)]
  /\ sb = [free_inode |-> IF NInodes = 1 THEN None ELSE 1, free_block |-> 1]
  /\ sbdisk = sb
  /\ file_table = [s \in Slot |-> FreeEntry]
  /\ table_freehead = 0
  /\ by_open = {}
  /\ fds = {}
  /\ call = Idle

--------------------------------------------------------------------------------
\* f_opendir, the prologue of every call that takes a path

\* The root is loaded into slot 0, or rewound if it is there already.
OpenRoot(c) ==
  /\ file_table' = [file_table EXCEPT ![0] =
                      IF @.ino = None THEN Open(Root, inodes[Root])
                                      ELSE [@ EXCEPT !.byte_offset = 0]]
  /\ table_freehead' = FirstFree(file_table')
  /\ call' = [c EXCEPT !.pc = "walk", !.at = 0]
  /\ UNCHANGED <<disk, sb, by_open, fds>>

\* A caller starts a call: f_opendir and f_rmdir walk the whole path, the others
\* the path of the parent directory.
Begin(op, path, nm) ==
  /\ call.pc = "idle"
  /\ op \in PathCalls
  /\ OpenRoot([Idle EXCEPT !.op = op,
                 !.name = IF op = "f_rmdir" THEN NoName ELSE nm,
                 !.todo = IF op = "f_rmdir" THEN path \o <<nm>> ELSE path,
                 !.path = IF op = "f_rmdir" THEN path \o <<nm>> ELSE <<>>])

\* One component of the path: look it up in the directory in slot call.at,
\* which is left (evicted, unless it is the root) either way.
Walk ==
  LET at    == call.at
      node  == file_table[at].node
      found == Matches(node, 0, Head(call.todo))
      left  == [file_table EXCEPT ![at] =
                  IF at # 0 THEN FreeEntry
                  ELSE [@ EXCEPT !.byte_offset = IF found = {} THEN node.size ELSE 0]]
      head  == IF at # 0 THEN at ELSE FirstFree(left)
      n     == EntryAt(node, Least(found)).inode_index
      fd    == SlotOf(left, n)
  IN
  /\ call.pc = "walk"
  /\ call.todo # <<>>
  /\ table_freehead' = head
  /\ by_open' = IF at # 0 THEN by_open \ {at} ELSE by_open
  /\ \/ /\ found = {}
        /\ file_table' = left
        /\ call' = Idle
     \/ /\ found # {}
        /\ fd # None
        /\ file_table' = left
        /\ call' = [call EXCEPT !.at = fd, !.todo = Tail(@)]
     \/ /\ found # {}
        /\ fd = None
        /\ head # None
        /\ file_table' = [left EXCEPT ![head] = Open(n, inodes[n])]
        /\ call' = [call EXCEPT !.at = head, !.todo = Tail(@)]
     \/ /\ found # {}
        /\ fd = None
        /\ head = None
        /\ file_table' = left
        /\ call' = [call EXCEPT !.pc = "tablefault"]
  /\ UNCHANGED <<disk, sb, fds>>

\* The path is used up: f_opendir returns the directory to its caller.
PathEnd ==
  /\ call.pc = "walk"
  /\ call.todo = <<>>
  /\ table_freehead' = FirstFree(file_table)
  /\ call' = [call EXCEPT !.pc = "ready"]
  /\ UNCHANGED <<disk, sb, file_table, by_open, fds>>

\* f_opendir called for its own sake (login, cd <absolute path>).
OpenedDir ==
  /\ call.pc = "ready"
  /\ call.op = "f_opendir"
  /\ call' = Idle
  /\ UNCHANGED <<disk, sb, table>>

--------------------------------------------------------------------------------
\* Appending an entry to directory inode dn, common to f_mkdir and f_open

\* A directory whose size is a multiple of the block size takes a new block from
\* the free list; otherwise the entry goes into its last_block_index.
Spills(dn)  == dn.size % EPB = 0
DirFull(dn) == Spills(dn) /\ dn.size \div EPB >= ND
Target(dn)  == IF Spills(dn) THEN sb.free_block ELSE dn.last

\* Mutant of Grown: the new block is not entered in dblocks.
GrownNoBlock(dn) == [dn EXCEPT !.size = @ + 1, !.last = Target(dn)]
WithEntry(dn, e) == [blocks EXCEPT ![Target(dn)][dn.size % EPB] = e]
Grown(dn) ==
  [dn EXCEPT !.size = @ + 1,
             !.last = Target(dn),
             !.dblocks = IF Spills(dn) /\ ~ DirFull(dn)
                         THEN [@ EXCEPT ![(dn.size \div EPB) + 1] = sb.free_block]
                         ELSE @]

\* Mutant of FreeAfter: the block the directory took is handed out again.
FreeAfterSame(dn) == sb.free_block

\* The free block left for the new file itself.
FreeAfter(dn) == IF Spills(dn) THEN NextFree(sb.free_block) ELSE sb.free_block

\* No valid block to append to, or none left for the new file: the code goes on
\* with index -1 (or garbage), outside the data region.
NoBlock(dn) ==
  Target(dn) \in Block => ~ DirFull(dn) /\ FreeAfter(dn) \notin Block

\* The slot and the cached inode of the directory f_opendir returned.
DirSlot == SlotOf(file_table, file_table[call.at].ino)
DirNode == file_table[DirSlot].node
DirIno  == file_table[DirSlot].ino

\* The new inode has been taken; the superblock afterwards.
SbAfter(free_block) == [free_inode |-> inodes[sb.free_inode].next,
                        free_block |-> free_block]

\* Mutant of SetNode: only the inode on disk is updated.
SetNodeNot(ft, p, node) == ft

\* The cached inode of slot p is updated in place.
SetNode(ft, p, node) == [ft EXCEPT ![p].node = node]

\* Mutant of UpdateSuperblock: it is left to f_unmount.
UpdateSuperblockNot == UNCHANGED sbdisk

\* update_superblock_ondisk, the last thing a successful call does.
UpdateSuperblock == sbdisk' = sb'

\* The 81st entry (entry ND * EPB here): find_next_datablock stores the block
\* number through iblocks[1] = 0, that is, into the name of the root's first
\* entry; the entry is written, the cached inode grows, and the call fails.
AppendToFull(dn, p, offset) ==
  /\ DirFull(dn)
  /\ blocks' = [blocks EXCEPT ![0][0].filename = "garbled",
                              ![Target(dn)][dn.size % EPB] = Entry(sb.free_inode, call.name)]
  /\ sb' = SbAfter(NextFree(sb.free_block))
  /\ UpdateSuperblock
  /\ file_table' = [SetNode(file_table, p, Grown(dn)) EXCEPT ![p].byte_offset = offset]
  /\ call' = Idle
  /\ UNCHANGED <<inodes, table_freehead, by_open, fds>>

Fault(kind) ==
  /\ call' = [call EXCEPT !.pc = kind]
  /\ UNCHANGED <<disk, sb, table>>

--------------------------------------------------------------------------------
\* f_mkdir after f_opendir(parent).  It does not look for an entry of that name.

NewDirBlock(old, n, parent) == [old EXCEPT ![0] = Entry(n, "."), ![1] = Entry(parent, "..")]

\* last_block_index is set only when the parent did not need a new block.
NewDirNode(old, dn, parent) ==
  [old EXCEPT !.type = "DIR", !.parent = parent, !.size = 2,
              !.dblocks[1] = FreeAfter(dn),
              !.last = IF Spills(dn) THEN @ ELSE FreeAfter(dn)]

Mkdir ==
  LET p  == DirSlot
      dn == DirNode
      n  == sb.free_inode
      fb == FreeAfter(dn)
      withEntry == WithEntry(dn, Entry(n, call.name))
  IN
  /\ call.pc = "ready"
  /\ call.op = "f_mkdir"
  /\ \/ /\ n = None
        /\ call' = Idle
        /\ UNCHANGED <<disk, sb, table>>
     \/ /\ n # None /\ NoBlock(dn)
        /\ Fault("blockfault")
     \/ /\ n # None /\ ~ NoBlock(dn)
        /\ AppendToFull(dn, p, file_table[p].byte_offset)
     \/ /\ n # None /\ ~ NoBlock(dn) /\ ~ DirFull(dn)
        /\ blocks' = [withEntry EXCEPT ![fb] = NewDirBlock(@, n, DirIno)]
        /\ inodes' = [inodes EXCEPT ![DirIno] = Grown(dn), ![n] = NewDirNode(inodes[n], dn, DirIno)]
        /\ sb' = SbAfter(withEntry[fb][0].inode_index)
        /\ UpdateSuperblock
        /\ file_table' = SetNode(file_table, p, Grown(dn))
        /\ call' = Idle
        /\ UNCHANGED <<table_freehead, by_open, fds>>

--------------------------------------------------------------------------------
\* f_open after f_opendir(parent): the first entry of that name that is a
\* regular file is opened; failing that, a file is created unless access = READ.
Install(ft, n, node) ==
  /\ file_table' = [ft EXCEPT ![table_freehead] = Open(n, node)]
  /\ by_open' = by_open \cup {table_freehead}
  /\ fds' = fds \cup {<<table_freehead, n>>}
  /\ table_freehead' = FirstFree(file_table')

\* The inode of a new file, read back from the disk after its parent's was written.
NewFileNode(dn, n) ==
  [(IF n = DirIno THEN Grown(dn) ELSE inodes[n]) EXCEPT
     !.type = "REG", !.parent = DirIno, !.size = 0, !.next = None, !.dblocks[1] = FreeAfter(dn)]

\* The entries f_open takes for the file it is to open.
Files(dn) == {j \in Matches(dn, 0, call.name) : inodes[EntryAt(dn, j).inode_index].type = "REG"}

OpenFile ==
  LET p  == DirSlot
      dn == DirNode
      files == Files(dn)
      scanned(offset) == [file_table EXCEPT ![p].byte_offset = offset]
      n  == sb.free_inode
      fb == FreeAfter(dn)
      withEntry == WithEntry(dn, Entry(n, call.name))
      newNode == NewFileNode(dn, n)
  IN
  /\ call.pc = "ready"
  /\ call.op \in {"f_open_read", "f_open_write"}
  /\ \/ /\ files # {}
        /\ table_freehead # None
        /\ LET k == Least(files)
               i == EntryAt(dn, k).inode_index
           IN  Install(scanned(k + 1), i, inodes[i])
        /\ call' = Idle
        /\ UNCHANGED <<disk, sb>>
     \/ /\ files = {}
        /\ call.op = "f_open_read" \/ n = None
        /\ file_table' = scanned(dn.size)
        /\ call' = Idle
        /\ UNCHANGED <<disk, sb, table_freehead, by_open, fds>>
     \/ /\ files = {} /\ call.op = "f_open_write" /\ n # None
        /\ \/ NoBlock(dn) /\ Fault("blockfault")
           \/ ~ NoBlock(dn) /\ AppendToFull(dn, p, dn.size)
     \/ /\ files = {} /\ call.op = "f_open_write" /\ n # None
        /\ ~ NoBlock(dn) /\ ~ DirFull(dn) /\ table_freehead # None
        /\ blocks' = withEntry
        /\ inodes' = [inodes EXCEPT ![DirIno] = Grown(dn), ![n] = newNode]
        /\ sb' = SbAfter(withEntry[fb][0].inode_index)
        /\ UpdateSuperblock
        /\ Install(SetNode(scanned(dn.size), p, Grown(dn)), n, newNode)
        /\ call' = Idle
     \/ /\ table_freehead = None
        /\ \/ files # {}
           \/ call.op = "f_open_write" /\ n # None /\ ~ NoBlock(dn) /\ ~ DirFull(dn)
        /\ Fault("tablefault")

--------------------------------------------------------------------------------
\* f_remove after f_opendir(parent).  The scan starts at whatever byte_offset the
\* parent's entry was left with; the last entry moves into the hole.

\* What the first int of a freed malloc chunk may hold: f_remove releases the
\* target's blocks by writing the buffer it freed a few lines earlier.
FreedMemory == {0, BadBlock}

\* The target's data blocks in the order they are pushed on the free list.
FileBlocks(node) ==
  [j \in 1 .. (node.size + EPB - 1) \div EPB |-> BlockOf(node, (j - 1) * EPB)]

\* Mutant of StartsBlock: the block goes back one entry too early.
StartsBlockLate(k) == k % EPB = 2

\* The last entry is alone in its block, which the removal gives back.
StartsBlock(k) == k % EPB = 0

\* Mutant of Removable: the table is not looked at.
RemovableAlways(t) == TRUE

\* Only a file that no table entry caches is removed.
Removable(t) == SlotOf(file_table, t) = None

\* Mutants of the three below: the wrong hole is filled; the directory does not
\* shrink; the free list is cut behind the inode given back.
MovedBefore(dn, k) == [blocks EXCEPT ![BlockOf(dn, k - 1)][(k - 1) % EPB] = EntryAt(dn, dn.size - 1)]
ShrunkNot(dn)      == dn
FreedInodeAlone(t) == [inodes[t] EXCEPT !.next = None]

MovedInto(dn, k) == [blocks EXCEPT ![BlockOf(dn, k)][k % EPB] = EntryAt(dn, dn.size - 1)]
Shrunk(dn)       == [dn EXCEPT !.size = @ - 1]
FreedInode(t)    == [inodes[t] EXCEPT !.next = sb.free_inode]

Remove ==
  LET p     == LastSlotOf(file_table[call.at].ino)
      dn    == file_table[p].node
      dino  == file_table[p].ino
      from  == file_table[p].byte_offset
      found == Matches(dn, from, call.name)
      k     == Least(found)
      t     == EntryAt(dn, k).inode_index
      lastk == dn.size - 1
      lb    == BlockOf(dn, lastk)
      dirBlocks == IF StartsBlock(lastk)
                   THEN [MovedInto(dn, k) EXCEPT
                           ![lb] = [blocks[lb] EXCEPT ![0].inode_index = sb.free_block]]
                   ELSE MovedInto(dn, k)
      buffer == blocks[lb]
      freed  == FileBlocks(inodes[t])
  IN
  /\ call.pc = "ready"
  /\ call.op = "f_remove"
  /\ call' = Idle
  /\ UNCHANGED <<table_freehead, by_open, fds>>
  /\ \/ /\ found = {}
        /\ file_table' = [file_table EXCEPT ![p].byte_offset = IF from <= dn.size THEN dn.size ELSE from]
        /\ UNCHANGED <<disk, sb>>
     \/ /\ found # {}
        /\ ~ Removable(t)
        /\ file_table' = [file_table EXCEPT ![p].byte_offset = k + 1]
        /\ UNCHANGED <<disk, sb>>
     \/ /\ found # {}
        /\ Removable(t)
        /\ \E garbage \in FreedMemory :
             blocks' = [b \in Block |->
                          IF \E j \in DOMAIN freed : freed[j] = b
                          THEN [buffer EXCEPT ![0].inode_index = garbage]
                          ELSE dirBlocks[b]]
        /\ inodes' = [inodes EXCEPT ![dino] = Shrunk(dn), ![t] = FreedInode(t)]
        /\ sb' = [free_inode |-> t,
                  free_block |-> IF freed # <<>> THEN freed[Len(freed)]
                                 ELSE IF StartsBlock(lastk) THEN lb ELSE sb.free_block]
        /\ UpdateSuperblock
        /\ file_table' = [SetNode(file_table, p, Shrunk(dn)) EXCEPT ![p].byte_offset = k]

--------------------------------------------------------------------------------
\* f_rmdir opens the directory itself, then f_rmdir_helper follows first children
\* down to an empty directory or a regular file and calls f_remove on its path.
\* While it runs, call.at is the inode it has reached and call.path its path.
RmdirOpened ==
  /\ call.pc = "ready"
  /\ call.op = "f_rmdir"
  /\ call' = [call EXCEPT !.pc = "helper", !.at = file_table[call.at].ino]
  /\ UNCHANGED <<disk, sb, table>>

IsLeaf(node) == node.type = "REG" \/ node.size = 2

RmdirDescend ==
  LET node  == inodes[call.at]
      child == blocks[node.dblocks[1]][2]     \* get_first_direntry
  IN
  /\ call.pc = "helper"
  /\ ~ IsLeaf(node)
  /\ call' = [call EXCEPT !.at = child.inode_index, !.path = Append(@, child.filename)]
  /\ UNCHANGED <<disk, sb, table>>

\* The path of the root has no name to remove: see CalledLeaf in ShellNav.
RmdirLeaf ==
  LET len == Len(call.path)
  IN
  /\ call.pc = "helper"
  /\ IsLeaf(inodes[call.at])
  /\ call.path # <<>>
  /\ OpenRoot([Idle EXCEPT !.op = "f_remove", !.name = call.path[len],
                           !.todo = SubSeq(call.path, 1, len - 1), !.path = call.path])

--------------------------------------------------------------------------------
\* Calls without a path

Calls(op) == \E w \in Workload : w[1] = op

\* What a list in X holds: its head and what is linked to, level by level.
Listed(X, head, link) ==
  LET R[k \in 0 .. Cardinality(X)] ==
        IF k = 0 THEN {head} \cap X
        ELSE LET before == R[k - 1]
             IN  before \cup ({link[x] : x \in before} \cap X)
  IN  R[Cardinality(X)]

\* Inodes on the free list: reached from the superblock through next_inode.
NextInode  == [i \in Inode |-> inodes[i].next]
FreeInodes == Listed(Inode, sb.free_inode, NextInode)
Allocated  == Inode \ FreeInodes

Close(fd) ==
  /\ call.pc = "idle"
  /\ \E h \in fds : h[1] = fd
  /\ file_table' = [file_table EXCEPT ![fd] = FreeEntry]
  /\ by_open' = by_open \ {fd}
  /\ fds' = {h \in fds : h[1] # fd}
  /\ table_freehead' = FirstFree(file_table')
  /\ UNCHANGED <<disk, sb, call>>

\* f_unmount and shutdown, then setup and f_mount in a new process: the table is
\* empty and the superblock is read back; f_unmount does not write it.
Restart ==
  /\ call.pc = "idle"
  /\ Calls("restart")
  /\ sb' = sbdisk
  /\ file_table' = [s \in Slot |-> FreeEntry]
  /\ table_freehead' = 0
  /\ by_open' = {}
  /\ fds' = {}
  /\ UNCHANGED <<disk, call>>

Next ==
  \/ \E w \in Workload : Begin(w[1], w[2], w[3])
  \/ Walk
  \/ PathEnd
  \/ OpenedDir
  \/ Mkdir
  \/ OpenFile
  \/ Remove
  \/ RmdirOpened
  \/ RmdirDescend
  \/ RmdirLeaf
  \/ \E fd \in Slot : Close(fd)
  \/ Restart

Spec == Init /\ [][Next]_vars

--------------------------------------------------------------------------------
(* Properties *)

InodeRecord ==
  [type : {"DIR", "REG", "none"}, parent : Inode \cup {None}, next : Inode \cup {None},
   size : 0 .. ND * EPB + EPB, dblocks : [1 .. ND -> Block], last : Block \cup {None}]

TypeOK ==
  /\ inodes \in [Inode -> InodeRecord]
  /\ \A b \in Block, k \in 0 .. EPB - 1 :
       blocks[b][k].inode_index \in Int /\ blocks[b][k].filename \in FileNames \cup {".", "..", "garbled"}
  /\ \A s \in {sb, sbdisk} : s.free_inode \in Inode \cup {None} /\ s.free_block \in -1 .. BadBlock
  /\ \A s \in Slot : /\ file_table[s].ino \in Inode \cup {None}
                     /\ file_table[s].ino # None => file_table[s].node \in InodeRecord
                     /\ file_table[s].byte_offset \in Nat
  /\ table_freehead \in Slot \cup {None}
  /\ fds \subseteq Slot \X Inode /\ by_open \subseteq {h[1] : h \in fds}

\* Every live directory entry except "." and "..", with the offset it is at.
Directories == {d \in Allocated : inodes[d].type = "DIR"}
Entries == UNION {{<<d, k, EntryAt(inodes[d], k)>> : k \in 2 .. inodes[d].size - 1} :
                    d \in Directories}

\* Blocks on the free list, and the blocks an allocated inode owns.  An empty
\* regular file owns the block f_open gave it.
NextBlock  == [b \in Block |-> NextFree(b)]
FreeBlocks == Listed(Block, sb.free_block, NextBlock)
BlocksOf(i) == IF inodes[i].type = "REG" THEN {inodes[i].dblocks[1]}
               ELSE {BlockOf(inodes[i], k) : k \in 0 .. inodes[i].size - 1}

\* The free-inode list ends, and every inode is the root, or on that list, or
\* named by exactly one directory entry: f_mkdir and f_open never hand out an
\* inode that is in use, and none is lost between the calls that fail and the
\* calls that succeed.
InodesPartitioned ==
  LET free    == FreeInodes
      entries == Entries
      Named(i) == {e \in entries : e[3].inode_index = i}
  IN
  /\ sb.free_inode = None \/ \E i \in free : inodes[i].next = None
  /\ \A i \in Inode : Cardinality(Named(i)) = IF i = Root \/ i \in free THEN 0 ELSE 1
  /\ Root \notin free

\* The free-block list ends inside the data region, and no block belongs to two
\* inodes or to an inode and the free list.
BlocksDisjoint ==
  LET free  == FreeBlocks
      inUse == Allocated
      owned == [i \in inUse |-> BlocksOf(i)]
  IN
  /\ sb.free_block = None \/ \E b \in free : NextFree(b) = None
  /\ \A i \in inUse : owned[i] \cap free = {}
  /\ \A i, j \in inUse : i # j => owned[i] \cap owned[j] = {}

\* Every block is free or owned, as long as nothing is removed.
NoBlockLost == FreeBlocks \cup UNION {BlocksOf(i) : i \in Allocated} = Block

\* Each directory's "." and ".." name itself and the directory it is entered in,
\* which is also its parent_inode_index: cd .. and pwd climb by either.
TreeLinked ==
  /\ \A d \in Directories :
       /\ EntryAt(inodes[d], 0) = Entry(d, ".")
       /\ EntryAt(inodes[d], 1) = Entry(inodes[d].parent, "..")
  /\ \A e \in Entries : inodes[e[3].inode_index].parent = e[1]

\* The inode a table entry caches is the inode on disk, whichever call changed it
\* last: f_readdir trusts the copy, a later f_opendir the disk.
CacheCoherent ==
  \A s \in Slot : file_table[s].ino # None => file_table[s].node = inodes[file_table[s].ino]

\* The superblock on disk is the one in memory, so a restart at any call boundary
\* resumes with the same free lists.
SbDurable == sbdisk = sb

\* No entry of the open-file table caches an inode that is on the free list.
NoFreeInodeOpen == \A s \in Slot : file_table[s].ino \notin FreeInodes

\* The directory tree and the free list as Namespace describes them; no call looks
\* at the name it is to enter, so the empty one is a name too.
NS == INSTANCE Namespace WITH
        Names <- FileNames,
        links <- {<<e[1], e[3].filename, e[3].inode_index>> : e \in Entries},
        dirs  <- Directories,
        free  <- FreeInodes
ImplementsNamespace == NS!Spec

\* The open-file table as FileTable describes it.
ImplementsFileTable == FT!Spec

--------------------------------------------------------------------------------
(* What a call must not meet, and the inductive invariant of FileTreeProofs *)

\* The calls f_opendir has returned to that will append an entry to its directory.
Appends ==
  /\ sb.free_inode # None
  /\ call.op = "f_mkdir" \/ (call.op = "f_open_write" /\ Files(DirNode) = {})

\* No call meets what the code does not look at before it goes on, and would spoil the
\* disk with: the path leads to a file; the directory has all the blocks it can address;
\* its last_block_index is left from before it shrank; f_remove is given a directory.
Orderly ==
  call.pc = "ready" =>
    /\ Appends =>
         /\ DirNode.type = "DIR" /\ ~ DirFull(DirNode)
         /\ Spills(DirNode) \/ DirNode.last \in {None, BlockOf(DirNode, DirNode.size - 1)}
    /\ call.op = "f_remove" =>
         LET dir   == file_table[LastSlotOf(file_table[call.at].ino)]
             found == Matches(dir.node, dir.byte_offset, call.name)
             t     == EntryAt(dir.node, Least(found)).inode_index
         IN  found # {} /\ Removable(t) => inodes[t].type = "REG"

Dirent == [inode_index : Int, filename : FileNames \cup {".", ".."}]

Shapes ==
  /\ inodes \in [Inode -> InodeRecord]
  /\ blocks \in [Block -> [0 .. EPB - 1 -> Dirent]]
  /\ sb \in [free_inode : Inode \cup {None}, free_block : Block \cup {None}]
  /\ fds \subseteq Slot \X Inode /\ by_open \subseteq {h[1] : h \in fds}

\* A list in X that ends and meets no element twice.
Ends(X, head, link) ==
  LET S == Listed(X, head, link)
  IN  /\ head = None \/ \E x \in S : link[x] = None
      /\ \A x \in S : link[x] \in X \cup {None} /\ link[x] # head
      /\ \A x, y \in S : link[x] = link[y] => x = y

\* Inodes in use are directories, with blocks for all their entries, or empty files.
Kinds ==
  /\ Root \in Allocated /\ inodes[Root].type = "DIR" /\ inodes[Root].parent = Root
  /\ \A i \in Allocated : \/ /\ inodes[i].type = "DIR"
                              /\ inodes[i].size \in 2 .. ND * EPB
                           \/ /\ inodes[i].type = "REG"
                              /\ inodes[i].size = 0

\* The entries an inode has a block for; a file has the one f_open gave it.
Held(i) == IF inodes[i].type = "REG" THEN {0} ELSE 0 .. inodes[i].size - 1

\* A block is held once, and not free.
HeldOnce ==
  \A i \in Allocated : \A k \in Held(i) :
    /\ BlockOf(inodes[i], k) \notin FreeBlocks
    /\ \A j \in Allocated : \A l \in Held(j) :
         BlockOf(inodes[i], k) = BlockOf(inodes[j], l) => i = j /\ k \div EPB = l \div EPB

\* What the entries of a directory say.
EntriesRight ==
  \A d \in Directories :
    /\ EntryAt(inodes[d], 0) = Entry(d, ".")
    /\ EntryAt(inodes[d], 1) = Entry(inodes[d].parent, "..")
    /\ \A k \in 2 .. inodes[d].size - 1 :
         LET e == EntryAt(inodes[d], k)
         IN  /\ e.filename \in FileNames
             /\ e.inode_index \in Allocated \ {Root}
             /\ inodes[e.inode_index].parent = d

\* Every inode in use but the root has one entry.
NamedOnce ==
  /\ \A i \in Allocated \ {Root} : \E e \in Entries : e[3].inode_index = i
  /\ \A e, f \in Entries : e[3].inode_index = f[3].inode_index => e = f

\* What the table caches is in use and as on disk, directories once, the root in slot 0.
Cached ==
  /\ \A s \in Slot : /\ file_table[s].byte_offset \in Nat
                     /\ file_table[s].ino # None => /\ file_table[s].ino \in Allocated
                                                    /\ file_table[s].node = inodes[file_table[s].ino]
  /\ \A s, t \in Slot :
       /\ file_table[s].ino = file_table[t].ino
       /\ file_table[s].ino # None
       /\ file_table[s].node.type = "DIR"
       => s = t
  /\ \A s \in Slot : file_table[s].ino = Root => s = 0

\* Where the call stands.
CallRight ==
  /\ call.path \in Seq(STRING \cup FileNames)
  /\ call.pc \in {"walk", "ready"} => /\ call.at \in Slot /\ file_table[call.at].ino # None
                                     /\ call.name \in FileNames
  /\ call.op = "f_rmdir" => call.path = <<>> \/ call.path[Len(call.path)] \in FileNames
  /\ call.pc = "helper" => call.op = "f_rmdir" /\ call.at \in Allocated

IInv ==
  /\ Shapes /\ SbDurable
  /\ Ends(Inode, sb.free_inode, NextInode) /\ Ends(Block, sb.free_block, NextBlock)
  /\ Kinds /\ HeldOnce /\ EntriesRight /\ NamedOnce /\ Cached /\ CallRight

--------------------------------------------------------------------------------
(* What comments, messages and the README claim, and the code does not do *)

\* README on rm: "rm works on both empty directories and on empty files": the free
\* blocks remain a list that ends.
FreeListEnds == sb.free_block = None \/ \E b \in FreeBlocks : NextFree(b) = None

\* f_remove answers "no such file. retry" only if the directory has no such entry.
RemoveFindsEntry ==
  [][ LET node  == file_table[call.at].node
          named == Matches(node, 0, call.name)
      IN  /\ call.pc = "ready" /\ call.op = "f_remove"
          /\ named # {}
          /\ \A k \in named : SlotOf(file_table, EntryAt(node, k).inode_index) = None
          => FreeInodes' # FreeInodes ]_vars
================================================================================
