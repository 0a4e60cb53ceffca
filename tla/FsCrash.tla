-------------------------------- MODULE FsCrash --------------------------------
(***************************************************************************)
(* FileSystem with a process that may die in the middle of f_mkdir, f_open *)
(* or f_remove.  These calls write the disk piece by piece: each fseek     *)
(* flushes the fwrite before it, so a death keeps the first k writes of a  *)
(* call, in the order of the code, and the next process mounts what is     *)
(* there.  A call that runs to its end has written all of them; its last   *)
(* write may still sit in the buffer of the stream, which is the death at  *)
(* the last but one.                                                       *)
(***************************************************************************)
EXTENDS FileSystem

CONSTANT MaxCrashes    \* deaths in a run

ASSUME CrashAssumption == MaxCrashes \in Nat

VARIABLES
  crashes,      \* deaths so far
  torn,         \* history: inodes a call was working on when the process died
  broken        \* history: a link of the free-block list was lost, or written over a name,
                \* or a directory outgrew its direct blocks

crashVars == <<inodes, blocks, sbdisk, sb, file_table, table_freehead, by_open, fds, call,
               crashes, torn, broken>>

--------------------------------------------------------------------------------
\* The writes of each call

InodeWrite(i, node)   == [to |-> "inode", at |-> i, value |-> node]
BlockWrite(b, data)   == [to |-> "block", at |-> b, value |-> data]
EntryWrite(b, k, e)   == [to |-> "entry", at |-> <<b, k>>, value |-> e]
SuperblockWrite(s)    == [to |-> "superblock", at |-> 0, value |-> s]

Written(d, w) ==
  CASE w.to = "inode"      -> [d EXCEPT !.inodes[w.at] = w.value]
    [] w.to = "block"      -> [d EXCEPT !.blocks[w.at] = w.value]
    [] w.to = "entry"      -> [d EXCEPT !.blocks[w.at[1]][w.at[2]] = w.value]
    [] w.to = "superblock" -> [d EXCEPT !.sb = w.value]

\* The disk d after a sequence of writes.
After(d, writes) ==
  LET D[k \in 0 .. Len(writes)] == IF k = 0 THEN d ELSE Written(D[k - 1], writes[k])
  IN  D[Len(writes)]

DiskAfter(writes) == After([inodes |-> inodes, blocks |-> blocks, sb |-> sbdisk], writes)

\* Mutant of AppendWrites: the directory's inode is written before its block.
AppendWritesInodeFirst(dn, e) ==
  <<InodeWrite(DirIno, Grown(dn)), EntryWrite(Target(dn), dn.size % EPB, e)>>

\* The entry e goes into directory dn: the block and then the inode; or, if the
\* directory takes a block, the superblock (request_new_block) and the inode
\* (update_inodes_datablocks) before both.
AppendWrites(dn, e) ==
  IF ~ Spills(dn)
  THEN <<BlockWrite(Target(dn), [blocks[Target(dn)] EXCEPT ![dn.size % EPB] = e]),
         InodeWrite(DirIno, Grown(dn))>>
  ELSE <<SuperblockWrite(SbAfter(NextFree(sb.free_block)))>>
         \o IF DirFull(dn) THEN <<EntryWrite(0, 0, [blocks[0][0] EXCEPT !.filename = "garbled"]),
                                  EntryWrite(Target(dn), 0, e)>>
            ELSE <<InodeWrite(DirIno, [dn EXCEPT !.dblocks = Grown(dn).dblocks]),
                   EntryWrite(Target(dn), 0, e),
                   InodeWrite(DirIno, Grown(dn))>>

\* The block the new file or directory is given, as the directory's entry left it.
GivenBlock(dn, n) == WithEntry(dn, Entry(n, call.name))[FreeAfter(dn)]

\* Mutant of MkdirWrites: the superblock is left to the next call.
MkdirWritesNoSuperblock(dn, n) ==
  AppendWrites(dn, Entry(n, call.name))
    \o <<BlockWrite(FreeAfter(dn), NewDirBlock(GivenBlock(dn, n), n, DirIno)),
         InodeWrite(n, NewDirNode(inodes[n], dn, DirIno))>>

MkdirWrites(dn, n) ==
  AppendWrites(dn, Entry(n, call.name))
    \o IF DirFull(dn) THEN <<>>
       ELSE <<BlockWrite(FreeAfter(dn), NewDirBlock(GivenBlock(dn, n), n, DirIno)),
              SuperblockWrite(SbAfter(GivenBlock(dn, n)[0].inode_index)),
              InodeWrite(n, NewDirNode(inodes[n], dn, DirIno))>>

\* A new file; without a free slot f_open goes down after the directory's part.
CreateWrites(dn, n) ==
  AppendWrites(dn, Entry(n, call.name))
    \o IF DirFull(dn) \/ table_freehead = None THEN <<>>
       ELSE <<InodeWrite(n, NewFileNode(dn, n)),
              SuperblockWrite(SbAfter(GivenBlock(dn, n)[0].inode_index))>>

\* Mutant of RemoveWrites: the inode is given back before the name is gone.
RemoveWritesInodeFirst(p, k, garbage) ==
  LET dn == file_table[p].node
      t  == EntryAt(dn, k).inode_index
  IN  <<InodeWrite(t, FreedInode(t)),
        SuperblockWrite([sb EXCEPT !.free_inode = t]),
        EntryWrite(BlockOf(dn, k), k % EPB, EntryAt(dn, dn.size - 1)),
        InodeWrite(file_table[p].ino, Shrunk(dn))>>

\* Entry k of the directory in slot p is removed.
RemoveWrites(p, k, garbage) ==
  LET dn    == file_table[p].node
      t     == EntryAt(dn, k).inode_index
      lastk == dn.size - 1
      lb    == BlockOf(dn, lastk)
      freed == FileBlocks(inodes[t])
  IN  <<EntryWrite(BlockOf(dn, k), k % EPB, EntryAt(dn, lastk))>>
        \o (IF StartsBlock(lastk)
            THEN <<BlockWrite(lb, [blocks[lb] EXCEPT ![0].inode_index = sb.free_block])>>
            ELSE <<>>)
        \o <<InodeWrite(file_table[p].ino, Shrunk(dn)),
             InodeWrite(t, FreedInode(t))>>
        \o [j \in DOMAIN freed |->
             BlockWrite(freed[j], [blocks[lb] EXCEPT ![0].inode_index = garbage])]
        \o <<SuperblockWrite([free_inode |-> t,
                              free_block |-> IF freed # <<>> THEN freed[Len(freed)]
                                             ELSE IF StartsBlock(lastk) THEN lb
                                             ELSE sb.free_block])>>

--------------------------------------------------------------------------------
\* The call about to do its work, and what it writes

Making ==
  /\ call.pc = "ready"
  /\ \/ call.op = "f_mkdir"
     \/ call.op = "f_open_write" /\ Files(DirNode) = {}
  /\ sb.free_inode # None /\ ~ NoBlock(DirNode)

RemoveSlot == LastSlotOf(file_table[call.at].ino)
RemoveAt   == Least(Matches(file_table[RemoveSlot].node, file_table[RemoveSlot].byte_offset, call.name))
Removing ==
  /\ call.pc = "ready" /\ call.op = "f_remove"
  /\ Matches(file_table[RemoveSlot].node, file_table[RemoveSlot].byte_offset, call.name) # {}
  /\ Removable(EntryAt(file_table[RemoveSlot].node, RemoveAt).inode_index)

Writes(garbage) ==
  CASE Making /\ call.op = "f_mkdir" -> MkdirWrites(DirNode, sb.free_inode)
    [] Making /\ call.op = "f_open_write" -> CreateWrites(DirNode, sb.free_inode)
    [] Removing -> RemoveWrites(RemoveSlot, RemoveAt, garbage)
    [] OTHER -> <<>>

\* The call spoils the disk without dying: f_remove releases blocks, which it does
\* not link (FreedMemory), or an entry is appended past the direct blocks.
Spoils ==
  \/ Removing /\ FileBlocks(inodes[EntryAt(file_table[RemoveSlot].node, RemoveAt).inode_index]) # <<>>
  \/ Making /\ DirFull(DirNode)

\* The inodes the writes are about, the directory apart.  A block given back is
\* linked before the directory has shrunk: the link then is an entry's inode number.
Subjects ==
  IF Making THEN {sb.free_inode}
  ELSE LET dn == file_table[RemoveSlot].node
       IN  {EntryAt(dn, RemoveAt).inode_index, EntryAt(dn, dn.size - 1).inode_index}
             \cup IF StartsBlock(dn.size - 1) THEN {sb.free_block} ELSE {}

\* The write turns a free block into a directory's first block, or a directory's
\* last block into a free one, and the superblock has yet to follow.
MovesLink(w) == w.to = "block" /\ w.value[0] # blocks[w.at][0]

\* Without a free slot f_open ends itself between the writes.
GoesDown == call.op = "f_open_write" /\ table_freehead = None

\* The process dies after k of the writes and a new one mounts the disk.
Crash ==
  /\ call.pc \in {"walk", "ready", "helper"}
  /\ ~ broken
  /\ crashes < MaxCrashes
  /\ crashes' = crashes + 1
  /\ \E garbage \in FreedMemory : \E k \in 0 .. Len(Writes(garbage)) :
       LET d == DiskAfter(SubSeq(Writes(garbage), 1, k))
       IN  /\ inodes' = d.inodes
           /\ blocks' = d.blocks
           /\ sbdisk' = d.sb
           /\ torn' = IF k > 0 /\ (k < Len(Writes(garbage)) \/ GoesDown)
                      THEN torn \cup Subjects ELSE torn
           /\ broken' = (Spoils \/ (k > 0 /\ MovesLink(Writes(garbage)[k])))
  /\ sb' = sbdisk'
  /\ file_table' = [s \in Slot |-> FreeEntry]
  /\ table_freehead' = 0
  /\ by_open' = {}
  /\ fds' = {}
  /\ call' = Idle

CrashInit == Init /\ crashes = 0 /\ torn = {} /\ broken = FALSE

\* Once the disk is broken anything can be given out, and the run ends.
CrashNext ==
  \/ ~ broken /\ Next /\ broken' = Spoils /\ UNCHANGED <<crashes, torn>>
  \/ Crash

CrashSpec == CrashInit /\ [][CrashNext]_crashVars

--------------------------------------------------------------------------------
(* Properties *)

\* A call that ends has done to the disk what its writes do one after the other;
\* FileSystem takes its steps whole, and this is the order they are written in.
WritesComplete ==
  [][ (Making \/ Removing) /\ crashes' = crashes /\ call'.pc = "idle"
        => \E garbage \in FreedMemory :
             [inodes |-> inodes', blocks |-> blocks', sb |-> sbdisk'] = DiskAfter(Writes(garbage)) ]_crashVars

\* Whenever the process dies, every name in the tree that the call was not about is
\* still there, for the inode it was for, and no name is new but that of the call.
NamesSurvive ==
  [][ crashes' # crashes =>
        LET about == IF Making \/ Removing THEN Subjects ELSE {}
            Others(entries) == {e \in entries : e[3].inode_index \notin about}
        IN  Others(Entries') = Others(Entries) ]_crashVars

\* However many calls follow a death, two names never meet in an inode that was
\* not the dead call's, and none is free and named.
DamageConfined ==
  broken \/
  LET entries == Entries
      Named(i) == {e \in entries : e[3].inode_index = i}
  IN  \A i \in Inode \ torn : Cardinality(Named(i)) <= IF i = Root \/ i \in FreeInodes THEN 0 ELSE 1

\* Nor is a block ever given to two of those inodes, or to one while it is free:
\* unless the death fell between the write of a block that changes hands and that
\* of the superblock, the lists are whole but for what the dead call took.
BlocksConfined ==
  broken \/
  LET sound == Allocated \ torn
  IN  \A i, j \in sound : /\ BlocksOf(i) \cap FreeBlocks = {}
                           /\ i # j => BlocksOf(i) \cap BlocksOf(j) = {}
================================================================================
