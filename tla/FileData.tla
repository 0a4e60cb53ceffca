------------------------------- MODULE FileData --------------------------------
(***************************************************************************)
(* The data of regular files in filesystem.c: f_open, f_write, f_read,     *)
(* f_seek, f_rewind and f_close on the files of one directory, with the    *)
(* free-block list and the two computations of a block's place, that of    *)
(* the writer (find_next_datablock) and that of the reader                 *)
(* (get_block_from_index).                                                 *)
(*                                                                         *)
(* A block has B cells (512 bytes, or 128 ints, in the code); a cell holds *)
(* a byte or an int, so that what a caller has written can be read back as *)
(* the number of a block.  An inode has ND direct blocks (10) and NI       *)
(* indirect ones (4), behind which lie i2block and i3block, -1 on every    *)
(* disk.  Doubly and triply indirect blocks, which the README says are not *)
(* handled, are left out: a call that reaches them ends in a fault, and so *)
(* does one that would write a block outside the data region.              *)
(*                                                                         *)
(* f_write is one step up to its loop and one per round of it; the other   *)
(* calls are one step each.  last_block_index is not kept: for regular     *)
(* files nothing reads it.                                                 *)
(***************************************************************************)
EXTENDS Integers, SequencesExt

CONSTANTS
  File,         \* the regular files, which are also their inodes
  NSlots,       \* FILETABLESIZE
  NBlocks,      \* blocks of the data region
  B,            \* BLOCKSIZE
  ND,           \* N_DBLOCKS
  NI,           \* N_IBLOCKS
  Buffers,      \* what f_write is given: size * ntimes bytes, ntimes over
  HeapInts,     \* what the int before a block got from malloc may be
  Offsets,      \* offsets for f_seek
  MaxWrites,    \* calls of f_write in a run
  Modes,        \* access modes in use
  NoFile        \* what a free slot caches

Access == {"READ", "WRITE", "READANDWRITE", "APPEND"}

ASSUME DataAssumption ==
  /\ NSlots \in Nat \ {0} /\ NBlocks \in Nat \ {0, 1}
  /\ B \in Nat \ {0, 1} /\ ND \in Nat \ {0} /\ NI \in Nat \ {0} /\ MaxWrites \in Nat
  /\ Buffers \subseteq Seq(Int) /\ HeapInts \subseteq Int /\ HeapInts # {}
  /\ Offsets \subseteq Nat /\ NoFile \notin File /\ Modes \subseteq Access

Slot  == 0 .. NSlots - 1
Block == 0 .. NBlocks - 1
Cell  == 0 .. B - 1
None  == -1
RootBlock == 0        \* the root directory's block

VARIABLES
  made,         \* the files made so far
  inodes,       \* disk: their inodes
  blocks,       \* disk: data region
  free_block,   \* superblock, written to the disk whenever it changes
  file_table,   \* cached inode, byte_offset, access of each slot
  call,         \* the f_write in progress, or Idle, or Fault
  writes,       \* f_write calls so far
  written,      \* history: what f_write has been given for each file
  spoiled,      \* history: files written in a way f_write has no right code for
  struck        \* history: a free block was written by a number found in a block

disk == <<made, inodes, blocks, free_block>>
history == <<written, spoiled, struck>>
vars == <<made, inodes, blocks, free_block, file_table, call, writes, written, spoiled, struck>>

Idle  == [pc |-> "idle"]
Fault == [pc |-> "fault"]

Lesser(m, n) == IF m <= n THEN m ELSE n

Cleared == [c \in Cell |-> 0]

FormatBlock(b) ==
  [Cleared EXCEPT ![0] = IF b = RootBlock THEN 0 ELSE IF b = NBlocks - 1 THEN None ELSE b + 1]

NewInode == [size |-> 0, dblocks |-> [i \in 1 .. ND |-> 0],
             iblocks |-> [i \in 0 .. NI + 1 |-> IF i < NI THEN 0 ELSE None]]

FreeEntry == [file |-> NoFile, node |-> NewInode, byte_offset |-> 0, access |-> "READ"]

Init ==
  /\ made = {}
  /\ inodes = [f \in File |-> NewInode]
  /\ blocks = [b \in Block |-> FormatBlock(b)]
  /\ free_block = 1
  /\ file_table = [s \in Slot |-> FreeEntry]
  /\ call = Idle
  /\ writes = 0
  /\ written = [f \in File |-> <<>>]
  /\ spoiled = {}
  /\ struck = FALSE

--------------------------------------------------------------------------------
\* Places of blocks

\* get_data_block reads nothing behind the end of the disk image.
ReadBlock(b) == IF b \in Block THEN blocks[b] ELSE Cleared

\* Mutant of BlockAt: a direct block too far.
BlockAtNext(node, k) ==
  IF k < ND THEN node.dblocks[Lesser(k + 2, ND)]
  ELSE ReadBlock(node.iblocks[(k - ND) \div B])[(k - ND) % B]

\* The reader's block k of a file.
BlockAt(node, k) ==
  IF k < ND THEN node.dblocks[k + 1]
  ELSE ReadBlock(node.iblocks[(k - ND) \div B])[(k - ND) % B]

\* The writer counts blocks from 1.  These are found through i2block and i3block.
Beyond(total) == total > ND + NI * B

\* The writer's block of a file.  Where total - ND is a multiple of B the code reads
\* the int before the copy of the indirect block.
PlaceOf(node, total, heap) ==
  IF total <= ND THEN node.dblocks[total]
  ELSE IF (total - ND) % B = 0 THEN heap
  ELSE ReadBlock(node.iblocks[(total - ND) \div B])[((total - ND) % B) - 1]

\* find_next_datablock takes a new block whenever the offset is at or past the old
\* end of the file, whether the block it stands for exists or not.
Takes(e, old) == e.byte_offset >= old
Dest(e, total, old, heap) == IF Takes(e, old) THEN free_block ELSE PlaceOf(e.node, total, heap)

\* The number of the block to write is neither the superblock's nor the inode's.
Found(e, total, old) == ~ Takes(e, old) /\ total > ND

\* update_inodes_datablocks: the new block is entered in dblocks or, for the
\* indirect region, in the block iblocks[index + 1].
Pointers(e, total) == e.node.iblocks[(total - ND) \div B + 1]

Entered(e, total, old) ==
  IF ~ Takes(e, old) THEN e.node
  ELSE IF total <= ND THEN [e.node EXCEPT !.dblocks[total] = free_block]
  ELSE IF (total - ND) % B = 0 THEN [e.node EXCEPT !.iblocks[(total - ND) \div B] = free_block]
  ELSE e.node

\* The request or the entry would use a block that is not in the data region.
NoPlace(e, total, old, heap) ==
  \/ Beyond(total)
  \/ Dest(e, total, old, heap) \notin Block
  \/ Takes(e, old) /\ total > ND /\ Pointers(e, total) \notin Block

WithPointer(e, total, old) ==
  IF Takes(e, old) /\ total > ND
  THEN [blocks EXCEPT ![Pointers(e, total)][(total - ND) % B] = free_block]
  ELSE blocks

\* Mutant of FreeAfter: the block taken stays at the head of the list.
FreeAfterSame(e, old) == free_block

\* request_new_block: the list's head moves on by the link in the block taken.
FreeAfter(e, old) == IF Takes(e, old) THEN blocks[free_block][0] ELSE free_block

\* The bytes of a file, as the reader finds them.
Contents(f) ==
  [j \in 1 .. inodes[f].size |->
     ReadBlock(BlockAt(inodes[f], (j - 1) \div B))[(j - 1) % B]]

\* The blocks on the free list: the least set with its head and, for each of its
\* blocks, the one that block links to.
FreeBlocks ==
  LET Closed == {S \in SUBSET Block :
                   /\ {free_block} \cap Block \subseteq S
                   /\ \A b \in S : {blocks[b][0]} \cap Block \subseteq S}
  IN  {b \in Block : \A S \in Closed : b \in S}

--------------------------------------------------------------------------------
\* f_open and f_close

Open == {s \in Slot : file_table[s].file # NoFile}
FreeSlot == CHOOSE s \in Slot \ Open : \A t \in Slot \ Open : s <= t

\* Mutant of NewFile: the list's head stays.
NewFileSharesBlock(f) ==
  /\ made' = made \cup {f}
  /\ inodes' = [inodes EXCEPT ![f] = [NewInode EXCEPT !.dblocks[1] = free_block]]
  /\ UNCHANGED free_block

\* A new file gets the head of the free list for its first block.
NewFile(f) ==
  /\ made' = made \cup {f}
  /\ inodes' = [inodes EXCEPT ![f] = [NewInode EXCEPT !.dblocks[1] = free_block]]
  /\ free_block' = blocks[free_block][0]

\* An existing file is neither emptied nor positioned at its end.
FileOpen(f, access) ==
  /\ call = Idle
  /\ Slot \ Open # {}
  /\ \/ f \in made /\ UNCHANGED <<made, inodes, free_block>>
     \/ f \notin made /\ access # "READ" /\ free_block \in Block /\ NewFile(f)
  /\ file_table' = [file_table EXCEPT ![FreeSlot] =
                      [file |-> f, node |-> inodes'[f], byte_offset |-> 0, access |-> access]]
  /\ UNCHANGED <<blocks, call, writes, history>>

Close(fd) ==
  /\ call = Idle
  /\ fd \in Open
  /\ file_table' = [file_table EXCEPT ![fd] = FreeEntry]
  /\ UNCHANGED <<disk, call, writes, history>>

--------------------------------------------------------------------------------
\* f_write

\* The calls f_write has the right code for: the descriptor's inode is the one on
\* the disk, and an APPEND starts inside the last block and stays there, or a
\* WRITE starts at the end and reaches into one more direct block at most.
InOrder(fd, n) ==
  LET e    == file_table[fd]
      size == e.node.size
      room == B - (size % B)
  IN
  /\ e.node = inodes[e.file]
  /\ IF e.access = "APPEND" THEN (size = 0 \/ size % B # 0) /\ n <= room
     ELSE /\ e.byte_offset = size
          /\ n <= room + B
          /\ size < ND * B /\ size + n <= ND * B

\* One block is written: cells behind those given keep what was there.
Fill(old, new) == [c \in Cell |-> IF c < Len(new) THEN new[c + 1] ELSE old[c]]

\* The descriptor's inode goes to the disk with every block.
Update(fd, e) ==
  /\ file_table' = [file_table EXCEPT ![fd] = e]
  /\ inodes' = [inodes EXCEPT ![e.file] = e.node]

\* The first block: what is in the last block up to off, the new bytes, zeros.
WholeBlock(last, off, new) ==
  [c \in Cell |-> IF c < off THEN last[c]
                  ELSE IF c < off + Len(new) THEN new[c - off + 1] ELSE 0]

\* What becomes of the history when a block is written: one whose number was found in
\* a block may be anybody's, or free.
Writes(f, ordered, found, dest) ==
  /\ spoiled' = IF found THEN File ELSE IF ordered THEN spoiled ELSE spoiled \cup {f}
  /\ struck' = (struck \/ (found /\ dest \in FreeBlocks))

\* What the file has been given when the call returns.
Returns(f, data) ==
  written' = [g \in File |-> IF g \in spoiled' THEN <<>>
                             ELSE IF g = f THEN written[g] \o data ELSE written[g]]

\* f_write up to its loop.  The "last block" is the one at the end of the file,
\* also when the descriptor stands elsewhere; APPEND writes to it in place.
Write(fd, data, heap) ==
  LET e      == file_table[fd]
      n      == Len(data)
      size   == e.node.size
      app    == e.access = "APPEND"
      start  == IF app THEN size ELSE e.byte_offset
      off    == start % B
      first  == Lesser(n, B - off)
      last   == BlockAt(e.node, size \div B)
      total  == IF app THEN 0 ELSE e.byte_offset \div B + 1
      dest   == IF app THEN last ELSE Dest(e, total, size, heap)
      cells  == WholeBlock(ReadBlock(last), off, SubSeq(data, 1, first))
      astray == \/ Beyond(size \div B + 1)
                \/ last < 0
                \/ IF app THEN last \notin Block ELSE NoPlace(e, total, size, heap)
      grown(node) == [e EXCEPT !.byte_offset = IF n <= B - off THEN start + n ELSE @ + first,
                               !.node = [node EXCEPT !.size = @ + first]]
      loop   == [pc |-> "write", fd |-> fd, data |-> data, from |-> first,
                 left |-> n - (B - off), total |-> total + 1, old |-> size, end |-> start + n]
  IN
  /\ call = Idle
  /\ fd \in Open
  /\ e.access # "READ"
  /\ writes < MaxWrites
  /\ \/ /\ B - off < n /\ free_block = None
        /\ UNCHANGED <<disk, file_table, call, writes, history>>
     \/ /\ ~ (B - off < n /\ free_block = None)
        /\ astray
        /\ call' = Fault
        /\ UNCHANGED <<disk, file_table, writes, history>>
     \/ /\ ~ (B - off < n /\ free_block = None)
        /\ ~ astray
        /\ writes' = writes + 1
        /\ Writes(e.file, InOrder(fd, n),
                  IF app THEN size \div B >= ND ELSE Found(e, total, size), dest)
        /\ \/ n > B - off /\ call' = loop /\ UNCHANGED written
           \/ n <= B - off /\ call' = Idle /\ Returns(e.file, data)
        /\ \/ /\ app
              /\ blocks' = [blocks EXCEPT ![dest] = cells]
              /\ Update(fd, grown(e.node))
              /\ UNCHANGED <<made, free_block>>
           \/ /\ ~ app
              /\ blocks' = [WithPointer(e, total, size) EXCEPT ![dest] = cells]
              /\ Update(fd, grown(Entered(e, total, size)))
              /\ free_block' = FreeAfter(e, size)
              /\ UNCHANGED made

\* One round of the loop.  datatowrite_offset is not moved on, so each round writes
\* the bytes that follow the first block's; what is behind them in the block stays.
WriteBlock(heap) ==
  LET fd    == call.fd
      e     == file_table[fd]
      count == Lesser(call.left, B)
      dest  == Dest(e, call.total, call.old, heap)
      mapped == WithPointer(e, call.total, call.old)
      node  == Entered(e, call.total, call.old)
      offset == e.byte_offset + count
      size  == IF e.access = "APPEND" THEN node.size + count
               ELSE IF node.size < offset THEN offset ELSE node.size
      done  == call.left = count
  IN
  /\ call.pc = "write"
  /\ UNCHANGED <<made, writes>>
  /\ \/ /\ NoPlace(e, call.total, call.old, heap)
        /\ call' = Fault
        /\ spoiled' = spoiled \cup {e.file}
        /\ UNCHANGED <<inodes, blocks, free_block, file_table, written, struck>>
     \/ /\ ~ NoPlace(e, call.total, call.old, heap)
        /\ Writes(e.file, TRUE, Found(e, call.total, call.old), dest)
        /\ blocks' = [mapped EXCEPT ![dest] =
                        Fill(@, SubSeq(call.data, call.from + 1, call.from + count))]
        /\ free_block' = FreeAfter(e, call.old)
        /\ Update(fd, [e EXCEPT !.byte_offset = IF done THEN call.end ELSE offset,
                                !.node = [node EXCEPT !.size = size]])
        /\ \/ done /\ call' = Idle /\ Returns(e.file, call.data)
           \/ ~ done /\ call' = [call EXCEPT !.left = @ - count, !.total = @ + 1] /\ UNCHANGED written

--------------------------------------------------------------------------------
\* f_read, f_seek, f_rewind


\* What round r of the n_times copies.  A round never copies the last byte of a block;
\* if that leaves bytes of size over, it turns to the next block, where it copies
\* nothing, and the next round goes on with them two blocks further.  A round in which
\* all are copied leaves none to the others.
Copied(e, size, r) ==
  LET off == e.byte_offset % B
      rem == B - 1 - off
      blk == ReadBlock(BlockAt(e.node, e.byte_offset \div B + 2 * r))
  IN  [j \in 1 .. Lesser(size - r * rem, rem) |-> blk[off + j - 1]]

\* f_read of n_times times size bytes.
Delivered(e, size, n_times) == FlattenSeq([r \in 1 .. n_times |-> Copied(e, size, r - 1)])

\* The reads f_read accepts; byte_offset stays where it is, so that a read is no
\* step of this module.
Readable(e, size, n_times) ==
  /\ e.access \in {"READ", "READANDWRITE"}
  /\ size > 0 /\ n_times > 0
  /\ size * n_times <= e.node.size /\ size * n_times <= e.node.size - e.byte_offset

Seek(fd, offset, whence) ==
  LET e  == file_table[fd]
      to == CASE whence = "SEEKSET" -> offset
              [] whence = "SEEKCUR" -> e.byte_offset + offset
              [] whence = "SEEKEND" -> e.byte_offset
  IN
  /\ call = Idle
  /\ fd \in Open
  /\ whence \in {"SEEKSET", "SEEKCUR"} => to <= e.node.size
  /\ file_table' = [file_table EXCEPT ![fd].byte_offset = to]
  /\ UNCHANGED <<disk, call, writes, history>>

Rewind(fd) ==
  /\ call = Idle
  /\ fd \in Open
  /\ file_table' = [file_table EXCEPT ![fd].byte_offset = 0]
  /\ UNCHANGED <<disk, call, writes, history>>

Next ==
  \/ \E f \in File, access \in Modes : FileOpen(f, access)
  \/ \E fd \in Slot : Close(fd)
  \/ \E fd \in Slot, data \in Buffers, heap \in HeapInts : Write(fd, data, heap)
  \/ \E heap \in HeapInts : WriteBlock(heap)
  \/ \E fd \in Slot, o \in Offsets, w \in {"SEEKSET", "SEEKCUR", "SEEKEND"} : Seek(fd, o, w)
  \/ \E fd \in Slot : Rewind(fd)

Spec == Init /\ [][Next]_vars

--------------------------------------------------------------------------------
(* Properties *)

\* No block is entered twice in direct blocks, nor both entered and on the free
\* list, through however many descriptors; and the free list ends.  A block given out
\* twice would mix the bytes of two files.  Whatever the bytes written, there is one
\* way to lose this: f_write writes past the direct blocks of a file, takes the number
\* of the block from one in which a caller's data may stand, and the block is free.
BlocksOwnedOnce ==
  LET free    == FreeBlocks
      At(p)   == inodes[p[1]].dblocks[p[2]]
      entered == {p \in made \X (1 .. ND) : At(p) # 0}
  IN
  ~ struck =>
    /\ \A p, q \in entered : p # q => At(p) # At(q)
    /\ \A p \in entered : At(p) \notin free
    /\ free_block # None => \E b \in free : blocks[b][0] = None


\* The promise of the module ByteFiles, for the calls f_write has the right code for.
\* A call in progress has written nothing yet, as far as its callers can see.
BF == INSTANCE ByteFiles WITH
        content <- [f \in File |->
                      IF f \in spoiled THEN <<>>
                      ELSE IF call.pc = "write" /\ file_table[call.fd].file = f THEN written[f]
                      ELSE Contents(f)]
ImplementsByteFiles == BF!Spec

Node == [size : Nat, dblocks : [1 .. ND -> Block], iblocks : [0 .. NI + 1 -> Block \cup {None}]]

Descriptor == [file : File \cup {NoFile}, node : Node, byte_offset : Nat, access : Access]

WriteCall == [pc : {"write"}, fd : Slot, data : Seq(Int), from : Nat, left : Nat \ {0},
              total : Nat \ {0}, old : Nat, end : Nat]

TypeOK ==
  /\ made \subseteq File /\ spoiled \subseteq File /\ struck \in BOOLEAN
  /\ inodes \in [File -> Node]
  /\ blocks \in [Block -> [Cell -> Int]]
  /\ free_block \in Int
  /\ file_table \in [Slot -> Descriptor]
  /\ call \in {Idle, Fault} \cup WriteCall
  /\ writes \in Nat
  /\ written \in [File -> Seq(Int)]

\* The list's head is a block of files, or the list is empty.
HeadRight == free_block \in (Block \ {RootBlock}) \cup {None}

\* The free blocks are those from FreeFrom on; nothing has been written to them.
FreeFrom == IF free_block = None THEN NBlocks ELSE free_block

FreeInOrder == \A b \in Block : b >= FreeFrom => blocks[b] = FormatBlock(b)

\* Every copy of an inode there is, on the disk and in the table, with its file.
Copies == {<<f, inodes[f]>> : f \in File}
            \cup {<<file_table[s].file, file_table[s].node>> : s \in Slot}

\* No copy, however old, names a free block.
UsedOnly ==
  \A x \in Copies : /\ \A i \in 1 .. ND : x[2].dblocks[i] < FreeFrom
                    /\ \A i \in 0 .. NI + 1 : x[2].iblocks[i] < FreeFrom

\* No two copies name a block at different places.
OnePlace ==
  \A x, y \in Copies : \A i, k \in 1 .. ND :
    x[2].dblocks[i] = y[2].dblocks[k] /\ x[2].dblocks[i] # 0 => x[1] = y[1] /\ i = k

\* Only files that were made are open; the inodes of the others are as formatted.
MadeOnly ==
  /\ \A s \in Open : file_table[s].file \in made
  /\ \A f \in File \ made : inodes[f] = NewInode

\* What the loop of f_write still has to write is in its buffer.
CallSound ==
  call.pc = "write" => /\ file_table[call.fd].file \in File
                       /\ call.from + call.left <= Len(call.data)

\* The inductive invariant behind BlocksOwnedOnce.
IInv ==
  /\ TypeOK /\ MadeOnly /\ CallSound
  /\ ~ struck => HeadRight /\ FreeInOrder /\ UsedOnly /\ OnePlace
================================================================================
