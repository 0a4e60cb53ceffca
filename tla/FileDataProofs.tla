---------------------------- MODULE FileDataProofs ----------------------------
(***************************************************************************)
(* Proofs about FileData for every number of files, descriptors and        *)
(* blocks, every block size and whatever is written: the types, and, until *)
(* a free block is written by a number found in a block, the ownership of  *)
(* blocks.                                                                 *)
(***************************************************************************)
EXTENDS FileData, WellFoundedInduction, TLAPS

\* What holds whatever is written.
Base == TypeOK /\ MadeOnly /\ CallSound

\* What holds as long as no free block was written by a number found.
Owned == HeadRight /\ FreeInOrder /\ UsedOnly /\ OnePlace

LEMMA IInvIs ==
  /\ IInv <=> Base /\ (~ struck => Owned)
  /\ IInv' <=> Base' /\ (~ struck' => Owned')
BY DEF IInv, Base, Owned

\* Places in a block and blocks of a file.
LEMMA DivMod ==
  ASSUME NEW a \in Nat
  PROVE  a % B \in Cell /\ a \div B \in Nat /\ a % B \in 0 .. B - 1
BY DataAssumption DEF Cell

LEMMA DivBound ==
  ASSUME NEW a \in Nat, a <= NI * B
  PROVE  a \div B <= NI
<1>1. PICK q \in Nat, m \in Nat, b \in Nat : q = a \div B /\ m = NI /\ b = B
  BY DivMod, DataAssumption
<1>2. b > 1 /\ b * q <= a /\ a <= m * b
  BY <1>1, DataAssumption, SMTT(30)
<1>3. q > m => b * q >= b * (m + 1) /\ b * (m + 1) = m * b + b
  BY SMTT(30)
<1>. QED
  BY <1>1, <1>2, <1>3, SMTT(30)

LEMMA Constants ==
  /\ NBlocks \in Nat /\ NBlocks > 1 /\ B \in Nat /\ B > 1
  /\ ND \in Nat /\ ND > 0 /\ NI \in Nat /\ NI > 0 /\ NSlots \in Nat
  /\ RootBlock \in Block /\ None \notin Block /\ 0 \in Cell
  /\ \A b \in Block : b \in Int
BY DataAssumption DEF RootBlock, Block, None, Cell

\* A block read from the disk image, or from behind its end.
LEMMA ReadBlockType ==
  ASSUME TypeOK, NEW b
  PROVE  ReadBlock(b) \in [Cell -> Int]
BY DEF ReadBlock, Cleared, TypeOK

--------------------------------------------------------------------------------
(* The free list and the copies of the inodes *)

LEMMA FreeFromFacts ==
  ASSUME HeadRight
  PROVE  /\ FreeFrom \in Nat /\ 1 <= FreeFrom /\ FreeFrom <= NBlocks
         /\ free_block \in Block <=> free_block # None
         /\ free_block \in Block => FreeFrom = free_block
BY Constants DEF HeadRight, FreeFrom, Block, RootBlock, None

\* The link in the head of the free list leads to the block behind it.
LEMMA TakenHead ==
  ASSUME HeadRight, FreeInOrder, free_block \in Block
  PROVE  LET next == blocks[free_block][0]
         IN  /\ next \in (Block \ {RootBlock}) \cup {None}
             /\ (IF next = None THEN NBlocks ELSE next) = FreeFrom + 1
<1>1. FreeFrom = free_block /\ free_block \in 1 .. NBlocks - 1
  BY FreeFromFacts, Constants DEF Block
<1>2. blocks[free_block] = FormatBlock(free_block)
  BY <1>1, Constants DEF FreeInOrder
<1>3. FormatBlock(free_block)[0] = IF free_block = NBlocks - 1 THEN None ELSE free_block + 1
  BY <1>1, Constants DEF FormatBlock, Cleared, RootBlock
<1>. QED
  BY <1>1, <1>2, <1>3, Constants DEF Block, RootBlock, None

\* The copies are inodes.
LEMMA CopyTypes ==
  ASSUME TypeOK, NEW x \in Copies
  PROVE  x[1] \in File \cup {NoFile} /\ x[2] \in Node
BY DEF TypeOK, Copies, Descriptor

LEMMA SlotTypes ==
  ASSUME TypeOK, NEW s \in Slot
  PROVE  /\ file_table[s] \in Descriptor /\ file_table[s].node \in Node
         /\ file_table[s].byte_offset \in Nat /\ file_table[s].access \in Access
         /\ file_table[s].file \in File \cup {NoFile}
         /\ <<file_table[s].file, file_table[s].node>> \in Copies
BY DEF TypeOK, Descriptor, Copies

\* The inode names, beside the blocks it named, at most the one just taken.
NamesNew(node, old, p) ==
  /\ \A i \in 1 .. ND :
       \/ node.dblocks[i] = old.dblocks[i]
       \/ i = p /\ node.dblocks[i] = FreeFrom /\ FreeFrom < FreeFrom'
  /\ \A i \in 0 .. NI + 1 :
       \/ node.iblocks[i] = old.iblocks[i]
       \/ node.iblocks[i] = FreeFrom /\ FreeFrom < FreeFrom'

\* A new copy that names, beside the blocks of the one it was made from, at most
\* the block just taken from the list, and that at one place.
LEMMA OwnershipKept ==
  ASSUME TypeOK, HeadRight, UsedOnly, OnePlace,
         NEW x \in Copies, NEW M \in Node, NEW p \in 1 .. ND,
         Copies' \subseteq Copies \cup {<<x[1], M>>},
         FreeFrom' \in Nat, FreeFrom <= FreeFrom',
         NamesNew(M, x[2], p)
  PROVE  UsedOnly' /\ OnePlace'
<1>. USE DEF NamesNew
<1>0. FreeFrom \in Nat
  BY FreeFromFacts
<1>1. ASSUME NEW y \in Copies
      PROVE  /\ \A i \in 1 .. ND : y[2].dblocks[i] \in Int /\ y[2].dblocks[i] < FreeFrom
             /\ \A i \in 0 .. NI + 1 : y[2].iblocks[i] \in Int /\ y[2].iblocks[i] < FreeFrom
  <2>1. y[2].dblocks \in [1 .. ND -> Block] /\ y[2].iblocks \in [0 .. NI + 1 -> Block \cup {None}]
    BY CopyTypes DEF Node
  <2>2. \A i \in 0 .. NI + 1 : y[2].iblocks[i] \in Int
    BY <2>1, Constants, SMTT(30) DEF None
  <2>. QED
    BY <2>1, <2>2, Constants DEF UsedOnly
<1>2. ASSUME NEW i \in 1 .. ND PROVE M.dblocks[i] < FreeFrom'
  BY <1>0, <1>1
<1>3. ASSUME NEW i \in 0 .. NI + 1 PROVE M.iblocks[i] < FreeFrom'
  BY <1>0, <1>1
<1>4. ASSUME NEW y \in Copies, NEW i \in 1 .. ND PROVE y[2].dblocks[i] < FreeFrom'
  BY <1>0, <1>1
<1>5. ASSUME NEW y \in Copies, NEW i \in 0 .. NI + 1 PROVE y[2].iblocks[i] < FreeFrom'
  BY <1>0, <1>1
<1>6. \A y \in Copies' : y \in Copies \/ (y[1] = x[1] /\ y[2] = M)
  OBVIOUS
<1>7. UsedOnly'
  BY <1>2, <1>3, <1>4, <1>5, <1>6 DEF UsedOnly
<1>8. ASSUME NEW y \in Copies, NEW i \in 1 .. ND, NEW k \in 1 .. ND,
             M.dblocks[i] = y[2].dblocks[k], M.dblocks[i] # 0
      PROVE  x[1] = y[1] /\ i = k
  <2>1. M.dblocks[i] # FreeFrom
    BY <1>0, <1>1, <1>8
  <2>. QED
    BY <1>8, <2>1 DEF OnePlace
<1>9. ASSUME NEW i \in 1 .. ND, NEW k \in 1 .. ND, M.dblocks[i] = M.dblocks[k], M.dblocks[i] # 0
      PROVE  i = k
  <2>1. CASE M.dblocks[i] = FreeFrom
    <3>1. ASSUME NEW m \in 1 .. ND, M.dblocks[m] = FreeFrom PROVE m = p
      <4>1. x[2].dblocks[m] \in Int /\ x[2].dblocks[m] < FreeFrom
        BY <1>1
      <4>. QED
        BY <1>0, <3>1, <4>1
    <3>. QED
      BY <1>9, <2>1, <3>1
  <2>2. CASE M.dblocks[i] # FreeFrom
    BY <1>9, <2>2 DEF OnePlace
  <2>. QED
    BY <2>1, <2>2
<1>10. OnePlace'
  <2> SUFFICES ASSUME NEW y \in Copies', NEW z \in Copies', NEW i \in 1 .. ND, NEW k \in 1 .. ND,
                      y[2].dblocks[i] = z[2].dblocks[k], y[2].dblocks[i] # 0
               PROVE  y[1] = z[1] /\ i = k
    BY DEF OnePlace
  <2>1. CASE y \in Copies /\ z \in Copies
    BY <2>1 DEF OnePlace
  <2>2. CASE y \in Copies /\ z[1] = x[1] /\ z[2] = M
    BY <1>8, <2>2
  <2>3. CASE y[1] = x[1] /\ y[2] = M /\ z \in Copies
    BY <1>8, <2>3
  <2>4. CASE y[1] = x[1] /\ y[2] = M /\ z[1] = x[1] /\ z[2] = M
    BY <1>9, <2>4
  <2>. QED
    BY <1>6, <2>1, <2>2, <2>3, <2>4
<1>. QED
  BY <1>7, <1>10

--------------------------------------------------------------------------------
(* The free blocks *)

\* The links of the free blocks.
LEMMA LinkOfFree ==
  ASSUME HeadRight, FreeInOrder, NEW b \in Block, b >= FreeFrom
  PROVE  blocks[b][0] = IF b = NBlocks - 1 THEN None ELSE b + 1
<1>1. b # RootBlock
  BY FreeFromFacts DEF RootBlock
<1>2. blocks[b] = FormatBlock(b)
  BY DEF FreeInOrder
<1>. QED
  BY <1>1, <1>2, Constants DEF FormatBlock, Cleared

\* The least closed set with the head of the list is all the free blocks.
LEMMA FreeBlocksAre ==
  ASSUME HeadRight, FreeInOrder
  PROVE  FreeBlocks = {b \in Block : b >= FreeFrom}
<1> DEFINE F == {b \in Block : b >= FreeFrom}
           Closed == {S \in SUBSET Block :
                        /\ {free_block} \cap Block \subseteq S
                        /\ \A b \in S : {blocks[b][0]} \cap Block \subseteq S}
<1>0. FreeFrom \in Nat /\ 1 <= FreeFrom /\ (free_block \in Block => FreeFrom = free_block)
      /\ (free_block \notin Block => FreeFrom = NBlocks)
  BY FreeFromFacts DEF FreeFrom
<1>1. F \in Closed
  <2>1. \A b \in F : {blocks[b][0]} \cap Block \subseteq F
    BY <1>0, LinkOfFree, Constants
  <2>2. {free_block} \cap Block \subseteq F
    BY <1>0, Constants
  <2>. QED
    BY <2>1, <2>2
<1>2. ASSUME NEW S \in Closed PROVE F \subseteq S
  <2> DEFINE E == F \ S
  <2> SUFFICES ASSUME E # {} PROVE FALSE
    OBVIOUS
  <2>1. E \subseteq Nat /\ E # {}
    BY DEF Block
  <2>2. PICK x \in E : \A y \in E : ~ (<<y, x>> \in OpToRel(<, Nat))
    BY <2>1, NatLessThanWellFounded, WFMin
  <2>3. x \in Block /\ x \in Nat /\ x >= FreeFrom /\ x \notin S
    BY <2>1
  <2>4. free_block \in Block
    BY <1>0, <2>3, Constants DEF Block
  <2>5. x # FreeFrom
    BY <1>0, <2>3, <2>4
  <2>6. x - 1 \in Block /\ x - 1 \in Nat /\ x - 1 >= FreeFrom /\ x - 1 < x /\ x - 1 # NBlocks - 1
        /\ (x - 1) + 1 = x
    BY <1>0, <2>3, <2>5, Constants DEF Block
  <2>7. x - 1 \in S
    <3>1. x - 1 \in E => <<x - 1, x>> \in OpToRel(<, Nat)
      BY <2>3, <2>6 DEF OpToRel
    <3>. QED
      BY <2>2, <2>6, <3>1
  <2>8. blocks[x - 1][0] = x
    BY <2>6, LinkOfFree
  <2>. QED
    BY <2>3, <2>7, <2>8
<1>3. FreeBlocks = {b \in Block : \A S \in Closed : b \in S}
  BY DEF FreeBlocks
<1> HIDE DEF Closed
<1>4. F \subseteq Block
  OBVIOUS
<1>. QED
  BY <1>1, <1>2, <1>3, <1>4

--------------------------------------------------------------------------------
(* A block written, with its inode *)

\* The step both parts of f_write are made of: with the indirect block's entry made
\* (mapped), the block dest is written and the inode stored, on the disk and in the
\* descriptor.
Stores(s, d, dest, cells, mapped) ==
  /\ file_table' = [file_table EXCEPT ![s] = d]
  /\ inodes' = [inodes EXCEPT ![d.file] = d.node]
  /\ blocks' = [mapped EXCEPT ![dest] = cells]

\* The entry made is in no block that is still free.
MappedKept(mapped) ==
  /\ mapped \in [Block -> [Cell -> Int]]
  /\ \A b \in Block : b >= FreeFrom' => mapped[b] = blocks[b]

LEMMA StoredTypes ==
  ASSUME TypeOK, NEW s \in Slot, NEW d \in Descriptor, d.file \in File,
         NEW dest \in Block, NEW cells \in [Cell -> Int], NEW mapped \in [Block -> [Cell -> Int]],
         Stores(s, d, dest, cells, mapped)
  PROVE  /\ inodes' \in [File -> Node] /\ blocks' \in [Block -> [Cell -> Int]]
         /\ file_table' \in [Slot -> Descriptor]
<1>1. d.node \in Node
  BY DEF Descriptor
<1>. QED
  BY <1>1 DEF TypeOK, Stores

\* Ownership is kept if what is written was not free, or has just been taken.
LEMMA StoredOwned ==
  ASSUME TypeOK, Owned,
         NEW s \in Slot, NEW d \in Descriptor, d.file = file_table[s].file, d.file \in File,
         NEW dest \in Block, NEW cells, NEW mapped, Stores(s, d, dest, cells, mapped),
         HeadRight', FreeFrom' \in {FreeFrom, FreeFrom + 1}, dest < FreeFrom', MappedKept(mapped),
         NEW p \in 1 .. ND, NamesNew(d.node, file_table[s].node, p)
  PROVE  Owned'
<1>. USE DEF Owned
<1>0. FreeFrom \in Nat /\ FreeFrom' \in Nat /\ FreeFrom <= FreeFrom'
  BY FreeFromFacts
<1>1. d.node \in Node
  BY DEF Descriptor
<1>3. FreeInOrder'
  <2> SUFFICES ASSUME NEW b \in Block, b >= FreeFrom' PROVE blocks'[b] = FormatBlock(b)
    BY DEF FreeInOrder, FormatBlock, Cleared
  <2>1. b # dest /\ b >= FreeFrom
    BY <1>0, Constants
  <2>. QED
    BY <2>1 DEF FreeInOrder, Stores, MappedKept
<1>4. PICK x \in Copies : x = <<file_table[s].file, file_table[s].node>>
  BY SlotTypes
<1>5. Copies' \subseteq Copies \cup {<<x[1], d.node>>}
  <2>1. ASSUME NEW f \in File PROVE <<f, inodes'[f]>> \in Copies \cup {<<x[1], d.node>>}
    BY <1>4 DEF TypeOK, Copies, Stores
  <2>2. ASSUME NEW t \in Slot
        PROVE  <<file_table'[t].file, file_table'[t].node>> \in Copies \cup {<<x[1], d.node>>}
    BY <1>4 DEF TypeOK, Copies, Stores
  <2>. QED
    BY <2>1, <2>2 DEF Copies
<1>6. UsedOnly' /\ OnePlace'
  <2>1. PICK m \in Node : m = d.node
    BY <1>1
  <2>2. NamesNew(m, x[2], p) /\ Copies' \subseteq Copies \cup {<<x[1], m>>}
    BY <1>4, <1>5, <2>1
  <2>3. HeadRight /\ UsedOnly /\ OnePlace
    OBVIOUS
  <2> HIDE DEF Owned
  <2>. QED
    BY <1>0, <2>2, <2>3, OwnershipKept
<1>. QED
  BY <1>3, <1>6

--------------------------------------------------------------------------------
(* The writer's place for the next block *)

\* The inode with the new block entered in it, if one is taken.
LEMMA EnteredFacts ==
  ASSUME TypeOK, NEW s \in Slot, NEW total \in Nat \ {0}, NEW old \in Nat, ~ Beyond(total),
         Takes(file_table[s], old) => free_block \in Block
  PROVE  LET e == file_table[s]
             M == Entered(e, total, old)
         IN  /\ M \in Node /\ M.size = e.node.size
             /\ ~ Takes(e, old) => M = e.node
             /\ \A i \in 1 .. ND : \/ M.dblocks[i] = e.node.dblocks[i]
                                   \/ i = total /\ M.dblocks[i] = free_block
             /\ \A i \in 0 .. NI + 1 : M.iblocks[i] = e.node.iblocks[i] \/ M.iblocks[i] = free_block
<1> DEFINE e == file_table[s]
           M == Entered(e, total, old)
           k == (total - ND) \div B
           fits == (total - ND) % B = 0
<1>1. e.node \in Node
  BY SlotTypes
<1>2. CASE ~ Takes(e, old)
  BY <1>1, <1>2 DEF Entered
<1>3. CASE Takes(e, old) /\ total <= ND
  <2>1. total \in 1 .. ND /\ free_block \in Block
    BY <1>3, Constants
  <2>2. M = [e.node EXCEPT !.dblocks[total] = free_block]
    BY <1>3 DEF Entered
  <2>. QED
    BY <1>1, <1>3, <2>1, <2>2, ZenonT(40) DEF Node
<1>4. CASE Takes(e, old) /\ ~ (total <= ND) /\ fits
  <2>1. k \in 0 .. NI + 1 /\ free_block \in Block
    <3>1. total - ND \in Nat /\ total - ND <= NI * B
      <4>1. NI * B \in Nat
        BY Constants
      <4>. QED
        BY <1>4, <4>1, Constants DEF Beyond
    <3>2. k \in Nat /\ k <= NI
      BY <3>1, DivMod, DivBound
    <3>. QED
      BY <1>4, <3>2, Constants
  <2>2. M = [e.node EXCEPT !.iblocks[k] = free_block]
    BY <1>4 DEF Entered
  <2>3. Takes(e, old) /\ ~ (total <= ND)
    BY <1>4
  <2> HIDE DEF k, fits, M, e
  <2>4. M \in Node /\ M.size = e.node.size /\ M.dblocks = e.node.dblocks
        /\ M.iblocks = [e.node.iblocks EXCEPT ![k] = free_block]
    BY <1>1, <2>1, <2>2 DEF Node
  <2>5. \A i \in 0 .. NI + 1 : M.iblocks[i] = e.node.iblocks[i] \/ M.iblocks[i] = free_block
    BY <1>1, <2>1, <2>4 DEF Node
  <2>. QED
    BY <2>3, <2>4, <2>5 DEF M, e
<1>5. CASE Takes(e, old) /\ ~ (total <= ND) /\ ~ fits
  BY <1>1, <1>5 DEF Entered
<1> HIDE DEF fits
<1>. QED
  BY <1>2, <1>3, <1>4, <1>5

\* The entry in an indirect block.
LEMMA PointerMade ==
  ASSUME TypeOK, NEW s \in Slot, NEW total \in Nat \ {0}, NEW old \in Nat, NEW heap,
         ~ NoPlace(file_table[s], total, old, heap)
  PROVE  LET mapped == WithPointer(file_table[s], total, old)
         IN  /\ mapped \in [Block -> [Cell -> Int]]
             /\ Owned => \A b \in Block : b >= FreeFrom => mapped[b] = blocks[b]
<1> DEFINE e == file_table[s]
           k == (total - ND) % B
           h == Pointers(e, total)
           mapped == WithPointer(e, total, old)
<1>0. blocks \in [Block -> [Cell -> Int]] /\ e \in Descriptor
  BY SlotTypes DEF TypeOK
<1>1. CASE ~ (Takes(e, old) /\ total > ND)
  <2>1. mapped = blocks
    BY <1>1 DEF WithPointer
  <2>. QED
    BY <1>0, <2>1
<1>2. CASE Takes(e, old) /\ total > ND
  <2>1. mapped = [blocks EXCEPT ![h][k] = free_block]
    BY <1>2 DEF WithPointer
  <2>2. total - ND \in Nat
    BY <1>2, Constants
  <2>3. h \in Block /\ free_block \in Int
    BY <1>2 DEF NoPlace, TypeOK
  <2>4. Owned => h < FreeFrom
    <3> DEFINE i == (total - ND) \div B + 1
    <3>1. i \in 0 .. NI + 1
      <4>1. total - ND <= NI * B
        <5>1. NI * B \in Nat
          BY Constants
        <5>. QED
          BY <1>2, <5>1, Constants DEF NoPlace, Beyond
      <4>2. (total - ND) \div B \in Nat /\ (total - ND) \div B <= NI
        BY <2>2, <4>1, DivMod, DivBound
      <4>. QED
        BY <4>2, Constants
    <3>2. h = e.node.iblocks[i]
      BY DEF Pointers
    <3>3. PICK x \in Copies : x = <<e.file, e.node>>
      BY SlotTypes
    <3> HIDE DEF i, h
    <3>. QED
      BY <3>1, <3>2, <3>3 DEF UsedOnly, Owned
  <2> HIDE DEF mapped, h, k
  <2>5. mapped \in [Block -> [Cell -> Int]]
    BY <1>0, <2>1, <2>3
  <2>6. Owned => \A b \in Block : b >= FreeFrom => mapped[b] = blocks[b]
    <3>1. Owned => FreeFrom \in Nat
      BY FreeFromFacts DEF Owned
    <3>. QED
      BY <1>0, <2>1, <2>3, <2>4, <3>1, Constants
  <2>. QED
    BY <2>5, <2>6 DEF mapped
<1>. QED
  BY <1>1, <1>2

\* What a step that writes the writer's next block needs to keep the types.
LEMMA PlacedTypes ==
  ASSUME TypeOK, NEW s \in Slot, NEW total \in Nat \ {0}, NEW old \in Nat, NEW heap,
         ~ NoPlace(file_table[s], total, old, heap),
         free_block' = FreeAfter(file_table[s], old)
  PROVE  LET e == file_table[s]
             M == Entered(e, total, old)
         IN  /\ free_block' \in Int
             /\ Dest(e, total, old, heap) \in Block
             /\ Takes(e, old) => free_block \in Block
             /\ M \in Node /\ M.size = e.node.size
<1> DEFINE e == file_table[s]
<1>1. Dest(e, total, old, heap) \in Block /\ (Takes(e, old) => free_block \in Block) /\ ~ Beyond(total)
  BY DEF NoPlace, Dest
<1>2. free_block' \in Int
  BY <1>1, Constants DEF FreeAfter, TypeOK
<1>. QED
  BY <1>1, <1>2, EnteredFacts

\* And to keep the ownership: where the number was found in a block, that it is not
\* the number of a free one.
LEMMA PlacedOwned ==
  ASSUME TypeOK, Owned, NEW s \in Slot, NEW total \in Nat \ {0}, NEW old \in Nat, NEW heap,
         ~ NoPlace(file_table[s], total, old, heap),
         free_block' = FreeAfter(file_table[s], old),
         Found(file_table[s], total, old) => Dest(file_table[s], total, old, heap) \notin FreeBlocks
  PROVE  LET e    == file_table[s]
             M    == Entered(e, total, old)
             dest == Dest(e, total, old, heap)
         IN  /\ HeadRight' /\ FreeFrom' \in {FreeFrom, FreeFrom + 1}
             /\ dest < FreeFrom'
             /\ \E p \in 1 .. ND : NamesNew(M, e.node, p)
<1> USE DEF Owned
<1> DEFINE e    == file_table[s]
           M    == Entered(e, total, old)
           dest == Dest(e, total, old, heap)
<1>0. FreeFrom \in Nat /\ 1 <= FreeFrom /\ <<e.file, e.node>> \in Copies /\ e.node \in Node
  BY FreeFromFacts, SlotTypes
<1>1. dest \in Block /\ (Takes(e, old) => free_block \in Block) /\ ~ Beyond(total)
  BY DEF NoPlace, Dest
<1>2. CASE Takes(e, old)
  <2>1. HeadRight' /\ free_block = FreeFrom /\ FreeFrom' = FreeFrom + 1 /\ dest = free_block
    BY <1>1, <1>2, TakenHead, FreeFromFacts DEF FreeAfter, FreeFrom, HeadRight, Dest
  <2>2. PICK p \in 1 .. ND : total \in 1 .. ND => p = total
    BY Constants
  <2>3. NamesNew(M, e.node, p)
    BY <1>0, <1>1, <1>2, <2>1, <2>2, EnteredFacts DEF NamesNew
  <2> HIDE DEF M, dest, e
  <2>. QED
    BY <1>0, <2>1, <2>3 DEF M, dest, e
<1>3. CASE ~ Takes(e, old)
  <2>1. free_block' = free_block /\ FreeFrom' = FreeFrom
    BY <1>3 DEF FreeAfter, FreeFrom
  <2>2. HeadRight'
    BY <2>1 DEF HeadRight
  <2>3. M = e.node
    BY <1>3 DEF Entered
  <2>4. NamesNew(M, e.node, 1) /\ 1 \in 1 .. ND
    BY <2>3, Constants DEF NamesNew
  <2>5. dest < FreeFrom
    <3>1. CASE total <= ND
      <4>1. total \in 1 .. ND /\ dest = e.node.dblocks[total]
        BY <1>3, <3>1, Constants DEF Dest, PlaceOf
      <4>2. PICK x \in Copies : x = <<e.file, e.node>>
        BY <1>0
      <4> HIDE DEF dest
      <4>. QED
        BY <4>1, <4>2 DEF UsedOnly
    <3>2. CASE ~ (total <= ND)
      <4>1. dest \notin FreeBlocks
        BY <1>3, <3>2, Constants DEF Found
      <4> HIDE DEF dest
      <4>2. ~ (dest >= FreeFrom)
        BY <1>1, <4>1, FreeBlocksAre
      <4>. QED
        BY <1>0, <1>1, <4>2, Constants
    <3>. QED
      BY <3>1, <3>2
  <2> HIDE DEF M, dest, e
  <2>. QED
    BY <2>1, <2>2, <2>4, <2>5 DEF M, dest, e
<1>. QED
  BY <1>2, <1>3

--------------------------------------------------------------------------------
(* The invariant, action by action *)

LEMMA NewInodeType == NewInode \in Node /\ FreeEntry \in Descriptor
BY Constants DEF NewInode, FreeEntry, Node, Descriptor, Access, Block, None

LEMMA Inits == Init => IInv
<1> SUFFICES ASSUME Init PROVE IInv
  OBVIOUS
<1>1. \A b \in Block : FormatBlock(b) \in [Cell -> Int]
  BY Constants DEF FormatBlock, Cleared, None
<1>2. TypeOK
  <2>1. free_block \in Int /\ struck \in BOOLEAN /\ written \in [File -> Seq(Int)]
    <3>1. <<>> \in Seq(Int)
      OBVIOUS
    <3>2. written \in [File -> Seq(Int)]
      BY <3>1 DEF Init
    <3>3. struck \in BOOLEAN
      BY DEF Init
    <3>. QED
      BY <3>2, <3>3 DEF Init
  <2>2. call \in {Idle, Fault} \cup WriteCall /\ writes \in Nat /\ made \subseteq File /\ spoiled \subseteq File
    BY DEF Init
  <2>3. inodes \in [File -> Node] /\ file_table \in [Slot -> Descriptor]
    BY NewInodeType DEF Init
  <2>4. blocks \in [Block -> [Cell -> Int]]
    BY <1>1 DEF Init
  <2>. QED
    BY <2>1, <2>2, <2>3, <2>4 DEF TypeOK
<1>3. \A x \in Copies : x[2] = NewInode
  BY DEF Init, Copies, FreeEntry
<1>4. FreeFrom = 1 /\ HeadRight
  BY Constants DEF Init, FreeFrom, None, HeadRight, Block, RootBlock
<1>5. MadeOnly /\ CallSound
  BY DEF Init, MadeOnly, CallSound, Open, FreeEntry, NewInode, Idle
<1>6. FreeInOrder
  BY DEF Init, FreeInOrder
<1>7. UsedOnly /\ OnePlace
  <2>1. /\ \A i \in 1 .. ND : NewInode.dblocks[i] = 0
        /\ \A i \in 0 .. NI + 1 : NewInode.iblocks[i] < 1
    BY Constants DEF NewInode, None
  <2>. QED
    BY <1>3, <1>4, <2>1 DEF UsedOnly, OnePlace
<1>. QED
  BY <1>2, <1>4, <1>5, <1>6, <1>7 DEF IInv

\* A step that writes nothing to the disk and gives a slot at most a copy that there
\* is already, or none.
LEMMA CopiesOnly ==
  ASSUME Owned, UNCHANGED <<blocks, free_block>>, Copies' \subseteq Copies \cup {<<NoFile, NewInode>>}
  PROVE  Owned'
<1> USE DEF Owned
<1>1. FreeFrom' = FreeFrom /\ FreeFrom \in Nat /\ 1 <= FreeFrom
  BY FreeFromFacts DEF FreeFrom
<1>2. /\ \A i \in 1 .. ND : NewInode.dblocks[i] = 0
      /\ \A i \in 0 .. NI + 1 : NewInode.iblocks[i] \in {0, None}
  BY DEF NewInode
<1>3. \A y \in Copies' : y \in Copies \/ y[2] = NewInode
  OBVIOUS
<1>4. FreeInOrder' /\ HeadRight'
  BY <1>1 DEF FreeInOrder, FormatBlock, Cleared, HeadRight
<1>5. UsedOnly'
  BY <1>1, <1>2, <1>3 DEF UsedOnly, None
<1>6. OnePlace'
  BY <1>2, <1>3 DEF OnePlace
<1>. QED
  BY <1>4, <1>5, <1>6

\* With the types kept, and the history as it was, so is the invariant.
LEMMA NothingWritten ==
  ASSUME IInv, Base', UNCHANGED <<blocks, free_block, struck>>,
         Copies' \subseteq Copies \cup {<<NoFile, NewInode>>}
  PROVE  IInv'
BY CopiesOnly, IInvIs

LEMMA CloseKeeps == ASSUME IInv, NEW fd \in Slot, Close(fd) PROVE IInv'
<1> USE DEF IInv, Close, disk, history
<1>1. TypeOK'
  BY NewInodeType DEF TypeOK
<1>2. MadeOnly' /\ CallSound'
  BY DEF TypeOK, MadeOnly, CallSound, Open, FreeEntry, NewInode, Idle
<1>3. Copies' \subseteq Copies \cup {<<NoFile, NewInode>>}
  BY DEF TypeOK, Copies, FreeEntry
<1> HIDE DEF IInv
<1>. QED
  BY <1>1, <1>2, <1>3, NothingWritten DEF Base

\* f_seek and f_rewind leave the copies as they are.
LEMMA MoveKeeps ==
  ASSUME IInv, NEW fd \in Open, NEW to \in Nat, call = Idle,
         file_table' = [file_table EXCEPT ![fd].byte_offset = to],
         UNCHANGED <<disk, call, writes, history>>
  PROVE  IInv'
<1> USE DEF IInv, disk, history
<1>0. fd \in Slot /\ file_table \in [Slot -> Descriptor]
  BY DEF Open, TypeOK
<1>1. /\ file_table' \in [Slot -> Descriptor]
      /\ \A s \in Slot : /\ file_table'[s].file = file_table[s].file
                         /\ file_table'[s].node = file_table[s].node
  BY <1>0 DEF Descriptor
<1>2. TypeOK'
  BY <1>1 DEF TypeOK
<1>3. MadeOnly' /\ CallSound'
  BY <1>0, <1>1 DEF MadeOnly, CallSound, Open, Idle
<1>4. Copies' \subseteq Copies \cup {<<NoFile, NewInode>>}
  BY <1>1 DEF Copies
<1> HIDE DEF IInv
<1>. QED
  BY <1>2, <1>3, <1>4, NothingWritten DEF Base

LEMMA SeekKeeps ==
  ASSUME IInv, NEW fd \in Slot, NEW o \in Offsets, NEW w \in {"SEEKSET", "SEEKCUR", "SEEKEND"},
         Seek(fd, o, w)
  PROVE  IInv'
<1> DEFINE e  == file_table[fd]
           to == CASE w = "SEEKSET" -> o
                   [] w = "SEEKCUR" -> e.byte_offset + o
                   [] w = "SEEKEND" -> e.byte_offset
<1>1. o \in Nat /\ e.byte_offset \in Nat
  BY SlotTypes, DataAssumption DEF IInv
<1>2. to \in Nat
  BY <1>1
<1>3. /\ file_table' = [file_table EXCEPT ![fd].byte_offset = to]
      /\ fd \in Open /\ call = Idle /\ UNCHANGED <<disk, call, writes, history>>
  BY DEF Seek
<1> HIDE DEF to
<1>. QED
  BY <1>2, <1>3, MoveKeeps

LEMMA RewindKeeps == ASSUME IInv, NEW fd \in Slot, Rewind(fd) PROVE IInv'
BY MoveKeeps DEF Rewind

\* The slot f_open takes.
LEMMA FreeSlotIsFree ==
  ASSUME Slot \ Open # {}
  PROVE  FreeSlot \in Slot \ Open
<1>1. PICK s \in Slot \ Open : \A t \in Slot \ Open : s <= t
  <2>1. Slot \ Open \subseteq Nat /\ Slot \ Open # {}
    BY Constants DEF Slot
  <2>2. PICK m \in Slot \ Open : \A t \in Slot \ Open : ~ (<<t, m>> \in OpToRel(<, Nat))
    BY <2>1, NatLessThanWellFounded, WFMin
  <2>3. ASSUME NEW t \in Slot \ Open PROVE m <= t
    <3>1. t \in Nat /\ m \in Nat
      BY <2>1
    <3>2. t < m => <<t, m>> \in OpToRel(<, Nat)
      BY <3>1 DEF OpToRel
    <3>3. ~ (<<t, m>> \in OpToRel(<, Nat))
      BY <2>2
    <3>4. ~ (t < m)
      BY <3>2, <3>3
    <3>. QED
      BY <3>1, <3>4
  <2>. QED
    BY <2>3
<1>. QED
  BY <1>1 DEF FreeSlot

\* A file that is there gets a slot.
LEMMA OpenKeeps ==
  ASSUME IInv, NEW f \in made, NEW access \in Modes, FileOpen(f, access),
         UNCHANGED <<made, inodes, free_block>>
  PROVE  IInv'
<1> USE DEF IInv, history
<1> DEFINE d == [file |-> f, node |-> inodes[f], byte_offset |-> 0, access |-> access]
<1>0. /\ f \in File /\ access \in Access /\ d \in Descriptor /\ inodes[f] \in Node
  BY DataAssumption DEF TypeOK, Descriptor
<1>1. PICK s \in Slot : s = FreeSlot
  BY FreeSlotIsFree DEF FileOpen
<1>2. file_table' = [file_table EXCEPT ![s] = d] /\ call = Idle /\ UNCHANGED <<blocks, call, writes, history>>
  BY <1>1 DEF FileOpen
<1>3. TypeOK'
  BY <1>0, <1>2 DEF TypeOK
<1>4. MadeOnly' /\ CallSound'
  BY <1>2 DEF TypeOK, MadeOnly, CallSound, Open, Idle
<1>5. Copies' \subseteq Copies \cup {<<NoFile, NewInode>>}
  BY <1>0, <1>2 DEF TypeOK, Copies
<1> HIDE DEF IInv
<1>. QED
  BY <1>2, <1>3, <1>4, <1>5, NothingWritten DEF Base

\* A new file takes its first block.
LEMMA NewFileKeeps ==
  ASSUME IInv, NEW f \in File \ made, NEW access \in Modes, FileOpen(f, access)
  PROVE  IInv'
<1> USE DEF Base, history
<1> DEFINE M == [NewInode EXCEPT !.dblocks[1] = free_block]
           d == [file |-> f, node |-> M, byte_offset |-> 0, access |-> access]
<1>i. Base /\ (~ struck => Owned)
  BY IInvIs
<1>0. free_block \in Block /\ NewFile(f) /\ call = Idle /\ UNCHANGED <<blocks, call, writes, history>>
  BY <1>i DEF FileOpen
<1>1. /\ M \in Node
      /\ \A i \in 1 .. ND : M.dblocks[i] = IF i = 1 THEN free_block ELSE 0
      /\ \A i \in 0 .. NI + 1 : M.iblocks[i] = NewInode.iblocks[i]
  BY <1>0, Constants, NewInodeType DEF NewInode, Node
<1>2. d \in Descriptor
  BY <1>1, DataAssumption DEF Descriptor
<1>3. PICK s \in Slot : s = FreeSlot
  BY FreeSlotIsFree DEF FileOpen
<1>4. /\ made' = made \cup {f} /\ inodes' = [inodes EXCEPT ![f] = M]
      /\ file_table' = [file_table EXCEPT ![s] = d]
      /\ free_block' = blocks[free_block][0]
  <2>1. made' = made \cup {f} /\ inodes' = [inodes EXCEPT ![f] = M]
    BY <1>0 DEF NewFile
  <2>2. inodes'[f] = M
    BY <1>i, <2>1 DEF TypeOK
  <2>. QED
    BY <1>0, <1>3, <2>1, <2>2 DEF FileOpen, NewFile
<1> HIDE DEF M, d
<1>5. TypeOK'
  <2>1. free_block' \in Int
    BY <1>i, <1>0, <1>4, Constants DEF TypeOK
  <2>. QED
    BY <1>i, <1>0, <1>1, <1>2, <1>4, <2>1 DEF TypeOK
<1>6. MadeOnly' /\ CallSound'
  BY <1>i, <1>0, <1>4 DEF TypeOK, MadeOnly, CallSound, Open, Idle, d
<1>7. ASSUME Owned PROVE Owned'
  <2>. USE DEF Owned
  <2>1. HeadRight' /\ FreeFrom' = FreeFrom + 1 /\ FreeFrom = free_block /\ FreeFrom \in Nat
    BY <1>0, <1>4, <1>7, TakenHead, FreeFromFacts DEF FreeFrom, HeadRight
  <2>2. FreeInOrder'
    <3>1. ASSUME NEW b \in Block, b >= FreeFrom' PROVE blocks[b] = FormatBlock(b)
      <4>1. b >= FreeFrom
        BY <2>1, <3>1, Constants
      <4>. QED
        BY <1>7, <4>1 DEF FreeInOrder
    <3>. QED
      BY <1>0, <3>1 DEF FreeInOrder, FormatBlock, Cleared
  <2>3. PICK x \in Copies : x = <<f, NewInode>>
    BY <1>i DEF Copies, MadeOnly
  <2>4. Copies' \subseteq Copies \cup {<<x[1], M>>}
    BY <1>i, <1>4, <2>3 DEF TypeOK, Copies, d
  <2>5. NamesNew(M, x[2], 1)
    <3>1. \A i \in 1 .. ND : x[2].dblocks[i] = 0
      BY <2>3 DEF NewInode
    <3>2. FreeFrom < FreeFrom'
      BY <2>1
    <3>. QED
      BY <1>1, <2>1, <2>3, <3>1, <3>2 DEF NamesNew
  <2>6. 1 \in 1 .. ND /\ FreeFrom' \in Nat /\ FreeFrom <= FreeFrom'
    BY <2>1, Constants
  <2>7. TypeOK /\ HeadRight /\ UsedOnly /\ OnePlace
    BY <1>i, <1>7
  <2>8. UsedOnly' /\ OnePlace'
    BY <1>1, <2>4, <2>5, <2>6, <2>7, OwnershipKept
  <2>. QED
    BY <2>1, <2>2, <2>8
<1>8. struck' = struck
  BY <1>0
<1> HIDE DEF Base
<1>9. Base'
  BY <1>5, <1>6 DEF Base
<1>. QED
  BY <1>i, <1>7, <1>8, <1>9, IInvIs

--------------------------------------------------------------------------------
(* f_write *)

\* What the invariant says of an open descriptor.
LEMMA OpenTypes ==
  ASSUME Base, NEW fd \in Open
  PROVE  /\ fd \in Slot /\ file_table[fd] \in Descriptor /\ file_table[fd].file \in File
         /\ file_table[fd].file \in made /\ file_table[fd].file # NoFile
         /\ file_table[fd].node \in Node /\ file_table[fd].node.size \in Nat
         /\ file_table[fd].byte_offset \in Nat
<1>1. fd \in Slot /\ file_table[fd].file # NoFile /\ file_table[fd].file \in made
  BY DEF Base, MadeOnly, Open
<1>2. file_table[fd] \in Descriptor
  BY <1>1 DEF Base, TypeOK
<1>. QED
  BY <1>1, <1>2 DEF Base, TypeOK, Descriptor, Node

\* A part of a buffer.
LEMMA PartOf ==
  ASSUME NEW data \in Seq(Int), NEW a \in Nat, NEW m \in Nat, a + m <= Len(data)
  PROVE  /\ Len(SubSeq(data, a + 1, a + m)) = m
         /\ \A j \in 1 .. m : SubSeq(data, a + 1, a + m)[j] \in Int
<1>1. Len(SubSeq(data, a + 1, a + m)) = m
  OBVIOUS
<1>2. ASSUME NEW j \in 1 .. m
      PROVE  SubSeq(data, a + 1, a + m)[j] = data[a + j] /\ a + j \in DOMAIN data
  <2>1. a + j \in 1 .. Len(data) /\ DOMAIN data = 1 .. Len(data)
    OBVIOUS
  <2>2. SubSeq(data, a + 1, a + m)[j] = data[a + 1 + j - 1]
    BY SMTT(30)
  <2>3. a + 1 + j - 1 = a + j
    OBVIOUS
  <2>. QED
    BY <2>1, <2>2, <2>3
<1>3. \A j \in 1 .. m : data[a + j] \in Int
  BY <1>2
<1>. QED
  BY <1>1, <1>2, <1>3

\* The first block of a call: what was in the last block, bytes of the buffer and zeros.
LEMMA WholeType ==
  ASSUME NEW last \in [Cell -> Int], NEW off \in 0 .. B - 1,
         NEW new, Len(new) \in Nat, \A j \in 1 .. Len(new) : new[j] \in Int
  PROVE  WholeBlock(last, off, new) \in [Cell -> Int]
<1>1. ASSUME NEW c \in Cell PROVE WholeBlock(last, off, new)[c] \in Int
  <2>0. c \in Int /\ off \in Int /\ c >= 0
    BY Constants DEF Cell
  <2>1. CASE ~ (c < off) /\ c < off + Len(new)
    <3>1. c - off + 1 \in 1 .. Len(new)
      BY <2>0, <2>1
    <3>2. WholeBlock(last, off, new)[c] = new[c - off + 1]
      BY <2>1 DEF WholeBlock
    <3>. QED
      BY <3>1, <3>2
  <2>2. CASE c < off \/ ~ (c < off + Len(new))
    BY <2>2 DEF WholeBlock
  <2>. QED
    BY <2>1, <2>2
<1>. QED
  BY <1>1 DEF WholeBlock

\* The next blocks: bytes of the buffer, then what was there.
LEMMA FillType ==
  ASSUME NEW was \in [Cell -> Int],
         NEW new, Len(new) \in Nat, \A j \in 1 .. Len(new) : new[j] \in Int
  PROVE  Fill(was, new) \in [Cell -> Int]
<1>1. ASSUME NEW c \in Cell PROVE Fill(was, new)[c] \in Int
  <2>1. CASE c < Len(new)
    <3>1. Fill(was, new)[c] = new[c + 1] /\ c + 1 \in 1 .. Len(new)
      BY <2>1, Constants DEF Fill, Cell
    <3>. QED
      BY <3>1
  <2>2. CASE ~ (c < Len(new))
    BY <2>2 DEF Fill
  <2>. QED
    BY <2>1, <2>2
<1>. QED
  BY <1>1 DEF Fill

\* The call after a step of it, and the history.
CallKept(fd) ==
  /\ made' = made /\ writes' \in Nat
  /\ call' \in {Idle, Fault} \cup WriteCall
  /\ call'.pc = "write" => call'.fd = fd /\ call'.from + call'.left <= Len(call'.data)
  /\ written' \in [File -> Seq(Int)] /\ spoiled' \subseteq File /\ struck' \in BOOLEAN

\* After a store the types hold again.
LEMMA StoreKeeps ==
  ASSUME Base, NEW fd \in Open, NEW d \in Descriptor, d.file = file_table[fd].file,
         NEW dest \in Block, NEW cells \in [Cell -> Int], NEW mapped \in [Block -> [Cell -> Int]],
         Stores(fd, d, dest, cells, mapped), free_block' \in Int, CallKept(fd)
  PROVE  Base'
<1> USE DEF Stores, CallKept
<1>0. fd \in Slot /\ d.file \in made /\ d.file \in File /\ d.file # NoFile
  BY OpenTypes
<1>1. TypeOK'
  BY <1>0, StoredTypes DEF TypeOK, Base
<1>2. file_table'[fd] = d /\ (\A s \in Slot : s # fd => file_table'[s] = file_table[s])
  BY <1>0 DEF TypeOK, Base
<1>3. MadeOnly'
  <2>1. \A s \in Open' : file_table'[s].file \in made
    BY <1>0, <1>2 DEF MadeOnly, Open, Base
  <2>2. \A f \in File \ made : inodes'[f] = NewInode
    BY <1>0 DEF MadeOnly, TypeOK, Base
  <2>. QED
    BY <2>1, <2>2 DEF MadeOnly, NewInode
<1>4. CallSound'
  BY <1>0, <1>2 DEF CallSound
<1>. QED
  BY <1>1, <1>3, <1>4 DEF Base

\* The history stays of its type.
LEMMA HistoryTypes ==
  ASSUME TypeOK, NEW f \in File, NEW ordered, NEW found, NEW dest, Writes(f, ordered, found, dest)
  PROVE  /\ spoiled' \subseteq File /\ struck' \in BOOLEAN
         /\ ~ struck' => ~ struck /\ (found => dest \notin FreeBlocks)
         /\ \A data \in Seq(Int) : Returns(f, data) => written' \in [File -> Seq(Int)]
<1>1. spoiled' \subseteq File
  BY DEF Writes, TypeOK
<1>2. struck' \in BOOLEAN /\ (~ struck' => ~ struck /\ (found => dest \notin FreeBlocks))
  BY DEF Writes, TypeOK
<1>3. ASSUME NEW data \in Seq(Int), Returns(f, data) PROVE written' \in [File -> Seq(Int)]
  <2>1. ASSUME NEW g \in File
        PROVE  (IF g \in spoiled' THEN <<>>
                ELSE IF g = f THEN written[g] \o data ELSE written[g]) \in Seq(Int)
    <3>1. written[g] \in Seq(Int) /\ <<>> \in Seq(Int)
      BY DEF TypeOK
    <3>2. written[g] \o data \in Seq(Int)
      BY <3>1
    <3>. QED
      BY <3>1, <3>2
  <2>. QED
    BY <1>3, <2>1 DEF Returns
<1>. QED
  BY <1>1, <1>2, <1>3

\* One round of the loop, or the first block of a call, at the writer's next place.
LEMMA NextPlaced ==
  ASSUME IInv, NEW fd \in Open, NEW total \in Nat \ {0}, NEW old \in Nat, NEW heap, NEW ordered,
         ~ NoPlace(file_table[fd], total, old, heap),
         NEW d \in Descriptor, d.file = file_table[fd].file,
         d.node.dblocks = Entered(file_table[fd], total, old).dblocks,
         d.node.iblocks = Entered(file_table[fd], total, old).iblocks,
         NEW cells \in [Cell -> Int],
         Stores(fd, d, Dest(file_table[fd], total, old, heap), cells,
                WithPointer(file_table[fd], total, old)),
         free_block' = FreeAfter(file_table[fd], old),
         Writes(file_table[fd].file, ordered, Found(file_table[fd], total, old),
                Dest(file_table[fd], total, old, heap)),
         CallKept(fd)
  PROVE  IInv'
<1> DEFINE e == file_table[fd]
           M == Entered(e, total, old)
           dest == Dest(e, total, old, heap)
           mapped == WithPointer(e, total, old)
<1>1. Base /\ TypeOK /\ fd \in Slot /\ e.file \in File /\ (~ struck => Owned)
  BY IInvIs, OpenTypes DEF Base
<1>2. /\ free_block' \in Int /\ dest \in Block /\ mapped \in [Block -> [Cell -> Int]]
      /\ Owned => \A b \in Block : b >= FreeFrom => mapped[b] = blocks[b]
  BY <1>1, PlacedTypes, PointerMade
<1>3. PICK b \in Block, m \in [Block -> [Cell -> Int]] : b = dest /\ m = mapped
  BY <1>2
<1>4. Stores(fd, d, b, cells, m)
  BY <1>3
<1>5. Base'
  BY <1>1, <1>2, <1>4, StoreKeeps
<1>6. ASSUME ~ struck' PROVE Owned'
  <2>1. Owned /\ (Found(e, total, old) => dest \notin FreeBlocks)
    BY <1>1, <1>6, HistoryTypes
  <2>2. /\ HeadRight' /\ FreeFrom' \in {FreeFrom, FreeFrom + 1} /\ dest < FreeFrom'
        /\ \E p \in 1 .. ND : NamesNew(M, e.node, p)
    BY <1>1, <2>1, PlacedOwned
  <2>3. PICK p \in 1 .. ND : NamesNew(d.node, e.node, p)
    BY <2>2 DEF NamesNew
  <2>4. MappedKept(m)
    <3>1. FreeFrom \in Nat
      BY <2>1, FreeFromFacts DEF Owned
    <3>2. \A c \in Block : c >= FreeFrom' => c >= FreeFrom
      BY <2>2, <3>1, Constants
    <3>. QED
      BY <1>2, <1>3, <2>1, <3>2 DEF MappedKept
  <2>5. b < FreeFrom'
    BY <1>3, <2>2
  <2> HIDE DEF dest, mapped, M
  <2>. QED
    BY <1>1, <1>4, <2>1, <2>2, <2>3, <2>4, <2>5, StoredOwned
<1>. QED
  BY <1>5, <1>6, IInvIs

\* f_write up to its loop.
LEMMA WriteKeeps ==
  ASSUME IInv, NEW fd \in Slot, NEW data \in Buffers, NEW heap \in HeapInts, Write(fd, data, heap)
  PROVE  IInv'
<1> DEFINE e      == file_table[fd]
           n      == Len(data)
           size   == e.node.size
           app    == e.access = "APPEND"
           start  == IF app THEN size ELSE e.byte_offset
           off    == start % B
           first  == Lesser(n, B - off)
           last   == BlockAt(e.node, size \div B)
           total  == IF app THEN 0 ELSE e.byte_offset \div B + 1
           dest   == IF app THEN last ELSE Dest(e, total, size, heap)
           found  == IF app THEN size \div B >= ND ELSE Found(e, total, size)
           new    == SubSeq(data, 1, first)
           cells  == WholeBlock(ReadBlock(last), off, new)
           grown(node) == [e EXCEPT !.byte_offset = IF n <= B - off THEN start + n ELSE @ + first,
                                    !.node = [node EXCEPT !.size = @ + first]]
           loop   == [pc |-> "write", fd |-> fd, data |-> data, from |-> first,
                      left |-> n - (B - off), total |-> total + 1, old |-> size, end |-> start + n]
           Main   == /\ writes' = writes + 1 /\ made' = made
                     /\ Writes(e.file, InOrder(fd, n), found, dest)
                     /\ \/ n > B - off /\ call' = loop /\ UNCHANGED written
                        \/ n <= B - off /\ call' = Idle /\ Returns(e.file, data)
           InPlace == /\ app /\ last \in Block
                      /\ Stores(fd, grown(e.node), last, cells, blocks)
                      /\ free_block' = free_block
           AtPlace == /\ ~ app /\ ~ NoPlace(e, total, size, heap)
                      /\ Stores(fd, grown(Entered(e, total, size)), Dest(e, total, size, heap), cells,
                                WithPointer(e, total, size))
                      /\ free_block' = FreeAfter(e, size)
<1>0. Base /\ TypeOK /\ (~ struck => Owned)
  BY IInvIs DEF Base
<1>1. fd \in Open /\ e \in Descriptor /\ e.file \in File
  BY <1>0, OpenTypes DEF Write
<1>2. \/ UNCHANGED <<disk, file_table, call, writes, history>>
      \/ call' = Fault /\ UNCHANGED <<disk, file_table, writes, history>>
      \/ Main /\ InPlace
      \/ Main /\ AtPlace
  BY <1>1 DEF Write, Update, Stores, Descriptor
<1>3. CASE UNCHANGED <<disk, file_table, writes, history>> /\ call' \in {call, Fault}
  <2>1. Base'
    BY <1>0, <1>3 DEF Base, TypeOK, MadeOnly, CallSound, Open, Fault, disk, history, NewInode
  <2>2. Copies' \subseteq Copies \cup {<<NoFile, NewInode>>}
    BY <1>3 DEF Copies, disk
  <2>. QED
    BY <1>3, <2>1, <2>2, NothingWritten DEF disk, history
<1>4. /\ data \in Seq(Int) /\ n \in Nat /\ writes + 1 \in Nat
  BY <1>0, DataAssumption DEF TypeOK
<1>5. /\ size \in Nat /\ e.byte_offset \in Nat /\ e.node \in Node
  BY <1>0, <1>1, OpenTypes
<1>6. start \in Nat
  BY <1>5
<1>7. off \in 0 .. B - 1
  BY <1>6, DivMod
<1> HIDE DEF off, start
<1>8. /\ first \in Nat /\ first <= n
      /\ n > B - off => first = B - off
  BY <1>4, <1>7, Constants DEF Lesser
<1> HIDE DEF first
<1>9. Len(new) = first /\ \A j \in 1 .. Len(new) : new[j] \in Int
  <2>1. 0 + first <= Len(data) /\ 0 \in Nat
    BY <1>8
  <2>2. /\ Len(SubSeq(data, 0 + 1, 0 + first)) = first
        /\ \A j \in 1 .. first : SubSeq(data, 0 + 1, 0 + first)[j] \in Int
    BY <1>4, <1>8, <2>1, PartOf
  <2>3. 0 + 1 = 1 /\ 0 + first = first
    BY <1>8
  <2>. QED
    BY <2>2, <2>3
<1> HIDE DEF new
<1>10. cells \in [Cell -> Int]
  <2>1. PICK o \in 0 .. B - 1, l \in [Cell -> Int] : o = off /\ l = ReadBlock(last)
    BY <1>0, <1>7, ReadBlockType
  <2>2. PICK w : w = new
    OBVIOUS
  <2>. QED
    BY <1>8, <1>9, <2>1, <2>2, WholeType
<1> HIDE DEF cells
\* The descriptor after the step.
<1>11. ASSUME NEW node \in Node, node.size = size
       PROVE  /\ grown(node) \in Descriptor /\ grown(node).file = e.file
              /\ grown(node).node.dblocks = node.dblocks
              /\ grown(node).node.iblocks = node.iblocks
  <2> DEFINE to == IF n <= B - off THEN start + n ELSE e.byte_offset + first
  <2>1. to \in Nat
    BY <1>4, <1>5, <1>6, <1>8
  <2>2. size + first \in Nat /\ [node EXCEPT !.size = size + first] \in Node
    BY <1>5, <1>8 DEF Node
  <2>3. grown(node) = [e EXCEPT !.byte_offset = to, !.node = [node EXCEPT !.size = size + first]]
    BY <1>1, <1>11 DEF Descriptor
  <2> HIDE DEF to
  <2>4. /\ grown(node) \in Descriptor /\ grown(node).file = e.file
        /\ grown(node).node = [node EXCEPT !.size = size + first]
    BY <1>1, <2>1, <2>2, <2>3 DEF Descriptor
  <2>. QED
    BY <1>11, <2>2, <2>4 DEF Node
<1>12. total + 1 \in Nat \ {0} /\ (~ app => total \in Nat \ {0})
  BY <1>5, DivMod
<1> HIDE DEF total
\* What is left for the loop.
<1>13. ASSUME Main PROVE CallKept(fd)
  <2>1. /\ made' = made /\ writes' \in Nat /\ spoiled' \subseteq File /\ struck' \in BOOLEAN
        /\ (Returns(e.file, data) => written' \in [File -> Seq(Int)])
    BY <1>0, <1>1, <1>4, <1>13, HistoryTypes
  <2>2. CASE n > B - off /\ call' = loop /\ UNCHANGED written
    <3>1. n - (B - off) \in Nat \ {0} /\ first + (n - (B - off)) <= n
      <4>1. n \in Int /\ B \in Int /\ off \in Int
        BY <1>4, <1>7, Constants
      <4>. QED
        BY <1>8, <2>2, <4>1
    <3>2. start + n \in Nat
      BY <1>4, <1>6
    <3>3. loop \in WriteCall
      BY <1>4, <1>5, <1>8, <1>12, <3>1, <3>2, SMTT(30) DEF WriteCall
    <3>4. loop.fd = fd /\ loop.from + loop.left <= Len(loop.data)
      BY <3>1
    <3>5. written' \in [File -> Seq(Int)]
      BY <1>0, <2>2 DEF TypeOK
    <3> HIDE DEF loop, Main
    <3>. QED
      BY <2>1, <2>2, <3>3, <3>4, <3>5 DEF CallKept
  <2>3. CASE call' = Idle /\ Returns(e.file, data)
    BY <2>1, <2>3 DEF Idle, CallKept
  <2>. QED
    BY <1>13, <2>2, <2>3
<1>14. CASE Main /\ InPlace
  <2> DEFINE d == grown(e.node)
  <2>1. /\ d \in Descriptor /\ d.file = e.file
        /\ d.node.dblocks = e.node.dblocks /\ d.node.iblocks = e.node.iblocks
    BY <1>5, <1>11
  <2>2. CallKept(fd)
    BY <1>13, <1>14
  <2>3. free_block' = free_block /\ last \in Block /\ Stores(fd, d, last, cells, blocks)
        /\ app /\ Writes(e.file, InOrder(fd, n), found, dest)
    BY <1>14
  <2> HIDE DEF d, grown, loop, Main, InPlace
  <2>4. PICK x \in Descriptor, b \in Block, z \in [Cell -> Int], m \in [Block -> [Cell -> Int]] :
          x = d /\ b = last /\ z = cells /\ m = blocks
    BY <1>0, <1>10, <2>1, <2>3 DEF TypeOK
  <2>5. Stores(fd, x, b, z, m) /\ x.file = e.file
    BY <2>1, <2>3, <2>4
  <2>6. free_block' \in Int
    BY <1>0, <2>3 DEF TypeOK
  <2>7. Base'
    BY <1>0, <1>1, <2>2, <2>4, <2>5, <2>6, StoreKeeps
  <2>8. ASSUME ~ struck' PROVE Owned'
    <3>1. Owned /\ (size \div B >= ND => last \notin FreeBlocks)
      BY <1>0, <1>1, <2>3, <2>8, HistoryTypes
    <3>2. FreeFrom' = FreeFrom /\ FreeFrom \in Nat /\ HeadRight'
      BY <2>3, <3>1, FreeFromFacts DEF FreeFrom, Owned, HeadRight
    <3>3. b < FreeFrom
      <4>1. size \div B \in Nat
        BY <1>5, DivMod
      <4>2. CASE size \div B < ND
        <5>1. PICK y \in Copies : y = <<e.file, e.node>>
          BY <1>0, <1>1, SlotTypes DEF Open
        <5>2. size \div B + 1 \in 1 .. ND /\ last = e.node.dblocks[size \div B + 1]
          BY <4>1, <4>2, Constants DEF BlockAt
        <5> HIDE DEF last
        <5>. QED
          BY <2>4, <3>1, <5>1, <5>2 DEF Owned, UsedOnly
      <4>3. CASE ~ (size \div B < ND)
        <5>1. b \notin FreeBlocks
          BY <2>4, <3>1, <4>1, <4>3, Constants
        <5>2. ~ (b >= FreeFrom)
          BY <3>1, <5>1, FreeBlocksAre DEF Owned
        <5>. QED
          BY <3>2, <5>2, Constants
      <4>. QED
        BY <4>2, <4>3
    <3>4. MappedKept(m)
      BY <2>4 DEF MappedKept
    <3>5. NamesNew(x.node, e.node, 1) /\ 1 \in 1 .. ND
      BY <2>1, <2>4, Constants DEF NamesNew
    <3>. QED
      BY <1>0, <1>1, <2>4, <2>5, <3>1, <3>2, <3>3, <3>4, <3>5, StoredOwned DEF Open
  <2>. QED
    BY <2>7, <2>8, IInvIs
<1>15. CASE Main /\ AtPlace
  <2> DEFINE node == Entered(e, total, size)
             d == grown(node)
  <2>1. /\ ~ app /\ ~ NoPlace(e, total, size, heap) /\ free_block' = FreeAfter(e, size)
        /\ Stores(fd, d, Dest(e, total, size, heap), cells, WithPointer(e, total, size))
        /\ CallKept(fd)
        /\ Writes(e.file, InOrder(fd, n), Found(e, total, size), Dest(e, total, size, heap))
    BY <1>13, <1>15
  <2>2. PICK t \in Nat \ {0}, o \in Nat : t = total /\ o = size
    BY <1>5, <1>12, <2>1
  <2>3. node \in Node /\ node.size = size
    BY <1>0, <1>1, <2>1, <2>2, PlacedTypes DEF Open
  <2>4. /\ d \in Descriptor /\ d.file = e.file
        /\ d.node.dblocks = node.dblocks /\ d.node.iblocks = node.iblocks
    BY <1>11, <2>3
  <2> HIDE DEF d, grown, loop, Main, AtPlace, node
  <2>5. PICK x \in Descriptor, z \in [Cell -> Int] : x = d /\ z = cells
    BY <1>10, <2>4
  <2>6. PICK ordered : ordered = InOrder(fd, n)
    OBVIOUS
  <2>7. /\ ~ NoPlace(e, t, o, heap) /\ free_block' = FreeAfter(e, o)
        /\ Stores(fd, x, Dest(e, t, o, heap), z, WithPointer(e, t, o))
        /\ Writes(e.file, ordered, Found(e, t, o), Dest(e, t, o, heap))
        /\ x.file = e.file
        /\ x.node.dblocks = Entered(e, t, o).dblocks /\ x.node.iblocks = Entered(e, t, o).iblocks
    BY <2>1, <2>2, <2>4, <2>5, <2>6 DEF node
  <2>. QED
    BY <1>1, <2>1, <2>2, <2>5, <2>7, NextPlaced
<1>16. CASE UNCHANGED <<disk, file_table, call, writes, history>>
  BY <1>3, <1>16
<1>17. CASE call' = Fault /\ UNCHANGED <<disk, file_table, writes, history>>
  BY <1>3, <1>17
<1> HIDE DEF Main, InPlace, AtPlace
<1>. QED
  BY <1>2, <1>14, <1>15, <1>16, <1>17

\* One round of the loop.
LEMMA WriteBlockKeeps == ASSUME IInv, NEW heap \in HeapInts, WriteBlock(heap) PROVE IInv'
<1>0. Base /\ TypeOK /\ (~ struck => Owned)
  BY IInvIs DEF Base
<1>1. call \in WriteCall /\ call.pc = "write"
  BY <1>0 DEF TypeOK, WriteBlock, Idle, Fault
<1>2. /\ call.fd \in Slot /\ call.data \in Seq(Int) /\ call.from \in Nat /\ call.left \in Nat \ {0}
      /\ call.total \in Nat \ {0} /\ call.old \in Nat /\ call.end \in Nat
  BY <1>1 DEF WriteCall
<1>3. /\ file_table[call.fd].file \in File
      /\ call.from + call.left <= Len(call.data)
  BY <1>0, <1>1 DEF Base, CallSound
<1>4. PICK fd \in Open, total \in Nat \ {0}, old \in Nat :
         fd = call.fd /\ total = call.total /\ old = call.old
  BY <1>2, <1>3, DataAssumption DEF Open
<1> DEFINE e     == file_table[fd]
           count == Lesser(call.left, B)
           dest  == Dest(e, total, old, heap)
           mapped == WithPointer(e, total, old)
           node  == Entered(e, total, old)
           offset == e.byte_offset + count
           size  == IF e.access = "APPEND" THEN node.size + count
                    ELSE IF node.size < offset THEN offset ELSE node.size
           done  == call.left = count
           new   == SubSeq(call.data, call.from + 1, call.from + count)
           cells == Fill(mapped[dest], new)
           d     == [e EXCEPT !.byte_offset = IF done THEN call.end ELSE offset,
                              !.node = [node EXCEPT !.size = size]]
           Goes  == [call EXCEPT !.left = @ - count, !.total = @ + 1]
<1>5. /\ fd \in Slot /\ e \in Descriptor /\ e.node \in Node /\ e.node.size \in Nat
      /\ e.byte_offset \in Nat /\ e.file \in File
  BY <1>0, OpenTypes
<1>6. CASE NoPlace(e, total, old, heap)
  <2>1. /\ call' = Fault /\ spoiled' = spoiled \cup {e.file}
        /\ UNCHANGED <<made, writes, inodes, blocks, free_block, file_table, written, struck>>
    BY <1>4, <1>6 DEF WriteBlock
  <2>2. Base'
    BY <1>0, <1>5, <2>1 DEF Base, TypeOK, MadeOnly, CallSound, Open, Fault, NewInode
  <2>3. Copies' \subseteq Copies \cup {<<NoFile, NewInode>>}
    BY <2>1 DEF Copies
  <2>. QED
    BY <2>1, <2>2, <2>3, NothingWritten
<1>7. CASE ~ NoPlace(e, total, old, heap)
  <2>1. /\ free_block' = FreeAfter(e, old) /\ UNCHANGED <<made, writes>>
        /\ Writes(e.file, TRUE, Found(e, total, old), dest)
        /\ blocks' = [mapped EXCEPT ![dest] = cells]
        /\ file_table' = [file_table EXCEPT ![fd] = d]
        /\ inodes' = [inodes EXCEPT ![d.file] = d.node]
        /\ \/ done /\ call' = Idle /\ Returns(e.file, call.data)
           \/ ~ done /\ call' = Goes /\ UNCHANGED written
    <3>1. [mapped EXCEPT ![dest] = Fill(@, new)] = [mapped EXCEPT ![dest] = cells]
      OBVIOUS
    <3>. QED
      BY <1>4, <1>7, <3>1 DEF WriteBlock, Update
  <2>2. /\ dest \in Block /\ node \in Node /\ node.size = e.node.size
        /\ mapped \in [Block -> [Cell -> Int]]
    BY <1>0, <1>5, <1>7, <2>1, PlacedTypes, PointerMade
  <2>3. Stores(fd, d, dest, cells, mapped)
    BY <2>1 DEF Stores
  <2> HIDE DEF node, dest, mapped
  <2>4. count \in Nat /\ count <= call.left /\ (~ done => call.left - count \in Nat \ {0})
    BY <1>2, Constants DEF Lesser
  <2> HIDE DEF count
  <2>5. cells \in [Cell -> Int]
    <3>1. call.from + count <= Len(call.data)
      BY <1>2, <1>3, <2>4
    <3>2. PICK data \in Seq(Int), a \in Nat, m \in Nat :
            data = call.data /\ a = call.from /\ m = count
      BY <1>2, <2>4
    <3>3. Len(new) = count /\ \A j \in 1 .. Len(new) : new[j] \in Int
      BY <3>1, <3>2, PartOf
    <3>4. PICK was \in [Cell -> Int] : was = mapped[dest]
      BY <2>2
    <3>5. PICK w : w = new
      OBVIOUS
    <3> HIDE DEF new
    <3>. QED
      BY <2>4, <3>3, <3>4, <3>5, FillType
  <2> HIDE DEF cells
  <2>6. size \in Nat /\ offset \in Nat
    BY <1>5, <2>2, <2>4
  <2> HIDE DEF size, offset
  <2>7. /\ d \in Descriptor /\ d.file = e.file
        /\ d.node.dblocks = node.dblocks /\ d.node.iblocks = node.iblocks
    <3>1. [node EXCEPT !.size = size] \in Node
      BY <2>2, <2>6 DEF Node
    <3>. QED
      BY <1>2, <1>5, <2>2, <2>6, <3>1 DEF Descriptor, Node
  <2> HIDE DEF d
  <2>8. CallKept(fd)
    <3>1. /\ made' = made /\ writes' \in Nat /\ spoiled' \subseteq File /\ struck' \in BOOLEAN
          /\ (Returns(e.file, call.data) => written' \in [File -> Seq(Int)])
      BY <1>0, <1>2, <1>5, <2>1, HistoryTypes DEF TypeOK
    <3>2. CASE done /\ call' = Idle /\ Returns(e.file, call.data)
      BY <3>1, <3>2 DEF Idle, CallKept
    <3>3. CASE ~ done /\ call' = Goes /\ UNCHANGED written
      <4>1. call.left - count \in Nat \ {0} /\ call.total + 1 \in Nat \ {0}
        <5>1. ~ done
          BY <3>3
        <5> HIDE DEF Goes, done
        <5>2. call.left - count \in Nat \ {0}
          BY <2>4, <5>1, Zenon
        <5>3. call.total + 1 \in Nat \ {0}
          BY <1>2
        <5>. QED
          BY <5>2, <5>3
      <4>2. /\ Goes \in WriteCall /\ Goes.fd = fd /\ Goes.from = call.from
            /\ Goes.left = call.left - count /\ Goes.data = call.data
        BY <1>1, <1>4, <4>1 DEF WriteCall
      <4>3. call.from + (call.left - count) <= Len(call.data)
        BY <1>2, <1>3, <2>4, SMTT(30)
      <4>4. written' \in [File -> Seq(Int)]
        BY <1>0, <3>3 DEF TypeOK
      <4> HIDE DEF Goes, done
      <4>. QED
        BY <3>1, <3>3, <4>2, <4>3, <4>4 DEF CallKept
    <3> HIDE DEF Goes, done
    <3>. QED
      BY <2>1, <3>2, <3>3
  <2>9. PICK x \in Descriptor, z \in [Cell -> Int] : x = d /\ z = cells
    BY <2>5, <2>7
  <2>10. PICK ordered : ordered = TRUE
    OBVIOUS
  <2>11. /\ Stores(fd, x, Dest(e, total, old, heap), z, WithPointer(e, total, old))
         /\ x.file = e.file
         /\ x.node.dblocks = Entered(e, total, old).dblocks
         /\ x.node.iblocks = Entered(e, total, old).iblocks
         /\ Writes(e.file, ordered, Found(e, total, old), Dest(e, total, old, heap))
    BY <2>1, <2>3, <2>7, <2>9, <2>10 DEF node, dest, mapped
  <2>. QED
    BY <1>7, <2>1, <2>8, <2>9, <2>11, NextPlaced
<1>. QED
  BY <1>6, <1>7

--------------------------------------------------------------------------------
\* The invariant of the module, for every number of files, slots, blocks and cells,
\* and whatever the buffers hold.
THEOREM DataInvariant == Spec => []IInv
<1>1. IInv /\ [Next]_vars => IInv'
  <2> SUFFICES ASSUME IInv, [Next]_vars PROVE IInv'
    OBVIOUS
  <2>1. ASSUME NEW f \in File, NEW access \in Modes, FileOpen(f, access) PROVE IInv'
    <3>1. (f \in made /\ UNCHANGED <<made, inodes, free_block>>) \/ f \notin made
      BY <2>1 DEF FileOpen
    <3>. QED
      BY <2>1, <3>1, OpenKeeps, NewFileKeeps
  <2>2. CASE UNCHANGED vars
    <3>1. Base'
      BY <2>2 DEF vars, IInv, Base, TypeOK, MadeOnly, CallSound, Open, NewInode
    <3>2. Copies' \subseteq Copies \cup {<<NoFile, NewInode>>}
      BY <2>2 DEF vars, Copies
    <3>. QED
      BY <2>2, <3>1, <3>2, NothingWritten DEF vars
  <2>. QED
    BY <2>1, <2>2, CloseKeeps, WriteKeeps, WriteBlockKeeps, SeekKeeps, RewindKeeps DEF Next
<1>. QED
  BY <1>1, Inits, PTL DEF Spec

LEMMA OwnedOnce == IInv => BlocksOwnedOnce
<1> SUFFICES ASSUME IInv, ~ struck PROVE BlocksOwnedOnce
  BY DEF BlocksOwnedOnce
<1> DEFINE At(p) == inodes[p[1]].dblocks[p[2]]
           entered == {p \in made \X (1 .. ND) : At(p) # 0}
<1>1. TypeOK /\ HeadRight /\ FreeInOrder /\ UsedOnly /\ OnePlace
  BY DEF IInv
<1>2. FreeFrom \in Nat /\ (free_block # None => free_block \in Block /\ FreeFrom = free_block)
  BY <1>1, FreeFromFacts
<1>3. FreeBlocks = {b \in Block : b >= FreeFrom}
  BY <1>1, FreeBlocksAre
<1>4. ASSUME NEW f \in made PROVE <<f, inodes[f]>> \in Copies /\ inodes[f] \in Node
  BY <1>1 DEF TypeOK, Copies
<1>5. ASSUME NEW p \in entered
      PROVE  p = <<p[1], p[2]>> /\ p[1] \in made /\ p[2] \in 1 .. ND /\ At(p) # 0
  OBVIOUS
<1>6. ASSUME NEW p \in entered, NEW q \in entered, p # q PROVE At(p) # At(q)
  <2>1. PICK x \in Copies, y \in Copies :
          x = <<p[1], inodes[p[1]]>> /\ y = <<q[1], inodes[q[1]]>>
    BY <1>4, <1>5
  <2>2. At(p) = At(q) => p[1] = q[1] /\ p[2] = q[2]
    BY <1>1, <1>5, <2>1 DEF OnePlace
  <2>. QED
    BY <1>5, <1>6, <2>2
<1>7. ASSUME NEW p \in entered PROVE At(p) \notin FreeBlocks
  <2>1. PICK x \in Copies : x = <<p[1], inodes[p[1]]>>
    BY <1>4, <1>5
  <2>2. At(p) < FreeFrom /\ At(p) \in Block
    BY <1>1, <1>4, <1>5, <2>1 DEF UsedOnly, Node
  <2>. QED
    BY <1>2, <1>3, <2>2, Constants
<1>8. ASSUME free_block # None PROVE \E b \in FreeBlocks : blocks[b][0] = None
  <2>1. NBlocks - 1 \in Block /\ NBlocks - 1 >= FreeFrom
    BY <1>2, <1>8, Constants DEF Block
  <2>2. blocks[NBlocks - 1][0] = None
    BY <1>1, <2>1, LinkOfFree
  <2>. QED
    BY <1>3, <2>1, <2>2
<1>. QED
  BY <1>6, <1>7, <1>8 DEF BlocksOwnedOnce

\* BlocksOwnedOnce: until f_write takes the number of a free block from a block it
\* reads, and through however many descriptors, no block is entered twice, none that
\* is entered is free, and the free list ends.
THEOREM BlocksStayOwned == Spec => []BlocksOwnedOnce
BY DataInvariant, OwnedOnce, PTL
================================================================================
