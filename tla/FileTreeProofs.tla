---------------------------- MODULE FileTreeProofs ----------------------------
(***************************************************************************)
(* FileSystem for every disk, table and workload.  However damaged the     *)
(* directories are, the superblock on disk is that in memory, the root     *)
(* keeps slot 0, and no busy slot is overwritten.  As long as the calls    *)
(* are Orderly, the free lists, who holds which block, the directory tree, *)
(* and what the open-file table caches of it are right.                    *)
(***************************************************************************)
EXTENDS FileSystem, FiniteSetTheorems, WellFoundedInduction, TLAPS

LEMMA SuperblockStep ==
  ASSUME SbDurable, [Next]_vars
  PROVE  SbDurable'
<1>. USE DEF SbDurable, disk, table
<1>1. ASSUME NEW w \in Workload, Begin(w[1], w[2], w[3]) PROVE SbDurable'
  BY <1>1 DEF Begin, OpenRoot
<1>2. CASE Walk  BY <1>2 DEF Walk
<1>3. CASE PathEnd  BY <1>3 DEF PathEnd
<1>4. CASE OpenedDir  BY <1>4 DEF OpenedDir
<1>5. CASE Mkdir
  BY <1>5 DEF Mkdir, Fault, AppendToFull, UpdateSuperblock
<1>6. CASE OpenFile
  BY <1>6 DEF OpenFile, Fault, AppendToFull, UpdateSuperblock
<1>7. CASE Remove
  BY <1>7 DEF Remove, UpdateSuperblock
<1>8. CASE RmdirOpened \/ RmdirDescend \/ RmdirLeaf
  BY <1>8 DEF RmdirOpened, RmdirDescend, RmdirLeaf, OpenRoot
<1>9. ASSUME NEW fd \in Slot, Close(fd) PROVE SbDurable'
  BY <1>9 DEF Close
<1>10. CASE Restart  BY <1>10 DEF Restart
<1>11. CASE UNCHANGED vars  BY <1>11 DEF vars
<1>. QED
  BY <1>1, <1>2, <1>3, <1>4, <1>5, <1>6, <1>7, <1>8, <1>9, <1>10, <1>11 DEF Next

\* Every call that changes the superblock in memory ends with writing it.
THEOREM SuperblockOnDisk == Spec => []SbDurable
<1>1. Init => SbDurable
  BY DEF Init, SbDurable
<1>2. SbDurable /\ [Next]_vars => SbDurable'
  BY SuperblockStep
<1>. QED
  BY <1>1, <1>2, PTL DEF Spec

--------------------------------------------------------------------------------
\* The table: what a slot caches, apart from the contents of the inode.

IsEntry(e) == e = [ino |-> e.ino, node |-> e.node, byte_offset |-> e.byte_offset]
IsTable(ft) == ft = [s \in Slot |-> ft[s]] /\ \A s \in Slot : IsEntry(ft[s])
SameInos(ft, gt) == \A s \in Slot : ft[s].ino = gt[s].ino

IsCall(c) == c = [f \in {"pc", "op", "todo", "name", "at", "path"} |-> c[f]]

\* The inductive invariant: the root is in slot 0 or nothing is, and it is while a
\* path is walked; a walk stands on a slot; descriptors are not slot 0; and when
\* f_opendir has returned, table_freehead is exact.
TableInv ==
  /\ IsTable(file_table) /\ IsCall(call)
  /\ file_table[0].ino \in {Root, None}
  /\ call.pc \in {"walk", "ready"} => file_table[0].ino = Root /\ call.at \in Slot
  /\ call.pc = "ready" => table_freehead = FirstFree(file_table)
  /\ \A h \in fds : h[1] \in Slot \ {0}

LEMMA Slots == Slot \subseteq Nat /\ 0 \in Slot /\ None \notin Slot /\ Root # None
<1>1. NSlots \in Nat \ {0}
  BY FSAssumption, Zenon DEF FSAssumption
<1>. QED
  BY <1>1 DEF Slot, None, Root

\* A nonempty set of numbers has a least element.
LEMMA LeastNat ==
  ASSUME NEW S \in SUBSET Nat, S # {}
  PROVE  Least(S) \in S /\ \A t \in S : Least(S) <= t
<1> DEFINE T == {0 .. s : s \in S}
<1>2. T \subseteq FiniteSubsetsOf(Nat) /\ T # {}
  <2>1. ASSUME NEW s \in S PROVE 0 .. s \in FiniteSubsetsOf(Nat)
    <3>1. s \in Int  OBVIOUS
    <3>2. IsFiniteSet(0 .. s)  BY <3>1, FS_Interval
    <3>. QED  BY <3>1, <3>2 DEF FiniteSubsetsOf
  <2>. QED  BY <2>1
<1>3. PICK x \in T : \A y \in T : ~ (<<y, x>> \in StrictSubsetOrdering(Nat))
  <2>. HIDE DEF T
  <2>. QED  BY <1>2, WFMin, FS_StrictSubsetOrderingWellFounded
<1>4. PICK s \in S : x = 0 .. s
  OBVIOUS
<1>5. ASSUME NEW t \in S PROVE s <= t
  <2>1. s \in Nat /\ t \in Nat  OBVIOUS
  <2>2. SUFFICES ASSUME t < s PROVE FALSE  BY <2>1
  <2>3. 0 .. t \subseteq 0 .. s /\ 0 .. t # 0 .. s  BY <2>1, <2>2
  <2>4. <<0 .. t, 0 .. s>> \in StrictSubsetOrdering(Nat)
    BY <2>1, <2>3 DEF StrictSubsetOrdering
  <2>. QED  BY <1>3, <1>4, <2>4
<1>. QED
  BY <1>5 DEF Least

\* The search for an inode number returns a slot that caches it, or None.
LEMMA SlotOfSlot ==
  ASSUME NEW ft, NEW n
  PROVE  \/ SlotOf(ft, n) \in Slot /\ ft[SlotOf(ft, n)].ino = n
         \/ SlotOf(ft, n) = None /\ \A s \in Slot : ft[s].ino # n
<1> DEFINE S == {s \in Slot : ft[s].ino = n}
<1>1. CASE S = {}
  BY <1>1 DEF SlotOf
<1>2. CASE S # {}
  <2>1. Least(S) \in S  BY <1>2, LeastNat, Slots
  <2>. QED  BY <1>2, <2>1 DEF SlotOf
<1>. QED
  BY <1>1, <1>2

\* Rewinding, moving an offset or replacing a cached inode changes no slot's inode
\* number.
LEMMA OffsetKeeps ==
  ASSUME NEW ft, IsTable(ft), NEW p, NEW k
  PROVE  LET gt == [ft EXCEPT ![p].byte_offset = k] IN IsTable(gt) /\ SameInos(gt, ft)
<1> DEFINE gt == [ft EXCEPT ![p].byte_offset = k]
<1>1. CASE p \in Slot
  <2>1. gt = [s \in Slot |-> IF s = p THEN [ft[p] EXCEPT !.byte_offset = k] ELSE ft[s]]
    BY <1>1 DEF IsTable
  <2>2. gt[p] = [ino |-> ft[p].ino, node |-> ft[p].node, byte_offset |-> k]
    BY <1>1, <2>1 DEF IsTable, IsEntry
  <2>. QED
    BY <1>1, <2>1, <2>2 DEF IsTable, IsEntry, SameInos
<1>2. CASE p \notin Slot
  <2>1. gt = ft
    BY <1>2 DEF IsTable
  <2>. QED
    BY <2>1 DEF SameInos
<1>. QED
  BY <1>1, <1>2

LEMMA NodeKeeps ==
  ASSUME NEW ft, IsTable(ft), NEW p, NEW node
  PROVE  IsTable(SetNode(ft, p, node)) /\ SameInos(SetNode(ft, p, node), ft)
BY SMTT(30) DEF IsTable, IsEntry, SameInos, SetNode

\* No busy slot gets another inode: a walk leaves the one it stands on, and between the
\* calls one may be freed.
NotClobbered ==
  \A s \in Slot : file_table[s].ino # None /\ file_table'[s].ino # file_table[s].ino
                 => \/ call.pc = "idle" /\ file_table'[s].ino = None
                    \/ call.pc = "walk" /\ s = call.at /\ s # 0

StepOK == TableInv' /\ NotClobbered

\* A step that leaves every slot's inode number alone and ends the call or stays
\* outside a walk.
LEMMA QuietStep ==
  ASSUME TableInv, IsTable(file_table'), SameInos(file_table', file_table),
         IsCall(call'), call'.pc \notin {"walk", "ready"}, UNCHANGED fds
  PROVE  StepOK
BY Slots DEF TableInv, StepOK, NotClobbered, SameInos

LEMMA TableInit == Init => TableInv
<1>. SUFFICES ASSUME Init PROVE TableInv
  OBVIOUS
<1>1. IsEntry(FreeEntry) /\ FreeEntry.ino = None
  BY DEF IsEntry, FreeEntry
<1>2. IsTable(file_table) /\ file_table[0].ino = None
  BY <1>1, Slots DEF Init, IsTable
<1>3. IsCall(call) /\ call.pc = "idle"
  BY DEF Init, IsCall, Idle
<1>. QED
  BY <1>2, <1>3 DEF Init, TableInv

LEMMA OpenRootStep ==
  ASSUME TableInv, NEW c, IsCall(c), c.pc # "ready", OpenRoot(c)
  PROVE  StepOK
<1>1. IsCall(call') /\ call'.pc = "walk" /\ call'.at = 0
  BY DEF OpenRoot, IsCall
<1>2. IsTable(file_table') /\ file_table'[0].ino = Root
  BY Slots DEF OpenRoot, TableInv, IsTable, IsEntry, Open
<1>3. \A s \in Slot \ {0} : file_table'[s] = file_table[s]
  BY DEF OpenRoot, TableInv, IsTable
<1>4. file_table[0].ino # None => file_table[0].ino = Root
  BY DEF TableInv
<1>. QED
  BY <1>1, <1>2, <1>3, <1>4, Slots DEF OpenRoot, TableInv, StepOK, NotClobbered

LEMMA WalkStep ==
  ASSUME TableInv, Walk
  PROVE  StepOK
<1> DEFINE at    == call.at
           found == Matches(file_table[at].node, 0, Head(call.todo))
           left  == [file_table EXCEPT ![at] =
                       IF at # 0 THEN FreeEntry
                       ELSE [@ EXCEPT !.byte_offset =
                               IF found = {} THEN file_table[at].node.size ELSE 0]]
           head  == IF at # 0 THEN at ELSE FirstFree(left)
           n     == EntryAt(file_table[at].node, Least(found)).inode_index
           fd    == SlotOf(left, n)
<1>1. at \in Slot /\ file_table[0].ino = Root /\ call.pc = "walk" /\ IsCall(call)
  BY DEF TableInv, Walk
<1>2. IsTable(left) /\ left[0].ino = Root
  <2>1. CASE at = 0
    BY <1>1, <2>1, Slots DEF TableInv, IsTable, IsEntry
  <2>2. CASE at # 0
    <3>1. left = [file_table EXCEPT ![at] = FreeEntry] /\ IsEntry(FreeEntry)
      BY <2>2 DEF IsEntry, FreeEntry
    <3>. QED
      BY <1>1, <2>2, <3>1, Slots DEF TableInv, IsTable
  <2>. QED
    BY <2>1, <2>2
<1>3. \A s \in Slot \ {at} : left[s] = file_table[s]
  BY DEF TableInv, IsTable
<1>4. left[at].ino \in {None, file_table[at].ino}
  BY <1>1 DEF TableInv, IsTable, IsEntry, FreeEntry
<1>5. \A s \in Slot : left[s].ino # file_table[s].ino => left[s].ino = None /\ s = at /\ s # 0
  BY <1>1, <1>2, <1>3, <1>4
<1>6. UNCHANGED fds
  BY DEF Walk
<1>7. CASE file_table' = left /\ call' = Idle
  BY <1>1, <1>2, <1>5, <1>6, <1>7 DEF StepOK, NotClobbered, TableInv, Idle, IsCall
<1>8. CASE file_table' = left /\ fd # None /\ call' = [call EXCEPT !.at = fd, !.todo = Tail(@)]
  <2>1. fd \in Slot
    BY <1>8, SlotOfSlot
  <2>2. IsCall(call') /\ call'.pc = "walk" /\ call'.at = fd
    BY <1>1, <1>8 DEF IsCall
  <2>3. TableInv'
    BY <1>1, <1>2, <1>6, <1>8, <2>1, <2>2 DEF TableInv
  <2>4. NotClobbered
    <3>. HIDE DEF at, left, fd
    <3>. QED
      BY <1>1, <1>5, <1>8 DEF NotClobbered, at
  <2>. QED
    BY <2>3, <2>4 DEF StepOK
<1>9. CASE /\ head # None
           /\ file_table' = [left EXCEPT ![head] = Open(n, inodes[n])]
           /\ call' = [call EXCEPT !.at = head, !.todo = Tail(@)]
  <2>1. head \in Slot /\ head # 0 /\ left[head].ino = None
    <3>1. CASE at = 0
      <4>1. head = SlotOf(left, None)
        BY <3>1 DEF FirstFree
      <4>2. head \in Slot /\ left[head].ino = None
        <5>. HIDE DEF left, head
        <5>. QED  BY <1>9, <4>1, SlotOfSlot
      <4>. QED
        BY <1>2, <4>2, Slots
    <3>2. CASE at # 0
      <4>1. head = at /\ left[at] = FreeEntry
        BY <1>1, <3>2 DEF TableInv, IsTable
      <4>. QED
        BY <1>1, <3>2, <4>1 DEF FreeEntry
    <3>. QED
      BY <3>1, <3>2
  <2>2. IsCall(call') /\ call'.pc = "walk" /\ call'.at = head
    BY <1>1, <1>9 DEF IsCall
  <2>3. IsTable(file_table') /\ file_table'[0].ino = Root
    BY <1>2, <1>9, <2>1, Slots, ZenonT(40) DEF IsTable, IsEntry, Open
  <2>4. \A s \in Slot \ {head} : file_table'[s] = left[s]
    BY <1>2, <1>9 DEF IsTable
  <2>5. head = at \/ file_table[head].ino = None
    BY <1>3, <2>1
  <2>6. TableInv'
    BY <1>1, <1>6, <2>1, <2>2, <2>3 DEF TableInv
  <2>7. NotClobbered
    <3>. HIDE DEF at, left, head
    <3>. QED
      BY <1>1, <1>5, <2>1, <2>4, <2>5 DEF NotClobbered, at
  <2>. QED
    BY <2>6, <2>7 DEF StepOK
<1>10. CASE file_table' = left /\ call' = [call EXCEPT !.pc = "tablefault"]
  BY <1>1, <1>2, <1>5, <1>6, <1>10 DEF StepOK, NotClobbered, TableInv, IsCall
<1>. QED
  BY <1>7, <1>8, <1>9, <1>10 DEF Walk

\* f_open installs where table_freehead points, which is free.
LEMMA InstallStep ==
  ASSUME TableInv, call.pc = "ready", call' = Idle, table_freehead # None,
         NEW ft, IsTable(ft), SameInos(ft, file_table), NEW n, NEW node,
         Install(ft, n, node)
  PROVE  StepOK
<1> DEFINE h == table_freehead
<1>1. h \in Slot /\ file_table[h].ino = None /\ file_table[0].ino = Root
  BY SlotOfSlot DEF TableInv, FirstFree
<1>2. h # 0
  BY <1>1, Slots
<1>3. IsTable(file_table') /\ \A s \in Slot \ {h} : file_table'[s].ino = file_table[s].ino
  BY <1>1 DEF Install, IsTable, IsEntry, Open, SameInos
<1>4. \A g \in fds' : g[1] \in Slot \ {0}
  BY <1>1, <1>2 DEF Install, TableInv
<1>. QED
  BY <1>1, <1>2, <1>3, <1>4, Slots DEF StepOK, NotClobbered, TableInv, Idle, IsCall

LEMMA CallStep ==
  ASSUME TableInv, [Next]_vars
  PROVE  StepOK
<1>. USE DEF disk, table
<1>1. IsTable(file_table) /\ SameInos(file_table, file_table) /\ IsCall(call) /\ IsCall(Idle)
  BY DEF TableInv, SameInos, Idle, IsCall
<1>2. ASSUME NEW kind \in {"blockfault", "tablefault"}, Fault(kind) PROVE StepOK
  <2>1. IsCall(call') /\ call'.pc \notin {"walk", "ready"} /\ UNCHANGED <<file_table, fds>>
    BY <1>1, <1>2 DEF Fault, IsCall
  <2>. QED  BY <1>1, <2>1, QuietStep
<1>3. ASSUME NEW dn, NEW p, NEW offset, AppendToFull(dn, p, offset) PROVE StepOK
  <2> DEFINE ft == SetNode(file_table, p, Grown(dn))
  <2>1. IsTable(ft) /\ SameInos(ft, file_table)
    BY <1>1, NodeKeeps
  <2>2. IsTable(file_table') /\ SameInos(file_table', ft)
    <3>. HIDE DEF ft
    <3>1. file_table' = [ft EXCEPT ![p].byte_offset = offset]
      BY <1>3 DEF AppendToFull, ft
    <3>. QED  BY <2>1, <3>1, OffsetKeeps
  <2>3. SameInos(file_table', file_table)
    BY <2>1, <2>2 DEF SameInos
  <2>4. call' = Idle /\ UNCHANGED fds
    BY <1>3 DEF AppendToFull
  <2>. QED  BY <1>1, <2>2, <2>3, <2>4, QuietStep DEF Idle
<1>4. ASSUME NEW w \in Workload, Begin(w[1], w[2], w[3]) PROVE StepOK
  <2>1. PICK r, op, todo, nm, path :
          /\ r = Idle
          /\ OpenRoot([r EXCEPT !.op = op, !.name = nm, !.todo = todo, !.path = path])
    BY <1>4 DEF Begin
  <2>2. IsCall(r) /\ r.pc = "idle"
    BY <1>1, <2>1 DEF Idle
  <2>. DEFINE c == [r EXCEPT !.op = op, !.name = nm, !.todo = todo, !.path = path]
  <2>3. IsCall(c) /\ c.pc = "idle"
    BY <2>2 DEF IsCall
  <2>4. OpenRoot(c)
    BY <2>1
  <2>. HIDE DEF c
  <2>. QED  BY <2>3, <2>4, OpenRootStep
<1>5. CASE Walk  BY <1>5, WalkStep
<1>6. CASE PathEnd
  BY <1>6, Slots DEF PathEnd, TableInv, StepOK, NotClobbered, IsCall
<1>7. CASE OpenedDir \/ RmdirOpened \/ RmdirDescend
  <2>1. /\ IsCall(call') /\ call'.pc \notin {"walk", "ready"}
        /\ UNCHANGED <<file_table, fds>>
    BY <1>1, <1>7 DEF OpenedDir, RmdirOpened, RmdirDescend, IsCall, Idle
  <2>. QED  BY <1>1, <2>1, QuietStep
<1>8. CASE Mkdir
  <2>1. CASE call' = Idle /\ UNCHANGED <<file_table, fds>>
    BY <1>1, <2>1, QuietStep DEF Idle
  <2>2. CASE /\ file_table' = SetNode(file_table, DirSlot, Grown(DirNode))
             /\ call' = Idle /\ UNCHANGED fds
    BY <1>1, <2>2, NodeKeeps, QuietStep DEF Idle
  <2>. QED  BY <1>2, <1>3, <1>8, <2>1, <2>2 DEF Mkdir
<1>9. CASE OpenFile  
  <2> DEFINE dn == DirNode
             scanned(offset) == [file_table EXCEPT ![DirSlot].byte_offset = offset]
             grown == SetNode(scanned(dn.size), DirSlot, Grown(dn))
  <2>1. call.pc = "ready"  BY <1>9 DEF OpenFile
  <2>2. ASSUME NEW k PROVE IsTable(scanned(k)) /\ SameInos(scanned(k), file_table)
    BY <1>1, OffsetKeeps
  <2>3. IsTable(grown) /\ SameInos(grown, file_table)
    <3>. HIDE DEF scanned
    <3>1. IsTable(grown) /\ SameInos(grown, scanned(dn.size))
      BY <2>2, NodeKeeps
    <3>. QED  BY <2>2, <3>1 DEF SameInos
  <2>4. CASE \E k, n, node : /\ call' = Idle /\ table_freehead # None
                             /\ Install(scanned(k), n, node)
    <3>. HIDE DEF scanned
    <3>. QED  BY <2>1, <2>2, <2>4, InstallStep
  <2>5. CASE \E n, node : /\ call' = Idle /\ table_freehead # None
                          /\ Install(grown, n, node)
    <3>. HIDE DEF grown
    <3>. QED  BY <2>1, <2>3, <2>5, InstallStep
  <2>6. CASE file_table' = scanned(dn.size) /\ call' = Idle /\ UNCHANGED fds
    BY <1>1, <2>2, <2>6, QuietStep DEF Idle
  <2>7. CASE Fault("blockfault") \/ Fault("tablefault")
    BY <1>2, <2>7
  <2>8. CASE AppendToFull(dn, DirSlot, dn.size)
    BY <1>3, <2>8
  <2>. QED
    BY <1>9, <2>4, <2>5, <2>6, <2>7, <2>8 DEF OpenFile
<1>10. CASE Remove
  <2> DEFINE p == LastSlotOf(file_table[call.at].ino)
             shrunk == SetNode(file_table, p, Shrunk(file_table[p].node))
  <2>1. call' = Idle /\ UNCHANGED fds
    BY <1>10 DEF Remove
  <2>2. IsTable(shrunk) /\ SameInos(shrunk, file_table)
    BY <1>1, NodeKeeps
  <2>3. \/ \E k : file_table' = [file_table EXCEPT ![p].byte_offset = k]
        \/ \E k : file_table' = [shrunk EXCEPT ![p].byte_offset = k]
    BY <1>10 DEF Remove
  <2>4. IsTable(file_table') /\ SameInos(file_table', file_table)
    <3>. HIDE DEF shrunk
    <3>1. CASE \E k : file_table' = [file_table EXCEPT ![p].byte_offset = k]
      <4>. PICK k : file_table' = [file_table EXCEPT ![p].byte_offset = k]
        BY <3>1
      <4>. QED  BY <1>1, OffsetKeeps
    <3>2. CASE \E k : file_table' = [shrunk EXCEPT ![p].byte_offset = k]
      <4>. PICK k : file_table' = [shrunk EXCEPT ![p].byte_offset = k]
        BY <3>2
      <4>1. IsTable(file_table') /\ SameInos(file_table', shrunk)
        BY <2>2, OffsetKeeps
      <4>. QED  BY <2>2, <4>1 DEF SameInos
    <3>. QED  BY <2>3, <3>1, <3>2
  <2>. QED  BY <1>1, <2>1, <2>4, QuietStep DEF Idle
<1>11. CASE RmdirLeaf
  <2>1. PICK r, op, todo, nm, path :
          /\ r = Idle
          /\ OpenRoot([r EXCEPT !.op = op, !.name = nm, !.todo = todo, !.path = path])
    BY <1>11 DEF RmdirLeaf
  <2>2. IsCall(r) /\ r.pc = "idle"
    BY <1>1, <2>1 DEF Idle
  <2>. DEFINE c == [r EXCEPT !.op = op, !.name = nm, !.todo = todo, !.path = path]
  <2>3. IsCall(c) /\ c.pc = "idle"
    BY <2>2 DEF IsCall
  <2>4. OpenRoot(c)
    BY <2>1
  <2>. HIDE DEF c
  <2>. QED  BY <2>3, <2>4, OpenRootStep
<1>12. ASSUME NEW fd \in Slot, Close(fd) PROVE StepOK
  <2>1. fd # 0 /\ call' = call /\ call.pc = "idle"
    BY <1>12 DEF Close, TableInv
  <2>2. IsTable(file_table') /\ file_table'[fd].ino = None
    BY <1>1, <1>12 DEF Close, IsTable, IsEntry, FreeEntry
  <2>3. \A s \in Slot \ {fd} : file_table'[s] = file_table[s]
    BY <1>1, <1>12 DEF Close, IsTable
  <2>4. fds' \subseteq fds
    BY <1>12 DEF Close
  <2>. QED
    BY <2>1, <2>2, <2>3, <2>4, Slots DEF StepOK, NotClobbered, TableInv
<1>13. CASE Restart
  BY <1>13, Slots DEF Restart, StepOK, NotClobbered, TableInv, IsTable, IsEntry, FreeEntry
<1>14. CASE UNCHANGED vars
  BY <1>14 DEF vars, StepOK, NotClobbered, TableInv, FirstFree, SlotOf
<1>. QED
  BY <1>4, <1>5, <1>6, <1>7, <1>8, <1>9, <1>10, <1>11, <1>12, <1>13, <1>14 DEF Next

LEMMA TableInvariant == Spec => []TableInv
<1>1. TableInv /\ [Next]_vars => TableInv'
  BY CallStep DEF StepOK
<1>. QED
  BY <1>1, TableInit, PTL DEF Spec

\* What f_opendir relies on when it starts every walk at slot 0 without a look
\* at what is there: the root keeps that slot, whatever the directories hold.
THEOREM RootKeepsSlot0 == Spec => []FT!RootPinned
<1>1. TableInv => FT!RootPinned
  BY Slots DEF TableInv, FT!RootPinned, FT!Root, FT!Free, Ids, Root, None, Stage
<1>. QED
  BY <1>1, TableInvariant, PTL

\* No call of the file system puts an inode over one that is cached.
THEOREM NothingOverwritten == Spec => FT!NoClobber
<1>1. TableInv /\ [Next]_vars => [FT!BusySlotsKept]_(FT!vars)
  <2>. SUFFICES ASSUME TableInv, [Next]_vars, NEW s \in Slot,
                       Ids[s] # None, Ids'[s] # Ids[s], Ids'[s] # None
                PROVE  call.pc = "walk" /\ s = call.at
    BY DEF Stage, FT!BusySlotsKept, FT!Slot, FT!Free, Slot, None
  <2>. QED
    BY CallStep DEF StepOK, NotClobbered, Ids
<1>. QED
  BY <1>1, TableInvariant, PTL DEF Spec, FT!NoClobber

--------------------------------------------------------------------------------
\* The disk

LEMMA Sizes ==
  /\ NInodes \in Nat /\ NInodes > 0 /\ NBlocks \in Nat /\ NBlocks > 1
  /\ EPB \in Nat /\ EPB > 2 /\ ND \in Nat /\ ND > 0
  /\ Inode \subseteq Nat /\ Root \in Inode /\ None \notin Inode
  /\ Block \subseteq Nat /\ 0 \in Block /\ 1 \in Block /\ None \notin Block
<1>1. NInodes \in Nat \ {0} /\ NBlocks \in Nat \ {0, 1}
  BY FSAssumption, Zenon DEF FSAssumption
<1>2. EPB \in Nat \ {0, 1, 2} /\ ND \in Nat \ {0}
  BY FSAssumption, Zenon DEF FSAssumption
<1>3. /\ Inode \subseteq Nat /\ Root \in Inode /\ None \notin Inode
      /\ Block \subseteq Nat /\ 0 \in Block /\ 1 \in Block /\ None \notin Block
  BY <1>1 DEF Inode, Block, Root, None
<1>4. NInodes > 0 /\ NBlocks > 1 /\ EPB > 2 /\ ND > 0
  BY <1>1, <1>2
<1>. QED
  BY <1>1, <1>2, <1>3, <1>4

LEMMA NamesType == "." \notin FileNames /\ ".." \notin FileNames
<1>1. Names \cap {".", "..", ""} = {}
  BY FSAssumption, Zenon DEF FSAssumption
<1>2. "." # "" /\ ".." # ""
  BY Zenon
<1>. QED
  BY <1>1, <1>2, Zenon DEF FileNames, NoName

\* The constants the arithmetic is about.
LEMMA Measures == EPB \in Nat /\ EPB > 2 /\ ND \in Nat /\ ND > 0
BY Sizes

LEMMA Numbers == (\A i \in Inode : i \in Nat) /\ (\A b \in Block : b \in Nat)
BY DEF Inode, Block

LEMMA WorkloadType ==
  ASSUME NEW w \in Workload
  PROVE  w[2] \in Seq(STRING) /\ w[3] \in FileNames
BY FSAssumption, Zenon DEF FSAssumption

--------------------------------------------------------------------------------
\* The place of entry k of a directory: a block and a position in it.

LEMMA Place ==
  ASSUME NEW k \in Nat
  PROVE  /\ k \div EPB \in Nat /\ k % EPB \in 0 .. EPB - 1
         /\ k = EPB * (k \div EPB) + (k % EPB)
BY Measures

LEMMA FirstPlaces ==
  /\ 0 \div EPB = 0 /\ 0 % EPB = 0
  /\ 1 \div EPB = 0 /\ 1 % EPB = 1
  /\ 2 \div EPB = 0 /\ 2 % EPB = 2
  /\ (EPB - 1) \div EPB = 0
BY Measures

\* Products with the block size keep their order.
LEMMA Products ==
  ASSUME NEW a \in Nat, NEW b \in Nat, a < b
  PROVE  EPB * a + EPB <= EPB * b
<1>1. EPB * (a + 1) <= EPB * b
  BY Measures
<1>. QED
  BY <1>1, Measures

\* Two entries at one place are one.
LEMMA PlaceOnce ==
  ASSUME NEW k \in Nat, NEW l \in Nat, k \div EPB = l \div EPB, k % EPB = l % EPB
  PROVE  k = l
BY Place

\* Entries within the direct blocks.
LEMMA Within ==
  ASSUME NEW k \in Nat, k < ND * EPB
  PROVE  k \div EPB < ND
<1> DEFINE q == k \div EPB
           r == k % EPB
<1>1. q \in Nat /\ r \in 0 .. EPB - 1 /\ k = EPB * q + r
  BY Place
<1>2. EPB * q \in Nat /\ ND * EPB = EPB * ND
  BY <1>1, Measures
<1>3. CASE ND <= q
  <2> DEFINE m == EPB * ND
             n == EPB * q
  <2>1. m <= n
    BY <1>1, <1>3, Measures
  <2>2. m \in Nat /\ n \in Nat /\ k < m /\ k = n + r
    BY <1>1, <1>2, Measures
  <2> HIDE DEF q, r, m, n
  <2>. QED
    BY <1>1, <2>1, <2>2
<1> HIDE DEF q, r
<1>. QED
  BY <1>1, <1>3, Measures DEF q

\* An entry that does not start a block is in the block of the one before it.
LEMMA BlockBefore ==
  ASSUME NEW s \in Nat, s % EPB # 0
  PROVE  s > 0 /\ (s - 1) \div EPB = s \div EPB
<1>1. s > 0
  BY FirstPlaces
<1> DEFINE q == s \div EPB
           r == s % EPB
           p == (s - 1) \div EPB
           t == (s - 1) % EPB
<1>2. /\ q \in Nat /\ r \in 1 .. EPB - 1 /\ s = EPB * q + r
      /\ p \in Nat /\ t \in 0 .. EPB - 1 /\ s - 1 = EPB * p + t
  BY <1>1, Place
<1>3. EPB * q \in Nat /\ EPB * p \in Nat
  BY <1>2, Measures
<1>4. (p < q => EPB * p + EPB <= EPB * q) /\ (q < p => EPB * q + EPB <= EPB * p)
  BY <1>2, Products
<1> HIDE DEF p, q, r, t
<1>5. p = q
  BY <1>2, <1>3, <1>4, Measures
<1>. QED
  BY <1>1, <1>5 DEF p, q

\* An entry that starts a block is in none of the blocks before.
LEMMA BlockStarts ==
  ASSUME NEW s \in Nat, s % EPB = 0, NEW k \in Nat, k < s
  PROVE  k \div EPB < s \div EPB
<1> DEFINE q == s \div EPB
           p == k \div EPB
           t == k % EPB
<1>1. /\ q \in Nat /\ s = EPB * q
      /\ p \in Nat /\ t \in 0 .. EPB - 1 /\ k = EPB * p + t
  <2>1. q \in Nat /\ s = EPB * q + (s % EPB)
    BY Place
  <2>2. s = EPB * q
    BY <2>1, Measures
  <2>. QED
    BY <2>1, <2>2, Place
<1>2. EPB * q \in Nat /\ EPB * p \in Nat
  BY <1>1, Measures
<1>3. q < p => EPB * q + EPB <= EPB * p
  BY <1>1, Products
<1> HIDE DEF p, q, t
<1>4. p < q
  BY <1>1, <1>2, <1>3, Measures
<1>. QED
  BY <1>4 DEF p, q

--------------------------------------------------------------------------------
\* The free lists

\* The levels of a list, and each of them.
IsLevels(R, X, head, link, n) ==
  R = [k \in 0 .. n |-> IF k = 0 THEN {head} \cap X
                        ELSE LET before == R[k - 1]
                             IN  before \cup ({link[x] : x \in before} \cap X)]

LEMMA LevelsExist ==
  ASSUME NEW X, NEW head, NEW link, NEW n \in Nat
  PROVE  \E R : IsLevels(R, X, head, link, n)
<1> DEFINE P(m) == \E R : IsLevels(R, X, head, link, m)
           Bad == {m \in Nat : ~ P(m)}
<1>1. P(0)
  <2>1. IsLevels([k \in 0 .. 0 |-> {head} \cap X], X, head, link, 0)
    BY DEF IsLevels
  <2>. QED
    BY <2>1
<1>2. ASSUME NEW m \in Nat, P(m) PROVE P(m + 1)
  <2>1. PICK R : IsLevels(R, X, head, link, m)
    BY <1>2
  <2> DEFINE S == [k \in 0 .. m + 1 |-> IF k = m + 1 THEN R[m] \cup ({link[x] : x \in R[m]} \cap X) ELSE R[k]]
  <2>2. ASSUME NEW k \in 0 .. m + 1
        PROVE  S[k] = IF k = 0 THEN {head} \cap X
                      ELSE LET before == S[k - 1]
                           IN  before \cup ({link[x] : x \in before} \cap X)
    <3>1. CASE k = 0
      <4>1. k \in 0 .. m /\ k # m + 1
        BY <3>1
      <4>2. R[0] = {head} \cap X
        BY <2>1, <3>1, <4>1 DEF IsLevels
      <4>. QED
        BY <3>1, <4>1, <4>2
    <3>2. CASE k \in 1 .. m
      <4>1. k \in 0 .. m /\ k # m + 1 /\ k # 0 /\ k - 1 \in 0 .. m /\ k - 1 # m + 1 /\ k - 1 \in 0 .. m + 1
        BY <3>2
      <4>2. R[k] = R[k - 1] \cup ({link[x] : x \in R[k - 1]} \cap X)
        BY <2>1, <4>1 DEF IsLevels
      <4>3. S[k] = R[k] /\ S[k - 1] = R[k - 1]
        BY <4>1
      <4>. QED
        BY <4>1, <4>2, <4>3
    <3>3. CASE k = m + 1
      <4>1. k # 0 /\ k - 1 = m /\ m \in 0 .. m + 1 /\ m # m + 1
        BY <3>3
      <4>2. S[k] = R[m] \cup ({link[x] : x \in R[m]} \cap X) /\ S[k - 1] = R[m]
        BY <3>3, <4>1
      <4>. QED
        BY <4>1, <4>2
    <3>. QED
      BY <3>1, <3>2, <3>3
  <2>3. S = [k \in 0 .. m + 1 |-> S[k]]
    OBVIOUS
  <2>4. IsLevels(S, X, head, link, m + 1)
    <3>. HIDE DEF S
    <3>. QED
      BY <2>2, <2>3 DEF IsLevels
  <2>. QED
    BY <2>4
<1>. QED
  <2>1. SUFFICES ASSUME Bad # {} PROVE FALSE
    OBVIOUS
  <2>2. PICK m \in Bad : \A l \in Bad : m <= l
    <3>1. Bad \in SUBSET Nat
      OBVIOUS
    <3>. HIDE DEF Bad
    <3>. QED
      BY <2>1, <3>1, LeastNat
  <2>3. m \in Nat /\ ~ P(m) /\ m # 0
    BY <1>1, <2>2
  <2>4. m - 1 \in Nat /\ m - 1 \notin Bad /\ (m - 1) + 1 = m
    BY <2>2, <2>3
  <2>5. P(m - 1)
    BY <2>4
  <2>. QED
    <3>. HIDE DEF P
    <3>. QED
      BY <1>2, <2>3, <2>4, <2>5

LEMMA ListedLevels ==
  ASSUME NEW X, NEW head, NEW link, NEW n \in Nat, n = Cardinality(X)
  PROVE  \E R : IsLevels(R, X, head, link, n) /\ Listed(X, head, link) = R[n]
<1> DEFINE R == CHOOSE f : IsLevels(f, X, head, link, n)
<1>1. IsLevels(R, X, head, link, n)
  BY LevelsExist
<1>2. Listed(X, head, link) = R[n]
  BY DEF Listed, IsLevels
<1>. QED
  BY <1>1, <1>2

\* A list is within X and is the least set with its head and what its members link to:
\* a level that is not closed yet has more elements than its number.
LEMMA ListedRight ==
  ASSUME NEW X, IsFiniteSet(X), NEW head, NEW link
  PROVE  LET S == Listed(X, head, link)
         IN  /\ S \subseteq X
             /\ head \in X => head \in S
             /\ \A x \in S : link[x] \in X => link[x] \in S
             /\ \A T \in SUBSET X : /\ head \in X => head \in T
                                    /\ \A x \in T : link[x] \in X => link[x] \in T
                                    => S \subseteq T
<1>1. PICK n : n = Cardinality(X)
  OBVIOUS
<1>2. n \in Nat
  BY <1>1, FS_CardinalityType
<1>3. PICK R : /\ Listed(X, head, link) = R[n]
               /\ R[0] = {head} \cap X
               /\ \A k \in 1 .. n : R[k] = R[k - 1] \cup ({link[x] : x \in R[k - 1]} \cap X)
  <2>1. PICK R : IsLevels(R, X, head, link, n) /\ Listed(X, head, link) = R[n]
    BY <1>1, <1>2, ListedLevels
  <2>2. R[0] = {head} \cap X
    BY <1>2, <2>1 DEF IsLevels
  <2>3. ASSUME NEW k \in 1 .. n PROVE R[k] = R[k - 1] \cup ({link[x] : x \in R[k - 1]} \cap X)
    <3>1. k \in 0 .. n /\ k # 0
      BY <1>2
    <3>. QED
      BY <2>1, <3>1 DEF IsLevels
  <2>. QED
    BY <2>1, <2>2, <2>3
<1> DEFINE Closed(S) == \A x \in S : link[x] \in X => link[x] \in S
           Good(k) == /\ R[k] \subseteq X /\ (head \in X => head \in R[k])
                      /\ Closed(R[k]) \/ Cardinality(R[k]) > k
                      /\ \A T \in SUBSET X : (head \in X => head \in T) /\ Closed(T) => R[k] \subseteq T
<1>4. Good(0)
  <2>1. CASE head \in X
    <3>1. R[0] = {head}
      BY <1>3, <2>1
    <3>2. Cardinality(R[0]) = 1
      BY <3>1, FS_Singleton
    <3>. QED
      BY <2>1, <3>1, <3>2
  <2>2. CASE head \notin X
    BY <1>3, <2>2
  <2>. QED
    BY <2>1, <2>2
<1>5. ASSUME NEW k \in 0 .. n - 1, Good(k) PROVE Good(k + 1)
  <2>1. R[k + 1] = R[k] \cup ({link[x] : x \in R[k]} \cap X)
    <3>1. k + 1 \in 1 .. n /\ (k + 1) - 1 = k
      BY <1>2
    <3>. QED
      BY <1>3, <3>1
  <2>2. CASE Closed(R[k])
    <3>1. R[k + 1] = R[k]
      BY <1>5, <2>1, <2>2
    <3>. QED
      BY <1>5, <2>2, <3>1
  <2>3. CASE ~ Closed(R[k])
    <3>1. PICK x \in R[k] : link[x] \in X /\ link[x] \notin R[k]
      BY <2>3
    <3>2. R[k + 1] \subseteq X /\ R[k] \cup {link[x]} \subseteq R[k + 1]
      BY <1>5, <2>1, <3>1
    <3>3. IsFiniteSet(R[k]) /\ IsFiniteSet(R[k + 1])
      BY <1>5, <3>2, FS_Subset
    <3>4. /\ Cardinality(R[k] \cup {link[x]}) = Cardinality(R[k]) + 1
          /\ IsFiniteSet(R[k] \cup {link[x]})
      BY <3>1, <3>3, FS_AddElement
    <3>5. Cardinality(R[k] \cup {link[x]}) <= Cardinality(R[k + 1])
      BY <3>2, <3>3, FS_Subset
    <3>6. Cardinality(R[k]) \in Nat /\ Cardinality(R[k + 1]) \in Nat /\ Cardinality(R[k]) > k
      BY <1>5, <2>3, <3>3, FS_CardinalityType
    <3>7. Cardinality(R[k + 1]) > k + 1
      BY <3>4, <3>5, <3>6
    <3>8. ASSUME NEW T \in SUBSET X, head \in X => head \in T, Closed(T) PROVE R[k + 1] \subseteq T
      BY <1>5, <2>1, <3>8
    <3>. QED
      BY <1>5, <3>2, <3>7, <3>8
  <2>. QED
    BY <2>2, <2>3
<1>6. Good(n)
  <2> DEFINE Bad == {k \in 0 .. n : ~ Good(k)}
  <2>1. SUFFICES ASSUME Bad # {} PROVE FALSE
    BY <1>2
  <2>2. PICK m \in Bad : \A l \in Bad : m <= l
    <3>1. Bad \in SUBSET Nat
      OBVIOUS
    <3>. HIDE DEF Bad
    <3>. QED
      BY <2>1, <3>1, LeastNat
  <2>. HIDE DEF Good
  <2>3. m \in 0 .. n /\ ~ Good(m) /\ m # 0
    BY <1>4, <2>2
  <2>4. m - 1 \in 0 .. n - 1 /\ m - 1 \notin Bad /\ (m - 1) + 1 = m /\ m - 1 \in 0 .. n
    BY <1>2, <2>2, <2>3
  <2>5. Good(m - 1)
    BY <2>4
  <2>. QED
    BY <1>5, <2>3, <2>4, <2>5
<1>7. Closed(R[n])
  <2>1. Cardinality(R[n]) <= n /\ Cardinality(R[n]) \in Nat
    BY <1>1, <1>6, FS_Subset, FS_CardinalityType
  <2>. QED
    BY <1>2, <1>6, <2>1
<1>. QED
  BY <1>3, <1>6, <1>7

LEMMA ListClosed ==
  ASSUME NEW X, IsFiniteSet(X), NEW head, NEW link
  PROVE  LET S == Listed(X, head, link)
         IN  /\ S \subseteq X
             /\ head \in X => head \in S
             /\ \A x \in S : link[x] \in X => link[x] \in S
BY ListedRight

LEMMA ListLeast ==
  ASSUME NEW X, IsFiniteSet(X), NEW head, NEW link, NEW T \in SUBSET X,
         head \in X => head \in T, \A x \in T : link[x] \in X => link[x] \in T
  PROVE  Listed(X, head, link) \subseteq T
BY ListedRight

LEMMA FiniteRegions == IsFiniteSet(Inode) /\ IsFiniteSet(Block)
<1>1. NInodes \in Nat \ {0} /\ NBlocks \in Nat \ {0, 1}
  BY Sizes
<1>2. NInodes - 1 \in Int /\ NBlocks - 1 \in Int /\ 0 \in Int
  BY <1>1
<1>. QED
  BY <1>2, FS_Interval DEF Inode, Block

\* A list depends on the links of its members only.
LEMMA SameList ==
  ASSUME NEW X, IsFiniteSet(X), NEW head, NEW link, NEW link2,
         \A x \in Listed(X, head, link) : link2[x] = link[x], Ends(X, head, link)
  PROVE  Listed(X, head, link2) = Listed(X, head, link) /\ Ends(X, head, link2)
<1> DEFINE S == Listed(X, head, link)
           T == Listed(X, head, link2)
<1>1. T \subseteq S
  <2>1. /\ S \in SUBSET X /\ (head \in X => head \in S)
        /\ \A x \in S : link2[x] \in X => link2[x] \in S
    BY ListClosed
  <2>. QED
    BY <2>1, ListLeast
<1>2. S \subseteq T
  <2> DEFINE U == T \cap S
  <2>1. /\ U \in SUBSET X /\ (head \in X => head \in U)
        /\ \A x \in U : link[x] \in X => link[x] \in U
    BY ListClosed
  <2>2. S \subseteq U
    <3> HIDE DEF U
    <3>. QED  BY <2>1, ListLeast, Zenon
  <2>. QED
    BY <2>2
<1>. QED
  BY <1>1, <1>2 DEF Ends

\* The first element is taken.
LEMMA Popped ==
  ASSUME NEW X, IsFiniteSet(X), NEW head \in X, NEW link, NEW link2, None \notin X, Ends(X, head, link),
         \A x \in Listed(X, head, link) \ {head} : link2[x] = link[x]
  PROVE  /\ Listed(X, link[head], link2) = Listed(X, head, link) \ {head}
         /\ Ends(X, link[head], link2) /\ link[head] \in X \cup {None}
<1> DEFINE S == Listed(X, head, link)
           T == Listed(X, link[head], link2)
<1>1. head \in S /\ S \subseteq X /\ \A x \in S : link[x] \in X => link[x] \in S
  BY ListClosed
<1>2. /\ link[head] \in X \cup {None}
      /\ \A x \in S : link[x] \in X \cup {None} /\ link[x] # head
      /\ \A x, y \in S : link[x] = link[y] => x = y
      /\ \E x \in S : link[x] = None
  BY <1>1 DEF Ends
<1>3. T \subseteq S \ {head}
  <2> DEFINE U == S \ {head}
  <2>1. /\ U \in SUBSET X /\ (link[head] \in X => link[head] \in U)
        /\ \A x \in U : link2[x] \in X => link2[x] \in U
    BY <1>1, <1>2
  <2> SUFFICES T \subseteq U
    OBVIOUS
  <2> HIDE DEF U
  <2>. QED
    BY <2>1, ListLeast
<1>4. S \ {head} \subseteq T
  <2> DEFINE U == (T \cap S) \cup {head}
  <2>1. T \subseteq X /\ (link[head] \in X => link[head] \in T)
        /\ \A x \in T : link2[x] \in X => link2[x] \in T
    BY ListClosed
  <2>2. /\ U \in SUBSET X /\ head \in U
        /\ \A x \in U : link[x] \in X => link[x] \in U
    <3> HIDE DEF T, S
    <3>. QED  BY <1>1, <1>2, <2>1 DEF S
  <2>3. S \subseteq U
    <3> HIDE DEF U
    <3>. QED  BY <2>2, ListLeast
  <2>. QED
    BY <2>3
<1>5. T = S \ {head}
  BY <1>3, <1>4
<1> HIDE DEF S, T
<1>6. Ends(X, link[head], link2)
  <2>1. \A x \in T : link2[x] = link[x] /\ x \in S
    BY <1>5 DEF S
  <2>2. \A x, y \in T : link2[x] = link2[y] => x = y
    BY <1>2, <2>1
  <2>3. \A x \in T : link2[x] \in X \cup {None} /\ link2[x] # link[head]
    BY <1>1, <1>2, <1>5, <2>1
  <2>4. link[head] = None \/ \E x \in T : link2[x] = None
    BY <1>2, <1>5, <2>1
  <2>. QED
    BY <2>2, <2>3, <2>4 DEF Ends, T
<1>. QED
  BY <1>2, <1>5, <1>6 DEF S, T

\* An element is put in front.
LEMMA Pushed ==
  ASSUME NEW X, IsFiniteSet(X), NEW head \in X \cup {None}, NEW link, NEW link2, None \notin X,
         Ends(X, head, link), NEW e \in X, e \notin Listed(X, head, link),
         link2[e] = head, \A x \in Listed(X, head, link) : link2[x] = link[x]
  PROVE  /\ Listed(X, e, link2) = Listed(X, head, link) \cup {e}
         /\ Ends(X, e, link2)
<1> DEFINE S == Listed(X, head, link)
           T == Listed(X, e, link2)
<1>1. (head \in X => head \in S) /\ S \subseteq X /\ \A x \in S : link[x] \in X => link[x] \in S
  BY ListClosed
<1>2. /\ \A x \in S : link[x] \in X \cup {None} /\ link[x] # head
      /\ \A x, y \in S : link[x] = link[y] => x = y
      /\ head = None \/ \E x \in S : link[x] = None
  BY DEF Ends
<1>3. T \subseteq S \cup {e}
  <2> DEFINE U == S \cup {e}
  <2>1. /\ U \in SUBSET X /\ e \in U
        /\ \A x \in U : link2[x] \in X => link2[x] \in U
    BY <1>1, <1>2
  <2> SUFFICES T \subseteq U
    OBVIOUS
  <2> HIDE DEF U
  <2>. QED
    BY <2>1, ListLeast
<1>4. S \cup {e} \subseteq T
  <2> DEFINE U == T \cap S
  <2>1. T \subseteq X /\ e \in T /\ \A x \in T : link2[x] \in X => link2[x] \in T
    BY ListClosed
  <2>2. /\ U \in SUBSET X /\ (head \in X => head \in U)
        /\ \A x \in U : link[x] \in X => link[x] \in U
    <3> HIDE DEF T, S
    <3>. QED  BY <1>1, <1>2, <2>1 DEF S
  <2>3. S \subseteq U
    <3> HIDE DEF U
    <3>. QED  BY <2>2, ListLeast
  <2>. QED
    BY <2>1, <2>3
<1>5. T = S \cup {e} /\ e \notin S
  BY <1>3, <1>4
<1>6. head = None => S = {}
  <2>. SUFFICES ASSUME head = None PROVE S \subseteq {}
    OBVIOUS
  <2>1. PICK U : U = {}
    OBVIOUS
  <2>2. U \in SUBSET X /\ head \notin X /\ \A x \in U : FALSE
    BY <2>1
  <2>3. S \subseteq U
    <3>. QED  BY <2>2, ListLeast
  <2>. QED
    BY <2>1, <2>3
<1>7. \A x \in S : link2[x] = link[x]
  OBVIOUS
<1> HIDE DEF S, T
<1>8. Ends(X, e, link2)
  <2>2. \A x, y \in T : link2[x] = link2[y] => x = y
    BY <1>2, <1>5, <1>7
  <2>3. \A x \in T : link2[x] \in X \cup {None} /\ link2[x] # e
    BY <1>1, <1>2, <1>5, <1>7
  <2>4. \E x \in T : link2[x] = None
    BY <1>2, <1>5, <1>6, <1>7
  <2>. QED
    BY <2>2, <2>3, <2>4 DEF Ends, T
<1>. QED
  BY <1>5, <1>8 DEF S, T

--------------------------------------------------------------------------------
\* Blocks and entries of inodes in use

LEMMA BlockOfDirect ==
  ASSUME NEW node \in InodeRecord, NEW k \in Nat, k \div EPB < ND
  PROVE  /\ (k \div EPB) + 1 \in 1 .. ND
         /\ BlockOf(node, k) = node.dblocks[(k \div EPB) + 1]
         /\ BlockOf(node, k) \in Block
<1>1. (k \div EPB) + 1 \in 1 .. ND
  BY Place, Measures
<1>2. BlockOf(node, k) = node.dblocks[(k \div EPB) + 1]
  BY DEF BlockOf
<1>3. node.dblocks \in [1 .. ND -> Block]
  BY DEF InodeRecord
<1>. QED
  BY <1>1, <1>2, <1>3

LEMMA HeldPlace ==
  ASSUME Shapes, Kinds, NEW i \in Allocated, NEW k \in Held(i)
  PROVE  /\ inodes[i] \in InodeRecord
         /\ k \in Nat /\ k \div EPB < ND
         /\ BlockOf(inodes[i], k) = inodes[i].dblocks[(k \div EPB) + 1]
         /\ BlockOf(inodes[i], k) \in Block
<1>1. inodes[i] \in InodeRecord
  BY DEF Shapes, Allocated
<1>2. k \in Nat /\ k \div EPB < ND
  <2>1. CASE inodes[i].type = "REG"
    BY <2>1, FirstPlaces, Measures DEF Held
  <2>2. CASE inodes[i].type # "REG"
    <3>1. inodes[i].size \in 2 .. ND * EPB /\ k \in 0 .. inodes[i].size - 1
      BY <2>2 DEF Held, Kinds
    <3>2. ND * EPB \in Int
      BY Measures
    <3>3. k \in Nat /\ k < ND * EPB
      BY <3>1, <3>2
    <3>. QED
      BY <3>3, Within
  <2>. QED
    BY <2>1, <2>2
<1>. QED
  BY <1>1, <1>2, BlockOfDirect

LEMMA HeldNotFree ==
  ASSUME HeldOnce, NEW i \in Allocated, NEW k \in Held(i)
  PROVE  BlockOf(inodes[i], k) \notin FreeBlocks
BY DEF HeldOnce

LEMMA HeldByOne ==
  ASSUME HeldOnce, NEW i \in Allocated, NEW k \in Held(i), NEW j \in Allocated, NEW l \in Held(j),
         BlockOf(inodes[i], k) = BlockOf(inodes[j], l)
  PROVE  i = j /\ k \div EPB = l \div EPB
BY DEF HeldOnce

\* Two entries of directories in use are in different places.
LEMMA PlacesApart ==
  ASSUME Shapes, Kinds, HeldOnce, NEW i \in Allocated, NEW j \in Allocated,
         NEW k \in Held(i), NEW l \in Held(j),
         BlockOf(inodes[i], k) = BlockOf(inodes[j], l), k % EPB = l % EPB
  PROVE  i = j /\ k = l
<1>1. i = j /\ k \div EPB = l \div EPB
  BY DEF HeldOnce
<1>2. k \in Nat /\ l \in Nat
  BY HeldPlace
<1>. QED
  BY <1>1, <1>2, PlaceOnce

LEMMA InDirectories ==
  ASSUME Kinds, NEW d \in Directories
  PROVE  /\ d \in Allocated /\ d \in Inode /\ inodes[d].type = "DIR"
         /\ inodes[d].size \in 2 .. ND * EPB
         /\ inodes[d].size \in Nat /\ inodes[d].size >= 2 /\ inodes[d].size <= ND * EPB
         /\ Held(d) = 0 .. inodes[d].size - 1
<1>1. ND * EPB \in Int
  BY Measures
<1>. QED
  BY <1>1 DEF Directories, Kinds, Held, Allocated

\* Entries, one by one.
LEMMA InEntries ==
  /\ \A d \in Directories : \A k \in 2 .. inodes[d].size - 1 :
       <<d, k, EntryAt(inodes[d], k)>> \in Entries
  /\ \A e \in Entries : \E d \in Directories : \E k \in 2 .. inodes[d].size - 1 :
       e = <<d, k, EntryAt(inodes[d], k)>>
BY DEF Entries

\* The name of an inode, without the set of entries.
EntryNames(d, k, i) == d \in Directories /\ k \in 2 .. inodes[d].size - 1
                   /\ EntryAt(inodes[d], k).inode_index = i

EachNamed ==
  /\ \A i \in Allocated \ {Root} : \E d, k : EntryNames(d, k, i)
  /\ \A i, d, k, e, l : EntryNames(d, k, i) /\ EntryNames(e, l, i) => d = e /\ k = l

LEMMA NamedOnceIs == NamedOnce <=> EachNamed
<1>1. ASSUME NamedOnce
      PROVE  /\ \A i \in Allocated \ {Root} : \E d, k : EntryNames(d, k, i)
             /\ \A i, d, k, e, l : EntryNames(d, k, i) /\ EntryNames(e, l, i) => d = e /\ k = l
  <2>1. ASSUME NEW i \in Allocated \ {Root} PROVE \E d, k : EntryNames(d, k, i)
    <3>1. PICK e \in Entries : e[3].inode_index = i
      BY <1>1 DEF NamedOnce
    <3>2. PICK d, k : /\ d \in Directories /\ k \in 2 .. inodes[d].size - 1
                     /\ e = <<d, k, EntryAt(inodes[d], k)>>
      BY InEntries
    <3>. QED
      BY <3>1, <3>2 DEF EntryNames
  <2>2. ASSUME NEW i, NEW d, NEW k, NEW e, NEW l, EntryNames(d, k, i), EntryNames(e, l, i)
        PROVE  d = e /\ k = l
    <3>1. /\ <<d, k, EntryAt(inodes[d], k)>> \in Entries
          /\ <<e, l, EntryAt(inodes[e], l)>> \in Entries
      BY <2>2, InEntries DEF EntryNames
    <3>2. <<d, k, EntryAt(inodes[d], k)>> = <<e, l, EntryAt(inodes[e], l)>>
      BY <1>1, <2>2, <3>1 DEF NamedOnce, EntryNames
    <3>. QED
      BY <3>2
  <2>. QED
    BY <2>1, <2>2
<1>2. ASSUME \A i \in Allocated \ {Root} : \E d, k : EntryNames(d, k, i),
             \A i, d, k, e, l : EntryNames(d, k, i) /\ EntryNames(e, l, i) => d = e /\ k = l
      PROVE  NamedOnce
  <2>1. ASSUME NEW i \in Allocated \ {Root} PROVE \E e \in Entries : e[3].inode_index = i
    <3>1. PICK d, k : EntryNames(d, k, i)
      BY <1>2
    <3>2. <<d, k, EntryAt(inodes[d], k)>> \in Entries
      BY <3>1, InEntries DEF EntryNames
    <3>. QED
      BY <3>1, <3>2 DEF EntryNames
  <2>2. ASSUME NEW e \in Entries, NEW f \in Entries, e[3].inode_index = f[3].inode_index
        PROVE  e = f
    <3>1. PICK d, k : /\ d \in Directories /\ k \in 2 .. inodes[d].size - 1
                     /\ e = <<d, k, EntryAt(inodes[d], k)>>
      BY InEntries
    <3>2. PICK c, l : /\ c \in Directories /\ l \in 2 .. inodes[c].size - 1
                     /\ f = <<c, l, EntryAt(inodes[c], l)>>
      BY InEntries
    <3>3. /\ e[3].inode_index = EntryAt(inodes[d], k).inode_index
          /\ f[3].inode_index = EntryAt(inodes[c], l).inode_index
      BY <3>1, <3>2
    <3>4. EntryNames(d, k, f[3].inode_index) /\ EntryNames(c, l, f[3].inode_index)
      BY <2>2, <3>1, <3>2, <3>3 DEF EntryNames
    <3>5. d = c /\ k = l
      BY <1>2, <3>4
    <3>. QED
      BY <3>1, <3>2, <3>5
  <2>. QED
    BY <2>1, <2>2 DEF NamedOnce
<1>. QED
  BY <1>1, <1>2 DEF EachNamed

--------------------------------------------------------------------------------
\* An entry for a new inode goes into a directory: f_mkdir and f_open.

\* Inode n, which becomes nn, is entered in directory d, whose entry goes into block
\* tb; the new inode holds block fb.
AppendStep(d, n, nn, tb, fb) ==
  /\ d \in Directories /\ sb.free_inode = n /\ n # None
  /\ ~ DirFull(inodes[d])
  /\ tb = Target(inodes[d]) /\ tb \in Block /\ fb = FreeAfter(inodes[d]) /\ fb \in Block
  /\ Spills(inodes[d]) \/ tb = BlockOf(inodes[d], inodes[d].size - 1)
  /\ call.name \in FileNames
  /\ nn \in InodeRecord /\ nn.parent = d /\ nn.dblocks[1] = fb
  /\ (nn.type = "DIR" /\ nn.size = 2) \/ (nn.type = "REG" /\ nn.size = 0)
  /\ inodes' = [inodes EXCEPT ![d] = Grown(inodes[d]), ![n] = nn]
  /\ LET withEntry == WithEntry(inodes[d], Entry(n, call.name))
     IN  /\ blocks' = IF nn.type = "DIR"
                      THEN [withEntry EXCEPT ![fb] = NewDirBlock(@, n, d)] ELSE withEntry
         /\ sb' = SbAfter(withEntry[fb][0].inode_index)

\* The directory as it has grown: its entries keep their blocks, the new one goes
\* into a free block, or into the block of the one before.
Grows(d, tb, fb) ==
  LET g == Grown(inodes[d])
      k == inodes[d].size
  IN  /\ g \in InodeRecord /\ g.type = "DIR" /\ g.parent = inodes[d].parent
      /\ g.size = k + 1 /\ k + 1 \in 2 .. ND * EPB
      /\ \A l \in 0 .. k - 1 : BlockOf(g, l) = BlockOf(inodes[d], l)
      /\ BlockOf(g, k) = tb
      /\ tb # fb /\ fb \in FreeBlocks
      /\ \/ tb \in FreeBlocks
         \/ tb = BlockOf(inodes[d], k - 1) /\ (k - 1) \div EPB = k \div EPB

LEMMA FreeListFacts ==
  ASSUME IInv
  PROVE  /\ FreeInodes \subseteq Inode /\ FreeBlocks \subseteq Block
         /\ sb.free_inode # None => sb.free_inode \in FreeInodes
         /\ sb.free_block # None => sb.free_block \in FreeBlocks
         /\ \A b \in FreeBlocks : NextBlock[b] = NextFree(b)
         /\ \A i \in FreeInodes : NextInode[i] = inodes[i].next
<1>1. sb.free_inode \in Inode \cup {None} /\ sb.free_block \in Block \cup {None}
  BY DEF IInv, Shapes
<1>2. FreeInodes \subseteq Inode /\ (sb.free_inode \in Inode => sb.free_inode \in FreeInodes)
  BY ListClosed, FiniteRegions DEF FreeInodes
<1>3. FreeBlocks \subseteq Block /\ (sb.free_block \in Block => sb.free_block \in FreeBlocks)
  BY ListClosed, FiniteRegions DEF FreeBlocks
<1>. QED
  BY <1>1, <1>2, <1>3 DEF NextBlock, NextInode

\* A directory below its limit has room for one more entry.
LEMMA Room ==
  ASSUME NEW dn, dn.size \in Nat, dn.size <= ND * EPB, dn.size >= 2, ~ DirFull(dn)
  PROVE  dn.size < ND * EPB
<1> DEFINE k == dn.size
           m == ND * EPB
<1>1. m = EPB * ND /\ m \in Nat
  BY Measures
<1>2. CASE k = m
  <2>1. k % EPB = 0 /\ k \div EPB = ND
    <3>1. k = EPB * (k \div EPB) + (k % EPB) /\ k \div EPB \in Nat /\ k % EPB \in 0 .. EPB - 1
      BY Place
    <3>2. /\ k \div EPB < ND => EPB * (k \div EPB) + EPB <= EPB * ND
          /\ ND < k \div EPB => EPB * ND + EPB <= EPB * (k \div EPB)
      BY <3>1, Products, Measures
    <3> DEFINE q == k \div EPB
               r == k % EPB
               s == EPB * q
               u == EPB * ND
    <3>3. s \in Nat /\ u \in Nat
      BY <3>1, Measures
    <3>4. u = s + r /\ (q < ND => s + EPB <= u) /\ (ND < q => u + EPB <= s)
      BY <1>1, <1>2, <3>1, <3>2
    <3>5. q \in Nat /\ r \in 0 .. EPB - 1
      BY <3>1
    <3> HIDE DEF q, r, s, u, k, m
    <3>6. q = ND
      BY <3>3, <3>4, <3>5, Measures
    <3>7. s = u
      BY <3>6 DEF s, u
    <3>8. r = 0
      BY <3>3, <3>4, <3>5, <3>7, Measures
    <3>. QED
      BY <3>6, <3>8 DEF q, r
  <2>. QED
    BY <2>1, Measures DEF DirFull, Spills
<1> HIDE DEF m
<1>. QED
  BY <1>1, <1>2 DEF m

LEMMA PlaceGrows ==
  ASSUME IInv, NEW d \in Directories, NEW tb \in Block, NEW fb \in Block, ~ DirFull(inodes[d]),
         tb = Target(inodes[d]), fb = FreeAfter(inodes[d]),
         Spills(inodes[d]) \/ tb = BlockOf(inodes[d], inodes[d].size - 1)
  PROVE  Grows(d, tb, fb)
<1> DEFINE dn == inodes[d]
           g == Grown(inodes[d])
           k == inodes[d].size
<1>1. /\ d \in Inode /\ d \in Allocated /\ dn \in InodeRecord /\ dn.type = "DIR"
      /\ k \in Nat /\ k >= 2 /\ k <= ND * EPB /\ Held(d) = 0 .. k - 1
      /\ Shapes /\ Kinds /\ HeldOnce
  <2>1. d \in Directories /\ Shapes /\ Kinds /\ HeldOnce
    BY DEF IInv
  <2>2. ND * EPB \in Int
    BY Measures
  <2>. QED
    BY <2>1, <2>2, InDirectories DEF Shapes
<1>2. k < ND * EPB /\ ND * EPB \in Nat
  <2>1. ~ DirFull(dn)
    OBVIOUS
  <2>2. ND * EPB \in Nat
    BY Measures
  <2>. QED
    BY <1>1, <2>1, <2>2, Room
<1>3. k \div EPB < ND /\ (k \div EPB) + 1 \in 1 .. ND
  BY <1>1, <1>2, Within, BlockOfDirect
<1>4. /\ tb = Target(dn) /\ tb \in Block /\ fb = FreeAfter(dn) /\ fb \in Block
      /\ ~ DirFull(dn)
      /\ Spills(dn) \/ tb = BlockOf(dn, k - 1)
  OBVIOUS
<1>5. dn.dblocks \in [1 .. ND -> Block] /\ dn.size \in Int
  BY <1>1 DEF InodeRecord
<1>6. CASE Spills(dn)
  <2>1. tb = sb.free_block /\ fb = NextFree(tb) /\ k % EPB = 0
    BY <1>4, <1>6 DEF Target, FreeAfter, Spills
  <2>2. g = [dn EXCEPT !.size = k + 1, !.last = tb, !.dblocks = [dn.dblocks EXCEPT ![(k \div EPB) + 1] = tb]]
    BY <1>4, <1>6, <2>1 DEF Grown
  <2>3. [dn.dblocks EXCEPT ![(k \div EPB) + 1] = tb] \in [1 .. ND -> Block]
    BY <1>3, <1>4, <1>5
  <2>4. k + 1 \in 0 .. ND * EPB + EPB
    BY <1>1, <1>2, Measures
  <2>5. g \in InodeRecord /\ g.type = "DIR" /\ g.parent = dn.parent /\ g.size = k + 1
        /\ g.dblocks = [dn.dblocks EXCEPT ![(k \div EPB) + 1] = tb]
    BY <1>1, <1>4, <2>2, <2>3, <2>4 DEF InodeRecord
  <2>6. ASSUME NEW l \in 0 .. k - 1 PROVE BlockOf(g, l) = BlockOf(dn, l)
    <3>1. l \in Nat /\ l < k
      BY <1>1
    <3>2. l \div EPB < k \div EPB /\ l \div EPB \in Nat /\ k \div EPB \in Nat
      BY <1>1, <2>1, <3>1, BlockStarts, Place
    <3>3. l \div EPB < ND
      BY <1>3, <3>2, Measures
    <3>4. /\ (l \div EPB) + 1 \in 1 .. ND /\ (l \div EPB) + 1 # (k \div EPB) + 1
          /\ BlockOf(dn, l) = dn.dblocks[(l \div EPB) + 1]
          /\ BlockOf(g, l) = g.dblocks[(l \div EPB) + 1]
      <4>1. (l \div EPB) + 1 # (k \div EPB) + 1
        BY <3>2
      <4>2. (l \div EPB) + 1 \in 1 .. ND /\ BlockOf(dn, l) = dn.dblocks[(l \div EPB) + 1]
        BY <1>1, <3>1, <3>3, BlockOfDirect
      <4>3. BlockOf(g, l) = g.dblocks[(l \div EPB) + 1]
        BY <2>5, <3>1, <3>3, BlockOfDirect
      <4>. QED
        BY <4>1, <4>2, <4>3
    <3>. QED
      BY <1>5, <2>5, <3>4
  <2>7. BlockOf(g, k) = tb
    <3>1. BlockOf(g, k) = g.dblocks[(k \div EPB) + 1]
      BY <1>1, <1>3, <2>5, BlockOfDirect
    <3>. QED
      BY <1>3, <1>5, <2>5, <3>1
  <2>8. tb \in FreeBlocks /\ fb \in FreeBlocks /\ tb # fb
    <3>1. tb \in FreeBlocks
      BY <1>4, <2>1, FreeListFacts, Sizes
    <3>2. NextBlock[tb] = fb
      BY <2>1, <3>1, FreeListFacts
    <3>3. fb \in FreeBlocks
      BY <1>4, <3>1, <3>2, ListClosed, FiniteRegions DEF FreeBlocks
    <3>4. NextBlock[tb] # sb.free_block
      BY <3>1 DEF IInv, Ends, FreeBlocks
    <3>. QED
      BY <2>1, <3>1, <3>2, <3>3, <3>4
  <2>9. k + 1 \in 2 .. ND * EPB
    BY <1>1, <1>2
  <2>. QED
    BY <2>5, <2>6, <2>7, <2>8, <2>9 DEF Grows
<1>7. CASE ~ Spills(dn)
  <2>1. tb = dn.last /\ tb = BlockOf(dn, k - 1) /\ fb = sb.free_block /\ k % EPB # 0
    BY <1>4, <1>7 DEF Target, FreeAfter, Spills
  <2>2. g = [dn EXCEPT !.size = k + 1, !.last = tb]
    BY <1>1, <1>4, <1>7 DEF Grown, InodeRecord
  <2>4. k + 1 \in 0 .. ND * EPB + EPB
    BY <1>1, <1>2, Measures
  <2>5. g \in InodeRecord /\ g.type = "DIR" /\ g.parent = dn.parent /\ g.size = k + 1
        /\ g.dblocks = dn.dblocks
    BY <1>1, <1>4, <2>2, <2>4 DEF InodeRecord
  <2>6. \A l : BlockOf(g, l) = BlockOf(dn, l)
    BY <2>5 DEF BlockOf
  <2>7. (k - 1) \div EPB = k \div EPB
    BY <1>1, <2>1, BlockBefore
  <2>8. BlockOf(g, k) = tb
    BY <2>1, <2>6, <2>7 DEF BlockOf
  <2>9. fb \in FreeBlocks
    BY <1>4, <2>1, FreeListFacts, Sizes
  <2>10. tb \notin FreeBlocks
    <3>1. k - 1 \in Held(d)
      BY <1>1
    <3>. QED
      BY <1>1, <2>1, <3>1, HeldNotFree
  <2>11. k + 1 \in 2 .. ND * EPB
    BY <1>1, <1>2
  <2>. QED
    BY <2>1, <2>5, <2>6, <2>7, <2>8, <2>9, <2>10, <2>11 DEF Grows
<1>. QED
  BY <1>6, <1>7

LEMMA AppendGrows ==
  ASSUME IInv, NEW d, NEW n, NEW nn, NEW tb, NEW fb, AppendStep(d, n, nn, tb, fb)
  PROVE  Grows(d, tb, fb)
BY PlaceGrows DEF AppendStep

\* Without a new block, the entry's block is the directory's last.
LEMMA AppendTarget ==
  ASSUME IInv, NEW d, NEW n, NEW nn, NEW tb, NEW fb, AppendStep(d, n, nn, tb, fb),
         ~ Spills(inodes[d])
  PROVE  tb \notin FreeBlocks
<1> DEFINE k == inodes[d].size
<1>1. d \in Allocated /\ k \in Nat /\ k >= 2 /\ Held(d) = 0 .. k - 1 /\ HeldOnce
  <2>1. d \in Directories /\ Kinds /\ HeldOnce
    BY DEF AppendStep, IInv
  <2>. QED
    BY <2>1, InDirectories
<1>2. k - 1 \in Held(d)
  BY <1>1
<1>3. BlockOf(inodes[d], k - 1) \notin FreeBlocks
  BY <1>1, <1>2, HeldNotFree
<1>. QED
  BY <1>3 DEF AppendStep

\* What the step leaves on the disk.
AppendLeaves(d, n, nn, tb, fb) ==
  LET k == inodes[d].size
  IN  /\ blocks' \in [Block -> [0 .. EPB - 1 -> Dirent]]
      /\ \A b \in Block \ {tb, fb} : blocks'[b] = blocks[b]
      /\ \A c \in 0 .. EPB - 1 : c # k % EPB => blocks'[tb][c] = blocks[tb][c]
      /\ blocks'[tb][k % EPB] = Entry(n, call.name)
      /\ nn.type = "DIR" => blocks'[fb][0] = Entry(n, ".") /\ blocks'[fb][1] = Entry(d, "..")
      /\ sb' = [free_inode |-> inodes[n].next, free_block |-> NextFree(fb)]
      /\ inodes' \in [Inode -> InodeRecord]
      /\ d # n /\ d \in Allocated /\ n \in FreeInodes /\ d \in Inode /\ n \in Inode
      /\ inodes'[d] = Grown(inodes[d]) /\ inodes'[n] = nn
      /\ \A i \in Inode \ {d, n} : inodes'[i] = inodes[i]

LEMMA EntryType ==
  ASSUME NEW i \in Int, NEW nm \in FileNames \cup {".", ".."}
  PROVE  Entry(i, nm) \in Dirent
BY DEF Entry, Dirent

LEMMA AppendWritten ==
  ASSUME IInv, NEW d, NEW n, NEW nn, NEW tb, NEW fb, AppendStep(d, n, nn, tb, fb)
  PROVE  AppendLeaves(d, n, nn, tb, fb)
<1> DEFINE k == inodes[d].size
           w == WithEntry(inodes[d], Entry(n, call.name))
<1>1. /\ tb \in Block /\ fb \in Block /\ tb # fb /\ Grown(inodes[d]) \in InodeRecord
  BY AppendGrows, ZenonT(40) DEF AppendStep, Grows
<1>2. blocks \in [Block -> [0 .. EPB - 1 -> Dirent]] /\ inodes \in [Inode -> InodeRecord]
  BY DEF IInv, Shapes
<1>3. d \in Allocated /\ d \in Inode /\ k \in Nat
  BY InDirectories DEF AppendStep, IInv
<1>4. n \in FreeInodes /\ n \in Inode /\ n \in Int /\ d \in Int
  <2>1. n \in FreeInodes /\ n \in Inode
    BY FreeListFacts DEF AppendStep
  <2>. QED
    BY <1>3, <2>1, Numbers
<1>5. d # n
  BY <1>3, <1>4 DEF Allocated
<1>6. k % EPB \in 0 .. EPB - 1 /\ 0 \in 0 .. EPB - 1 /\ 1 \in 0 .. EPB - 1
  BY <1>3, Place, Measures
<1>7. Entry(n, call.name) \in Dirent /\ Entry(n, ".") \in Dirent /\ Entry(d, "..") \in Dirent
  BY <1>4, EntryType DEF AppendStep
<1>8. w = [blocks EXCEPT ![tb] = [@ EXCEPT ![k % EPB] = Entry(n, call.name)]]
  BY DEF AppendStep, WithEntry
<1>9. /\ w \in [Block -> [0 .. EPB - 1 -> Dirent]]
      /\ \A b \in Block \ {tb} : w[b] = blocks[b]
      /\ \A c \in 0 .. EPB - 1 : c # k % EPB => w[tb][c] = blocks[tb][c]
      /\ w[tb][k % EPB] = Entry(n, call.name)
  <2> HIDE DEF w, k
  <2>. QED
    BY <1>1, <1>2, <1>6, <1>7, <1>8
<1>10. /\ blocks' = IF nn.type = "DIR" THEN [w EXCEPT ![fb] = NewDirBlock(@, n, d)] ELSE w
       /\ sb' = SbAfter(w[fb][0].inode_index)
       /\ inodes' = [inodes EXCEPT ![d] = Grown(inodes[d]), ![n] = nn]
       /\ nn \in InodeRecord /\ sb.free_inode = n
  BY DEF AppendStep
<1>11. sb' = [free_inode |-> inodes[n].next, free_block |-> NextFree(fb)]
  BY <1>1, <1>9, <1>10 DEF SbAfter, NextFree
<1>12. /\ inodes' \in [Inode -> InodeRecord] /\ inodes'[d] = Grown(inodes[d]) /\ inodes'[n] = nn
       /\ \A i \in Inode \ {d, n} : inodes'[i] = inodes[i]
  BY <1>1, <1>2, <1>3, <1>4, <1>5, <1>10
<1>13. /\ blocks' \in [Block -> [0 .. EPB - 1 -> Dirent]]
       /\ \A b \in Block \ {fb} : blocks'[b] = w[b]
       /\ nn.type = "DIR" => blocks'[fb][0] = Entry(n, ".") /\ blocks'[fb][1] = Entry(d, "..")
  <2> HIDE DEF w, k
  <2>1. CASE nn.type = "DIR"
    <3>1. blocks' = [w EXCEPT ![fb] = [w[fb] EXCEPT ![0] = Entry(n, "."), ![1] = Entry(d, "..")]]
      BY <1>10, <2>1 DEF NewDirBlock
    <3>2. w[fb] \in [0 .. EPB - 1 -> Dirent]
      BY <1>1, <1>9
    <3>3. [w[fb] EXCEPT ![0] = Entry(n, "."), ![1] = Entry(d, "..")] \in [0 .. EPB - 1 -> Dirent]
      BY <1>6, <1>7, <3>2
    <3>. QED
      BY <1>1, <1>6, <1>9, <3>1, <3>2, <3>3
  <2>2. CASE nn.type # "DIR"
    BY <1>9, <1>10, <2>2
  <2>. QED
    BY <2>1, <2>2
<1>. QED
  BY <1>1, <1>3, <1>4, <1>5, <1>9, <1>11, <1>12, <1>13 DEF AppendLeaves

\* The free lists afterwards.
LEMMA AppendLists ==
  ASSUME IInv, NEW d, NEW n, NEW nn, NEW tb, NEW fb, AppendStep(d, n, nn, tb, fb)
  PROVE  /\ FreeInodes' = FreeInodes \ {n} /\ Allocated' = Allocated \cup {n}
         /\ FreeBlocks' = FreeBlocks \ {tb, fb}
         /\ Ends(Inode, sb.free_inode, NextInode)' /\ Ends(Block, sb.free_block, NextBlock)'
         /\ sb' \in [free_inode : Inode \cup {None}, free_block : Block \cup {None}]
<1>1. AppendLeaves(d, n, nn, tb, fb)
  BY AppendWritten
<1>2. /\ None \notin Inode /\ None \notin Block
      /\ Ends(Inode, sb.free_inode, NextInode) /\ Ends(Block, sb.free_block, NextBlock)
      /\ sb.free_inode = n /\ tb \in Block /\ fb \in Block
  BY Sizes DEF IInv, AppendStep
<1>3. /\ FreeInodes' = FreeInodes \ {n} /\ Ends(Inode, sb.free_inode, NextInode)'
      /\ sb'.free_inode \in Inode \cup {None}
  <2>1. PICK next : next = NextInode
    OBVIOUS
  <2>2. PICK next2 : next2 = NextInode'
    OBVIOUS
  <2>3. sb'.free_inode = next[n] /\ n \in Inode
    BY <1>1, <2>1 DEF NextInode, AppendLeaves
  <2>4. FreeInodes = Listed(Inode, n, next) /\ Ends(Inode, n, next)
    BY <1>2, <2>1 DEF FreeInodes
  <2>5. \A i \in FreeInodes \ {n} : next2[i] = next[i]
    <3>. SUFFICES ASSUME NEW i \in FreeInodes \ {n} PROVE next2[i] = next[i]
      OBVIOUS
    <3>1. i \in Inode /\ i # d
      BY <1>1, FreeListFacts DEF Allocated, AppendLeaves
    <3>2. inodes'[i] = inodes[i]
      BY <1>1, <3>1 DEF AppendLeaves
    <3>. QED
      BY <2>1, <2>2, <3>1, <3>2 DEF NextInode
  <2>6. /\ Listed(Inode, next[n], next2) = Listed(Inode, n, next) \ {n}
        /\ Ends(Inode, next[n], next2) /\ next[n] \in Inode \cup {None}
    <3>1. \A i \in Listed(Inode, n, next) \ {n} : next2[i] = next[i]
      BY <2>4, <2>5
    <3>2. None \notin Inode /\ n \in Inode /\ Ends(Inode, n, next)
      BY <1>2, <2>3, <2>4
    <3>. QED
      BY <3>1, <3>2, Popped, FiniteRegions
  <2>7. FreeInodes' = Listed(Inode, next[n], next2)
    BY <2>2, <2>3 DEF FreeInodes
  <2>8. Ends(Inode, sb.free_inode, NextInode)' = Ends(Inode, next[n], next2)
    BY <2>2, <2>3 DEF Ends
  <2>. QED
    BY <2>3, <2>4, <2>6, <2>7, <2>8
<1>4. Allocated' = Allocated \cup {n}
  BY <1>1, <1>3 DEF Allocated, AppendLeaves
<1>5. /\ FreeBlocks' = FreeBlocks \ {tb, fb} /\ Ends(Block, sb.free_block, NextBlock)'
      /\ sb'.free_block \in Block \cup {None}
  <2>1. PICK next : next = NextBlock
    OBVIOUS
  <2>2. PICK next2 : next2 = NextBlock'
    OBVIOUS
  <2>3. sb'.free_block = next[fb]
    BY <1>1, <1>2, <2>1 DEF NextBlock, AppendLeaves
  <2>4. \A b \in Block \ {tb, fb} : next2[b] = next[b]
    BY <1>1, <2>1, <2>2 DEF NextBlock, NextFree, AppendLeaves
  <2>5. FreeBlocks' = Listed(Block, next[fb], next2)
    BY <2>2, <2>3 DEF FreeBlocks
  <2>6. Ends(Block, sb.free_block, NextBlock)' = Ends(Block, next[fb], next2)
    BY <2>2, <2>3 DEF Ends
  <2>7. CASE Spills(inodes[d])
    <3>1. sb.free_block = tb /\ fb = next[tb]
      BY <1>2, <2>1, <2>7 DEF AppendStep, Target, FreeAfter, NextBlock
    <3>2. /\ Listed(Block, fb, next) = FreeBlocks \ {tb} /\ Ends(Block, fb, next)
      BY <1>2, <2>1, <3>1, Popped, FiniteRegions DEF FreeBlocks
    <3>3. \A b \in Listed(Block, fb, next) \ {fb} : next2[b] = next[b]
      BY <2>4, <3>2, FreeListFacts
    <3>4. /\ Listed(Block, next[fb], next2) = Listed(Block, fb, next) \ {fb}
          /\ Ends(Block, next[fb], next2) /\ next[fb] \in Block \cup {None}
      BY <1>2, <3>2, <3>3, Popped, FiniteRegions
    <3>. QED
      BY <2>3, <2>5, <2>6, <3>2, <3>4
  <2>8. CASE ~ Spills(inodes[d])
    <3>1. sb.free_block = fb
      BY <2>8 DEF AppendStep, FreeAfter
    <3>2. FreeBlocks = Listed(Block, fb, next) /\ Ends(Block, fb, next)
      BY <1>2, <2>1, <3>1 DEF FreeBlocks
    <3>3. tb \notin FreeBlocks
      BY <2>8, AppendTarget
    <3>4. \A b \in Listed(Block, fb, next) \ {fb} : next2[b] = next[b]
      BY <2>4, <3>2, <3>3, FreeListFacts
    <3>5. /\ Listed(Block, next[fb], next2) = Listed(Block, fb, next) \ {fb}
          /\ Ends(Block, next[fb], next2) /\ next[fb] \in Block \cup {None}
      BY <1>2, <3>2, <3>4, Popped, FiniteRegions
    <3>. QED
      BY <2>3, <2>5, <2>6, <3>2, <3>3, <3>5
  <2>. QED
    BY <2>7, <2>8
<1>6. sb' = [free_inode |-> sb'.free_inode, free_block |-> sb'.free_block]
  BY DEF AppendStep, SbAfter
<1>. QED
  BY <1>3, <1>4, <1>5, <1>6

\* Where an entry held after the step has its block: where it had it, or it is the
\* new entry of d, or it is held by the new inode.
HeldAs(d, n, tb, fb, i, l) ==
  \/ i \in Allocated /\ l \in Held(i) /\ BlockOf(inodes'[i], l) = BlockOf(inodes[i], l)
  \/ i = d /\ l = inodes[d].size /\ BlockOf(inodes'[i], l) = tb
  \/ i = n /\ l \div EPB = 0 /\ BlockOf(inodes'[i], l) = fb

HeldAfter(d, n, tb, fb) ==
  \A i \in Allocated' : \A l \in Held(i)' : l \in Nat /\ HeldAs(d, n, tb, fb, i, l)

LEMMA AppendKinds ==
  ASSUME IInv, NEW d, NEW n, NEW nn, NEW tb, NEW fb, AppendStep(d, n, nn, tb, fb)
  PROVE  Kinds' /\ HeldAfter(d, n, tb, fb)
<1> DEFINE k == inodes[d].size
<1>1. AppendLeaves(d, n, nn, tb, fb) /\ Grows(d, tb, fb)
  BY AppendWritten, AppendGrows
<1>2. /\ Kinds /\ Shapes /\ d \in Directories /\ Allocated' = Allocated \cup {n}
      /\ n \notin Allocated /\ d \in Allocated /\ n # Root
  <2>1. Kinds /\ Shapes /\ d \in Directories
    BY DEF IInv, AppendStep
  <2>2. Allocated' = Allocated \cup {n} /\ n \in FreeInodes /\ d \in Allocated
    BY <1>1, AppendLists DEF AppendLeaves
  <2>3. n \notin Allocated /\ n # Root
    BY <2>1, <2>2 DEF Kinds, Allocated
  <2>. QED
    BY <2>1, <2>2, <2>3
<1>3. /\ k \in Nat /\ k >= 2 /\ Held(d) = 0 .. k - 1 /\ inodes[d].type = "DIR"
  BY <1>2, InDirectories
<1>4. /\ inodes'[d].type = "DIR" /\ inodes'[d].size = k + 1 /\ k + 1 \in 2 .. ND * EPB
      /\ inodes'[d].parent = inodes[d].parent
      /\ \A l \in 0 .. k - 1 : BlockOf(inodes'[d], l) = BlockOf(inodes[d], l)
      /\ BlockOf(inodes'[d], k) = tb
  BY <1>1 DEF Grows, AppendLeaves
<1>5. /\ inodes'[n] = nn /\ nn \in InodeRecord /\ nn.dblocks[1] = fb
      /\ (nn.type = "DIR" /\ nn.size = 2) \/ (nn.type = "REG" /\ nn.size = 0)
  BY <1>1 DEF AppendLeaves, AppendStep
<1>6. \A i \in Allocated \ {d} : inodes'[i] = inodes[i]
  BY <1>1, <1>2 DEF AppendLeaves, Allocated
<1>7. Kinds'
  <2>1. 2 \in 2 .. ND * EPB
    <3>1. ND * EPB \in Int
      BY Measures
    <3>. QED
      BY <1>3, <1>4, <3>1
  <2>2. Root \in Allocated' /\ inodes'[Root].type = "DIR" /\ inodes'[Root].parent = Root
    BY <1>2, <1>4, <1>6 DEF Kinds
  <2>3. ASSUME NEW i \in Allocated'
        PROVE  \/ inodes'[i].type = "DIR" /\ inodes'[i].size \in 2 .. ND * EPB
               \/ inodes'[i].type = "REG" /\ inodes'[i].size = 0
    <3>1. CASE i = d
      BY <1>4, <3>1
    <3>2. CASE i = n
      BY <1>5, <2>1, <3>2
    <3>3. CASE i \in Allocated \ {d}
      BY <1>2, <1>6, <3>3 DEF Kinds
    <3>. QED
      BY <1>2, <3>1, <3>2, <3>3
  <2>. QED
    BY <2>2, <2>3 DEF Kinds
<1>8. ASSUME NEW i \in Allocated', NEW l \in Held(i)'
      PROVE  l \in Nat /\ HeldAs(d, n, tb, fb, i, l)
  <2>1. CASE i = d
    <3>1. l \in 0 .. k
      BY <1>3, <1>4, <2>1 DEF Held
    <3>2. CASE l = k
      BY <1>3, <1>4, <2>1, <3>2 DEF HeldAs
    <3>3. CASE l # k
      <4>1. l \in 0 .. k - 1
        BY <1>3, <3>1, <3>3
      <4>. QED
        BY <1>2, <1>3, <1>4, <2>1, <4>1 DEF HeldAs
    <3>. QED
      BY <3>2, <3>3
  <2>2. CASE i = n
    <3>1. l \in {0, 1}
      BY <1>5, <2>2 DEF Held
    <3>2. l \in Nat /\ l \div EPB = 0 /\ l \div EPB < ND
      BY <3>1, FirstPlaces, Measures
    <3>3. BlockOf(nn, l) = fb
      BY <1>5, <3>2, BlockOfDirect
    <3>. QED
      BY <1>5, <2>2, <3>2, <3>3 DEF HeldAs
  <2>3. CASE i \in Allocated \ {d}
    <3>1. inodes'[i] = inodes[i] /\ l \in Held(i)
      BY <1>6, <2>3 DEF Held
    <3>2. l \in Nat
      BY <1>2, <2>3, <3>1, HeldPlace
    <3>. QED
      BY <2>3, <3>1, <3>2 DEF HeldAs
  <2>. QED
    BY <1>2, <2>1, <2>2, <2>3
<1>. QED
  BY <1>7, <1>8 DEF HeldAfter

LEMMA AppendHeldOnce ==
  ASSUME IInv, NEW d, NEW n, NEW nn, NEW tb, NEW fb, AppendStep(d, n, nn, tb, fb)
  PROVE  HeldOnce'
<1> DEFINE k == inodes[d].size
<1>1. /\ HeldOnce /\ HeldAfter(d, n, tb, fb) /\ FreeBlocks' = FreeBlocks \ {tb, fb}
      /\ tb # fb /\ fb \in FreeBlocks
      /\ tb \in FreeBlocks \/ (tb = BlockOf(inodes[d], k - 1) /\ (k - 1) \div EPB = k \div EPB)
  BY AppendKinds, AppendLists, AppendGrows DEF IInv, Grows
<1>2. d \in Allocated /\ k - 1 \in Held(d)
  <2>1. d \in Directories /\ Kinds
    BY DEF AppendStep, IInv
  <2>2. k \in Nat /\ k >= 2 /\ Held(d) = 0 .. k - 1 /\ d \in Allocated
    BY <2>1, InDirectories
  <2>. QED
    BY <2>2
<1>3. ASSUME NEW i \in Allocated, NEW l \in Held(i)
      PROVE  /\ BlockOf(inodes[i], l) # fb
             /\ BlockOf(inodes[i], l) = tb => i = d /\ l \div EPB = k \div EPB
  <2>1. BlockOf(inodes[i], l) \notin FreeBlocks
    BY <1>1, HeldNotFree
  <2>2. CASE tb \in FreeBlocks
    BY <1>1, <2>1, <2>2
  <2>3. CASE tb = BlockOf(inodes[d], k - 1) /\ (k - 1) \div EPB = k \div EPB
    <3>1. PICK m : m = k - 1
      OBVIOUS
    <3>2. BlockOf(inodes[i], l) = BlockOf(inodes[d], m) => i = d /\ l \div EPB = m \div EPB
      BY <1>1, <1>2, <3>1 DEF HeldOnce
    <3>. QED
      BY <1>1, <2>1, <2>3, <3>1, <3>2
  <2>. QED
    BY <1>1, <2>2, <2>3
<1> HIDE DEF k
<1>4. ASSUME NEW i \in Allocated', NEW l \in Held(i)'
      PROVE  BlockOf(inodes'[i], l) \notin FreeBlocks'
  <2>1. HeldAs(d, n, tb, fb, i, l)
    BY <1>1 DEF HeldAfter
  <2>2. ASSUME i \in Allocated, l \in Held(i), BlockOf(inodes'[i], l) = BlockOf(inodes[i], l)
        PROVE  BlockOf(inodes'[i], l) \notin FreeBlocks'
    BY <1>1, <2>2, HeldNotFree
  <2>. QED
    BY <1>1, <2>1, <2>2 DEF HeldAs
<1>5. ASSUME NEW i \in Allocated', NEW l \in Held(i)', NEW j \in Allocated', NEW m \in Held(j)',
             BlockOf(inodes'[i], l) = BlockOf(inodes'[j], m)
      PROVE  i = j /\ l \div EPB = m \div EPB
  <2>1. HeldAs(d, n, tb, fb, i, l) /\ HeldAs(d, n, tb, fb, j, m)
    BY <1>1 DEF HeldAfter
  <2>2. CASE /\ i \in Allocated /\ l \in Held(i) /\ BlockOf(inodes'[i], l) = BlockOf(inodes[i], l)
             /\ j \in Allocated /\ m \in Held(j) /\ BlockOf(inodes'[j], m) = BlockOf(inodes[j], m)
    <3>1. BlockOf(inodes[i], l) = BlockOf(inodes[j], m)
      BY <1>5, <2>2
    <3>2. i \in Allocated /\ l \in Held(i) /\ j \in Allocated /\ m \in Held(j) /\ HeldOnce
      BY <1>1, <2>2
    <3>. QED
      BY <3>1, <3>2, HeldByOne
  <2>3. CASE i \in Allocated /\ l \in Held(i) /\ BlockOf(inodes'[i], l) = BlockOf(inodes[i], l)
    <3>1. CASE j = d /\ m = k /\ BlockOf(inodes'[j], m) = tb
      BY <1>3, <1>5, <2>3, <3>1
    <3>2. CASE j = n /\ BlockOf(inodes'[j], m) = fb
      BY <1>3, <1>5, <2>3, <3>2
    <3>. QED
      BY <2>1, <2>2, <2>3, <3>1, <3>2 DEF HeldAs, k
  <2>4. CASE j \in Allocated /\ m \in Held(j) /\ BlockOf(inodes'[j], m) = BlockOf(inodes[j], m)
    <3>1. CASE i = d /\ l = k /\ BlockOf(inodes'[i], l) = tb
      BY <1>3, <1>5, <2>4, <3>1
    <3>2. CASE i = n /\ BlockOf(inodes'[i], l) = fb
      BY <1>3, <1>5, <2>4, <3>2
    <3>. QED
      BY <2>1, <2>2, <2>4, <3>1, <3>2 DEF HeldAs, k
  <2>. QED
    BY <1>1, <1>5, <2>1, <2>3, <2>4 DEF HeldAs
<1>. QED
  BY <1>4, <1>5 DEF HeldOnce

\* Entry k of directory d after the step.
EntryAfter(d, k) == blocks'[BlockOf(inodes'[d], k)][k % EPB]

\* The directories and their entries after the step: those of before, the new entry
\* of d, and those of the new inode if it is a directory.
AppendTree(d, n, nn) ==
  /\ n \notin Allocated /\ n # Root /\ d \in Directories /\ Allocated' = Allocated \cup {n}
  /\ Directories' = IF nn.type = "DIR" THEN Directories \cup {n} ELSE Directories
  /\ \A e \in Directories \ {d} : inodes'[e].size = inodes[e].size
  /\ inodes'[d].size = inodes[d].size + 1 /\ inodes[d].size \in Nat /\ inodes[d].size >= 2
  /\ nn.type = "DIR" => inodes'[n].size = 2
  /\ \A i \in Allocated : inodes'[i].parent = inodes[i].parent
  /\ inodes'[n].parent = d
  /\ \A e \in Directories : \A k \in 0 .. inodes[e].size - 1 :
       EntryAfter(e, k) = EntryAt(inodes[e], k)
  /\ EntryAfter(d, inodes[d].size) = Entry(n, call.name)
  /\ nn.type = "DIR" => EntryAfter(n, 0) = Entry(n, ".") /\ EntryAfter(n, 1) = Entry(d, "..")

LEMMA AppendTreeStep ==
  ASSUME IInv, NEW d, NEW n, NEW nn, NEW tb, NEW fb, AppendStep(d, n, nn, tb, fb)
  PROVE  AppendTree(d, n, nn)
<1> DEFINE k == inodes[d].size
<1>1. /\ AppendLeaves(d, n, nn, tb, fb) /\ Grows(d, tb, fb)
      /\ Allocated' = Allocated \cup {n} /\ Shapes /\ Kinds /\ HeldOnce /\ d \in Directories
  BY AppendWritten, AppendGrows, AppendLists DEF IInv, AppendStep
<1>2. n \notin Allocated /\ n # Root /\ d \in Allocated /\ d # n
  BY <1>1 DEF AppendLeaves, Allocated, Kinds
<1>3. k \in Nat /\ k >= 2 /\ Held(d) = 0 .. k - 1 /\ inodes[d].type = "DIR"
  BY <1>1, InDirectories
<1>4. \A i \in Allocated \ {d} : inodes'[i] = inodes[i]
  BY <1>1, <1>2 DEF AppendLeaves, Allocated
<1>5. /\ inodes'[d].size = k + 1 /\ inodes'[d].parent = inodes[d].parent /\ inodes'[d].type = "DIR"
      /\ \A l \in 0 .. k - 1 : BlockOf(inodes'[d], l) = BlockOf(inodes[d], l)
      /\ BlockOf(inodes'[d], k) = tb
  BY <1>1 DEF Grows, AppendLeaves
<1>6. /\ inodes'[n] = nn /\ nn.parent = d /\ nn \in InodeRecord /\ nn.dblocks[1] = fb
      /\ (nn.type = "DIR" /\ nn.size = 2) \/ (nn.type = "REG" /\ nn.size = 0)
  BY <1>1 DEF AppendLeaves, AppendStep
<1>7. Directories' = IF nn.type = "DIR" THEN Directories \cup {n} ELSE Directories
  <2>1. \A i \in Allocated : inodes'[i].type = inodes[i].type
    BY <1>3, <1>4, <1>5
  <2>2. nn.type = "DIR" <=> inodes'[n].type = "DIR"
    BY <1>6
  <2>3. Directories' = {i \in Allocated' : inodes'[i].type = "DIR"}
    BY DEF Directories
  <2>. QED
    BY <1>1, <1>2, <2>1, <2>2, <2>3 DEF Directories
<1>8. ASSUME NEW e \in Directories, NEW l \in 0 .. inodes[e].size - 1
      PROVE  EntryAfter(e, l) = EntryAt(inodes[e], l)
  <2>1. e \in Allocated /\ l \in Held(e)
    BY <1>1, InDirectories
  <2>2. l \in Nat /\ BlockOf(inodes[e], l) \in Block /\ l % EPB \in 0 .. EPB - 1
    BY <1>1, <2>1, HeldPlace, Place
  <2>3. BlockOf(inodes'[e], l) = BlockOf(inodes[e], l)
    BY <1>4, <1>5, <2>1
  <2>4. BlockOf(inodes[e], l) \notin FreeBlocks
    BY <1>1, <2>1, HeldNotFree
  <2>5. BlockOf(inodes[e], l) # fb
    BY <1>1, <2>4 DEF Grows
  <2>6. CASE BlockOf(inodes[e], l) # tb
    <3>1. blocks'[BlockOf(inodes[e], l)] = blocks[BlockOf(inodes[e], l)]
      BY <1>1, <2>2, <2>5, <2>6 DEF AppendLeaves
    <3>. QED
      BY <2>3, <3>1 DEF EntryAfter, EntryAt
  <2>7. CASE BlockOf(inodes[e], l) = tb
    <3>1. PICK m : m = k - 1
      OBVIOUS
    <3>2. tb = BlockOf(inodes[d], m) /\ m \div EPB = k \div EPB /\ m \in Held(d)
      BY <1>1, <1>3, <2>4, <2>7, <3>1 DEF Grows
    <3>3. e = d /\ l \div EPB = m \div EPB
      BY <1>1, <1>2, <2>1, <2>7, <3>2, HeldByOne
    <3>4. l % EPB # k % EPB
      <4>1. l # k /\ l \div EPB = k \div EPB
        BY <1>3, <2>2, <3>2, <3>3
      <4>. QED
        BY <1>3, <2>2, <4>1, PlaceOnce
    <3>5. blocks'[tb][l % EPB] = blocks[tb][l % EPB]
      BY <1>1, <2>2, <3>4 DEF AppendLeaves
    <3>. QED
      BY <2>3, <2>7, <3>5 DEF EntryAfter, EntryAt
  <2>. QED
    BY <2>6, <2>7
<1>9. EntryAfter(d, k) = Entry(n, call.name)
  BY <1>1, <1>5 DEF EntryAfter, AppendLeaves
<1>10. nn.type = "DIR" => EntryAfter(n, 0) = Entry(n, ".") /\ EntryAfter(n, 1) = Entry(d, "..")
  <2>1. BlockOf(nn, 0) = fb /\ BlockOf(nn, 1) = fb
    BY <1>6, FirstPlaces, Measures, BlockOfDirect
  <2>. QED
    BY <1>1, <1>6, <2>1, FirstPlaces DEF EntryAfter, AppendLeaves
<1>. QED
  BY <1>1, <1>2, <1>3, <1>4, <1>5, <1>6, <1>7, <1>8, <1>9, <1>10 DEF AppendTree, Directories

LEMMA AppendEntriesRight ==
  ASSUME EntriesRight, Kinds, call.name \in FileNames, Root \in Directories,
         NEW d, NEW n, NEW nn, AppendTree(d, n, nn)
  PROVE  EntriesRight'
<1> DEFINE k == inodes[d].size
           Right(e) == /\ EntryAfter(e, 0) = Entry(e, ".")
                       /\ EntryAfter(e, 1) = Entry(inodes'[e].parent, "..")
                       /\ \A l \in 2 .. inodes'[e].size - 1 :
                            /\ EntryAfter(e, l).filename \in FileNames
                            /\ EntryAfter(e, l).inode_index \in Allocated' \ {Root}
                            /\ inodes'[EntryAfter(e, l).inode_index].parent = e
<1>1. ASSUME NEW e \in Directories
      PROVE  /\ EntryAfter(e, 0) = Entry(e, ".") /\ EntryAfter(e, 1) = Entry(inodes'[e].parent, "..")
             /\ \A l \in 2 .. inodes[e].size - 1 :
                  /\ EntryAfter(e, l).filename \in FileNames
                  /\ EntryAfter(e, l).inode_index \in Allocated' \ {Root}
                  /\ inodes'[EntryAfter(e, l).inode_index].parent = e
  <2>1. inodes[e].size \in Nat /\ inodes[e].size >= 2 /\ e \in Allocated
    BY InDirectories
  <2>2. /\ EntryAfter(e, 0) = EntryAt(inodes[e], 0) /\ EntryAfter(e, 1) = EntryAt(inodes[e], 1)
        /\ \A l \in 2 .. inodes[e].size - 1 : EntryAfter(e, l) = EntryAt(inodes[e], l)
    <3>1. PICK z : z = inodes[e].size
      OBVIOUS
    <3>2. 0 \in 0 .. z - 1 /\ 1 \in 0 .. z - 1 /\ \A l \in 2 .. z - 1 : l \in 0 .. z - 1
      BY <2>1, <3>1
    <3>. QED
      BY <3>1, <3>2 DEF AppendTree
  <2>3. inodes'[e].parent = inodes[e].parent
    BY <2>1 DEF AppendTree
  <2>4. EntryAfter(e, 0) = Entry(e, ".") /\ EntryAfter(e, 1) = Entry(inodes'[e].parent, "..")
    BY <2>1, <2>2, <2>3 DEF EntriesRight
  <2>5. ASSUME NEW l \in 2 .. inodes[e].size - 1
        PROVE  /\ EntryAfter(e, l).filename \in FileNames
               /\ EntryAfter(e, l).inode_index \in Allocated' \ {Root}
               /\ inodes'[EntryAfter(e, l).inode_index].parent = e
    <3>1. EntryAfter(e, l) = EntryAt(inodes[e], l)
      BY <2>1, <2>2
    <3>2. PICK i : i = EntryAt(inodes[e], l).inode_index
      OBVIOUS
    <3>3. /\ EntryAt(inodes[e], l).filename \in FileNames
          /\ i \in Allocated \ {Root} /\ inodes[i].parent = e
      BY <3>2 DEF EntriesRight
    <3>4. i \in Allocated' /\ inodes'[i].parent = inodes[i].parent
      BY <3>3 DEF AppendTree
    <3>. QED
      BY <3>1, <3>2, <3>3, <3>4
  <2>. QED
    BY <2>4, <2>5
<1>2. ASSUME NEW e \in Directories' PROVE Right(e)
  <2>1. CASE e \in Directories \ {d}
    BY <1>1, <2>1 DEF AppendTree
  <2>2. CASE e = d
    <3>1. d \in Directories /\ inodes'[d].size = k + 1 /\ k \in Nat /\ k >= 2
      BY DEF AppendTree
    <3>2. /\ EntryAfter(d, k).filename \in FileNames
          /\ EntryAfter(d, k).inode_index \in Allocated' \ {Root}
          /\ inodes'[EntryAfter(d, k).inode_index].parent = d
      <4>1. EntryAfter(d, k) = Entry(n, call.name) /\ n \in Allocated' /\ n # Root /\ inodes'[n].parent = d
        BY DEF AppendTree
      <4>2. EntryAfter(d, k).filename = call.name /\ EntryAfter(d, k).inode_index = n
        BY <4>1 DEF Entry
      <4>. QED
        BY <4>1, <4>2
    <3>3. \A l \in 2 .. inodes'[d].size - 1 : l \in 2 .. k - 1 \/ l = k
      <4>1. PICK z : z = inodes'[d].size
        OBVIOUS
      <4> HIDE DEF k
      <4>. QED
        BY <3>1, <4>1
    <3>. QED
      BY <1>1, <2>2, <3>1, <3>2, <3>3
  <2>3. CASE e \notin Directories
    <3>1. e = n /\ nn.type = "DIR"
      BY <2>3 DEF AppendTree
    <3>2. inodes'[n].size = 2 /\ inodes'[n].parent = d
      BY <3>1 DEF AppendTree
    <3>3. \A l \in 2 .. inodes'[n].size - 1 : FALSE
      BY <3>2
    <3>4. EntryAfter(n, 0) = Entry(n, ".") /\ EntryAfter(n, 1) = Entry(d, "..")
      BY <3>1 DEF AppendTree
    <3>. QED
      BY <3>1, <3>2, <3>3, <3>4
  <2>. QED
    BY <2>1, <2>2, <2>3
<1>. QED
  BY <1>2 DEF EntriesRight, EntryAt, EntryAfter

\* Names, after the step.
EntryNamesAfter(d, k, i) == d \in Directories' /\ k \in 2 .. inodes'[d].size - 1
                            /\ EntryAfter(d, k).inode_index = i

LEMMA NamedOnceAfter ==
  ASSUME \A i \in Allocated' \ {Root} : \E d, k : EntryNamesAfter(d, k, i),
         \A i, d, k, e, l : EntryNamesAfter(d, k, i) /\ EntryNamesAfter(e, l, i) => d = e /\ k = l
  PROVE  NamedOnce'
<1>1. \A d, k, i : EntryNames(d, k, i)' <=> EntryNamesAfter(d, k, i)
  BY DEF EntryNames, EntryNamesAfter, EntryAt, EntryAfter
<1>2. EachNamed'
  BY <1>1 DEF EachNamed
<1>. QED
  BY <1>2, NamedOnceIs, PTL

LEMMA AppendNamedOnce ==
  ASSUME NamedOnce, EntriesRight, Kinds, NEW d, NEW n, NEW nn, AppendTree(d, n, nn)
  PROVE  NamedOnce'
<1> DEFINE s == inodes[d].size
<1>1. /\ \A i \in Allocated \ {Root} : \E c, k : EntryNames(c, k, i)
      /\ \A i, c, k, e, l : EntryNames(c, k, i) /\ EntryNames(e, l, i) => c = e /\ k = l
  BY NamedOnceIs DEF EachNamed
<1>2. ASSUME NEW c, NEW k, NEW i, EntryNames(c, k, i)
      PROVE  EntryNamesAfter(c, k, i) /\ i \in Allocated
  <2>1. c \in Directories /\ k \in 2 .. inodes[c].size - 1 /\ EntryAt(inodes[c], k).inode_index = i
    BY <1>2 DEF EntryNames
  <2>2. inodes[c].size \in Nat
    BY <2>1, InDirectories
  <2>3. k \in 0 .. inodes[c].size - 1 /\ k \in 2 .. inodes'[c].size - 1 /\ c \in Directories'
    BY <2>1, <2>2 DEF AppendTree
  <2>4. EntryAfter(c, k).inode_index = i
    BY <2>1, <2>3 DEF AppendTree
  <2>. QED
    BY <2>1, <2>3, <2>4 DEF EntryNamesAfter, EntriesRight
<1>3. /\ EntryNamesAfter(d, s, n) /\ EntryAfter(d, s).inode_index = n
  <2>1. s \in 2 .. inodes'[d].size - 1 /\ d \in Directories'
    BY DEF AppendTree
  <2>. QED
    BY <2>1 DEF EntryNamesAfter, AppendTree, Entry
<1>4. ASSUME NEW c, NEW k, NEW i, EntryNamesAfter(c, k, i)
      PROVE  EntryNames(c, k, i) \/ (c = d /\ k = s /\ i = n)
  <2>1. c \in Directories' /\ k \in 2 .. inodes'[c].size - 1 /\ EntryAfter(c, k).inode_index = i
    BY <1>4 DEF EntryNamesAfter
  <2>2. c \in Directories
    BY <2>1 DEF AppendTree
  <2>3. CASE c = d /\ k = s
    BY <1>3, <2>1, <2>3
  <2>4. CASE k \in 2 .. inodes[c].size - 1
    <3>1. EntryAfter(c, k) = EntryAt(inodes[c], k)
      BY <2>2, <2>4 DEF AppendTree
    <3>. QED
      BY <2>1, <2>2, <2>4, <3>1 DEF EntryNames
  <2>. QED
    BY <2>1, <2>2, <2>3, <2>4 DEF AppendTree
<1>5. n \notin Allocated /\ Allocated' = Allocated \cup {n}
  BY DEF AppendTree
<1> HIDE DEF s
<1>6. \A i \in Allocated' \ {Root} : \E c, k : EntryNamesAfter(c, k, i)
  BY <1>1, <1>2, <1>3, <1>5
<1>7. \A i, c, k, e, l : EntryNamesAfter(c, k, i) /\ EntryNamesAfter(e, l, i) => c = e /\ k = l
  BY <1>1, <1>2, <1>4, <1>5
<1>. QED
  BY <1>6, <1>7, NamedOnceAfter

--------------------------------------------------------------------------------
\* An entry is removed, and the file it names: f_remove.

\* Entry k of directory d goes, and with it file t.
RemoveStep(d, k, t) ==
  LET dn   == inodes[d]
      last == inodes[d].size - 1
      lb   == BlockOf(inodes[d], inodes[d].size - 1)
  IN  /\ d \in Directories /\ k \in 2 .. inodes[d].size - 1
      /\ EntryAt(dn, k).inode_index = t /\ inodes[t].type = "REG"
      /\ inodes' = [inodes EXCEPT ![d] = Shrunk(dn), ![t] = FreedInode(t)]
      /\ blocks' = IF StartsBlock(last)
                   THEN [MovedInto(dn, k) EXCEPT
                           ![lb] = [blocks[lb] EXCEPT ![0].inode_index = sb.free_block]]
                   ELSE MovedInto(dn, k)
      /\ sb' = [free_inode |-> t, free_block |-> IF StartsBlock(last) THEN lb ELSE sb.free_block]

\* What the step leaves on the disk; lb is the block of the last entry.
RemoveLeaves(d, k, t, lb) ==
  LET last == inodes[d].size - 1
      kb   == BlockOf(inodes[d], k)
  IN  /\ last \in Nat /\ k \in 2 .. last /\ lb \in Block /\ kb \in Block
      /\ lb \notin FreeBlocks /\ kb \notin FreeBlocks
      /\ d \in Allocated /\ d \in Inode /\ t \in Allocated /\ t \in Inode /\ t # Root /\ t # d
      /\ d \in Directories /\ inodes[d].type = "DIR" /\ inodes[t].type = "REG"
      /\ EntryAt(inodes[d], k).inode_index = t
      /\ inodes' \in [Inode -> InodeRecord]
      /\ inodes'[d].size = last /\ inodes'[d].type = "DIR"
      /\ inodes'[d].parent = inodes[d].parent /\ inodes'[d].dblocks = inodes[d].dblocks
      /\ inodes'[d].next = inodes[d].next /\ inodes'[t].next = sb.free_inode
      /\ \A i \in Inode \ {d, t} : inodes'[i] = inodes[i]
      /\ blocks' \in [Block -> [0 .. EPB - 1 -> Dirent]]
      /\ \A b \in Block \ {lb} : \A c \in 0 .. EPB - 1 :
           blocks'[b][c] = IF b = kb /\ c = k % EPB THEN EntryAt(inodes[d], last) ELSE blocks[b][c]
      /\ StartsBlock(last) => blocks'[lb][0].inode_index = sb.free_block
      /\ ~ StartsBlock(last) => \A c \in 0 .. EPB - 1 :
           blocks'[lb][c] = IF lb = kb /\ c = k % EPB THEN EntryAt(inodes[d], last) ELSE blocks[lb][c]
      /\ sb' = [free_inode |-> t, free_block |-> IF StartsBlock(last) THEN lb ELSE sb.free_block]

LEMMA RemoveWritten ==
  ASSUME IInv, NEW d, NEW k, NEW t, RemoveStep(d, k, t)
  PROVE  RemoveLeaves(d, k, t, BlockOf(inodes[d], inodes[d].size - 1))
<1>1. PICK last, lb, kb, e :
        /\ last = inodes[d].size - 1 /\ lb = BlockOf(inodes[d], last) /\ kb = BlockOf(inodes[d], k)
        /\ e = EntryAt(inodes[d], last)
  OBVIOUS
<1>2. /\ d \in Directories /\ Kinds /\ Shapes /\ HeldOnce /\ EntriesRight
      /\ blocks \in [Block -> [0 .. EPB - 1 -> Dirent]] /\ inodes \in [Inode -> InodeRecord]
      /\ sb.free_block \in Int /\ sb.free_inode \in Inode \cup {None}
  <2>1. Shapes
    BY DEF IInv
  <2>2. sb.free_block \in Block \cup {None}
    BY <2>1 DEF Shapes
  <2>3. sb.free_block \in Int
    BY <2>2, Numbers DEF None
  <2>. QED
    BY <2>1, <2>3 DEF IInv, Shapes, RemoveStep
<1>3. /\ d \in Allocated /\ d \in Inode /\ inodes[d].size \in Nat /\ inodes[d].size >= 2
      /\ inodes[d].type = "DIR" /\ Held(d) = 0 .. inodes[d].size - 1
  BY <1>2, InDirectories
<1>4. last \in Nat /\ k \in 2 .. last /\ last \in Held(d) /\ k \in Held(d) /\ k \in Nat
  <2>1. k \in 2 .. inodes[d].size - 1
    BY DEF RemoveStep
  <2>. QED
    BY <1>1, <1>3, <2>1
<1>5. lb \in Block /\ kb \in Block /\ lb \notin FreeBlocks /\ kb \notin FreeBlocks
  BY <1>1, <1>2, <1>3, <1>4, HeldPlace, HeldNotFree
<1>6. k % EPB \in 0 .. EPB - 1 /\ last % EPB \in 0 .. EPB - 1 /\ 0 \in 0 .. EPB - 1
  BY <1>4, Place, Measures
<1>7. t \in Allocated /\ t # Root /\ t # d /\ t \in Inode
  <2>1. EntryAt(inodes[d], k).inode_index = t /\ inodes[t].type = "REG" /\ k \in 2 .. inodes[d].size - 1
    BY DEF RemoveStep
  <2>2. t \in Allocated \ {Root}
    BY <1>2, <2>1 DEF EntriesRight
  <2>. QED
    BY <1>3, <2>1, <2>2 DEF Allocated
<1>8. e \in Dirent
  <2>1. blocks[lb] \in [0 .. EPB - 1 -> Dirent]
    BY <1>2, <1>5
  <2>. QED
    BY <1>1, <1>6, <2>1 DEF EntryAt
<1>9. PICK m : m = MovedInto(inodes[d], k)
  OBVIOUS
<1>10. /\ m \in [Block -> [0 .. EPB - 1 -> Dirent]]
       /\ \A b \in Block : \A c \in 0 .. EPB - 1 :
            m[b][c] = IF b = kb /\ c = k % EPB THEN e ELSE blocks[b][c]
  <2>1. m = [blocks EXCEPT ![kb] = [@ EXCEPT ![k % EPB] = e]]
    BY <1>1, <1>9 DEF MovedInto
  <2>. QED
    BY <1>2, <1>5, <1>6, <1>8, <2>1
<1>11. /\ inodes' = [inodes EXCEPT ![d] = Shrunk(inodes[d]), ![t] = FreedInode(t)]
       /\ blocks' = IF StartsBlock(last)
                    THEN [m EXCEPT ![lb] = [blocks[lb] EXCEPT ![0].inode_index = sb.free_block]]
                    ELSE m
       /\ sb' = [free_inode |-> t, free_block |-> IF StartsBlock(last) THEN lb ELSE sb.free_block]
  BY <1>1, <1>9 DEF RemoveStep
<1>12. /\ inodes' \in [Inode -> InodeRecord]
       /\ inodes'[d].size = last /\ inodes'[d].type = "DIR"
       /\ inodes'[d].parent = inodes[d].parent /\ inodes'[d].dblocks = inodes[d].dblocks
       /\ inodes'[d].next = inodes[d].next /\ inodes'[t].next = sb.free_inode
       /\ \A i \in Inode \ {d, t} : inodes'[i] = inodes[i]
  <2>1. inodes[d] \in InodeRecord /\ inodes[t] \in InodeRecord
    BY <1>2, <1>3, <1>7
  <2>2. last \in 0 .. ND * EPB + EPB
    <3>1. inodes[d].size \in 0 .. ND * EPB + EPB /\ ND * EPB + EPB \in Nat
      BY <2>1, Measures DEF InodeRecord
    <3>. QED
      BY <1>1, <1>4, <3>1
  <2>3. /\ Shrunk(inodes[d]) \in InodeRecord /\ Shrunk(inodes[d]).size = last
        /\ Shrunk(inodes[d]).type = "DIR" /\ Shrunk(inodes[d]).parent = inodes[d].parent
        /\ Shrunk(inodes[d]).dblocks = inodes[d].dblocks /\ Shrunk(inodes[d]).next = inodes[d].next
    BY <1>1, <1>3, <2>1, <2>2 DEF Shrunk, InodeRecord
  <2>4. FreedInode(t) \in InodeRecord /\ FreedInode(t).next = sb.free_inode
    BY <1>2, <2>1 DEF FreedInode, InodeRecord
  <2>. QED
    BY <1>2, <1>3, <1>7, <1>11, <2>3, <2>4
<1>13. /\ blocks' \in [Block -> [0 .. EPB - 1 -> Dirent]]
       /\ \A b \in Block \ {lb} : blocks'[b] = m[b]
       /\ StartsBlock(last) => blocks'[lb][0].inode_index = sb.free_block
       /\ ~ StartsBlock(last) => blocks'[lb] = m[lb]
  <2>1. PICK f : f = [blocks[lb] EXCEPT ![0].inode_index = sb.free_block]
    OBVIOUS
  <2>2. f \in [0 .. EPB - 1 -> Dirent] /\ f[0].inode_index = sb.free_block
    <3>1. blocks[lb] \in [0 .. EPB - 1 -> Dirent] /\ blocks[lb][0] \in Dirent
      BY <1>2, <1>5, <1>6
    <3>. QED
      BY <1>2, <1>6, <2>1, <3>1 DEF Dirent
  <2>. QED
    BY <1>5, <1>10, <1>11, <2>1, <2>2
<1>14. d \in Directories /\ inodes[t].type = "REG" /\ EntryAt(inodes[d], k).inode_index = t
  BY DEF RemoveStep
<1>15. RemoveLeaves(d, k, t, lb)
  <2>1. /\ \A b \in Block \ {lb} : \A c \in 0 .. EPB - 1 :
             blocks'[b][c] = IF b = kb /\ c = k % EPB THEN e ELSE blocks[b][c]
        /\ ~ StartsBlock(last) => \A c \in 0 .. EPB - 1 :
             blocks'[lb][c] = IF lb = kb /\ c = k % EPB THEN e ELSE blocks[lb][c]
    BY <1>5, <1>10, <1>13
  <2> DEFINE z == inodes[d].size - 1
             q == BlockOf(inodes[d], k)
  <2>2. z = last /\ q = kb /\ EntryAt(inodes[d], z) = e
    BY <1>1
  <2> HIDE DEF z, q
  <2>3. /\ z \in Nat /\ k \in 2 .. z /\ lb \in Block /\ q \in Block
        /\ lb \notin FreeBlocks /\ q \notin FreeBlocks
        /\ inodes'[d].size = z
        /\ StartsBlock(z) => blocks'[lb][0].inode_index = sb.free_block
        /\ sb' = [free_inode |-> t, free_block |-> IF StartsBlock(z) THEN lb ELSE sb.free_block]
    BY <1>4, <1>5, <1>11, <1>12, <1>13, <2>2
  <2>4. /\ \A b \in Block \ {lb} : \A c \in 0 .. EPB - 1 :
             blocks'[b][c] = IF b = q /\ c = k % EPB THEN EntryAt(inodes[d], z) ELSE blocks[b][c]
        /\ ~ StartsBlock(z) => \A c \in 0 .. EPB - 1 :
             blocks'[lb][c] = IF lb = q /\ c = k % EPB THEN EntryAt(inodes[d], z) ELSE blocks[lb][c]
    BY <2>1, <2>2
  <2>5. /\ inodes' \in [Inode -> InodeRecord] /\ blocks' \in [Block -> [0 .. EPB - 1 -> Dirent]]
        /\ inodes'[d].type = "DIR"
        /\ inodes'[d].parent = inodes[d].parent /\ inodes'[d].dblocks = inodes[d].dblocks
        /\ inodes'[d].next = inodes[d].next /\ inodes'[t].next = sb.free_inode
        /\ \A i \in Inode \ {d, t} : inodes'[i] = inodes[i]
    BY <1>12, <1>13
  <2>. QED
    BY <1>3, <1>7, <1>14, <2>3, <2>4, <2>5 DEF RemoveLeaves, z, q
<1>. QED
  BY <1>1, <1>15

LEMMA RemoveLists ==
  ASSUME IInv, NEW d, NEW k, NEW t, NEW lb, RemoveLeaves(d, k, t, lb)
  PROVE  /\ FreeInodes' = FreeInodes \cup {t} /\ Allocated' = Allocated \ {t}
         /\ FreeBlocks' = IF StartsBlock(inodes[d].size - 1) THEN FreeBlocks \cup {lb} ELSE FreeBlocks
         /\ Ends(Inode, sb.free_inode, NextInode)' /\ Ends(Block, sb.free_block, NextBlock)'
         /\ sb' \in [free_inode : Inode \cup {None}, free_block : Block \cup {None}]
<1>1. /\ None \notin Inode /\ None \notin Block
      /\ Ends(Inode, sb.free_inode, NextInode) /\ Ends(Block, sb.free_block, NextBlock)
      /\ sb.free_inode \in Inode \cup {None} /\ sb.free_block \in Block \cup {None}
      /\ lb \in Block /\ t \in Inode /\ 0 \in 0 .. EPB - 1
  BY Sizes DEF IInv, Shapes, RemoveLeaves
<1>2. PICK head, next, next2 : head = sb.free_inode /\ next = NextInode /\ next2 = NextInode'
  OBVIOUS
<1>3. /\ FreeInodes' = FreeInodes \cup {t} /\ Ends(Inode, sb.free_inode, NextInode)'
  <2>1. Listed(Inode, head, next) = FreeInodes /\ Ends(Inode, head, next) /\ head \in Inode \cup {None}
    BY <1>1, <1>2 DEF FreeInodes
  <2>2. t \notin Listed(Inode, head, next)
    BY <2>1 DEF RemoveLeaves, Allocated
  <2>3. next2[t] = head
    BY <1>1, <1>2 DEF RemoveLeaves, NextInode
  <2>4. \A i \in Listed(Inode, head, next) : next2[i] = next[i]
    <3>. SUFFICES ASSUME NEW i \in FreeInodes PROVE next2[i] = next[i]
      BY <2>1
    <3>1. i \in Inode /\ i # t /\ i # d
      BY FreeListFacts DEF RemoveLeaves, Allocated
    <3>2. inodes'[i] = inodes[i]
      BY <3>1 DEF RemoveLeaves
    <3>. QED
      BY <1>2, <3>1, <3>2 DEF NextInode
  <2>5. /\ Listed(Inode, t, next2) = Listed(Inode, head, next) \cup {t}
        /\ Ends(Inode, t, next2)
    BY <1>1, <2>1, <2>2, <2>3, <2>4, Pushed, FiniteRegions
  <2>6. sb'.free_inode = t
    BY DEF RemoveLeaves
  <2>7. FreeInodes' = Listed(Inode, t, next2)
    BY <1>2, <2>6 DEF FreeInodes
  <2>8. Ends(Inode, sb.free_inode, NextInode)' = Ends(Inode, t, next2)
    BY <1>2, <2>6 DEF Ends
  <2>. QED
    BY <2>1, <2>5, <2>7, <2>8
<1>4. PICK top, link, link2 : top = sb.free_block /\ link = NextBlock /\ link2 = NextBlock'
  OBVIOUS
<1>5. /\ FreeBlocks' = IF StartsBlock(inodes[d].size - 1) THEN FreeBlocks \cup {lb} ELSE FreeBlocks
      /\ Ends(Block, sb.free_block, NextBlock)'
  <2>1. Listed(Block, top, link) = FreeBlocks /\ Ends(Block, top, link) /\ top \in Block \cup {None}
    BY <1>1, <1>4 DEF FreeBlocks
  <2>2. lb \notin Listed(Block, top, link)
    BY <2>1 DEF RemoveLeaves
  <2>3. \A b \in Listed(Block, top, link) : link2[b] = link[b]
    <3>. SUFFICES ASSUME NEW b \in FreeBlocks PROVE link2[b] = link[b]
      BY <2>1
    <3>1. b \in Block /\ b # lb /\ b # BlockOf(inodes[d], k)
      BY FreeListFacts DEF RemoveLeaves
    <3>2. blocks'[b][0] = blocks[b][0]
      BY <1>1, <3>1 DEF RemoveLeaves
    <3>. QED
      BY <1>4, <3>1, <3>2 DEF NextBlock, NextFree
  <2>4. CASE StartsBlock(inodes[d].size - 1)
    <3>1. sb'.free_block = lb /\ blocks'[lb][0].inode_index = top
      BY <1>4, <2>4 DEF RemoveLeaves
    <3>2. link2[lb] = top
      BY <1>1, <1>4, <3>1 DEF NextBlock, NextFree
    <3>3. /\ Listed(Block, lb, link2) = Listed(Block, top, link) \cup {lb}
          /\ Ends(Block, lb, link2)
      <4>1. None \notin Block /\ lb \in Block /\ top \in Block \cup {None}
        BY <1>1, <2>1
      <4>. QED
        BY <2>1, <2>2, <2>3, <3>2, <4>1, Pushed, FiniteRegions
    <3>4. FreeBlocks' = Listed(Block, lb, link2)
      BY <1>4, <3>1 DEF FreeBlocks
    <3>5. Ends(Block, sb.free_block, NextBlock)' = Ends(Block, lb, link2)
      BY <1>4, <3>1 DEF Ends
    <3>. QED
      BY <2>1, <2>4, <3>3, <3>4, <3>5
  <2>5. CASE ~ StartsBlock(inodes[d].size - 1)
    <3>1. sb'.free_block = top
      BY <1>4, <2>5 DEF RemoveLeaves
    <3>2. /\ Listed(Block, top, link2) = Listed(Block, top, link)
          /\ Ends(Block, top, link2)
      BY <2>1, <2>3, SameList, FiniteRegions
    <3>3. FreeBlocks' = Listed(Block, top, link2)
      BY <1>4, <3>1 DEF FreeBlocks
    <3>4. Ends(Block, sb.free_block, NextBlock)' = Ends(Block, top, link2)
      BY <1>4, <3>1 DEF Ends
    <3>. QED
      BY <2>1, <2>5, <3>2, <3>3, <3>4
  <2>. QED
    BY <2>4, <2>5
<1>6. Allocated' = Allocated \ {t}
  BY <1>3 DEF Allocated
<1>7. sb' \in [free_inode : Inode \cup {None}, free_block : Block \cup {None}]
  BY <1>1 DEF RemoveLeaves
<1>. QED
  BY <1>3, <1>5, <1>6, <1>7

\* The inodes in use keep their kinds and blocks.
LEMMA RemoveKinds ==
  ASSUME IInv, NEW d, NEW k, NEW t, NEW lb, RemoveLeaves(d, k, t, lb)
  PROVE  /\ Kinds'
         /\ \A i \in Allocated' : \A l \in Held(i)' :
              /\ i \in Allocated /\ l \in Held(i) /\ l \in Nat
              /\ BlockOf(inodes'[i], l) = BlockOf(inodes[i], l)
              /\ i = d => l < inodes[d].size - 1
<1>1. PICK last : last = inodes[d].size - 1
  OBVIOUS
<1>2. /\ Kinds /\ Shapes /\ Allocated' = Allocated \ {t}
      /\ last \in Nat /\ last >= 2 /\ inodes[d].size = last + 1
      /\ d \in Allocated /\ t # Root /\ t # d /\ inodes[d].type = "DIR" /\ d \in Directories
  <2>1. Kinds /\ Shapes
    BY DEF IInv
  <2>2. Allocated' = Allocated \ {t}
    BY RemoveLists
  <2>3. /\ last \in Nat /\ k \in 2 .. last /\ d \in Allocated /\ t # Root /\ t # d
        /\ inodes[d].type = "DIR" /\ d \in Directories
    BY <1>1 DEF RemoveLeaves
  <2>4. inodes[d].size \in Nat
    BY <2>1, <2>3, InDirectories
  <2>. QED
    BY <1>1, <2>1, <2>2, <2>3, <2>4
<1>3. /\ inodes'[d].type = "DIR" /\ inodes'[d].size = last /\ inodes'[d].parent = inodes[d].parent
      /\ inodes'[d].dblocks = inodes[d].dblocks
  BY <1>1 DEF RemoveLeaves
<1>4. \A i \in Allocated' \ {d} : inodes'[i] = inodes[i]
  BY <1>2 DEF RemoveLeaves, Allocated
<1>5. Kinds'
  <2>1. Root \in Allocated' /\ inodes'[Root].type = "DIR" /\ inodes'[Root].parent = Root
    BY <1>2, <1>3, <1>4 DEF Kinds
  <2>2. last \in 2 .. ND * EPB
    <3>1. ND * EPB \in Int /\ inodes[d].size <= ND * EPB
      BY <1>2, Measures, InDirectories
    <3>. QED
      BY <1>2, <3>1
  <2>3. ASSUME NEW i \in Allocated'
        PROVE  \/ inodes'[i].type = "DIR" /\ inodes'[i].size \in 2 .. ND * EPB
               \/ inodes'[i].type = "REG" /\ inodes'[i].size = 0
    BY <1>2, <1>3, <1>4, <2>2 DEF Kinds
  <2>. QED
    BY <2>1, <2>3 DEF Kinds
<1>6. ASSUME NEW i \in Allocated', NEW l \in Held(i)'
      PROVE  /\ i \in Allocated /\ l \in Held(i) /\ l \in Nat
             /\ BlockOf(inodes'[i], l) = BlockOf(inodes[i], l)
             /\ i = d => l < last
  <2>1. CASE i = d
    <3>1. l \in 0 .. last - 1 /\ Held(d) = 0 .. inodes[d].size - 1
      BY <1>2, <1>3, <2>1, InDirectories DEF Held
    <3>. QED
      BY <1>2, <1>3, <2>1, <3>1 DEF BlockOf
  <2>2. CASE i # d
    <3>1. inodes'[i] = inodes[i] /\ i \in Allocated /\ l \in Held(i)
      BY <1>2, <1>4, <2>2 DEF Held
    <3>. QED
      BY <1>2, <2>2, <3>1, HeldPlace
  <2>. QED
    BY <2>1, <2>2
<1>. QED
  BY <1>1, <1>5, <1>6

LEMMA RemoveHeldOnce ==
  ASSUME IInv, NEW d, NEW k, NEW t, NEW lb, RemoveLeaves(d, k, t, lb),
         lb = BlockOf(inodes[d], inodes[d].size - 1)
  PROVE  HeldOnce'
<1>1. PICK last : last = inodes[d].size - 1
  OBVIOUS
<1>2. /\ HeldOnce /\ Kinds /\ Shapes /\ d \in Allocated /\ last \in Nat /\ last \in Held(d)
      /\ lb = BlockOf(inodes[d], last)
  <2>1. HeldOnce /\ Kinds /\ Shapes /\ d \in Directories /\ last \in Nat
    BY <1>1 DEF IInv, RemoveLeaves
  <2>. QED
    BY <1>1, <2>1, InDirectories
<1>3. /\ FreeBlocks' = IF StartsBlock(last) THEN FreeBlocks \cup {lb} ELSE FreeBlocks
      /\ \A i \in Allocated' : \A l \in Held(i)' :
              /\ i \in Allocated /\ l \in Held(i) /\ l \in Nat
              /\ BlockOf(inodes'[i], l) = BlockOf(inodes[i], l)
              /\ i = d => l < last
  BY <1>1, RemoveLists, RemoveKinds
<1>4. ASSUME NEW i \in Allocated', NEW l \in Held(i)'
      PROVE  BlockOf(inodes'[i], l) \notin FreeBlocks'
  <2>1. BlockOf(inodes[i], l) \notin FreeBlocks
    BY <1>2, <1>3, HeldNotFree
  <2>2. ASSUME StartsBlock(last) PROVE BlockOf(inodes[i], l) # lb
    <3>1. SUFFICES ASSUME BlockOf(inodes[i], l) = BlockOf(inodes[d], last) PROVE FALSE
      BY <1>2
    <3>2. i = d /\ l \div EPB = last \div EPB
      BY <1>2, <1>3, <3>1, HeldByOne
    <3>3. l < last /\ l \in Nat /\ last % EPB = 0
      BY <1>3, <2>2, <3>2 DEF StartsBlock
    <3>4. l \div EPB < last \div EPB /\ l \div EPB \in Nat
      BY <1>2, <3>3, BlockStarts, Place
    <3>. QED
      BY <3>2, <3>4
  <2>. QED
    BY <1>3, <2>1, <2>2
<1>5. ASSUME NEW i \in Allocated', NEW l \in Held(i)', NEW j \in Allocated', NEW m \in Held(j)',
             BlockOf(inodes'[i], l) = BlockOf(inodes'[j], m)
      PROVE  i = j /\ l \div EPB = m \div EPB
  <2>1. BlockOf(inodes[i], l) = BlockOf(inodes[j], m)
    BY <1>3, <1>5
  <2>. QED
    BY <1>2, <1>3, <2>1, HeldByOne
<1>. QED
  BY <1>4, <1>5 DEF HeldOnce

\* The directories and their entries after the step: the last entry of d is where the
\* removed one was.
RemoveTree(d, k, t) ==
  LET last == inodes[d].size - 1
  IN  /\ t \in Allocated /\ t # Root /\ d \in Directories /\ Allocated' = Allocated \ {t}
      /\ Directories' = Directories
      /\ last \in Nat /\ k \in 2 .. last /\ EntryAt(inodes[d], k).inode_index = t
      /\ \A e \in Directories \ {d} : inodes'[e].size = inodes[e].size
      /\ inodes'[d].size = last
      /\ \A i \in Allocated' : inodes'[i].parent = inodes[i].parent
      /\ \A e \in Directories : \A l \in 0 .. inodes'[e].size - 1 :
           EntryAfter(e, l) = IF e = d /\ l = k THEN EntryAt(inodes[d], last)
                              ELSE EntryAt(inodes[e], l)

LEMMA RemoveTreeStep ==
  ASSUME IInv, NEW d, NEW k, NEW t, NEW lb, RemoveLeaves(d, k, t, lb),
         lb = BlockOf(inodes[d], inodes[d].size - 1)
  PROVE  RemoveTree(d, k, t)
<1>1. PICK last, kb : last = inodes[d].size - 1 /\ kb = BlockOf(inodes[d], k)
  OBVIOUS
<1>2. /\ HeldOnce /\ Kinds /\ Shapes /\ d \in Allocated /\ last \in Nat /\ k \in 2 .. last
      /\ last \in Held(d) /\ k \in Held(d) /\ k \in Nat /\ d \in Directories
      /\ lb = BlockOf(inodes[d], last) /\ Allocated' = Allocated \ {t}
      /\ t \in Allocated /\ t # Root /\ t # d /\ inodes[t].type = "REG" /\ inodes[d].type = "DIR"
  <2>1. /\ HeldOnce /\ Kinds /\ Shapes /\ d \in Directories /\ last \in Nat /\ k \in 2 .. last
        /\ t \in Allocated /\ t # Root /\ t # d /\ inodes[t].type = "REG" /\ inodes[d].type = "DIR"
    BY <1>1 DEF IInv, RemoveLeaves
  <2>2. Held(d) = 0 .. last /\ d \in Allocated
    BY <1>1, <2>1, InDirectories
  <2>3. last \in Held(d) /\ k \in Held(d) /\ k \in Nat
    BY <2>1, <2>2
  <2>. QED
    BY <1>1, <2>1, <2>2, <2>3, RemoveLists
<1>3. /\ inodes'[d].type = "DIR" /\ inodes'[d].size = last /\ inodes'[d].parent = inodes[d].parent
      /\ \A i \in Allocated' \ {d} : inodes'[i] = inodes[i]
  BY <1>1, <1>2 DEF RemoveLeaves, Allocated
<1>4. Directories' = Directories
  <2>1. Directories' = {i \in Allocated' : inodes'[i].type = "DIR"}
    BY DEF Directories
  <2>2. \A i \in Allocated' : inodes'[i].type = inodes[i].type
    BY <1>2, <1>3
  <2>. QED
    BY <1>2, <2>1, <2>2 DEF Directories
<1>5. ASSUME NEW e \in Directories, NEW l \in 0 .. inodes'[e].size - 1
      PROVE  EntryAfter(e, l) = IF e = d /\ l = k THEN EntryAt(inodes[d], last)
                                ELSE EntryAt(inodes[e], l)
  <2>1. e \in Allocated' /\ l \in Held(e)'
    BY <1>2, <1>3, <1>4 DEF Directories, Held
  <2>2. /\ e \in Allocated /\ l \in Held(e) /\ l \in Nat
        /\ BlockOf(inodes'[e], l) = BlockOf(inodes[e], l)
        /\ e = d => l < last
    BY <1>1, <2>1, RemoveKinds
  <2>3. PICK b, c : b = BlockOf(inodes[e], l) /\ c = l % EPB
    OBVIOUS
  <2>4. b \in Block /\ c \in 0 .. EPB - 1
    BY <1>2, <2>2, <2>3, HeldPlace, Place
  <2>5. b = kb /\ c = k % EPB <=> e = d /\ l = k
    BY <1>1, <1>2, <2>2, <2>3, PlacesApart
  <2>6. ~ StartsBlock(last) \/ b # lb
    <3>1. SUFFICES ASSUME StartsBlock(last), BlockOf(inodes[e], l) = BlockOf(inodes[d], last) PROVE FALSE
      BY <1>2, <2>3
    <3>2. e = d /\ l \div EPB = last \div EPB
      BY <1>2, <2>2, <3>1, HeldByOne
    <3>3. l < last /\ last % EPB = 0
      BY <2>2, <3>1, <3>2 DEF StartsBlock
    <3>4. l \div EPB < last \div EPB /\ l \div EPB \in Nat
      BY <1>2, <2>2, <3>3, BlockStarts, Place
    <3>. QED
      BY <3>2, <3>4
  <2>7. blocks'[b][c] = IF b = kb /\ c = k % EPB THEN EntryAt(inodes[d], last) ELSE blocks[b][c]
    BY <1>1, <2>4, <2>6 DEF RemoveLeaves
  <2>. QED
    BY <2>2, <2>3, <2>5, <2>7 DEF EntryAfter, EntryAt
<1>6. EntryAt(inodes[d], k).inode_index = t
  BY DEF RemoveLeaves
<1>7. \A e \in Directories \ {d} : inodes'[e].size = inodes[e].size
  BY <1>2, <1>3 DEF Directories
<1>8. \A i \in Allocated' : inodes'[i].parent = inodes[i].parent
  BY <1>2, <1>3
<1>. QED
  BY <1>1, <1>2, <1>3, <1>4, <1>5, <1>6, <1>7, <1>8 DEF RemoveTree
\* Where the entry at a place after the step was before it.
LEMMA RemoveNames ==
  ASSUME Kinds, NEW d, NEW k, NEW t, RemoveTree(d, k, t), EachNamed,
         NEW c, NEW l, NEW i
  PROVE  EntryNamesAfter(c, l, i) <=>
           /\ l \in 2 .. inodes'[c].size - 1 /\ c \in Directories /\ i # t
           /\ EntryNames(c, IF c = d /\ l = k THEN inodes[d].size - 1 ELSE l, i)
<1>1. PICK last : last = inodes[d].size - 1
  OBVIOUS
<1>2. /\ d \in Directories /\ last \in Nat /\ k \in 2 .. last /\ EntryNames(d, k, t)
      /\ Directories' = Directories /\ inodes'[d].size = last
      /\ inodes[d].size = last + 1
      /\ \A e \in Directories \ {d} : inodes'[e].size = inodes[e].size
  <2>1. inodes[d].size \in Nat /\ d \in Directories /\ last \in Nat /\ k \in 2 .. last
    BY <1>1, InDirectories DEF RemoveTree
  <2>2. inodes[d].size = last + 1 /\ k \in 2 .. inodes[d].size - 1
    BY <1>1, <2>1
  <2>. QED
    BY <1>1, <2>1, <2>2 DEF RemoveTree, EntryNames
<1>3. ASSUME c \in Directories, l \in 2 .. inodes'[c].size - 1
      PROVE  /\ EntryAfter(c, l) = IF c = d /\ l = k THEN EntryAt(inodes[d], last)
                                   ELSE EntryAt(inodes[c], l)
             /\ c = d => l < last /\ l \in 2 .. last
             /\ l \in 2 .. inodes[c].size - 1 /\ last \in 2 .. inodes[d].size - 1
  <2>1. inodes[c].size \in Nat
    BY <1>3, InDirectories
  <2>2. PICK z, z2 : z = inodes[c].size /\ z2 = inodes'[c].size
    OBVIOUS
  <2>3. /\ c = d => z = last + 1 /\ z2 = last
        /\ c # d => z2 = z
    BY <1>2, <1>3, <2>2
  <2>4. z \in Nat /\ l \in 2 .. z2 - 1
    BY <1>3, <2>1, <2>2
  <2>5. l \in 0 .. z2 - 1 /\ l \in 2 .. z - 1 /\ (c = d => l < last /\ l \in 2 .. last)
    BY <1>2, <2>3, <2>4
  <2>6. last \in 2 .. inodes[d].size - 1
    BY <1>2
  <2>. QED
    BY <1>1, <1>3, <2>2, <2>5, <2>6 DEF RemoveTree
<1>4. CASE c = d /\ l = k
  <2>1. ASSUME l \in 2 .. inodes'[c].size - 1
        PROVE  EntryNamesAfter(c, l, i) <=> i # t /\ EntryNames(c, last, i)
    <3>1. c \in Directories /\ l < last /\ last \in 2 .. inodes[d].size - 1
          /\ EntryAfter(c, l) = EntryAt(inodes[d], last)
      BY <1>2, <1>3, <1>4, <2>1
    <3>2. EntryNamesAfter(c, l, i) <=> EntryNames(c, last, i)
      BY <1>2, <1>4, <2>1, <3>1 DEF EntryNames, EntryNamesAfter
    <3>3. EntryNames(c, last, i) => i # t
      BY <1>2, <1>4, <3>1 DEF EachNamed
    <3>. QED
      BY <3>2, <3>3
  <2>. QED
    BY <1>1, <1>2, <1>4, <2>1 DEF EntryNamesAfter
<1>5. CASE ~ (c = d /\ l = k)
  <2>1. ASSUME c \in Directories, l \in 2 .. inodes'[c].size - 1
        PROVE  EntryNamesAfter(c, l, i) <=> i # t /\ EntryNames(c, l, i)
    <3>1. EntryAfter(c, l) = EntryAt(inodes[c], l) /\ l \in 2 .. inodes[c].size - 1
      BY <1>3, <1>5, <2>1
    <3>2. EntryNamesAfter(c, l, i) <=> EntryNames(c, l, i)
      BY <1>2, <2>1, <3>1 DEF EntryNames, EntryNamesAfter
    <3>3. EntryNames(c, l, i) => i # t
      BY <1>2, <1>5 DEF EachNamed
    <3>. QED
      BY <3>2, <3>3
  <2>. QED
    BY <1>2, <1>5, <2>1 DEF EntryNamesAfter
<1>. QED
  BY <1>4, <1>5

LEMMA RemoveNamedOnce ==
  ASSUME NamedOnce, Kinds, NEW d, NEW k, NEW t, RemoveTree(d, k, t)
  PROVE  NamedOnce'
<1>1. EachNamed
  BY NamedOnceIs
<1>2. PICK last : last = inodes[d].size - 1
  OBVIOUS
<1>3. /\ d \in Directories /\ last \in Nat /\ k \in 2 .. last /\ EntryNames(d, k, t)
      /\ inodes'[d].size = last /\ Allocated' = Allocated \ {t}
      /\ \A e \in Directories \ {d} : inodes'[e].size = inodes[e].size
      /\ inodes[d].size = last + 1
  <2>1. inodes[d].size \in Nat /\ d \in Directories /\ last \in Nat /\ k \in 2 .. last
    BY <1>2, InDirectories DEF RemoveTree
  <2>2. inodes[d].size = last + 1 /\ k \in 2 .. inodes[d].size - 1
    BY <1>2, <2>1
  <2>. QED
    BY <1>2, <2>1, <2>2 DEF RemoveTree, EntryNames
<1>4. ASSUME NEW i \in Allocated' \ {Root} PROVE \E c, l : EntryNamesAfter(c, l, i)
  <2>1. PICK c, l : EntryNames(c, l, i)
    BY <1>1, <1>3 DEF EachNamed
  <2>2. c \in Directories /\ l \in 2 .. inodes[c].size - 1 /\ i # t
    BY <1>3, <2>1 DEF EntryNames
  <2>3. CASE c = d /\ l = last
    <3>1. k # last
      BY <1>3, <2>1, <2>2, <2>3 DEF EntryNames
    <3>2. k \in 2 .. last - 1
      BY <1>3, <3>1
    <3>3. k \in 2 .. inodes'[d].size - 1
      BY <1>3, <3>2
    <3>4. EntryNames(d, last, i)
      BY <2>1, <2>3
    <3>5. EntryNamesAfter(d, k, i)
      <4>1. EntryNamesAfter(d, k, i) <=>
              /\ k \in 2 .. inodes'[d].size - 1 /\ d \in Directories /\ i # t
              /\ EntryNames(d, IF d = d /\ k = k THEN inodes[d].size - 1 ELSE k, i)
        BY <1>1, RemoveNames
      <4>. QED
        BY <1>2, <1>3, <2>2, <3>3, <3>4, <4>1
    <3>. QED
      BY <3>5
  <2>4. CASE ~ (c = d /\ l = last)
    <3>1. ~ (c = d /\ l = k)
      BY <1>3, <2>1, <2>2 DEF EntryNames
    <3>2. l \in 2 .. inodes'[c].size - 1
      <4>1. PICK z, z2 : z = inodes[c].size /\ z2 = inodes'[c].size
        OBVIOUS
      <4>2. (c = d => z = last + 1 /\ z2 = last) /\ (c # d => z2 = z) /\ l \in 2 .. z - 1
        BY <1>3, <2>2, <4>1
      <4>3. l \in 2 .. z2 - 1
        BY <1>3, <2>4, <4>2
      <4>. QED
        BY <4>1, <4>3
    <3>. QED
      BY <1>1, <2>1, <2>2, <3>1, <3>2, RemoveNames
  <2>. QED
    BY <2>3, <2>4
<1>5. ASSUME NEW i, NEW c, NEW l, NEW e, NEW m, EntryNamesAfter(c, l, i), EntryNamesAfter(e, m, i)
      PROVE  c = e /\ l = m
  <2>1. PICK p, q : /\ p = (IF c = d /\ l = k THEN last ELSE l)
                    /\ q = (IF e = d /\ m = k THEN last ELSE m)
    OBVIOUS
  <2>2. EntryNames(c, p, i) /\ EntryNames(e, q, i)
    BY <1>1, <1>2, <1>5, <2>1, RemoveNames
  <2>3. c = e /\ p = q
    BY <1>1, <2>2 DEF EachNamed
  <2>4. l \in 2 .. inodes'[c].size - 1 /\ m \in 2 .. inodes'[e].size - 1
    BY <1>5 DEF EntryNamesAfter
  <2>5. c = d => l # last /\ m # last
    BY <1>3, <2>3, <2>4
  <2>. QED
    BY <2>1, <2>3, <2>5
<1>. QED
  BY <1>4, <1>5, NamedOnceAfter

LEMMA RemoveEntriesRight ==
  ASSUME EntriesRight, NamedOnce, Kinds, NEW d, NEW k, NEW t, RemoveTree(d, k, t)
  PROVE  EntriesRight'
<1>1. EachNamed
  BY NamedOnceIs
<1>2. PICK last : last = inodes[d].size - 1
  OBVIOUS
<1>3. ASSUME NEW e \in Directories
      PROVE  /\ EntryAfter(e, 0) = Entry(e, ".")
             /\ EntryAfter(e, 1) = Entry(inodes'[e].parent, "..")
             /\ \A l \in 2 .. inodes'[e].size - 1 :
                  /\ EntryAfter(e, l).filename \in FileNames
                  /\ EntryAfter(e, l).inode_index \in Allocated' \ {Root}
                  /\ inodes'[EntryAfter(e, l).inode_index].parent = e
  <2>1. PICK z, z2 : z = inodes[e].size /\ z2 = inodes'[e].size
    OBVIOUS
  <2>2. /\ z \in Nat /\ z >= 2 /\ e \in Allocated /\ e \in Allocated'
        /\ (e = d => z2 = z - 1 /\ z2 = last) /\ (e # d => z2 = z)
        /\ last \in Nat /\ k \in 2 .. last /\ d \in Directories
    <3>1. /\ z \in Nat /\ z >= 2 /\ e \in Allocated
      BY <2>1, InDirectories
    <3>2. /\ (e = d => z2 = z - 1 /\ z2 = last) /\ (e # d => z2 = z)
          /\ last \in Nat /\ k \in 2 .. last /\ d \in Directories
      BY <1>2, <2>1 DEF RemoveTree
    <3>3. e \in Directories'
      BY DEF RemoveTree
    <3>. QED
      BY <3>1, <3>2, <3>3 DEF Directories
  <2>3. 0 \in 0 .. z2 - 1 /\ 1 \in 0 .. z2 - 1 /\ k # 0 /\ k # 1
    BY <2>2
  <2>4. EntryAfter(e, 0) = Entry(e, ".") /\ EntryAfter(e, 1) = Entry(inodes'[e].parent, "..")
    BY <2>1, <2>2, <2>3 DEF RemoveTree, EntriesRight
  <2>5. ASSUME NEW l \in 2 .. inodes'[e].size - 1
        PROVE  /\ EntryAfter(e, l).filename \in FileNames
               /\ EntryAfter(e, l).inode_index \in Allocated' \ {Root}
               /\ inodes'[EntryAfter(e, l).inode_index].parent = e
    <3>1. PICK m : m = IF e = d /\ l = k THEN last ELSE l
      OBVIOUS
    <3>2. l \in 0 .. z2 - 1 /\ m \in 2 .. z - 1
      BY <2>1, <2>2, <3>1
    <3>3. EntryAfter(e, l) = EntryAt(inodes[e], m)
      BY <1>2, <2>1, <3>1, <3>2 DEF RemoveTree
    <3>4. PICK i : i = EntryAt(inodes[e], m).inode_index
      OBVIOUS
    <3>5. /\ EntryAt(inodes[e], m).filename \in FileNames
          /\ i \in Allocated \ {Root} /\ inodes[i].parent = e
      BY <2>1, <3>2, <3>4 DEF EntriesRight
    <3>6. i # t
      <4>1. EntryNamesAfter(e, l, i)
        BY <3>3, <3>4 DEF EntryNamesAfter, RemoveTree
      <4>. QED
        BY <1>1, <4>1, RemoveNames
    <3>7. i \in Allocated' /\ inodes'[i].parent = inodes[i].parent
      BY <3>5, <3>6 DEF RemoveTree
    <3>. QED
      BY <3>3, <3>4, <3>5, <3>7
  <2>. QED
    BY <2>4, <2>5
<1>4. Directories' = Directories
  BY DEF RemoveTree
<1>. QED
  BY <1>3, <1>4 DEF EntriesRight, EntryAt, EntryAfter
--------------------------------------------------------------------------------
\* The invariant, in its parts on the disk and in the table.

OnDisk ==
  /\ inodes \in [Inode -> InodeRecord]
  /\ blocks \in [Block -> [0 .. EPB - 1 -> Dirent]]
  /\ sb \in [free_inode : Inode \cup {None}, free_block : Block \cup {None}]
  /\ Ends(Inode, sb.free_inode, NextInode) /\ Ends(Block, sb.free_block, NextBlock)
  /\ Kinds /\ HeldOnce /\ EntriesRight /\ NamedOnce

DescriptorsRight == fds \subseteq Slot \X Inode /\ by_open \subseteq {h[1] : h \in fds}

LEMMA Parts == IInv <=> OnDisk /\ DescriptorsRight /\ SbDurable /\ Cached /\ CallRight
BY DEF IInv, Shapes, OnDisk, DescriptorsRight

LEMMA AppendDisk ==
  ASSUME IInv, NEW d, NEW n, NEW nn, NEW tb, NEW fb, AppendStep(d, n, nn, tb, fb)
  PROVE  OnDisk'
<1>1. Kinds /\ EntriesRight /\ NamedOnce
  BY DEF IInv
<1>2. AppendTree(d, n, nn) /\ AppendLeaves(d, n, nn, tb, fb)
  BY AppendTreeStep, AppendWritten
<1>3. call.name \in FileNames /\ Root \in Directories
  BY <1>1 DEF AppendStep, Kinds, Directories
<1>4. Kinds' /\ HeldOnce'
  BY AppendKinds, AppendHeldOnce
<1>5. EntriesRight' /\ NamedOnce'
  BY <1>1, <1>2, <1>3, AppendEntriesRight, AppendNamedOnce
<1>6. /\ inodes' \in [Inode -> InodeRecord]
      /\ blocks' \in [Block -> [0 .. EPB - 1 -> Dirent]]
  BY <1>2 DEF AppendLeaves
<1>7. /\ sb' \in [free_inode : Inode \cup {None}, free_block : Block \cup {None}]
      /\ Ends(Inode, sb.free_inode, NextInode)' /\ Ends(Block, sb.free_block, NextBlock)'
  BY AppendLists
<1>. QED
  BY <1>4, <1>5, <1>6, <1>7 DEF OnDisk

LEMMA RemoveDisk ==
  ASSUME IInv, NEW d, NEW k, NEW t, RemoveStep(d, k, t)
  PROVE  OnDisk' /\ Allocated' = Allocated \ {t}
<1>1. PICK lb : lb = BlockOf(inodes[d], inodes[d].size - 1)
  OBVIOUS
<1>2. RemoveLeaves(d, k, t, lb)
  BY <1>1, RemoveWritten
<1>3. Kinds /\ EntriesRight /\ NamedOnce /\ RemoveTree(d, k, t)
  BY <1>1, <1>2, RemoveTreeStep DEF IInv
<1>4. Kinds' /\ HeldOnce'
  BY <1>1, <1>2, RemoveKinds, RemoveHeldOnce
<1>5. EntriesRight' /\ NamedOnce'
  BY <1>3, RemoveEntriesRight, RemoveNamedOnce
<1>6. /\ inodes' \in [Inode -> InodeRecord]
      /\ blocks' \in [Block -> [0 .. EPB - 1 -> Dirent]]
  BY <1>2 DEF RemoveLeaves
<1>7. /\ sb' \in [free_inode : Inode \cup {None}, free_block : Block \cup {None}]
      /\ Ends(Inode, sb.free_inode, NextInode)' /\ Ends(Block, sb.free_block, NextBlock)'
      /\ Allocated' = Allocated \ {t}
  BY <1>2, RemoveLists
<1>. QED
  BY <1>4, <1>5, <1>6, <1>7 DEF OnDisk

LEMMA SameDisk ==
  ASSUME OnDisk, UNCHANGED <<inodes, blocks, sb>>
  PROVE  OnDisk' /\ Allocated' = Allocated
<1>1. NextInode' = NextInode /\ NextBlock' = NextBlock
  BY DEF NextInode, NextBlock, NextFree
<1>2. FreeInodes' = FreeInodes /\ FreeBlocks' = FreeBlocks /\ Allocated' = Allocated
  BY <1>1 DEF FreeInodes, FreeBlocks, Allocated
<1>3. Directories' = Directories
  BY <1>2 DEF Directories
<1>4. Ends(Inode, sb.free_inode, NextInode)' /\ Ends(Block, sb.free_block, NextBlock)'
  BY <1>1 DEF OnDisk, Ends
<1>5. Kinds'
  BY <1>2 DEF OnDisk, Kinds
<1>6. \A i : Held(i)' = Held(i)
  BY DEF Held
<1>7. HeldOnce'
  BY <1>2, <1>6 DEF OnDisk, HeldOnce
<1>8. EntriesRight'
  BY <1>2, <1>3 DEF OnDisk, EntriesRight, EntryAt
<1>9. NamedOnce'
  <2>1. \A d, k, i : EntryNames(d, k, i)' <=> EntryNames(d, k, i)
    BY <1>3 DEF EntryNames, EntryAt
  <2>2. EachNamed
    BY NamedOnceIs DEF OnDisk
  <2>3. EachNamed'
    BY <1>2, <2>1, <2>2 DEF EachNamed
  <2>. QED
    BY <2>3, NamedOnceIs, PTL
<1>. QED
  BY <1>2, <1>4, <1>5, <1>7, <1>8, <1>9 DEF OnDisk

--------------------------------------------------------------------------------
\* The table of open files, over any disk.

CachedIn(ft, A, nodes) ==
  /\ \A s \in Slot : /\ ft[s].byte_offset \in Nat
                     /\ ft[s].ino # None => ft[s].ino \in A /\ ft[s].node = nodes[ft[s].ino]
  /\ \A s, t \in Slot : /\ ft[s].ino = ft[t].ino /\ ft[s].ino # None
                        /\ ft[s].node.type = "DIR"
                        => s = t
  /\ \A s \in Slot : ft[s].ino = Root => s = 0

LEMMA CachedIs == Cached <=> CachedIn(file_table, Allocated, inodes)
BY DEF Cached, CachedIn

LEMMA CacheFree ==
  ASSUME NEW ft, NEW A, NEW nodes, IsTable(ft), CachedIn(ft, A, nodes), NEW p \in Slot
  PROVE  LET gt == [ft EXCEPT ![p] = FreeEntry]
         IN  IsTable(gt) /\ CachedIn(gt, A, nodes) /\ gt[p].ino = None
             /\ \A s \in Slot \ {p} : gt[s] = ft[s]
<1>1. PICK gt : gt = [ft EXCEPT ![p] = FreeEntry]
  OBVIOUS
<1>2. /\ IsTable(gt) /\ gt[p] = FreeEntry /\ \A s \in Slot \ {p} : gt[s] = ft[s]
  BY <1>1 DEF IsTable, IsEntry, FreeEntry
<1>3. FreeEntry.ino = None /\ FreeEntry.byte_offset = 0 /\ Root # None
  BY Slots DEF FreeEntry
<1>4. CachedIn(gt, A, nodes)
  BY <1>2, <1>3 DEF CachedIn
<1>. QED
  BY <1>1, <1>2, <1>3, <1>4

LEMMA CacheOffset ==
  ASSUME NEW ft, NEW A, NEW nodes, IsTable(ft), CachedIn(ft, A, nodes), NEW p \in Slot, NEW k \in Nat
  PROVE  LET gt == [ft EXCEPT ![p].byte_offset = k]
         IN  IsTable(gt) /\ CachedIn(gt, A, nodes) /\ SameInos(gt, ft)
             /\ \A s \in Slot : gt[s].node = ft[s].node
<1>1. PICK gt : gt = [ft EXCEPT ![p].byte_offset = k]
  OBVIOUS
<1>2. /\ IsTable(gt) /\ SameInos(gt, ft)
  BY <1>1, OffsetKeeps
<1>3. /\ gt[p].ino = ft[p].ino /\ gt[p].node = ft[p].node /\ gt[p].byte_offset = k
      /\ \A s \in Slot \ {p} : gt[s] = ft[s]
  <2>1. gt = [s \in Slot |-> IF s = p THEN [ft[p] EXCEPT !.byte_offset = k] ELSE ft[s]]
    BY <1>1 DEF IsTable
  <2>2. ft[p] = [ino |-> ft[p].ino, node |-> ft[p].node, byte_offset |-> ft[p].byte_offset]
    BY DEF IsTable, IsEntry
  <2>3. gt[p] = [ino |-> ft[p].ino, node |-> ft[p].node, byte_offset |-> k]
    BY <2>1, <2>2
  <2>. QED
    BY <2>1, <2>3
<1>4. \A s \in Slot : gt[s].ino = ft[s].ino /\ gt[s].node = ft[s].node /\ gt[s].byte_offset \in Nat
  BY <1>3 DEF CachedIn
<1>5. CachedIn(gt, A, nodes)
  BY <1>4 DEF CachedIn
<1>. QED
  BY <1>1, <1>2, <1>4, <1>5

LEMMA CacheInstall ==
  ASSUME NEW ft, NEW A, NEW nodes, IsTable(ft), CachedIn(ft, A, nodes), NEW p \in Slot, NEW n \in A,
         n # None, n = Root => p = 0,
         nodes[n].type = "DIR" => \A s \in Slot \ {p} : ft[s].ino # n
  PROVE  LET gt == [ft EXCEPT ![p] = Open(n, nodes[n])]
         IN  IsTable(gt) /\ CachedIn(gt, A, nodes) /\ gt[p].ino = n
             /\ \A s \in Slot \ {p} : gt[s] = ft[s]
<1>1. PICK gt : gt = [ft EXCEPT ![p] = Open(n, nodes[n])]
  OBVIOUS
<1>2. /\ IsTable(gt) /\ gt[p] = Open(n, nodes[n]) /\ \A s \in Slot \ {p} : gt[s] = ft[s]
  BY <1>1 DEF IsTable, IsEntry, Open
<1>3. gt[p].ino = n /\ gt[p].node = nodes[n] /\ gt[p].byte_offset = 0
  BY <1>2 DEF Open
<1>4. CachedIn(gt, A, nodes)
  <2>1. ASSUME NEW s \in Slot
        PROVE  /\ gt[s].byte_offset \in Nat
               /\ gt[s].ino # None => gt[s].ino \in A /\ gt[s].node = nodes[gt[s].ino]
               /\ gt[s].ino = Root => s = 0
    BY <1>2, <1>3 DEF CachedIn
  <2>2. ASSUME NEW s \in Slot, NEW t \in Slot, gt[s].ino = gt[t].ino, gt[s].ino # None,
               gt[s].node.type = "DIR"
        PROVE  s = t
    <3>1. CASE s = p /\ t # p
      BY <1>2, <1>3, <2>2, <3>1
    <3>2. CASE s # p /\ t = p
      <4>1. ft[s].ino = n /\ ft[s].node = nodes[n]
        BY <1>2, <1>3, <2>2, <3>2 DEF CachedIn
      <4>. QED
        BY <1>2, <2>2, <3>2, <4>1
    <3>3. CASE s # p /\ t # p
      <4>1. gt[s] = ft[s] /\ gt[t] = ft[t]
        BY <1>2, <3>3
      <4>. QED
        BY <2>2, <4>1 DEF CachedIn
    <3>. QED
      BY <3>1, <3>2, <3>3
  <2>. QED
    BY <2>1, <2>2 DEF CachedIn
<1>. QED
  BY <1>1, <1>2, <1>3, <1>4

\* The cached copy of a directory follows it; what else is cached has not changed.
LEMMA CacheNode ==
  ASSUME NEW ft, NEW A, NEW nodes, IsTable(ft), CachedIn(ft, A, nodes), NEW A2, NEW nodes2,
         NEW p \in Slot, NEW d, ft[p].ino = d, d # None, nodes[d].type = "DIR",
         \A s \in Slot : ft[s].ino # None => ft[s].ino \in A2,
         \A n \in A \cap A2 : n # d => nodes2[n] = nodes[n]
  PROVE  CachedIn(SetNode(ft, p, nodes2[d]), A2, nodes2)
<1>1. PICK gt, g : d = ft[p].ino /\ g = nodes2[d] /\ gt = SetNode(ft, p, g)
  OBVIOUS
<1>2. IsTable(gt) /\ SameInos(gt, ft)
  BY <1>1, NodeKeeps
<1>3. /\ gt[p].ino = ft[p].ino /\ gt[p].node = g /\ gt[p].byte_offset = ft[p].byte_offset
      /\ \A s \in Slot \ {p} : gt[s] = ft[s]
  <2>1. gt = [s \in Slot |-> IF s = p THEN [ft[p] EXCEPT !.node = g] ELSE ft[s]]
    BY <1>1 DEF IsTable, SetNode
  <2>2. ft[p] = [ino |-> ft[p].ino, node |-> ft[p].node, byte_offset |-> ft[p].byte_offset]
    BY DEF IsTable, IsEntry
  <2>3. gt[p] = [ino |-> ft[p].ino, node |-> g, byte_offset |-> ft[p].byte_offset]
    BY <2>1, <2>2
  <2>. QED
    BY <2>1, <2>3
<1>4. \A s \in Slot : ft[s].ino = d => s = p
  BY <1>1 DEF CachedIn
<1>5. ASSUME NEW s \in Slot
      PROVE  /\ gt[s].byte_offset \in Nat /\ gt[s].ino = ft[s].ino
             /\ gt[s].ino # None => gt[s].ino \in A2 /\ gt[s].node = nodes2[gt[s].ino]
             /\ gt[s].ino = Root => s = 0
             /\ s # p => gt[s].node = ft[s].node
  <2>1. CASE s = p
    BY <1>1, <1>3, <2>1 DEF CachedIn
  <2>2. CASE s # p
    BY <1>1, <1>3, <1>4, <2>2 DEF CachedIn
  <2>. QED
    BY <2>1, <2>2
<1>6. ASSUME NEW s \in Slot, NEW t \in Slot, gt[s].ino = gt[t].ino, gt[s].ino # None,
             gt[s].node.type = "DIR"
      PROVE  s = t
  <2>1. ft[s].ino = ft[t].ino /\ ft[s].ino # None
    BY <1>5, <1>6
  <2>2. CASE s = p \/ t = p
    BY <1>1, <1>4, <2>1, <2>2
  <2>3. CASE s # p /\ t # p
    BY <1>5, <1>6, <2>1, <2>3 DEF CachedIn
  <2>. QED
    BY <2>2, <2>3
<1>7. CachedIn(gt, A2, nodes2)
  BY <1>5, <1>6 DEF CachedIn
<1>. QED
  BY <1>1, <1>2, <1>7
--------------------------------------------------------------------------------
\* The steps

\* A step that leaves the disk alone.
LEMMA DiskKept ==
  ASSUME IInv, UNCHANGED <<inodes, blocks, sb>>, SbDurable', DescriptorsRight', CallRight',
         CachedIn(file_table', Allocated, inodes)
  PROVE  IInv'
<1>1. OnDisk' /\ Allocated' = Allocated
  BY Parts, SameDisk
<1>2. Cached'
  BY <1>1 DEF Cached, CachedIn
<1>. QED
  BY <1>1, <1>2, Parts, PTL

LEMMA IdleRight == ASSUME call' = Idle PROVE CallRight'
BY DEF CallRight, Idle

LEMMA RecordedSize ==
  ASSUME OnDisk, NEW i \in Allocated
  PROVE  inodes[i].size \in Nat /\ inodes[i] \in InodeRecord /\ i \in Inode /\ i # None
<1>1. i \in Inode /\ inodes[i] \in InodeRecord
  BY DEF OnDisk, Allocated
<1>2. inodes[i].size \in 0 .. ND * EPB + EPB /\ ND * EPB + EPB \in Int
  BY <1>1, Measures DEF InodeRecord
<1>. QED
  BY <1>1, <1>2, Sizes

\* The parent of a directory is a directory in use.
LEMMA ParentIs ==
  ASSUME OnDisk, NEW d \in Directories
  PROVE  inodes[d].parent \in Directories
<1>1. Kinds /\ EntriesRight /\ EachNamed /\ d \in Allocated
  BY NamedOnceIs DEF OnDisk, Directories
<1>2. CASE d = Root
  BY <1>1, <1>2 DEF Kinds, Directories
<1>3. CASE d # Root
  <2>1. PICK e, l : EntryNames(e, l, d)
    BY <1>1, <1>3 DEF EachNamed
  <2>2. e \in Directories /\ inodes[d].parent = e
    BY <1>1, <2>1 DEF EntryNames, EntriesRight
  <2>. QED
    BY <2>2
<1>. QED
  BY <1>2, <1>3

\* What the entry found in a directory names.
LEMMA LookedUp ==
  ASSUME OnDisk, NEW d \in Allocated, NEW from \in Nat, NEW nm, NEW k,
         k \in Matches(inodes[d], from, nm)
  PROVE  /\ d \in Directories /\ k \in Nat /\ k < inodes[d].size /\ from <= k
         /\ EntryAt(inodes[d], k).inode_index \in Allocated
         /\ nm \in FileNames => /\ k \in 2 .. inodes[d].size - 1
                                /\ EntryAt(inodes[d], k).inode_index # Root
<1>1. PICK z, i : z = inodes[d].size /\ i = EntryAt(inodes[d], k).inode_index
  OBVIOUS
<1>2. z \in Nat /\ k \in from .. z - 1 /\ EntryAt(inodes[d], k).filename = nm
  BY <1>1, RecordedSize DEF Matches
<1>3. k \in Nat /\ k < z /\ from <= k /\ z # 0
  BY <1>2
<1>4. d \in Directories /\ Kinds /\ EntriesRight
  BY <1>1, <1>3 DEF OnDisk, Kinds, Directories
<1>5. CASE k = 0
  <2>1. i = d /\ nm = "."
    <3>1. EntryAt(inodes[d], 0) = Entry(d, ".")
      BY <1>4 DEF EntriesRight
    <3>. QED
      BY <1>1, <1>2, <1>5, <3>1 DEF Entry
  <2>. QED
    BY <1>1, <1>3, <1>4, <2>1, NamesType
<1>6. CASE k = 1
  <2>1. i = inodes[d].parent /\ nm = ".."
    <3>1. EntryAt(inodes[d], 1) = Entry(inodes[d].parent, "..")
      BY <1>4 DEF EntriesRight
    <3>. QED
      BY <1>1, <1>2, <1>6, <3>1 DEF Entry
  <2>2. i \in Allocated
    BY <1>4, <2>1, ParentIs DEF Directories
  <2>. QED
    BY <1>1, <1>3, <1>4, <2>1, <2>2, NamesType
<1>7. CASE k # 0 /\ k # 1
  <2>1. k \in 2 .. z - 1
    BY <1>2, <1>3, <1>7
  <2>2. i \in Allocated \ {Root}
    BY <1>1, <1>4, <2>1 DEF EntriesRight
  <2>. QED
    BY <1>1, <1>3, <1>4, <2>1, <2>2
<1>. QED
  BY <1>5, <1>6, <1>7

LEMMA FirstMatch ==
  ASSUME OnDisk, NEW d \in Allocated, NEW from \in Nat, NEW nm,
         NEW S \in SUBSET Matches(inodes[d], from, nm), S # {}
  PROVE  Least(S) \in S
<1>1. S \subseteq Nat
  BY LookedUp
<1>. QED
  BY <1>1, LeastNat

\* The start of a walk.
LEMMA OpenRootRight ==
  ASSUME IInv, TableInv, SbDurable', NEW c, IsCall(c), OpenRoot(c),
         c.name \in FileNames, c.path \in Seq(STRING \cup FileNames),
         c.op = "f_rmdir" => c.path = <<>> \/ c.path[Len(c.path)] \in FileNames
  PROVE  IInv'
<1>1. OnDisk /\ DescriptorsRight /\ Cached /\ Root \in Allocated
  BY Parts DEF OnDisk, Kinds
<1>2. IsTable(file_table) /\ CachedIn(file_table, Allocated, inodes) /\ 0 \in Slot
      /\ file_table[0].ino \in {Root, None} /\ Root # None
  BY <1>1, CachedIs, Slots DEF TableInv
<1>3. CachedIn(file_table', Allocated, inodes) /\ file_table'[0].ino = Root
  <2>1. CASE file_table[0].ino = None
    <3>1. file_table' = [file_table EXCEPT ![0] = Open(Root, inodes[Root])]
      BY <2>1 DEF OpenRoot
    <3>2. \A s \in Slot \ {0} : file_table[s].ino # Root
      BY <1>2 DEF CachedIn
    <3>3. PICK gt : gt = [file_table EXCEPT ![0] = Open(Root, inodes[Root])]
      OBVIOUS
    <3>4. CachedIn(gt, Allocated, inodes)
      BY <1>1, <1>2, <3>2, <3>3, CacheInstall
    <3>5. gt[0].ino = Root
      BY <1>2, <3>3 DEF IsTable, Open
    <3>. QED
      BY <3>1, <3>3, <3>4, <3>5
  <2>2. CASE file_table[0].ino = Root
    <3>1. file_table' = [file_table EXCEPT ![0].byte_offset = 0]
      BY <1>2, <2>2 DEF OpenRoot
    <3>2. PICK gt : gt = [file_table EXCEPT ![0].byte_offset = 0]
      OBVIOUS
    <3>3. CachedIn(gt, Allocated, inodes) /\ SameInos(gt, file_table)
      BY <1>2, <3>2, CacheOffset
    <3>. QED
      BY <1>2, <2>2, <3>1, <3>2, <3>3 DEF SameInos
  <2>. QED
    BY <1>2, <2>1, <2>2
<1>4. UNCHANGED <<inodes, blocks, sb, by_open, fds>>
  BY DEF OpenRoot, disk
<1>5. call'.pc = "walk" /\ call'.at = 0 /\ call'.name = c.name /\ call'.path = c.path /\ call'.op = c.op
  BY DEF OpenRoot, IsCall
<1>6. CallRight'
  BY <1>2, <1>3, <1>5 DEF CallRight
<1>7. DescriptorsRight'
  BY <1>1, <1>4 DEF DescriptorsRight
<1>. QED
  BY <1>3, <1>4, <1>6, <1>7, DiskKept

LEMMA IdleCall == IsCall(Idle) /\ Idle.pc = "idle" /\ NoName \in FileNames
BY DEF IsCall, Idle, FileNames

LEMMA BeginRight ==
  ASSUME IInv, TableInv, SbDurable', NEW w \in Workload, Begin(w[1], w[2], w[3])
  PROVE  IInv'
<1>1. PICK r, op, path, nm : r = Idle /\ op = w[1] /\ path = w[2] /\ nm = w[3]
  OBVIOUS
<1>2. path \in Seq(STRING) /\ nm \in FileNames /\ IsCall(r) /\ NoName \in FileNames
  BY <1>1, WorkloadType, IdleCall
<1>3. PICK c : c = [r EXCEPT !.op = op,
                 !.name = IF op = "f_rmdir" THEN NoName ELSE nm,
                 !.todo = IF op = "f_rmdir" THEN path \o <<nm>> ELSE path,
                 !.path = IF op = "f_rmdir" THEN path \o <<nm>> ELSE <<>>]
  OBVIOUS
<1>4. OpenRoot(c)
  BY <1>1, <1>3 DEF Begin
<1>5. IsCall(c) /\ c.name \in FileNames /\ c.op = op
      /\ c.path = IF op = "f_rmdir" THEN path \o <<nm>> ELSE <<>>
  BY <1>2, <1>3 DEF IsCall
<1>6. PICK q : q = path \o <<nm>>
  OBVIOUS
<1>7. q \in Seq(STRING \cup FileNames) /\ q # <<>> /\ q[Len(q)] = nm
  <2>1. path \in Seq(STRING \cup FileNames) /\ <<nm>> \in Seq(STRING \cup FileNames)
    BY <1>2
  <2>2. Len(q) = Len(path) + 1 /\ q[Len(path) + 1] = nm /\ Len(path) \in Nat
    BY <1>6, <2>1
  <2>. QED
    BY <1>6, <2>1, <2>2
<1>8. <<>> \in Seq(STRING \cup FileNames)
  OBVIOUS
<1>9. c.path \in Seq(STRING \cup FileNames)
      /\ (c.op = "f_rmdir" => c.path # <<>> /\ c.path[Len(c.path)] \in FileNames)
  BY <1>2, <1>5, <1>6, <1>7, <1>8
<1>. QED
  BY <1>4, <1>5, <1>9, OpenRootRight

LEMMA RmdirLeafRight ==
  ASSUME IInv, TableInv, SbDurable', RmdirLeaf
  PROVE  IInv'
<1>1. PICK r, path, len, todo :
        /\ r = Idle /\ path = call.path /\ len = Len(path) /\ todo = SubSeq(path, 1, len - 1)
  OBVIOUS
<1>2. path # <<>> /\ path \in Seq(STRING \cup FileNames) /\ path[len] \in FileNames /\ IsCall(r)
  BY <1>1, IdleCall DEF IInv, CallRight, RmdirLeaf
<1>3. PICK c : c = [r EXCEPT !.op = "f_remove", !.name = path[len], !.todo = todo, !.path = path]
  OBVIOUS
<1>4. OpenRoot(c)
  BY <1>1, <1>3 DEF RmdirLeaf
<1>5. IsCall(c) /\ c.name = path[len] /\ c.op = "f_remove" /\ c.path = path
  BY <1>2, <1>3 DEF IsCall
<1>. QED
  BY <1>2, <1>4, <1>5, OpenRootRight
LEMMA WalkRight ==
  ASSUME IInv, TableInv, SbDurable', Walk
  PROVE  IInv'
<1>1. PICK at, d, found, left, head, k, n, fd :
        /\ at = call.at /\ d = file_table[at].ino
        /\ found = Matches(file_table[at].node, 0, Head(call.todo))
        /\ left = [file_table EXCEPT ![at] =
                     IF at # 0 THEN FreeEntry
                     ELSE [@ EXCEPT !.byte_offset =
                             IF found = {} THEN file_table[at].node.size ELSE 0]]
        /\ head = (IF at # 0 THEN at ELSE FirstFree(left))
        /\ k = Least(found) /\ n = EntryAt(file_table[at].node, k).inode_index
        /\ fd = SlotOf(left, n)
  OBVIOUS
<1>2. /\ OnDisk /\ DescriptorsRight /\ Cached /\ CallRight
      /\ IsTable(file_table) /\ IsCall(call) /\ CachedIn(file_table, Allocated, inodes)
  BY Parts, CachedIs DEF TableInv
<1>3. /\ call.pc = "walk" /\ at \in Slot /\ d # None /\ file_table[0].ino = Root
      /\ call.name \in FileNames
  BY <1>1, <1>2 DEF Walk, CallRight, TableInv
<1>4. d \in Allocated /\ file_table[at].node = inodes[d]
  BY <1>1, <1>2, <1>3 DEF CachedIn
<1>5. IsTable(left) /\ CachedIn(left, Allocated, inodes) /\ left[0].ino = Root
  <2>1. CASE at # 0
    <3>1. left = [file_table EXCEPT ![at] = FreeEntry]
      BY <1>1, <2>1
    <3>2. IsTable(left) /\ CachedIn(left, Allocated, inodes)
      BY <1>2, <1>3, <3>1, CacheFree
    <3>. QED
      BY <1>2, <1>3, <2>1, <3>1, <3>2, Slots DEF IsTable
  <2>2. CASE at = 0
    <3>1. PICK o : o = IF found = {} THEN inodes[d].size ELSE 0
      OBVIOUS
    <3>2. o \in Nat
      BY <1>2, <1>4, <3>1, RecordedSize
    <3>3. left = [file_table EXCEPT ![at].byte_offset = o]
      BY <1>1, <1>4, <2>2, <3>1
    <3>4. IsTable(left) /\ CachedIn(left, Allocated, inodes) /\ SameInos(left, file_table)
      BY <1>2, <1>3, <3>2, <3>3, CacheOffset
    <3>. QED
      BY <1>3, <3>4, Slots DEF SameInos
  <2>. QED
    BY <2>1, <2>2
<1>6. /\ UNCHANGED <<inodes, blocks, sb, fds>>
      /\ DescriptorsRight'
  <2>1. UNCHANGED <<inodes, blocks, sb, fds>> /\ by_open' \subseteq by_open
    BY DEF Walk, disk
  <2>. QED
    BY <1>2, <2>1 DEF DescriptorsRight
<1>7. ASSUME found # {} PROVE n \in Allocated
  <2>1. k \in Matches(inodes[d], 0, Head(call.todo))
    BY <1>1, <1>2, <1>4, <1>7, FirstMatch
  <2>. QED
    BY <1>1, <1>2, <1>4, <2>1, LookedUp
<1>8. CASE found = {} /\ file_table' = left /\ call' = Idle
  BY <1>5, <1>6, <1>8, IdleRight, DiskKept
<1>9. CASE found # {} /\ fd # None /\ file_table' = left /\ call' = [call EXCEPT !.at = fd, !.todo = Tail(@)]
  <2>1. fd \in Slot /\ left[fd].ino = n /\ n # None
    <3>1. fd = SlotOf(left, n) /\ fd # None
      BY <1>1, <1>9
    <3>2. fd \in Slot /\ left[fd].ino = n
      BY <3>1, SlotOfSlot
    <3>3. n # None
      BY <1>2, <1>7, <1>9, RecordedSize
    <3>. QED
      BY <3>2, <3>3
  <2>2. /\ call'.pc = "walk" /\ call'.at = fd /\ call'.name = call.name
        /\ call'.path = call.path /\ call'.op = call.op
    BY <1>2, <1>3, <1>9 DEF IsCall
  <2>3. CallRight'
    BY <1>2, <1>9, <2>1, <2>2 DEF CallRight
  <2>. QED
    BY <1>5, <1>6, <1>9, <2>3, DiskKept
<1>10. CASE /\ found # {} /\ fd = None /\ head # None
            /\ file_table' = [left EXCEPT ![head] = Open(n, inodes[n])]
            /\ call' = [call EXCEPT !.at = head, !.todo = Tail(@)]
  <2>1. n \in Allocated /\ n # None /\ \A s \in Slot : left[s].ino # n
    <3>1. n \in Allocated /\ n # None
      BY <1>2, <1>7, <1>10, RecordedSize
    <3>2. SlotOf(left, n) = None
      BY <1>1, <1>10
    <3>3. \A s \in Slot : left[s].ino # n
      BY <3>2, SlotOfSlot, Slots
    <3>. QED
      BY <3>1, <3>3
  <2>2. head \in Slot
    <3>1. head = at \/ head = SlotOf(left, None)
      BY <1>1 DEF FirstFree
    <3>. QED
      BY <1>3, <1>10, <3>1, SlotOfSlot
  <2>3. n # Root
    BY <1>5, <2>1, Slots
  <2>4. PICK gt : gt = [left EXCEPT ![head] = Open(n, inodes[n])]
    OBVIOUS
  <2>5. CachedIn(gt, Allocated, inodes)
    BY <1>5, <2>1, <2>2, <2>3, <2>4, CacheInstall, ZenonT(40)
  <2>6. gt[head].ino = n
    BY <1>5, <2>2, <2>4 DEF IsTable, Open
  <2>7. /\ call'.pc = "walk" /\ call'.at = head /\ call'.name = call.name
        /\ call'.path = call.path /\ call'.op = call.op
    BY <1>2, <1>3, <1>10 DEF IsCall
  <2>8. CachedIn(file_table', Allocated, inodes) /\ file_table'[head].ino = n
    BY <1>10, <2>4, <2>5, <2>6
  <2>9. CallRight'
    BY <1>2, <1>3, <2>1, <2>2, <2>7, <2>8 DEF CallRight
  <2>. QED
    BY <1>6, <2>8, <2>9, DiskKept
<1>11. CASE file_table' = left /\ call' = [call EXCEPT !.pc = "tablefault"]
  <2>1. /\ call'.pc = "tablefault" /\ call'.path = call.path /\ call'.op = call.op
    BY <1>2, <1>11 DEF IsCall
  <2>2. CallRight'
    BY <1>2, <2>1 DEF CallRight
  <2>. QED
    BY <1>5, <1>6, <1>11, <2>2, DiskKept
<1>. QED
  BY <1>1, <1>8, <1>9, <1>10, <1>11 DEF Walk

\* Steps that only say where the call stands.
LEMMA CallMoves ==
  ASSUME IInv, SbDurable', UNCHANGED <<inodes, blocks, sb, file_table, by_open, fds>>, CallRight'
  PROVE  IInv'
<1>1. CachedIn(file_table', Allocated, inodes)
  BY CachedIs DEF IInv
<1>2. DescriptorsRight'
  BY Parts DEF DescriptorsRight
<1>. QED
  BY <1>1, <1>2, DiskKept

LEMMA FaultRight ==
  ASSUME IInv, TableInv, SbDurable', NEW kind \in {"blockfault", "tablefault"}, Fault(kind)
  PROVE  IInv'
<1>1. call'.pc = kind /\ call'.path = call.path /\ call'.op = call.op
  BY DEF Fault, TableInv, IsCall
<1>2. CallRight'
  BY <1>1 DEF IInv, CallRight
<1>. QED
  BY <1>2, CallMoves DEF Fault, disk, table

LEMMA PathEndRight ==
  ASSUME IInv, TableInv, SbDurable', PathEnd
  PROVE  IInv'
<1>1. /\ call.pc = "walk" /\ call'.pc = "ready" /\ call'.path = call.path /\ call'.op = call.op
      /\ call'.at = call.at /\ call'.name = call.name /\ UNCHANGED file_table
  BY DEF PathEnd, TableInv, IsCall
<1>2. CallRight'
  BY <1>1 DEF IInv, CallRight
<1>. QED
  BY <1>2, CallMoves DEF PathEnd, disk

LEMMA OpenedDirRight ==
  ASSUME IInv, SbDurable', OpenedDir
  PROVE  IInv'
BY IdleRight, CallMoves DEF OpenedDir, disk, table

LEMMA RmdirOpenedRight ==
  ASSUME IInv, TableInv, SbDurable', RmdirOpened
  PROVE  IInv'
<1>1. /\ call.pc = "ready" /\ call.op = "f_rmdir" /\ call'.pc = "helper" /\ call'.op = call.op
      /\ call'.path = call.path /\ call'.at = file_table[call.at].ino
  BY DEF RmdirOpened, TableInv, IsCall
<1>2. UNCHANGED <<inodes, blocks, sb, file_table, by_open, fds>>
  BY DEF RmdirOpened, disk, table
<1>3. file_table[call.at].ino \in Allocated
  BY <1>1 DEF IInv, CallRight, Cached
<1>4. Allocated' = Allocated
  BY <1>2, Parts, SameDisk
<1>5. CallRight'
  BY <1>1, <1>3, <1>4 DEF IInv, CallRight
<1>. QED
  BY <1>2, <1>5, CallMoves

LEMMA RmdirDescendRight ==
  ASSUME IInv, TableInv, SbDurable', RmdirDescend
  PROVE  IInv'
<1>1. PICK i, child : i = call.at /\ child = EntryAt(inodes[i], 2)
  OBVIOUS
<1>2. /\ call.pc = "helper" /\ call.op = "f_rmdir" /\ i \in Allocated /\ call.path \in Seq(STRING \cup FileNames)
      /\ ~ IsLeaf(inodes[i]) /\ OnDisk /\ CallRight
  BY <1>1, Parts DEF RmdirDescend, CallRight
<1>3. i \in Directories /\ 2 \in 2 .. inodes[i].size - 1
  <2>1. Kinds /\ inodes[i].type = "DIR"
    BY <1>2 DEF OnDisk, Kinds, IsLeaf
  <2>2. i \in Directories
    BY <1>2, <2>1 DEF Directories
  <2>3. inodes[i].size \in Nat /\ inodes[i].size >= 2 /\ inodes[i].size # 2
    BY <1>2, <2>1, <2>2, InDirectories DEF IsLeaf
  <2>. QED
    BY <2>2, <2>3
<1>4. child = blocks[inodes[i].dblocks[1]][2]
  <2>1. 2 \div EPB = 0 /\ 2 % EPB = 2 /\ 0 < ND /\ 0 + 1 = 1
    BY FirstPlaces, Measures
  <2>2. BlockOf(inodes[i], 2) = inodes[i].dblocks[1]
    BY <2>1 DEF BlockOf
  <2>. QED
    BY <1>1, <2>1, <2>2 DEF EntryAt
<1>5. child.filename \in FileNames /\ child.inode_index \in Allocated
  BY <1>1, <1>2, <1>3 DEF OnDisk, EntriesRight
<1>6. PICK q : q = Append(call.path, child.filename)
  OBVIOUS
<1>7. q \in Seq(STRING \cup FileNames) /\ q # <<>> /\ q[Len(q)] = child.filename
  BY <1>2, <1>5, <1>6
<1>8. call'.pc = "helper" /\ call'.op = "f_rmdir" /\ call'.at = child.inode_index /\ call'.path = q
  BY <1>1, <1>2, <1>4, <1>6 DEF RmdirDescend, TableInv, IsCall
<1>9. UNCHANGED <<inodes, blocks, sb, file_table, by_open, fds>>
  BY DEF RmdirDescend, disk, table
<1>10. Allocated' = Allocated
  BY <1>2, <1>9, SameDisk
<1>11. CallRight'
  BY <1>5, <1>7, <1>8, <1>10 DEF CallRight
<1>. QED
  BY <1>9, <1>11, CallMoves

LEMMA CloseRight ==
  ASSUME IInv, TableInv, SbDurable', NEW fd \in Slot, Close(fd)
  PROVE  IInv'
<1>1. CachedIn(file_table, Allocated, inodes) /\ IsTable(file_table) /\ DescriptorsRight /\ CallRight
  BY Parts, CachedIs DEF TableInv
<1>2. file_table' = [file_table EXCEPT ![fd] = FreeEntry]
  BY DEF Close
<1>3. CachedIn(file_table', Allocated, inodes)
  BY <1>1, <1>2, CacheFree
<1>4. DescriptorsRight'
  BY <1>1 DEF Close, DescriptorsRight
<1>5. UNCHANGED <<inodes, blocks, sb, call>> /\ call.pc = "idle"
  BY DEF Close, disk
<1>6. CallRight'
  BY <1>1, <1>5 DEF CallRight
<1>. QED
  BY <1>3, <1>4, <1>5, <1>6, DiskKept

LEMMA RestartRight ==
  ASSUME IInv, TableInv, SbDurable', Restart
  PROVE  IInv'
<1>1. file_table' = [s \in Slot |-> FreeEntry]
  BY DEF Restart
<1>2. CachedIn(file_table', Allocated, inodes)
  BY <1>1, Slots DEF CachedIn, FreeEntry
<1>3. DescriptorsRight'
  BY DEF Restart, DescriptorsRight
<1>4. UNCHANGED <<inodes, blocks, sb, call>> /\ call.pc = "idle"
  BY DEF Restart, disk, IInv, SbDurable
<1>5. CallRight'
  BY <1>4 DEF IInv, CallRight
<1>. QED
  BY <1>2, <1>3, <1>4, <1>5, DiskKept

\* The slot of the directory f_opendir has returned, as f_mkdir and f_open find it.
LEMMA DirSlotRight ==
  ASSUME IInv, call.pc = "ready"
  PROVE  /\ DirSlot \in Slot /\ file_table[DirSlot].ino = DirIno /\ DirIno \in Allocated
         /\ DirIno # None /\ DirNode = inodes[DirIno]
         /\ call.at \in Slot /\ file_table[call.at].ino = DirIno /\ call.name \in FileNames
<1>1. call.at \in Slot /\ file_table[call.at].ino # None /\ call.name \in FileNames
  BY DEF IInv, CallRight
<1>2. DirSlot \in Slot /\ file_table[DirSlot].ino = file_table[call.at].ino
  BY <1>1, SlotOfSlot DEF DirSlot
<1>3. file_table[DirSlot].ino \in Allocated /\ file_table[DirSlot].node = inodes[file_table[DirSlot].ino]
  BY <1>1, <1>2 DEF IInv, Cached
<1>. QED
  BY <1>1, <1>2, <1>3 DEF DirIno, DirNode

\* And as f_remove finds it.
LEMMA LastSlotRight ==
  ASSUME IInv, call.pc = "ready"
  PROVE  LET p == LastSlotOf(file_table[call.at].ino)
             d == file_table[p].ino
         IN  /\ p \in Slot /\ d \in Allocated /\ d # None /\ file_table[p].node = inodes[d]
             /\ file_table[p].byte_offset \in Nat /\ call.name \in FileNames
<1>1. call.at \in Slot /\ file_table[call.at].ino # None /\ call.name \in FileNames
  BY DEF IInv, CallRight
<1>2. PICK d, p : d = file_table[call.at].ino /\ p = LastSlotOf(d)
  OBVIOUS
<1>3. NSlots \in Nat /\ Slot = 0 .. NSlots - 1
  <2>1. NSlots \in Nat \ {0}
    BY FSAssumption, Zenon DEF FSAssumption
  <2>. QED
    BY <2>1 DEF Slot
<1>4. \E s \in Slot : file_table[s].ino = d /\ \A t \in Slot : file_table[t].ino = d => t <= s
  <2>1. PICK S : S = {NSlots - s : s \in {q \in Slot : file_table[q].ino = d}}
    OBVIOUS
  <2>2. S \subseteq Nat /\ S # {}
    BY <1>1, <1>2, <1>3, <2>1
  <2>3. Least(S) \in S /\ \A m \in S : Least(S) <= m
    BY <2>2, LeastNat
  <2>4. PICK s \in Slot : file_table[s].ino = d /\ Least(S) = NSlots - s
    BY <2>1, <2>3
  <2>5. ASSUME NEW t \in Slot, file_table[t].ino = d PROVE t <= s
    <3>1. NSlots - t \in S
      BY <2>1, <2>5
    <3>2. NSlots - s <= NSlots - t
      BY <2>3, <2>4, <3>1
    <3>. QED
      BY <1>3, <3>2
  <2>. QED
    BY <2>4, <2>5
<1>5. p \in Slot /\ file_table[p].ino = d
  BY <1>2, <1>4 DEF LastSlotOf
<1>6. d \in Allocated /\ file_table[p].node = inodes[d] /\ file_table[p].byte_offset \in Nat
  BY <1>1, <1>2, <1>5 DEF IInv, Cached
<1>. QED
  BY <1>1, <1>2, <1>5, <1>6

\* An orderly call that appends finds all it needs.
LEMMA CreatePlace ==
  ASSUME IInv, Orderly, call.pc = "ready", Appends, ~ NoBlock(DirNode)
  PROVE  /\ DirIno \in Directories /\ ~ DirFull(DirNode)
         /\ Target(DirNode) \in Block /\ FreeAfter(DirNode) \in Block
         /\ Spills(DirNode) \/ Target(DirNode) = BlockOf(DirNode, DirNode.size - 1)
<1>1. /\ DirNode.type = "DIR" /\ ~ DirFull(DirNode)
      /\ Spills(DirNode) \/ DirNode.last \in {None, BlockOf(DirNode, DirNode.size - 1)}
  BY DEF Orderly
<1>2. Target(DirNode) \in Block /\ FreeAfter(DirNode) \in Block
  BY <1>1 DEF NoBlock
<1>3. DirIno \in Directories
  BY <1>1, DirSlotRight DEF Directories
<1>4. Spills(DirNode) \/ Target(DirNode) = BlockOf(DirNode, DirNode.size - 1)
  BY <1>1, <1>2, Sizes DEF Target
<1>. QED
  BY <1>1, <1>2, <1>3, <1>4

\* The table after an entry was appended: only the directory's copy differs.
LEMMA AppendCached ==
  ASSUME IInv, NEW d, NEW n, NEW nn, NEW tb, NEW fb, AppendStep(d, n, nn, tb, fb),
         NEW ft, IsTable(ft), CachedIn(ft, Allocated, inodes),
         NEW p \in Slot, ft[p].ino = d, d # None
  PROVE  /\ IsTable(SetNode(ft, p, Grown(inodes[d])))
         /\ CachedIn(SetNode(ft, p, Grown(inodes[d])), Allocated', inodes')
         /\ SameInos(SetNode(ft, p, Grown(inodes[d])), ft)
<1>1. AppendLeaves(d, n, nn, tb, fb) /\ Allocated' = Allocated \cup {n} /\ inodes[d].type = "DIR"
  <2>1. d \in Directories
    BY DEF AppendStep
  <2>. QED
    BY <2>1, AppendWritten, AppendLists DEF Directories
<1>2. PICK A, A2, nodes, nodes2 :
        A = Allocated /\ A2 = Allocated' /\ nodes = inodes /\ nodes2 = inodes'
  OBVIOUS
<1>3. nodes2[d] = Grown(inodes[d])
  BY <1>1, <1>2 DEF AppendLeaves
<1>4. \A m \in A \cap A2 : m # d => nodes2[m] = nodes[m]
  <2>1. \A m \in Allocated : m # d => m \in Inode /\ m # n
    BY <1>1 DEF AppendLeaves, Allocated
  <2>. QED
    BY <1>1, <1>2, <2>1 DEF AppendLeaves
<1>5. \A s \in Slot : ft[s].ino # None => ft[s].ino \in A2
  BY <1>1, <1>2 DEF CachedIn
<1>6. nodes[d].type = "DIR" /\ CachedIn(ft, A, nodes)
  BY <1>1, <1>2
<1>7. CachedIn(SetNode(ft, p, nodes2[d]), A2, nodes2)
  BY <1>4, <1>5, <1>6, CacheNode
<1>. QED
  BY <1>2, <1>3, <1>7, NodeKeeps

\* Inode records, field by field.
LEMMA RecordParts ==
  ASSUME NEW old \in InodeRecord
  PROVE  /\ old = [type |-> old.type, parent |-> old.parent, next |-> old.next, size |-> old.size,
                   dblocks |-> old.dblocks, last |-> old.last]
         /\ old.dblocks \in [1 .. ND -> Block]
         /\ old.last \in Block \cup {None} /\ old.next \in Inode \cup {None}
BY DEF InodeRecord

LEMMA RecordOf ==
  ASSUME NEW ty \in {"DIR", "REG"}, NEW p \in Inode, NEW x \in Inode \cup {None}, NEW s \in {0, 2},
         NEW db \in [1 .. ND -> Block], NEW l \in Block \cup {None}, NEW nn,
         nn = [type |-> ty, parent |-> p, next |-> x, size |-> s, dblocks |-> db, last |-> l]
  PROVE  /\ nn \in InodeRecord /\ nn.parent = p /\ nn.dblocks = db
         /\ nn.type = ty /\ nn.size = s
<1>1. s \in 0 .. ND * EPB + EPB
  <2>1. ND * EPB \in Nat
    BY Measures
  <2>. QED
    BY <2>1, Measures
<1>2. nn \in InodeRecord
  BY <1>1 DEF InodeRecord
<1>. QED
  BY <1>2

\* The new inode is entered in the directory f_opendir returned: one f_mkdir makes, or
\* a file f_open creates.
CreateStep ==
  /\ call.pc = "ready" /\ Appends
  /\ \E n, nn, tb, fb :
       /\ AppendStep(DirIno, n, nn, tb, fb)
       /\ IF call.op = "f_mkdir" THEN nn = NewDirNode(inodes[n], inodes[DirIno], DirIno)
                                 ELSE nn.type = "REG"

\* What a step does to the tree on the disk: nothing, or an entry comes, or one goes.
TreeStep ==
  \/ UNCHANGED <<inodes, blocks, sb>>
  \/ CreateStep
  \/ call.op = "f_remove" /\ \E d, k, t : RemoveStep(d, k, t)

LEMMA Creation ==
  ASSUME CreateStep
  PROVE  \E d, n, nn, tb, fb : AppendStep(d, n, nn, tb, fb)
BY DEF CreateStep

LEMMA MkdirRight ==
  ASSUME IInv, TableInv, SbDurable', Orderly, Mkdir
  PROVE  IInv' /\ TreeStep
<1>1. PICK p, dn, d, n, tb, fb, nn :
        /\ p = DirSlot /\ dn = DirNode /\ d = DirIno /\ n = sb.free_inode
        /\ tb = Target(dn) /\ fb = FreeAfter(dn) /\ nn = NewDirNode(inodes[n], dn, d)
  OBVIOUS
<1>2. call.pc = "ready" /\ call.op = "f_mkdir"
  BY DEF Mkdir
<1>3. /\ p \in Slot /\ file_table[p].ino = d /\ d \in Allocated /\ d # None /\ dn = inodes[d]
      /\ call.name \in FileNames
  BY <1>1, <1>2, DirSlotRight
<1>4. CASE call' = Idle /\ UNCHANGED <<disk, sb, table>>
  BY <1>4, IdleRight, CallMoves DEF disk, table, TreeStep
<1>5. CASE Fault("blockfault")
  BY <1>5, FaultRight DEF Fault, disk, TreeStep
<1>6. CASE /\ n # None /\ ~ NoBlock(dn)
           /\ AppendToFull(dn, p, file_table[p].byte_offset)
  <2>1. ~ DirFull(dn)
    BY <1>1, <1>2, <1>6, CreatePlace DEF Appends
  <2>. QED
    BY <1>6, <2>1 DEF AppendToFull
<1>7. CASE /\ n # None /\ ~ NoBlock(dn) /\ ~ DirFull(dn)
           /\ LET withEntry == WithEntry(dn, Entry(n, call.name))
              IN  /\ blocks' = [withEntry EXCEPT ![fb] = NewDirBlock(@, n, d)]
                  /\ inodes' = [inodes EXCEPT ![d] = Grown(dn), ![n] = nn]
                  /\ sb' = SbAfter(withEntry[fb][0].inode_index)
           /\ file_table' = SetNode(file_table, p, Grown(dn))
           /\ call' = Idle
           /\ UNCHANGED <<table_freehead, by_open, fds>>
  <2>1. /\ d \in Directories /\ tb \in Block /\ fb \in Block
        /\ Spills(dn) \/ tb = BlockOf(dn, dn.size - 1)
    BY <1>1, <1>2, <1>7, CreatePlace DEF Appends
  <2>2. nn \in InodeRecord /\ nn.parent = d /\ nn.dblocks[1] = fb /\ nn.type = "DIR" /\ nn.size = 2
    <3>1. n \in Inode /\ inodes[n] \in InodeRecord /\ d \in Inode
      BY <1>1, <1>3, <1>7 DEF IInv, Shapes, Allocated
    <3>2. PICK old, x, db : /\ old = inodes[n] /\ x = (IF Spills(dn) THEN old.last ELSE fb)
                            /\ db = [old.dblocks EXCEPT ![1] = fb]
      OBVIOUS
    <3>3. /\ old = [type |-> old.type, parent |-> old.parent, next |-> old.next, size |-> old.size,
                    dblocks |-> old.dblocks, last |-> old.last]
          /\ old.dblocks \in [1 .. ND -> Block]
          /\ old.last \in Block \cup {None} /\ old.next \in Inode \cup {None}
      BY <3>1, <3>2, RecordParts
    <3>4. x \in Block \cup {None} /\ db \in [1 .. ND -> Block] /\ db[1] = fb
      BY <2>1, <3>2, <3>3, Measures
    <3>5. nn = [type |-> "DIR", parent |-> d, next |-> old.next, size |-> 2, dblocks |-> db, last |-> x]
      BY <1>1, <3>2, <3>3 DEF NewDirNode
    <3>6. nn \in InodeRecord /\ nn.parent = d /\ nn.dblocks = db /\ nn.type = "DIR" /\ nn.size = 2
      BY <3>1, <3>3, <3>4, <3>5, RecordOf
    <3>. QED
      BY <3>4, <3>6
  <2>3. AppendStep(d, n, nn, tb, fb)
    BY <1>1, <1>3, <1>7, <2>1, <2>2 DEF AppendStep
  <2>4. OnDisk'
    BY <2>3, AppendDisk
  <2>5. CachedIn(file_table', Allocated', inodes')
    <3>1. IsTable(file_table) /\ CachedIn(file_table, Allocated, inodes)
      BY CachedIs DEF TableInv, IInv
    <3>. QED
      BY <1>3, <1>7, <2>3, <3>1, AppendCached
  <2>6. Cached'
    BY <2>5 DEF Cached, CachedIn
  <2>7. DescriptorsRight' /\ CallRight'
    BY <1>7, Parts, IdleRight DEF DescriptorsRight
  <2>8. IInv'
    BY <2>4, <2>6, <2>7, Parts, PTL
  <2>9. CreateStep
    <3>1. Appends
      BY <1>1, <1>2, <1>7 DEF Appends
    <3>2. nn = NewDirNode(inodes[n], inodes[d], d)
      BY <1>1, <1>3
    <3>. QED
      BY <1>1, <1>2, <2>3, <3>1, <3>2 DEF CreateStep
  <2>. QED
    BY <2>8, <2>9 DEF TreeStep
<1>. QED
  BY <1>1, <1>4, <1>5, <1>6, <1>7 DEF Mkdir

\* The caller's handles after f_open installed inode i in slot h.
LEMMA InstallOpened ==
  ASSUME DescriptorsRight, NEW h \in Slot, NEW i \in Inode,
         by_open' = by_open \cup {h}, fds' = fds \cup {<<h, i>>}
  PROVE  DescriptorsRight'
<1>1. fds' \subseteq Slot \X Inode
  BY DEF DescriptorsRight
<1>2. ASSUME NEW s \in by_open' PROVE \E g \in fds' : s = g[1]
  <2>1. CASE s \in by_open
    BY <2>1 DEF DescriptorsRight
  <2>2. CASE s = h
    <3>1. PICK g : g = <<h, i>>
      OBVIOUS
    <3>. QED
      BY <2>2, <3>1
  <2>. QED
    BY <1>2, <2>1, <2>2
<1>. QED
  BY <1>1, <1>2 DEF DescriptorsRight

\* f_open of a file that is there, and of one it creates.
LEMMA OpenFound ==
  ASSUME IInv, TableInv, SbDurable', call.pc = "ready", table_freehead # None, call' = Idle,
         UNCHANGED <<inodes, blocks, sb>>, NEW k, k = Least(Files(DirNode)), Files(DirNode) # {},
         NEW i, i = EntryAt(DirNode, k).inode_index,
         Install([file_table EXCEPT ![DirSlot].byte_offset = k + 1], i, inodes[i])
  PROVE  IInv'
<1>1. PICK p, dn, d, h, ft :
        /\ p = DirSlot /\ dn = DirNode /\ d = DirIno /\ h = table_freehead
        /\ ft = [file_table EXCEPT ![p].byte_offset = k + 1]
  OBVIOUS
<1>2. /\ p \in Slot /\ d \in Allocated /\ dn = inodes[d] /\ call.name \in FileNames
      /\ OnDisk /\ DescriptorsRight /\ IsTable(file_table) /\ CachedIn(file_table, Allocated, inodes)
  BY <1>1, DirSlotRight, Parts, CachedIs DEF TableInv
<1>3. k \in Files(dn) /\ Files(dn) \subseteq Matches(inodes[d], 0, call.name)
  <2>1. Files(dn) \subseteq Matches(inodes[d], 0, call.name)
    BY <1>2 DEF Files
  <2>. QED
    BY <1>1, <1>2, <2>1, FirstMatch
<1>4. /\ i \in Allocated /\ i # Root /\ inodes[i].type = "REG" /\ k + 1 \in Nat
      /\ i \in Inode /\ i # None
  <2>1. k \in Nat /\ i \in Allocated /\ i # Root
    BY <1>1, <1>2, <1>3, LookedUp
  <2>2. inodes[i].type = "REG"
    BY <1>1, <1>3 DEF Files
  <2>. QED
    BY <1>2, <2>1, <2>2, RecordedSize
<1>5. IsTable(ft) /\ CachedIn(ft, Allocated, inodes)
  BY <1>1, <1>2, <1>4, CacheOffset
<1>6. h \in Slot
  BY <1>1, SlotOfSlot DEF TableInv, FirstFree
<1>7. file_table' = [ft EXCEPT ![h] = Open(i, inodes[i])] /\ by_open' = by_open \cup {h}
      /\ fds' = fds \cup {<<h, i>>}
  BY <1>1 DEF Install
<1>8. CachedIn(file_table', Allocated, inodes)
  BY <1>4, <1>5, <1>6, <1>7, CacheInstall
<1>9. DescriptorsRight'
  BY <1>2, <1>4, <1>6, <1>7, InstallOpened
<1>. QED
  BY <1>8, <1>9, IdleRight, DiskKept

\* The inode of a new file.
LEMMA NewFileIs ==
  ASSUME OnDisk, NEW dn, NEW n \in Inode, n # DirIno, DirIno \in Inode, FreeAfter(dn) \in Block
  PROVE  /\ NewFileNode(dn, n) \in InodeRecord
         /\ NewFileNode(dn, n).parent = DirIno /\ NewFileNode(dn, n).dblocks[1] = FreeAfter(dn)
         /\ NewFileNode(dn, n).type = "REG" /\ NewFileNode(dn, n).size = 0
<1>1. PICK d, fb, nn : d = DirIno /\ fb = FreeAfter(dn) /\ nn = NewFileNode(dn, n)
  OBVIOUS
<1>2. PICK old, db : old = inodes[n] /\ db = [old.dblocks EXCEPT ![1] = fb]
  OBVIOUS
<1>3. /\ old = [type |-> old.type, parent |-> old.parent, next |-> old.next, size |-> old.size,
                dblocks |-> old.dblocks, last |-> old.last]
      /\ old.dblocks \in [1 .. ND -> Block]
      /\ old.last \in Block \cup {None} /\ old.next \in Inode \cup {None}
  <2>1. old \in InodeRecord
    BY <1>2 DEF OnDisk
  <2>. QED
    BY <2>1, RecordParts
<1>4. db \in [1 .. ND -> Block] /\ db[1] = fb
  BY <1>1, <1>2, <1>3, Measures
<1>5. nn = [type |-> "REG", parent |-> d, next |-> None, size |-> 0, dblocks |-> db, last |-> old.last]
  <2>1. nn = [old EXCEPT !.type = "REG", !.parent = d, !.size = 0, !.next = None, !.dblocks[1] = fb]
    BY <1>1, <1>2 DEF NewFileNode
  <2>. QED
    BY <1>2, <1>3, <2>1
<1>6. nn \in InodeRecord /\ nn.parent = d /\ nn.dblocks = db /\ nn.type = "REG" /\ nn.size = 0
  <2>1. /\ "REG" \in {"DIR", "REG"} /\ d \in Inode /\ None \in Inode \cup {None} /\ 0 \in {0, 2}
        /\ db \in [1 .. ND -> Block] /\ old.last \in Block \cup {None}
    BY <1>1, <1>3, <1>4
  <2>2. 0 \in 0 .. ND * EPB + EPB
    <3>1. ND * EPB \in Nat
      BY Measures
    <3>. QED
      BY <3>1, Measures
  <2>3. nn \in InodeRecord
    BY <1>5, <2>1, <2>2 DEF InodeRecord
  <2>. QED
    BY <1>5, <2>3
<1>. QED
  BY <1>1, <1>4, <1>6

LEMMA OpenCreated ==
  ASSUME IInv, TableInv, SbDurable', Orderly, call.pc = "ready", call.op = "f_open_write",
         Files(DirNode) = {}, sb.free_inode # None, ~ NoBlock(DirNode), table_freehead # None,
         call' = Idle,
         LET dn == DirNode
             n  == sb.free_inode
             withEntry == WithEntry(dn, Entry(n, call.name))
             newNode == NewFileNode(dn, n)
             scanned == [file_table EXCEPT ![DirSlot].byte_offset = dn.size]
         IN  /\ blocks' = withEntry
             /\ inodes' = [inodes EXCEPT ![DirIno] = Grown(dn), ![n] = newNode]
             /\ sb' = SbAfter(withEntry[FreeAfter(dn)][0].inode_index)
             /\ Install(SetNode(scanned, DirSlot, Grown(dn)), n, newNode)
  PROVE  IInv' /\ TreeStep
<1>1. PICK p, dn, d, n, tb, fb, nn, h, ft, gt :
        /\ p = DirSlot /\ dn = DirNode /\ d = DirIno /\ n = sb.free_inode /\ h = table_freehead
        /\ tb = Target(dn) /\ fb = FreeAfter(dn) /\ nn = NewFileNode(dn, n)
        /\ ft = [file_table EXCEPT ![p].byte_offset = dn.size] /\ gt = SetNode(ft, p, Grown(dn))
  OBVIOUS
<1>2. /\ p \in Slot /\ file_table[p].ino = d /\ d \in Allocated /\ d # None /\ dn = inodes[d]
      /\ call.name \in FileNames /\ OnDisk /\ DescriptorsRight
      /\ IsTable(file_table) /\ CachedIn(file_table, Allocated, inodes)
  BY <1>1, DirSlotRight, Parts, CachedIs DEF TableInv
<1>3. /\ d \in Directories /\ ~ DirFull(dn) /\ tb \in Block /\ fb \in Block
      /\ Spills(dn) \/ tb = BlockOf(dn, dn.size - 1)
  BY <1>1, CreatePlace DEF Appends
<1>4. n \in FreeInodes /\ n \in Inode /\ n # d /\ d \in Inode /\ n # None /\ n # Root
  BY <1>1, <1>2, FreeListFacts DEF Allocated, OnDisk, Kinds
<1>5. nn \in InodeRecord /\ nn.parent = d /\ nn.dblocks[1] = fb /\ nn.type = "REG" /\ nn.size = 0
  BY <1>1, <1>2, <1>3, <1>4, NewFileIs
<1>6. /\ blocks' = WithEntry(dn, Entry(n, call.name))
      /\ inodes' = [inodes EXCEPT ![d] = Grown(dn), ![n] = nn]
      /\ sb' = SbAfter(WithEntry(dn, Entry(n, call.name))[fb][0].inode_index)
      /\ Install(gt, n, nn)
  BY <1>1
<1>7. AppendStep(d, n, nn, tb, fb)
  BY <1>1, <1>2, <1>3, <1>4, <1>5, <1>6 DEF AppendStep
<1>8. OnDisk' /\ Allocated' = Allocated \cup {n} /\ inodes'[n] = nn
  <2>1. OnDisk'
    BY <1>7, AppendDisk
  <2>2. Allocated' = Allocated \cup {n}
    BY <1>7, AppendLists
  <2>3. inodes'[n] = nn
    BY <1>2, <1>4, <1>6 DEF OnDisk, Shapes
  <2>. QED
    BY <2>1, <2>2, <2>3
<1>9. IsTable(ft) /\ CachedIn(ft, Allocated, inodes) /\ ft[p].ino = d
  <2>1. dn.size \in Nat
    BY <1>2, RecordedSize
  <2>2. IsTable(ft) /\ CachedIn(ft, Allocated, inodes) /\ SameInos(ft, file_table)
    BY <1>1, <1>2, <2>1, CacheOffset
  <2>. QED
    BY <1>2, <2>2 DEF SameInos
<1>10. IsTable(gt) /\ CachedIn(gt, Allocated', inodes')
  BY <1>1, <1>2, <1>7, <1>9, AppendCached
<1>11. h \in Slot
  BY <1>1, SlotOfSlot DEF TableInv, FirstFree
<1>12. file_table' = [gt EXCEPT ![h] = Open(n, nn)] /\ by_open' = by_open \cup {h}
       /\ fds' = fds \cup {<<h, n>>}
  BY <1>1, <1>6 DEF Install
<1>13. CachedIn(file_table', Allocated', inodes')
  <2>1. PICK A, nodes : A = Allocated' /\ nodes = inodes'
    OBVIOUS
  <2>2. n \in A /\ nodes[n] = nn /\ nodes[n].type # "DIR" /\ CachedIn(gt, A, nodes)
    BY <1>5, <1>8, <1>10, <2>1
  <2>3. PICK ht : ht = [gt EXCEPT ![h] = Open(n, nodes[n])]
    OBVIOUS
  <2>4. CachedIn(ht, A, nodes)
    BY <1>4, <1>10, <1>11, <2>2, <2>3, CacheInstall
  <2>. QED
    BY <1>12, <2>1, <2>2, <2>3, <2>4
<1>14. Cached'
  BY <1>13 DEF Cached, CachedIn
<1>15. DescriptorsRight'
  BY <1>2, <1>4, <1>11, <1>12, InstallOpened
<1>16. CallRight'
  BY IdleRight
<1>17. IInv'
  BY <1>8, <1>14, <1>15, <1>16, Parts, PTL
<1>18. CreateStep
  <2>1. Appends /\ call.op # "f_mkdir"
    BY DEF Appends
  <2>. QED
    BY <1>1, <1>5, <1>7, <2>1 DEF CreateStep
<1>. QED
  BY <1>17, <1>18 DEF TreeStep

LEMMA OpenFileRight ==
  ASSUME IInv, TableInv, SbDurable', Orderly, OpenFile
  PROVE  IInv' /\ TreeStep
<1>1. call.pc = "ready" /\ call.op \in {"f_open_read", "f_open_write"}
  BY DEF OpenFile
<1>2. CASE /\ Files(DirNode) # {} /\ table_freehead # None
           /\ LET k == Least(Files(DirNode))
                  i == EntryAt(DirNode, k).inode_index
              IN  Install([file_table EXCEPT ![DirSlot].byte_offset = k + 1], i, inodes[i])
           /\ call' = Idle /\ UNCHANGED <<disk, sb>>
  BY <1>1, <1>2, OpenFound DEF disk, TreeStep
<1>3. CASE /\ file_table' = [file_table EXCEPT ![DirSlot].byte_offset = DirNode.size]
           /\ call' = Idle /\ UNCHANGED <<disk, sb, table_freehead, by_open, fds>>
  <2>1. /\ DirSlot \in Slot /\ DirNode.size \in Nat /\ IsTable(file_table)
        /\ CachedIn(file_table, Allocated, inodes) /\ DescriptorsRight
    BY <1>1, DirSlotRight, RecordedSize, Parts, CachedIs DEF TableInv
  <2>2. CachedIn(file_table', Allocated, inodes)
    BY <1>3, <2>1, CacheOffset
  <2>3. DescriptorsRight'
    BY <1>3, <2>1 DEF DescriptorsRight
  <2>. QED
    BY <1>3, <2>2, <2>3, IdleRight, DiskKept DEF disk, TreeStep
<1>4. CASE Fault("blockfault") \/ Fault("tablefault")
  BY <1>4, FaultRight DEF Fault, disk, TreeStep
<1>5. CASE /\ Files(DirNode) = {} /\ call.op = "f_open_write" /\ sb.free_inode # None
           /\ ~ NoBlock(DirNode) /\ AppendToFull(DirNode, DirSlot, DirNode.size)
  <2>1. ~ DirFull(DirNode)
    BY <1>1, <1>5, CreatePlace DEF Appends
  <2>. QED
    BY <1>5, <2>1 DEF AppendToFull
<1>6. CASE /\ Files(DirNode) = {} /\ call.op = "f_open_write" /\ sb.free_inode # None
           /\ ~ NoBlock(DirNode) /\ table_freehead # None /\ call' = Idle
           /\ LET dn == DirNode
                  n  == sb.free_inode
                  withEntry == WithEntry(dn, Entry(n, call.name))
                  newNode == NewFileNode(dn, n)
                  scanned == [file_table EXCEPT ![DirSlot].byte_offset = dn.size]
              IN  /\ blocks' = withEntry
                  /\ inodes' = [inodes EXCEPT ![DirIno] = Grown(dn), ![n] = newNode]
                  /\ sb' = SbAfter(withEntry[FreeAfter(dn)][0].inode_index)
                  /\ Install(SetNode(scanned, DirSlot, Grown(dn)), n, newNode)
  BY <1>1, <1>6, OpenCreated
<1>. QED
  BY <1>2, <1>3, <1>4, <1>5, <1>6 DEF OpenFile

\* f_remove with its locals named: the three ways it goes on.
RemoveAs(p, dn, d, from, found, k, t, last, lb, dirBlocks, freed) ==
  \/ /\ found = {}
     /\ file_table' = [file_table EXCEPT ![p].byte_offset = IF from <= dn.size THEN dn.size ELSE from]
     /\ UNCHANGED <<disk, sb>>
  \/ /\ found # {}
     /\ ~ Removable(t)
     /\ file_table' = [file_table EXCEPT ![p].byte_offset = k + 1]
     /\ UNCHANGED <<disk, sb>>
  \/ /\ found # {}
     /\ Removable(t)
     /\ \E garbage \in FreedMemory :
          blocks' = [b \in Block |->
                       IF \E j \in DOMAIN freed : freed[j] = b
                       THEN [blocks[lb] EXCEPT ![0].inode_index = garbage]
                       ELSE dirBlocks[b]]
     /\ inodes' = [inodes EXCEPT ![d] = Shrunk(dn), ![t] = FreedInode(t)]
     /\ sb' = [free_inode |-> t,
               free_block |-> IF freed # <<>> THEN freed[Len(freed)]
                              ELSE IF StartsBlock(last) THEN lb ELSE sb.free_block]
     /\ UpdateSuperblock
     /\ file_table' = [SetNode(file_table, p, Shrunk(dn)) EXCEPT ![p].byte_offset = k]

LEMMA RemoveNamed ==
  ASSUME Remove, NEW p, NEW dn, NEW d, NEW from, NEW found, NEW k, NEW t, NEW last, NEW lb,
         NEW dirBlocks, NEW freed,
         p = LastSlotOf(file_table[call.at].ino), dn = file_table[p].node,
         d = file_table[p].ino, from = file_table[p].byte_offset,
         found = Matches(dn, from, call.name), k = Least(found),
         t = EntryAt(dn, k).inode_index, last = dn.size - 1, lb = BlockOf(dn, last),
         dirBlocks = IF StartsBlock(last)
                     THEN [MovedInto(dn, k) EXCEPT
                             ![lb] = [blocks[lb] EXCEPT ![0].inode_index = sb.free_block]]
                     ELSE MovedInto(dn, k),
         freed = FileBlocks(inodes[t])
  PROVE  RemoveAs(p, dn, d, from, found, k, t, last, lb, dirBlocks, freed)
<1> DEFINE P == LastSlotOf(file_table[call.at].ino)
           D == file_table[P].node
           F == file_table[P].byte_offset
           G == Matches(D, F, call.name)
           K == Least(G)
           T == EntryAt(D, K).inode_index
           L == D.size - 1
           B == BlockOf(D, L)
           M == IF StartsBlock(L)
                THEN [MovedInto(D, K) EXCEPT
                        ![B] = [blocks[B] EXCEPT ![0].inode_index = sb.free_block]]
                ELSE MovedInto(D, K)
<1>1. RemoveAs(P, D, file_table[P].ino, F, G, K, T, L, B, M, FileBlocks(inodes[T]))
  BY DEF Remove, RemoveAs
<1>2. p = P /\ dn = D /\ from = F
  OBVIOUS
<1>3. found = G /\ last = L /\ d = file_table[P].ino
  BY <1>2
<1>4. k = K /\ lb = B
  BY <1>2, <1>3
<1>5. t = T /\ freed = FileBlocks(inodes[T])
  BY <1>2, <1>4
<1>6. dirBlocks = M
  BY <1>2, <1>3, <1>4
<1>. HIDE DEF P, D, F, G, K, T, L, B, M
<1>. QED
  BY <1>1, <1>2, <1>3, <1>4, <1>5, <1>6

LEMMA RemoveRight ==
  ASSUME IInv, TableInv, SbDurable', Orderly, Remove
  PROVE  IInv' /\ TreeStep
<1>1. PICK p, dn, d, from, found, k, t, last, lb, freed :
        /\ p = LastSlotOf(file_table[call.at].ino) /\ dn = file_table[p].node
        /\ d = file_table[p].ino /\ from = file_table[p].byte_offset
        /\ found = Matches(dn, from, call.name) /\ k = Least(found)
        /\ t = EntryAt(dn, k).inode_index /\ last = dn.size - 1 /\ lb = BlockOf(dn, last)
        /\ freed = FileBlocks(inodes[t])
  OBVIOUS
<1>2. call.pc = "ready" /\ call.op = "f_remove" /\ call' = Idle /\ UNCHANGED <<table_freehead, by_open, fds>>
  BY DEF Remove
<1>3. /\ p \in Slot /\ d \in Allocated /\ d # None /\ dn = inodes[d] /\ from \in Nat
      /\ call.name \in FileNames
  BY <1>1, <1>2, LastSlotRight
<1>4. /\ OnDisk /\ DescriptorsRight /\ IsTable(file_table) /\ CachedIn(file_table, Allocated, inodes)
      /\ dn.size \in Nat
  BY <1>3, Parts, CachedIs, RecordedSize DEF TableInv
<1>5. DescriptorsRight' /\ CallRight'
  BY <1>2, <1>4, IdleRight DEF DescriptorsRight
<1>6. ASSUME NEW o \in Nat, file_table' = [file_table EXCEPT ![p].byte_offset = o],
             UNCHANGED <<disk, sb>>
      PROVE  IInv' /\ TreeStep
  <2>1. CachedIn(file_table', Allocated, inodes)
    BY <1>3, <1>4, <1>6, CacheOffset
  <2>. QED
    BY <1>5, <1>6, <2>1, DiskKept DEF disk, TreeStep
<1>7. ASSUME found # {}
      PROVE  /\ d \in Directories /\ k \in Nat /\ k \in 2 .. dn.size - 1 /\ t \in Allocated /\ t # Root
  <2>1. k \in Matches(inodes[d], from, call.name)
    <3>1. /\ found \in SUBSET Matches(inodes[d], from, call.name) /\ k = Least(found)
          /\ from \in Nat /\ d \in Allocated /\ OnDisk
      BY <1>1, <1>3, <1>4
    <3>2. Least(found) \in found
      BY <1>7, <3>1, FirstMatch
    <3>. QED
      BY <3>1, <3>2
  <2>. QED
    BY <1>1, <1>3, <1>4, <2>1, LookedUp, ZenonT(40)
<1>8. CASE /\ found = {}
           /\ file_table' = [file_table EXCEPT ![p].byte_offset = IF from <= dn.size THEN dn.size ELSE from]
           /\ UNCHANGED <<disk, sb>>
  BY <1>3, <1>4, <1>6, <1>8
<1>9. CASE /\ found # {} /\ file_table' = [file_table EXCEPT ![p].byte_offset = k + 1]
           /\ UNCHANGED <<disk, sb>>
  <2>1. k + 1 \in Nat
    BY <1>7, <1>9
  <2>. QED
    BY <1>6, <1>9, <2>1
<1>10. PICK m : m = MovedInto(dn, k)
  OBVIOUS
<1>11. PICK dirBlocks : dirBlocks = IF StartsBlock(last)
                   THEN [m EXCEPT ![lb] = [blocks[lb] EXCEPT ![0].inode_index = sb.free_block]]
                   ELSE m
  OBVIOUS
<1>12. CASE /\ found # {} /\ Removable(t)
            /\ \E garbage \in FreedMemory :
                 blocks' = [b \in Block |->
                              IF \E j \in DOMAIN freed : freed[j] = b
                              THEN [blocks[lb] EXCEPT ![0].inode_index = garbage]
                              ELSE dirBlocks[b]]
            /\ inodes' = [inodes EXCEPT ![d] = Shrunk(dn), ![t] = FreedInode(t)]
            /\ sb' = [free_inode |-> t,
                      free_block |-> IF freed # <<>> THEN freed[Len(freed)]
                                     ELSE IF StartsBlock(last) THEN lb ELSE sb.free_block]
            /\ file_table' = [SetNode(file_table, p, Shrunk(dn)) EXCEPT ![p].byte_offset = k]
  <2>1. inodes[t].type = "REG" /\ inodes[t].size = 0
    <3>1. inodes[t].type = "REG"
      BY <1>1, <1>2, <1>12 DEF Orderly
    <3>. QED
      BY <1>4, <1>7, <1>12, <3>1 DEF OnDisk, Kinds
  <2>2. freed = <<>> /\ DOMAIN freed = {}
    <3>1. (0 + EPB - 1) \div EPB = 0
      BY FirstPlaces, Measures
    <3>2. 1 .. 0 = {}
      OBVIOUS
    <3>3. freed = [j \in 1 .. 0 |-> BlockOf(inodes[t], (j - 1) * EPB)]
      BY <1>1, <2>1, <3>1 DEF FileBlocks
    <3>. QED
      BY <3>2, <3>3
  <2>3. blocks' = dirBlocks
    <3>1. m = [blocks EXCEPT ![BlockOf(dn, k)] = [@ EXCEPT ![k % EPB] = EntryAt(dn, dn.size - 1)]]
      BY <1>10 DEF MovedInto
    <3>2. m = [b \in Block |-> m[b]]
      BY <1>4, <3>1 DEF OnDisk
    <3>3. dirBlocks = [b \in Block |-> dirBlocks[b]]
      BY <1>11, <3>2
    <3>4. blocks' = [b \in Block |-> dirBlocks[b]]
      BY <1>12, <2>2
    <3>. QED
      BY <3>3, <3>4
  <2>4. RemoveStep(d, k, t)
    BY <1>1, <1>3, <1>7, <1>10, <1>11, <1>12, <2>1, <2>2, <2>3 DEF RemoveStep
  <2>5. OnDisk' /\ Allocated' = Allocated \ {t}
    BY <2>4, RemoveDisk
  <2>6. \A s \in Slot : file_table[s].ino # t
    BY <1>12, SlotOfSlot, Slots DEF Removable
  <2>7. PICK A2, nodes2, gt : A2 = Allocated' /\ nodes2 = inodes' /\ gt = SetNode(file_table, p, nodes2[d])
    OBVIOUS
  <2>8. d \in Inode /\ t \in Inode /\ d # t /\ inodes[d].type = "DIR" /\ nodes2[d] = Shrunk(dn)
    <3>1. d \in Inode /\ t \in Inode /\ inodes[d].type = "DIR"
      BY <1>7, <1>12 DEF Allocated, Directories
    <3>2. d # t
      BY <2>1, <3>1
    <3>. QED
      BY <1>4, <1>12, <2>7, <3>1, <3>2 DEF OnDisk
  <2>9. CachedIn(gt, A2, nodes2) /\ IsTable(gt)
    <3>1. \A s \in Slot : file_table[s].ino # None => file_table[s].ino \in A2
      BY <1>4, <2>5, <2>6, <2>7 DEF CachedIn
    <3>2. \A n \in Allocated \cap A2 : n # d => nodes2[n] = inodes[n]
      BY <1>4, <1>12, <2>5, <2>7 DEF OnDisk, Allocated
    <3>3. PICK A1, nodes1, ft : A1 = Allocated /\ nodes1 = inodes /\ ft = file_table
      OBVIOUS
    <3>4. /\ IsTable(ft) /\ CachedIn(ft, A1, nodes1) /\ ft[p].ino = d /\ nodes1[d].type = "DIR"
          /\ d # None /\ p \in Slot
      BY <1>1, <1>3, <1>4, <2>8, <3>3
    <3>5. nodes2[d].type = "DIR"
      <4>1. dn \in InodeRecord
        BY <1>3, <1>4, RecordedSize
      <4>2. PICK ty, a, b, c, e, f :
              dn = [type |-> ty, parent |-> a, next |-> b, size |-> c, dblocks |-> e, last |-> f]
        BY <4>1, RecordParts
      <4>. QED
        BY <1>3, <2>8, <4>2 DEF Shrunk
    <3>6. CachedIn(SetNode(ft, p, nodes2[d]), A2, nodes2)
      BY <3>1, <3>2, <3>3, <3>4, <3>5, CacheNode
    <3>. QED
      BY <1>3, <1>4, <2>7, <3>3, <3>6, NodeKeeps
  <2>10. CachedIn(file_table', A2, nodes2)
    <3>1. k \in Nat /\ file_table' = [gt EXCEPT ![p].byte_offset = k]
      BY <1>7, <1>12, <2>7, <2>8
    <3>. QED
      BY <1>3, <2>9, <3>1, CacheOffset
  <2>11. Cached'
    BY <2>7, <2>10 DEF Cached, CachedIn
  <2>12. IInv'
    BY <1>5, <2>5, <2>11, Parts, PTL
  <2>. QED
    BY <1>2, <2>4, <2>12 DEF TreeStep
<1>13. ASSUME found # {}, ~ Removable(t), file_table' = [file_table EXCEPT ![p].byte_offset = k + 1],
              UNCHANGED <<disk, sb>>
       PROVE  IInv' /\ TreeStep
  BY <1>9, <1>13
<1>14. RemoveAs(p, dn, d, from, found, k, t, last, lb, dirBlocks, freed)
  BY <1>1, <1>10, <1>11, RemoveNamed
<1>. QED
  BY <1>8, <1>12, <1>13, <1>14 DEF RemoveAs

--------------------------------------------------------------------------------
\* Every step of an orderly run preserves the invariant.
LEMMA StepRight ==
  ASSUME IInv, TableInv, Orderly, [Next]_vars
  PROVE  IInv' /\ TreeStep
<1>. USE DEF disk, table
<1>1. SbDurable'
  BY SuperblockStep DEF IInv
<1>2. ASSUME NEW w \in Workload, Begin(w[1], w[2], w[3]) PROVE IInv' /\ TreeStep
  BY <1>1, <1>2, BeginRight DEF Begin, OpenRoot, TreeStep
<1>3. CASE Walk  BY <1>1, <1>3, WalkRight DEF Walk, TreeStep
<1>4. CASE PathEnd  BY <1>1, <1>4, PathEndRight DEF PathEnd, TreeStep
<1>5. CASE OpenedDir  BY <1>1, <1>5, OpenedDirRight DEF OpenedDir, TreeStep
<1>6. CASE Mkdir  BY <1>1, <1>6, MkdirRight
<1>7. CASE OpenFile  BY <1>1, <1>7, OpenFileRight
<1>8. CASE Remove  BY <1>1, <1>8, RemoveRight
<1>9. CASE RmdirOpened  BY <1>1, <1>9, RmdirOpenedRight DEF RmdirOpened, TreeStep
<1>10. CASE RmdirDescend  BY <1>1, <1>10, RmdirDescendRight DEF RmdirDescend, TreeStep
<1>11. CASE RmdirLeaf  BY <1>1, <1>11, RmdirLeafRight DEF RmdirLeaf, OpenRoot, TreeStep
<1>12. ASSUME NEW fd \in Slot, Close(fd) PROVE IInv' /\ TreeStep
  BY <1>1, <1>12, CloseRight DEF Close, TreeStep
<1>13. CASE Restart  BY <1>1, <1>13, RestartRight DEF Restart, IInv, SbDurable, TreeStep
<1>14. CASE UNCHANGED vars
  <2>1. UNCHANGED <<inodes, blocks, sb, file_table, by_open, fds, call>>
    BY <1>14 DEF vars
  <2>2. Allocated' = Allocated
    BY <2>1, SameDisk, Parts
  <2>3. CallRight'
    BY <2>1, <2>2 DEF IInv, CallRight
  <2>. QED
    BY <1>1, <2>1, <2>3, CallMoves DEF TreeStep
<1>. QED
  BY <1>2, <1>3, <1>4, <1>5, <1>6, <1>7, <1>8, <1>9, <1>10, <1>11, <1>12, <1>13, <1>14 DEF Next

--------------------------------------------------------------------------------
\* The disk as format.c writes it.

\* A chain of the elements from 1 on, in their order.
LEMMA ChainList ==
  ASSUME NEW N \in Nat \ {0}, NEW head, head = IF N = 1 THEN None ELSE 1, NEW link,
         \A x \in 1 .. N - 1 : link[x] = IF x = N - 1 THEN None ELSE x + 1
  PROVE  Listed(0 .. N - 1, head, link) = 1 .. N - 1 /\ Ends(0 .. N - 1, head, link)
<1> DEFINE X == 0 .. N - 1
           S == Listed(X, head, link)
           T == 1 .. N - 1
<1>1. T \in SUBSET X /\ (head \in X => head \in T)
  BY DEF None
<1>2. ASSUME NEW x \in T, link[x] \in X PROVE link[x] \in T
  BY <1>2 DEF None
<1>3. /\ S \subseteq X /\ (head \in X => head \in S)
      /\ \A x \in S : link[x] \in X => link[x] \in S
  <2>1. IsFiniteSet(X)
    BY FS_Interval
  <2>. HIDE DEF X
  <2>. QED
    BY <2>1, ListClosed
<1>4. S \subseteq T
  <2>1. IsFiniteSet(X)
    BY FS_Interval
  <2>. HIDE DEF X, T
  <2>. QED
    BY <1>1, <1>2, <2>1, ListLeast
<1>5. T \subseteq S
  <2>1. SUFFICES ASSUME T \ S # {} PROVE FALSE
    OBVIOUS
  <2>2. T \ S \in SUBSET Nat
    OBVIOUS
  <2>3. PICK l \in T \ S : \A t \in T \ S : l <= t
    <3>. HIDE DEF T, S
    <3>. QED
      BY <2>1, <2>2, LeastNat
  <2>4. l \in 1 .. N - 1 /\ l \notin S
    BY <2>3
  <2>5. l # 1
    <3>1. l = 1 => head = 1 /\ 1 \in X
      BY <2>4
    <3>. QED
      BY <1>3, <2>4, <3>1
  <2>6. l - 1 \in T /\ l - 1 # N - 1 /\ ~ (l <= l - 1)
    BY <2>4, <2>5
  <2>7. l - 1 \in S
    BY <2>3, <2>6
  <2>8. link[l - 1] = l /\ l \in X
    BY <2>4, <2>6
  <2>. QED
    BY <1>3, <2>4, <2>7, <2>8
<1>6. S = T
  BY <1>4, <1>5
<1>7. head = None \/ \E x \in T : link[x] = None
  <2>1. CASE N = 1
    BY <2>1
  <2>2. CASE N # 1
    <3>1. N - 1 \in T
      BY <2>2
    <3>. QED
      BY <3>1
  <2>. QED
    BY <2>1, <2>2
<1>8. \A x \in T : link[x] \in X \cup {None} /\ link[x] # head
  BY DEF None
<1>9. \A x, y \in T : link[x] = link[y] => x = y
  BY DEF None
<1>. QED
  <2>1. Ends(X, head, link)
    <3>. HIDE DEF X, T
    <3>. QED
      BY <1>6, <1>7, <1>8, <1>9 DEF Ends
  <2>. QED
    BY <1>6, <2>1

LEMMA FormatLists ==
  ASSUME Init
  PROVE  /\ FreeInodes = Inode \ {Root} /\ Allocated = {Root} /\ FreeBlocks = Block \ {0}
         /\ Ends(Inode, sb.free_inode, NextInode) /\ Ends(Block, sb.free_block, NextBlock)
<1>1. NInodes \in Nat \ {0} /\ NBlocks \in Nat \ {0, 1}
  BY Sizes
<1>2. PICK m, n : m = NInodes /\ n = NBlocks
  OBVIOUS
<1>3. Inode = 0 .. m - 1 /\ Block = 0 .. n - 1 /\ m \in Nat \ {0} /\ n \in Nat \ {0} /\ n # 1
  BY <1>1, <1>2 DEF Inode, Block
<1>4. \A x \in 1 .. m - 1 : NextInode[x] = IF x = m - 1 THEN None ELSE x + 1
  BY <1>2, <1>3 DEF Init, NextInode, FormatInode, Root
<1>5. \A x \in 1 .. n - 1 : NextBlock[x] = IF x = n - 1 THEN None ELSE x + 1
  <2>1. ASSUME NEW x \in 1 .. n - 1 PROVE NextBlock[x] = IF x = n - 1 THEN None ELSE x + 1
    <3>1. x \in Block /\ x # 0 /\ 0 \in 0 .. EPB - 1
      BY <1>3, Measures
    <3>2. blocks[x][0] = Entry(IF x = n - 1 THEN None ELSE x + 1, NoName)
      BY <1>2, <3>1 DEF Init, FormatBlock
    <3>. QED
      BY <3>1, <3>2 DEF NextBlock, NextFree, Entry
  <2>. QED
    BY <2>1
<1>6. sb.free_inode = (IF m = 1 THEN None ELSE 1) /\ sb.free_block = IF n = 1 THEN None ELSE 1
  BY <1>2, <1>3 DEF Init
<1>7. FreeInodes = 1 .. m - 1 /\ Ends(Inode, sb.free_inode, NextInode)
  BY <1>3, <1>4, <1>6, ChainList DEF FreeInodes
<1>8. FreeBlocks = 1 .. n - 1 /\ Ends(Block, sb.free_block, NextBlock)
  BY <1>3, <1>5, <1>6, ChainList DEF FreeBlocks
<1>. QED
  BY <1>3, <1>7, <1>8 DEF Allocated, Root

LEMMA FormatRight == Init => IInv
<1>. SUFFICES ASSUME Init PROVE IInv
  OBVIOUS
<1>1. Root \in Inode /\ 0 \in Block /\ 1 \in 1 .. ND /\ 1 \in Block
  <2>1. NInodes \in Nat \ {0} /\ NBlocks \in Nat \ {0, 1}
    BY Sizes
  <2>. QED
    BY <2>1, Measures DEF Inode, Block, Root
<1>2. inodes \in [Inode -> InodeRecord]
  <2>1. ASSUME NEW i \in Inode PROVE FormatInode(i) \in InodeRecord
    <3>1. PICK ty, p, x, s, db, l :
            /\ ty = (IF i = Root THEN "DIR" ELSE "none") /\ p = (IF i = Root THEN Root ELSE None)
            /\ x = (IF i = Root \/ i = NInodes - 1 THEN None ELSE i + 1)
            /\ s = (IF i = Root THEN 2 ELSE 0) /\ db = [j \in 1 .. ND |-> 0]
            /\ l = IF i = Root THEN 0 ELSE None
      OBVIOUS
    <3>2. s \in 0 .. ND * EPB + EPB
      <4>1. ND * EPB \in Nat
        BY Measures
      <4>. QED
        BY <3>1, <4>1, Measures
    <3>3. x \in Inode \cup {None}
      <4>1. NInodes \in Nat \ {0}
        BY Sizes
      <4>. QED
        BY <3>1, <4>1 DEF Inode
    <3>4. ty \in {"DIR", "REG", "none"} /\ p \in Inode \cup {None} /\ db \in [1 .. ND -> Block]
          /\ l \in Block \cup {None}
      BY <1>1, <3>1
    <3>5. FormatInode(i) = [type |-> ty, parent |-> p, next |-> x, size |-> s, dblocks |-> db, last |-> l]
      BY <3>1 DEF FormatInode
    <3>. QED
      BY <3>2, <3>3, <3>4, <3>5 DEF InodeRecord
  <2>. QED
    BY <2>1 DEF Init
<1>3. blocks \in [Block -> [0 .. EPB - 1 -> Dirent]]
  <2>1. ASSUME NEW b \in Block PROVE FormatBlock(b) \in [0 .. EPB - 1 -> Dirent]
    <3>1. NoName \in FileNames
      BY IdleCall
    <3>2. \A i \in Int : Entry(i, NoName) \in Dirent /\ Entry(i, ".") \in Dirent /\ Entry(i, "..") \in Dirent
      BY <3>1, EntryType
    <3>3. Root \in Int /\ None \in Int /\ b + 1 \in Int
      BY Numbers DEF Root, None
    <3>. QED
      BY <3>2, <3>3 DEF FormatBlock, NoEntry
  <2>. QED
    BY <2>1 DEF Init
<1>4. sb \in [free_inode : Inode \cup {None}, free_block : Block \cup {None}]
  <2>1. NInodes \in Nat \ {0}
    BY Sizes
  <2>2. (IF NInodes = 1 THEN None ELSE 1) \in Inode \cup {None}
    BY <2>1 DEF Inode
  <2>. QED
    BY <1>1, <2>2 DEF Init
<1>5. /\ inodes[Root].type = "DIR" /\ inodes[Root].size = 2 /\ inodes[Root].parent = Root
      /\ inodes[Root].dblocks[1] = 0
  BY <1>1 DEF Init, FormatInode
<1>6. Directories = {Root}
  BY <1>5, FormatLists DEF Directories
<1>7. Kinds
  <2>1. 2 \in 2 .. ND * EPB
    <3>1. ND * EPB \in Nat /\ ND * EPB >= 2
      BY Within, Products, Measures
    <3>. QED
      BY <3>1
  <2>. QED
    BY <1>5, <2>1, FormatLists DEF Kinds
<1>8. \A k \in 0 .. 1 : k \div EPB = 0 /\ k % EPB = k /\ BlockOf(inodes[Root], k) = 0
  <2>1. \A k \in 0 .. 1 : k \div EPB = 0 /\ k % EPB = k
    BY FirstPlaces
  <2>2. 0 < ND /\ 0 + 1 = 1
    BY Measures
  <2>. QED
    BY <1>5, <2>1, <2>2 DEF BlockOf
<1>9. HeldOnce
  <2>1. Held(Root) = 0 .. 1
    BY <1>5 DEF Held
  <2>2. 0 \notin FreeBlocks
    BY FormatLists
  <2>. QED
    BY <1>8, <2>1, <2>2, FormatLists DEF HeldOnce
<1>10. EntriesRight
  <2>1. EntryAt(inodes[Root], 0) = Entry(Root, ".") /\ EntryAt(inodes[Root], 1) = Entry(Root, "..")
    <3>1. 0 \in 0 .. EPB - 1 /\ 1 \in 0 .. EPB - 1
      BY Measures
    <3>2. blocks[0][0] = Entry(Root, ".") /\ blocks[0][1] = Entry(Root, "..")
      BY <1>1, <3>1 DEF Init, FormatBlock
    <3>. QED
      BY <1>8, <3>2 DEF EntryAt
  <2>2. 2 .. 2 - 1 = {}
    OBVIOUS
  <2>. QED
    BY <1>5, <1>6, <2>1, <2>2 DEF EntriesRight
<1>11. NamedOnce
  <2>1. Entries = {}
    BY <1>5, <1>6 DEF Entries
  <2>. QED
    BY <2>1, FormatLists DEF NamedOnce
<1>12. DescriptorsRight
  BY DEF Init, DescriptorsRight
<1>13. Cached
  <2>1. \A s \in Slot : file_table[s].ino = None /\ file_table[s].byte_offset = 0
    BY DEF Init, FreeEntry
  <2>. QED
    BY <2>1, Slots DEF Cached
<1>14. CallRight
  BY DEF Init, CallRight, Idle
<1>15. SbDurable
  BY DEF Init, SbDurable
<1>. QED
  BY <1>2, <1>3, <1>4, <1>7, <1>9, <1>10, <1>11, <1>12, <1>13, <1>14, <1>15, FormatLists, Parts DEF OnDisk

\* As long as no call meets what the code does not look at, the invariant holds.
THEOREM TreeInvariant == Spec /\ []Orderly => []IInv
<1>1. IInv /\ TableInv /\ Orderly /\ [Next]_vars => IInv'
  BY StepRight
<1>. QED
  BY <1>1, FormatRight, TableInvariant, PTL DEF Spec

--------------------------------------------------------------------------------
\* What the invariant says of each property the runs check.

\* table_freehead is a slot or says that there is none.
HeadInv == table_freehead \in Slot \cup {None}

LEMMA HeadFound == \A ft : FirstFree(ft) \in Slot \cup {None}
BY SlotOfSlot DEF FirstFree

LEMMA HeadStep ==
  ASSUME HeadInv, TableInv, [Next]_vars
  PROVE  HeadInv'
<1>. USE DEF table
<1>1. ASSUME NEW c, OpenRoot(c) PROVE HeadInv'
  BY <1>1, HeadFound DEF OpenRoot, HeadInv
<1>2. ASSUME NEW w \in Workload, Begin(w[1], w[2], w[3]) PROVE HeadInv'
  BY <1>1, <1>2 DEF Begin
<1>3. CASE RmdirLeaf
  BY <1>1, <1>3 DEF RmdirLeaf
<1>4. CASE Walk
  <2>1. call.at \in Slot
    BY <1>4 DEF Walk, TableInv
  <2>2. table_freehead' = call.at \/ \E ft : table_freehead' = FirstFree(ft)
    BY <1>4 DEF Walk
  <2>. QED
    BY <2>1, <2>2, HeadFound DEF HeadInv
<1>5. CASE PathEnd
  BY <1>5, HeadFound DEF PathEnd, HeadInv
<1>6. ASSUME NEW fd \in Slot, Close(fd) PROVE HeadInv'
  BY <1>6, HeadFound DEF Close, HeadInv
<1>7. CASE Restart
  BY <1>7, Slots DEF Restart, HeadInv
<1>8. ASSUME NEW ft, NEW n, NEW node, Install(ft, n, node) PROVE HeadInv'
  BY <1>8, HeadFound DEF Install, HeadInv
<1>9. CASE OpenFile
  <2>1. UNCHANGED table_freehead \/ \E ft, n, node : Install(ft, n, node)
    BY <1>9 DEF OpenFile, AppendToFull, Fault
  <2>. QED
    BY <1>8, <2>1 DEF HeadInv
<1>10. CASE Mkdir \/ Remove \/ OpenedDir \/ RmdirOpened \/ RmdirDescend
  BY <1>10 DEF Mkdir, Remove, OpenedDir, RmdirOpened, RmdirDescend, AppendToFull, Fault, HeadInv
<1>11. CASE UNCHANGED vars
  BY <1>11 DEF vars, HeadInv
<1>. QED
  BY <1>2, <1>3, <1>4, <1>5, <1>6, <1>7, <1>9, <1>10, <1>11 DEF Next

LEMMA HeadInvariant == Spec => []HeadInv
<1>1. Init => HeadInv
  BY Slots DEF Init, HeadInv
<1>2. HeadInv /\ TableInv /\ [Next]_vars => HeadInv'
  BY HeadStep
<1>. QED
  BY <1>1, <1>2, TableInvariant, PTL DEF Spec

LEMMA TypesFollow == IInv /\ HeadInv => TypeOK
<1>. SUFFICES ASSUME IInv, HeadInv PROVE TypeOK
  OBVIOUS
<1>1. \A b \in Block, k \in 0 .. EPB - 1 :
        blocks[b][k].inode_index \in Int /\ blocks[b][k].filename \in FileNames \cup {".", "..", "garbled"}
  <2>1. ASSUME NEW b \in Block, NEW k \in 0 .. EPB - 1 PROVE blocks[b][k] \in Dirent
    BY <2>1 DEF IInv, Shapes
  <2>. QED
    BY <2>1 DEF Dirent
<1>2. \A s \in {sb, sbdisk} : s.free_inode \in Inode \cup {None} /\ s.free_block \in -1 .. BadBlock
  <2>1. NBlocks \in Nat
    BY Sizes
  <2>2. Block \cup {None} \subseteq -1 .. BadBlock
    BY <2>1 DEF Block, None, BadBlock
  <2>3. sbdisk = sb /\ sb.free_inode \in Inode \cup {None} /\ sb.free_block \in Block \cup {None}
    BY DEF IInv, Shapes, SbDurable
  <2>. QED
    BY <2>2, <2>3
<1>3. ASSUME NEW s \in Slot
      PROVE  /\ file_table[s].ino \in Inode \cup {None}
             /\ file_table[s].ino # None => file_table[s].node \in InodeRecord
             /\ file_table[s].byte_offset \in Nat
  <2>1. OnDisk
    BY Parts
  <2>. QED
    BY <2>1, RecordedSize DEF IInv, Cached
<1>. QED
  BY <1>1, <1>2, <1>3 DEF TypeOK, IInv, Shapes, HeadInv

LEMMA CacheFollows == IInv => CacheCoherent /\ NoFreeInodeOpen
<1>1. ASSUME IInv, NEW s \in Slot PROVE file_table[s].ino \notin FreeInodes
  <2>1. FreeInodes \subseteq Inode /\ None \notin Inode
    BY <1>1, FreeListFacts, Numbers DEF None
  <2>. QED
    BY <1>1, <2>1 DEF IInv, Cached, Allocated
<1>. QED
  BY <1>1 DEF IInv, Cached, CacheCoherent, NoFreeInodeOpen

LEMMA TreeFollows == IInv => TreeLinked
<1>. SUFFICES ASSUME IInv PROVE TreeLinked
  OBVIOUS
<1>1. \A d \in Directories : /\ EntryAt(inodes[d], 0) = Entry(d, ".")
                             /\ EntryAt(inodes[d], 1) = Entry(inodes[d].parent, "..")
  BY DEF IInv, EntriesRight
<1>2. ASSUME NEW e \in Entries PROVE inodes[e[3].inode_index].parent = e[1]
  <2>1. PICK d \in Directories : \E k \in 2 .. inodes[d].size - 1 : e = <<d, k, EntryAt(inodes[d], k)>>
    BY DEF Entries
  <2>. QED
    BY <2>1 DEF IInv, EntriesRight
<1>. QED
  BY <1>1, <1>2 DEF TreeLinked

LEMMA HeldIs == ASSUME IInv, NEW i \in Allocated, NEW b \in BlocksOf(i)
                PROVE  \E k \in Held(i) : b = BlockOf(inodes[i], k)
<1>1. CASE inodes[i].type = "REG"
  <2>1. 0 \div EPB = 0 /\ 0 < ND
    BY FirstPlaces, Measures
  <2>2. BlockOf(inodes[i], 0) = inodes[i].dblocks[1]
    BY <2>1 DEF BlockOf
  <2>. QED
    BY <1>1, <2>2 DEF BlocksOf, Held
<1>2. CASE inodes[i].type # "REG"
  BY <1>2 DEF BlocksOf, Held
<1>. QED
  BY <1>1, <1>2

LEMMA BlocksFollow == IInv => BlocksDisjoint
<1>. SUFFICES ASSUME IInv PROVE BlocksDisjoint
  OBVIOUS
<1>1. sb.free_block = None \/ \E b \in FreeBlocks : NextFree(b) = None
  <2>1. sb.free_block = None \/ \E b \in FreeBlocks : NextBlock[b] = None
    BY DEF IInv, Ends, FreeBlocks
  <2>2. \A b \in FreeBlocks : NextBlock[b] = NextFree(b)
    BY FreeListFacts DEF NextBlock
  <2>. QED
    BY <2>1, <2>2
<1>2. ASSUME NEW i \in Allocated PROVE BlocksOf(i) \cap FreeBlocks = {}
  BY HeldIs, HeldNotFree DEF IInv
<1>3. ASSUME NEW i \in Allocated, NEW j \in Allocated, i # j PROVE BlocksOf(i) \cap BlocksOf(j) = {}
  <2>1. SUFFICES ASSUME NEW b \in BlocksOf(i), b \in BlocksOf(j) PROVE FALSE
    OBVIOUS
  <2>2. PICK k \in Held(i) : b = BlockOf(inodes[i], k)
    BY HeldIs
  <2>3. PICK l \in Held(j) : b = BlockOf(inodes[j], l)
    BY <2>1, HeldIs
  <2>. QED
    BY <1>3, <2>2, <2>3, HeldByOne DEF IInv
<1>. QED
  BY <1>1, <1>2, <1>3 DEF BlocksDisjoint

LEMMA InodesFollow == IInv => InodesPartitioned
<1>. SUFFICES ASSUME IInv PROVE InodesPartitioned
  OBVIOUS
<1>1. sb.free_inode = None \/ \E i \in FreeInodes : inodes[i].next = None
  <2>1. sb.free_inode = None \/ \E i \in FreeInodes : NextInode[i] = None
    BY DEF IInv, Ends, FreeInodes
  <2>2. \A i \in FreeInodes : NextInode[i] = inodes[i].next
    BY FreeListFacts DEF NextInode
  <2>. QED
    BY <2>1, <2>2
<1>2. Root \in Allocated
  BY DEF IInv, Kinds
<1>3. \A e \in Entries : e[3].inode_index \in Allocated \ {Root}
  <2>1. ASSUME NEW e \in Entries PROVE e[3].inode_index \in Allocated \ {Root}
    <3>1. PICK d \in Directories : \E k \in 2 .. inodes[d].size - 1 : e = <<d, k, EntryAt(inodes[d], k)>>
      BY DEF Entries
    <3>. QED
      BY <3>1 DEF IInv, EntriesRight
  <2>. QED
    BY <2>1
<1>4. ASSUME NEW i \in Inode
      PROVE  Cardinality({e \in Entries : e[3].inode_index = i})
               = IF i = Root \/ i \in FreeInodes THEN 0 ELSE 1
  <2> DEFINE N == {e \in Entries : e[3].inode_index = i}
  <2>1. CASE i = Root \/ i \in FreeInodes
    <3>1. N = {}
      BY <1>3, <2>1 DEF Allocated
    <3>. QED
      BY <2>1, <3>1, FS_EmptySet
  <2>2. CASE i # Root /\ i \notin FreeInodes
    <3>1. i \in Allocated \ {Root}
      BY <2>2 DEF Allocated
    <3>2. PICK e \in Entries : e[3].inode_index = i
      BY <3>1 DEF IInv, NamedOnce
    <3>3. N = {e}
      BY <3>2 DEF IInv, NamedOnce
    <3>. QED
      BY <2>2, <3>3, FS_Singleton
  <2>. QED
    BY <2>1, <2>2
<1>. QED
  BY <1>1, <1>2, <1>4 DEF InodesPartitioned, Allocated

\* Whatever the calls do, their disk, superblock, table and descriptors keep their types.
THEOREM TreeTypes == Spec /\ []Orderly => []TypeOK
BY TypesFollow, TreeInvariant, HeadInvariant, PTL

\* f_readdir may trust the inode in the table and a later f_opendir the one on disk.
THEOREM TableTrusted == Spec /\ []Orderly => []CacheCoherent
BY CacheFollows, TreeInvariant, PTL

\* No f_remove frees an inode that is in the table, and none is opened that is free.
THEOREM FreeStaysClosed == Spec /\ []Orderly => []NoFreeInodeOpen
BY CacheFollows, TreeInvariant, PTL

\* "." and ".." and parent_inode_index of every directory say what the tree says.
THEOREM TreeStaysLinked == Spec /\ []Orderly => []TreeLinked
BY TreeFollows, TreeInvariant, PTL

\* f_mkdir, f_open and f_remove take blocks from the free list and give them back such
\* that none has two owners.
THEOREM BlocksStayDisjoint == Spec /\ []Orderly => []BlocksDisjoint
BY BlocksFollow, TreeInvariant, PTL

\* Every inode is the root, free, or named by one entry, after any sequence of calls.
THEOREM InodesStayPartitioned == Spec /\ []Orderly => []InodesPartitioned
BY InodesFollow, TreeInvariant, PTL
================================================================================
