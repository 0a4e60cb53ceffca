----------------------------- MODULE ShellNavProofs -----------------------------
(***************************************************************************)
(* The shell on every disk and table, whatever is typed: the path a        *)
(* command makes leads back to where it arrived, the call works there,     *)
(* and the shell ends itself only in the ways listed.  What it does to the *)
(* open-file table between the calls keeps the invariant the calls rely    *)
(* on, so what is proved of the tree holds under the shell as well.        *)
(***************************************************************************)
EXTENDS ShellNav, TreeCallsProofs

NavRight == IInv /\ TableInv /\ NavInv

--------------------------------------------------------------------------------
\* The table

InTable(ft, n) == \E s \in Slot : ft[s].ino = n

\* Entries in use keep their inode.
Keeps(ft, gt) == \A s \in Slot : ft[s].ino # None => gt[s].ino = ft[s].ino

LEMMA InTableIs == \A ft, n : SlotOf(ft, n) # None <=> InTable(ft, n)
<1>1. ASSUME NEW ft, NEW n PROVE SlotOf(ft, n) # None <=> InTable(ft, n)
  BY SlotOfSlot, Slots DEF InTable
<1>. QED
  BY <1>1

\* addto_file_table: an inode is there afterwards, unless the table is full.
LEMMA AddedRight ==
  ASSUME NEW ft, IsTable(ft), CachedIn(ft, Allocated, inodes), ft[0].ino = Root,
         NEW n \in Allocated
  PROVE  /\ IsTable(Added(ft, n)) /\ CachedIn(Added(ft, n), Allocated, inodes)
         /\ Keeps(ft, Added(ft, n))
         /\ InTable(Added(ft, n), n) \/ (Added(ft, n) = ft /\ FirstFree(ft) = None)
<1>1. PICK p : p = FirstFree(ft)
  OBVIOUS
<1>2. CASE SlotOf(ft, n) # None
  <2>1. Added(ft, n) = ft
    BY <1>2 DEF Added
  <2>. QED
    BY <1>2, <2>1, InTableIs DEF Keeps
<1>3. CASE SlotOf(ft, n) = None /\ p = None
  <2>1. Added(ft, n) = ft
    BY <1>1, <1>3 DEF Added
  <2>. QED
    BY <1>1, <1>3, <2>1 DEF Keeps
<1>4. CASE SlotOf(ft, n) = None /\ p # None
  <2>1. PICK gt : gt = [ft EXCEPT ![p] = Open(n, inodes[n])]
    OBVIOUS
  <2>2. Added(ft, n) = gt
    BY <1>1, <1>4, <2>1 DEF Added
  <2>3. p \in Slot /\ ft[p].ino = None
    BY <1>1, <1>4, SlotOfSlot DEF FirstFree
  <2>4. ~ InTable(ft, n)
    BY <1>4, InTableIs
  <2>5. n # Root /\ n # None
    <3>1. n # Root
      BY <2>4, Slots DEF InTable
    <3>2. n # None
      BY Sizes DEF Allocated
    <3>. QED
      BY <3>1, <3>2
  <2>6. \A s \in Slot \ {p} : ft[s].ino # n
    BY <2>4 DEF InTable
  <2>7. /\ IsTable(gt) /\ CachedIn(gt, Allocated, inodes) /\ gt[p].ino = n
        /\ \A s \in Slot \ {p} : gt[s] = ft[s]
    <3>1. inodes[n].type = "DIR" => \A s \in Slot \ {p} : ft[s].ino # n
      BY <2>6
    <3>2. n = Root => p = 0
      BY <2>5
    <3>3. PICK A, nodes : A = Allocated /\ nodes = inodes
      OBVIOUS
    <3>4. n \in A /\ CachedIn(ft, A, nodes) /\ gt = [ft EXCEPT ![p] = Open(n, nodes[n])]
          /\ (nodes[n].type = "DIR" => \A s \in Slot \ {p} : ft[s].ino # n)
      BY <2>1, <3>1, <3>3
    <3>5. IsTable(gt) /\ CachedIn(gt, A, nodes)
      BY <2>3, <2>5, <3>2, <3>4, CacheInstall
    <3>6. gt[p].ino = n /\ \A s \in Slot \ {p} : gt[s] = ft[s]
      BY <2>1, <2>3 DEF IsTable, Open
    <3>. QED
      BY <3>3, <3>5, <3>6
  <2>8. Keeps(ft, gt) /\ InTable(gt, n)
    BY <2>3, <2>7 DEF Keeps, InTable
  <2>. QED
    BY <2>2, <2>7, <2>8
<1>. QED
  BY <1>2, <1>3, <1>4

\* An offset that moves, or none if there is no such slot.
LEMMA AtRight ==
  ASSUME NEW ft, IsTable(ft), CachedIn(ft, Allocated, inodes), NEW p, NEW k \in Nat
  PROVE  /\ IsTable(At(ft, p, k)) /\ CachedIn(At(ft, p, k), Allocated, inodes)
         /\ SameInos(At(ft, p, k), ft)
         /\ \A n : SlotOf(At(ft, p, k), n) = SlotOf(ft, n)
<1>1. PICK gt : gt = [ft EXCEPT ![p].byte_offset = k]
  OBVIOUS
<1>2. IsTable(gt) /\ CachedIn(gt, Allocated, inodes) /\ SameInos(gt, ft)
  <2>1. CASE p \in Slot
    BY <1>1, <2>1, CacheOffset
  <2>2. CASE p \notin Slot
    <3>1. gt = ft
      BY <1>1, <2>2 DEF IsTable
    <3>. QED
      BY <3>1 DEF SameInos
  <2>. QED
    BY <2>1, <2>2
<1>3. \A n : SlotOf(gt, n) = SlotOf(ft, n)
  BY <1>2 DEF SlotOf, SameInos
<1>. QED
  BY <1>1, <1>2, <1>3 DEF At

LEMMA KeepsIn ==
  ASSUME NEW ft, NEW gt, Keeps(ft, gt), NEW n, n # None, InTable(ft, n)
  PROVE  InTable(gt, n)
BY DEF Keeps, InTable

\* What the shell does to the table between two calls.
LEMMA TableMoves ==
  ASSUME IInv, TableInv, call.pc = "idle",
         UNCHANGED <<inodes, blocks, sbdisk, sb, call, fds>>, by_open' \subseteq by_open,
         IsTable(file_table'), CachedIn(file_table', Allocated, inodes), file_table'[0].ino = Root
  PROVE  IInv' /\ TableInv'
<1>1. SbDurable'
  BY DEF IInv, SbDurable
<1>2. DescriptorsRight'
  BY Parts DEF DescriptorsRight
<1>3. CallRight'
  BY DEF IInv, CallRight
<1>4. IInv'
  BY <1>1, <1>2, <1>3, DiskKept
<1>5. TableInv'
  BY DEF TableInv
<1>. QED
  BY <1>4, <1>5

--------------------------------------------------------------------------------
\* Paths and the entries they follow

LEMMA FirstIs ==
  ASSUME NEW S \in SUBSET Nat, S # {}
  PROVE  First(S) # {} /\ \A k \in First(S) : k \in S
BY LeastNat DEF First

\* The directory an inode is entered in has an entry for it.
LEMMA ParentNames ==
  ASSUME OnDisk, NEW i \in Allocated, i # Root, NEW p, p = inodes[i].parent
  PROVE  /\ p \in Directories
         /\ \E k : EntryNames(p, k, i)
<1>1. EachNamed /\ EntriesRight
  BY NamedOnceIs DEF OnDisk
<1>2. PICK d, k : EntryNames(d, k, i)
  BY <1>1 DEF EachNamed
<1>3. d \in Directories /\ p = d
  BY <1>1, <1>2 DEF EntryNames, EntriesRight
<1>. QED
  BY <1>2, <1>3

\* The entry the climb finds is that one, not "." nor "..".
LEMMA ClimbFinds ==
  ASSUME OnDisk, NoLoop, NEW i \in Allocated, i # Root, NEW p, p = inodes[i].parent
  PROVE  /\ Numbered(inodes[p], i) # {}
         /\ \A k \in Numbered(inodes[p], i) :
              EntryNames(p, k, i) /\ EntryAt(inodes[p], k).filename \in FileNames /\ k \in Nat
<1>1. p \in Directories /\ Kinds /\ EntriesRight
  BY ParentNames DEF OnDisk
<1>2. PICK z, S : z = inodes[p].size /\ S = {k \in 0 .. z - 1 : EntryAt(inodes[p], k).inode_index = i}
  OBVIOUS
<1>3. z \in Nat /\ z >= 2
  BY <1>1, <1>2, InDirectories
<1>4. PICK l : EntryNames(p, l, i)
  BY ParentNames
<1>5. l \in S
  BY <1>2, <1>3, <1>4 DEF EntryNames
<1>6. S \in SUBSET Nat /\ S # {}
  BY <1>2, <1>3, <1>5
<1>7. Numbered(inodes[p], i) = First(S)
  BY <1>2 DEF Numbered
<1>8. ASSUME NEW k \in S PROVE EntryNames(p, k, i) /\ EntryAt(inodes[p], k).filename \in FileNames
  <2>1. k \in 0 .. z - 1 /\ EntryAt(inodes[p], k).inode_index = i
    BY <1>2, <1>8
  <2>2. k # 0
    <3>1. EntryAt(inodes[p], 0) = Entry(p, ".")
      BY <1>1 DEF EntriesRight
    <3>2. p # i
      BY DEF NoLoop
    <3>. QED
      BY <2>1, <3>1, <3>2 DEF Entry
  <2>3. k # 1
    <3>1. EntryAt(inodes[p], 1) = Entry(inodes[p].parent, "..")
      BY <1>1 DEF EntriesRight
    <3>2. inodes[p].parent # i
      BY DEF NoLoop
    <3>. QED
      BY <2>1, <3>1, <3>2 DEF Entry
  <2>4. k \in 2 .. z - 1
    BY <1>3, <2>1, <2>2, <2>3
  <2>. QED
    BY <1>1, <1>2, <2>1, <2>4 DEF EntryNames, EntriesRight
<1>. QED
  BY <1>6, <1>7, <1>8, FirstIs

\* A walk that looks the name of an entry up takes the inode of that entry, if no
\* other entry has the name.
LEMMA ChildOf ==
  ASSUME OnDisk, NEW p, NEW k, NEW i, EntryNames(p, k, i), NEW nm,
         EntryAt(inodes[p], k).filename = nm
  PROVE  Child(p, nm) = i \/ Doubled
<1>1. p \in Directories /\ k \in 2 .. inodes[p].size - 1 /\ EntryAt(inodes[p], k).inode_index = i
      /\ EntriesRight /\ Kinds
  BY DEF EntryNames, OnDisk
<1>2. PICK z : z = inodes[p].size
  OBVIOUS
<1>3. z \in Nat /\ p \in Allocated /\ nm \in FileNames /\ k \in 2 .. z - 1
  BY <1>1, <1>2, InDirectories DEF EntriesRight
<1>4. PICK S, j : S = Matches(inodes[p], 0, nm) /\ j = Least(S)
  OBVIOUS
<1>5. k \in S
  BY <1>2, <1>3, <1>4 DEF Matches
<1>6. j \in S
  BY <1>3, <1>4, <1>5, FirstMatch
<1>7. j \in 2 .. inodes[p].size - 1 /\ EntryAt(inodes[p], j).filename = nm
  <2>1. j \in 2 .. inodes[p].size - 1
    BY <1>3, <1>4, <1>6, LookedUp
  <2>. QED
    BY <1>4, <1>6, <2>1 DEF Matches
<1>8. CASE j = k
  BY <1>1, <1>4, <1>5, <1>8 DEF Child
<1>9. CASE j # k
  <2>1. PICK e, f : e = <<p, k, EntryAt(inodes[p], k)>> /\ f = <<p, j, EntryAt(inodes[p], j)>>
    OBVIOUS
  <2>2. e \in Entries /\ f \in Entries
    BY <1>1, <1>7, <2>1, InEntries
  <2>3. e[1] = f[1] /\ e[3].filename = f[3].filename /\ e # f
    BY <1>7, <1>9, <2>1
  <2>. QED
    BY <2>2, <2>3 DEF Doubled
<1>. QED
  BY <1>8, <1>9

\* Nothing is left of a path at its end.
LEMMA LeadsHere == \A d : (d \in Inode => Leads(d, <<>>, d)) /\ \A x : Leads(d, <<>>, x) => d = x
<1>1. ASSUME NEW d \in Inode PROVE Leads(d, <<>>, d)
  <2>1. PICK way : way = [k \in {0} |-> d]
    OBVIOUS
  <2>2. Len(<<>>) = 0 /\ 0 .. 0 = {0} /\ 1 .. 0 = {}
    OBVIOUS
  <2>3. way \in [0 .. Len(<<>>) -> Inode] /\ way[0] = d /\ way[Len(<<>>)] = d
    BY <2>1, <2>2
  <2>4. \A k \in 1 .. Len(<<>>) : way[k] = Child(way[k - 1], <<>>[k])
    BY <2>2
  <2>. QED
    BY <2>3, <2>4 DEF Leads
<1>2. ASSUME NEW d, NEW x, Leads(d, <<>>, x) PROVE d = x
  BY <1>2 DEF Leads
<1>. QED
  BY <1>1, <1>2

\* One name more at the front.
LEMMA LeadsMore ==
  ASSUME NEW p \in Inode, NEW nm \in FileNames, NEW i, i = Child(p, nm),
         NEW ns \in Seq(FileNames), NEW x, Leads(i, ns, x)
  PROVE  Leads(p, <<nm>> \o ns, x)
<1>1. PICK n : n = Len(ns)
  OBVIOUS
<1>2. PICK way \in [0 .. n -> Inode] :
        way[0] = i /\ way[n] = x /\ \A k \in 1 .. n : way[k] = Child(way[k - 1], ns[k])
  BY <1>1 DEF Leads
<1>3. PICK ms : ms = <<nm>> \o ns
  OBVIOUS
<1>4. n \in Nat /\ Len(ms) = n + 1 /\ ms[1] = nm /\ \A k \in 2 .. n + 1 : ms[k] = ns[k - 1]
  BY <1>1, <1>3
<1>5. PICK far : far = [k \in 0 .. n + 1 |-> IF k = 0 THEN p ELSE way[k - 1]]
  OBVIOUS
<1>6. far \in [0 .. n + 1 -> Inode] /\ far[0] = p /\ \A k \in 1 .. n + 1 : far[k] = way[k - 1]
  BY <1>2, <1>4, <1>5
<1>7. far[n + 1] = x
  BY <1>2, <1>4, <1>6
<1>8. ASSUME NEW k \in 1 .. n + 1 PROVE far[k] = Child(far[k - 1], ms[k])
  <2>1. CASE k = 1
    BY <1>2, <1>4, <1>6, <2>1
  <2>2. CASE k # 1
    <3>1. k \in 2 .. n + 1 /\ k - 1 \in 1 .. n /\ k - 1 \in 1 .. n + 1
      BY <1>4, <2>2
    <3>2. far[k] = way[k - 1] /\ far[k - 1] = way[(k - 1) - 1] /\ ms[k] = ns[k - 1]
      BY <1>4, <1>6, <3>1
    <3>3. way[k - 1] = Child(way[(k - 1) - 1], ns[k - 1])
      BY <1>2, <3>1
    <3>. QED
      BY <3>2, <3>3
  <2>. QED
    BY <2>1, <2>2
<1>9. Leads(p, ms, x)
  BY <1>4, <1>6, <1>7, <1>8 DEF Leads
<1>. QED
  BY <1>3, <1>9

\* One name less.
LEMMA LeadsRest ==
  ASSUME NEW d, NEW ns \in Seq(FileNames), ns # <<>>, NEW x, Leads(d, ns, x)
  PROVE  Leads(Child(d, Head(ns)), Tail(ns), x) /\ Child(d, Head(ns)) \in Inode
<1>1. PICK n : n = Len(ns)
  OBVIOUS
<1>2. PICK way \in [0 .. n -> Inode] :
        way[0] = d /\ way[n] = x /\ \A k \in 1 .. n : way[k] = Child(way[k - 1], ns[k])
  BY <1>1 DEF Leads
<1>3. PICK ms, i : ms = Tail(ns) /\ i = Child(d, Head(ns))
  OBVIOUS
<1>4. n \in Nat /\ n >= 1 /\ Len(ms) = n - 1 /\ Head(ns) = ns[1] /\ \A k \in 1 .. n - 1 : ms[k] = ns[k + 1]
  BY <1>1, <1>3
<1>5. PICK short : short = [k \in 0 .. n - 1 |-> way[k + 1]]
  OBVIOUS
<1>6. short \in [0 .. n - 1 -> Inode] /\ \A k \in 0 .. n - 1 : short[k] = way[k + 1]
  BY <1>2, <1>4, <1>5
<1>7. i = way[1] /\ i \in Inode
  BY <1>2, <1>3, <1>4
<1>8. short[0] = i /\ short[n - 1] = x
  BY <1>2, <1>4, <1>6, <1>7
<1>9. ASSUME NEW k \in 1 .. n - 1 PROVE short[k] = Child(short[k - 1], ms[k])
  <2>1. k \in 0 .. n - 1 /\ k - 1 \in 0 .. n - 1 /\ k + 1 \in 1 .. n /\ (k - 1) + 1 = (k + 1) - 1
    BY <1>4
  <2>2. short[k] = way[k + 1] /\ short[k - 1] = way[(k + 1) - 1] /\ ms[k] = ns[k + 1]
    BY <1>4, <1>6, <2>1
  <2>3. way[k + 1] = Child(way[(k + 1) - 1], ns[k + 1])
    BY <1>2, <2>1
  <2>. QED
    BY <2>2, <2>3
<1>10. Leads(i, ms, x)
  BY <1>4, <1>6, <1>8, <1>9 DEF Leads
<1>. QED
  BY <1>3, <1>7, <1>10

\* The same of the next state.
ChildAfter(d, name) ==
  LET named == {j \in 0 .. inodes'[d].size - 1 : EntryAfter(d, j).filename = name}
  IN  IF named = {} THEN None ELSE EntryAfter(d, Least(named)).inode_index

LeadsAfter(from, path, to) ==
  \E way \in [0 .. Len(path) -> Inode] :
    /\ way[0] = from /\ way[Len(path)] = to
    /\ \A k \in 1 .. Len(path) : way[k] = ChildAfter(way[k - 1], path[k])

LEMMA LeadsSame ==
  ASSUME UNCHANGED <<inodes, blocks>>, NEW d, NEW ns, NEW x, Leads(d, ns, x)
  PROVE  LeadsAfter(d, ns, x)
<1>1. \A e, j : EntryAfter(e, j) = EntryAt(inodes[e], j)
  BY DEF EntryAfter, EntryAt
<1>2. ASSUME NEW e, NEW nm PROVE ChildAfter(e, nm) = Child(e, nm)
  BY <1>1 DEF Child, ChildAfter, Matches
<1>. QED
  BY <1>2 DEF Leads, LeadsAfter

\* The way of a path, where the disk is left alone.
LEMMA WayBack ==
  ASSUME UNCHANGED <<inodes, blocks>>, NEW ns, NEW x, Leads(Root, ns, x),
         cmd'.names = ns, cmd'.cur.ino = x
  PROVE  Leads(Root, cmd.names, cmd.cur.ino)'
<1>1. LeadsAfter(Root, ns, x)
  BY LeadsSame
<1>2. LeadsAfter(Root, cmd'.names, cmd'.cur.ino)
  BY <1>1
<1>. QED
  BY <1>2 DEF Leads, LeadsAfter, Child, ChildAfter, Matches, EntryAt, EntryAfter

LEMMA WayUp ==
  ASSUME UNCHANGED <<inodes, blocks>>, NEW d, NEW ns, NEW x, Leads(d, ns, x),
         cmd'.at = d, cmd'.names = ns, cmd'.cur.ino = x
  PROVE  Leads(cmd.at, cmd.names, cmd.cur.ino)'
<1>1. LeadsAfter(d, ns, x)
  BY LeadsSame
<1>2. LeadsAfter(cmd'.at, cmd'.names, cmd'.cur.ino)
  BY <1>1
<1>. QED
  BY <1>2 DEF Leads, LeadsAfter, Child, ChildAfter, Matches, EntryAt, EntryAfter

LEMMA WayDown ==
  ASSUME UNCHANGED <<inodes, blocks>>, NEW d, NEW ns, NEW x, Leads(d, ns, x),
         file_table'[call'.at].ino = d, call'.todo = ns, cmd'.cur.ino = x
  PROVE  Leads(file_table[call.at].ino, call.todo, cmd.cur.ino)'
<1>1. LeadsAfter(d, ns, x)
  BY LeadsSame
<1>2. LeadsAfter(file_table'[call'.at].ino, call'.todo, cmd'.cur.ino)
  BY <1>1
<1>. QED
  BY <1>2 DEF Leads, LeadsAfter, Child, ChildAfter, Matches, EntryAt, EntryAfter

LEMMA DoubledSame ==
  ASSUME OnDisk, UNCHANGED <<inodes, blocks, sb>>, Doubled
  PROVE  Doubled'
<1>1. Directories' = Directories
  BY LinksSame
<1>2. Entries' = Entries
  BY <1>1 DEF Entries, EntryAt
<1>. QED
  BY <1>2 DEF Doubled

--------------------------------------------------------------------------------
\* What a call does

\* A new inode is below a directory that was there, and the others stay where they are.
LEMMA TreeGrows ==
  ASSUME IInv, TreeStep, NoLoop
  PROVE  NoLoop' /\ Directories \subseteq Directories'
<1>1. OnDisk /\ Kinds
  BY Parts DEF OnDisk
<1>2. CASE UNCHANGED <<inodes, blocks, sb>>
  <2>1. Allocated' = Allocated /\ Directories' = Directories
    BY <1>1, <1>2, SameDisk, LinksSame
  <2>. QED
    BY <1>2, <2>1 DEF NoLoop
<1>3. CASE CreateStep
  <2>1. PICK d, n, nn, tb, fb : AppendStep(d, n, nn, tb, fb)
    BY <1>3, Creation
  <2>2. AppendTree(d, n, nn)
    BY <2>1, AppendTreeStep
  <2>3. /\ n \notin Allocated /\ d \in Directories /\ Allocated' = Allocated \cup {n}
        /\ \A i \in Allocated : inodes'[i].parent = inodes[i].parent
        /\ inodes'[n].parent = d /\ Directories \subseteq Directories'
    BY <2>2 DEF AppendTree
  <2>4. d \in Allocated /\ inodes[d].parent \in Allocated
    BY <1>1, <2>3, ParentIs DEF Directories
  <2>5. ASSUME NEW i \in Allocated \ {Root} PROVE inodes[i].parent \in Allocated
    BY <1>1, ParentNames DEF Directories
  <2>6. ASSUME NEW i \in Allocated' \ {Root}
        PROVE  inodes'[i].parent # i /\ inodes'[inodes'[i].parent].parent # i
    <3>1. CASE i = n
      <4>1. inodes'[i].parent = d /\ inodes'[d].parent = inodes[d].parent
        BY <2>3, <2>4, <3>1
      <4>. QED
        BY <2>3, <2>4, <3>1, <4>1
    <3>2. CASE i # n
      <4>1. i \in Allocated \ {Root}
        BY <2>3, <2>6, <3>2
      <4>2. inodes[i].parent \in Allocated
        BY <2>5, <4>1
      <4>3. inodes'[i].parent = inodes[i].parent
            /\ inodes'[inodes[i].parent].parent = inodes[inodes[i].parent].parent
        BY <2>3, <4>1, <4>2
      <4>4. inodes[i].parent # i /\ inodes[inodes[i].parent].parent # i
        BY <4>1 DEF NoLoop
      <4>. QED
        BY <4>3, <4>4
    <3>. QED
      BY <3>1, <3>2
  <2>. QED
    BY <2>3, <2>6 DEF NoLoop
<1>4. ASSUME NEW d, NEW k, NEW t, RemoveStep(d, k, t) PROVE NoLoop' /\ Directories \subseteq Directories'
  <2>1. RemoveTree(d, k, t) /\ inodes[t].type = "REG"
    BY <1>4, RemoveWritten, RemoveTreeStep DEF RemoveStep
  <2>2. /\ Allocated' = Allocated \ {t} /\ Directories' = Directories
        /\ \A i \in Allocated' : inodes'[i].parent = inodes[i].parent
    BY <2>1 DEF RemoveTree
  <2>3. ASSUME NEW i \in Allocated' \ {Root}
        PROVE  inodes'[i].parent # i /\ inodes'[inodes'[i].parent].parent # i
    <3>1. i \in Allocated \ {Root} /\ inodes'[i].parent = inodes[i].parent
      BY <2>2, <2>3
    <3>2. inodes[i].parent \in Directories
      BY <1>1, <3>1, ParentNames
    <3>3. inodes[i].parent \in Allocated'
      BY <2>1, <2>2, <3>2 DEF Directories
    <3>4. inodes'[inodes[i].parent].parent = inodes[inodes[i].parent].parent
      BY <2>2, <3>3
    <3>5. inodes[i].parent # i /\ inodes[inodes[i].parent].parent # i
      BY <3>1 DEF NoLoop
    <3>. QED
      BY <3>1, <3>4, <3>5
  <2>. QED
    BY <2>2, <2>3 DEF NoLoop
<1>. QED
  BY <1>2, <1>3, <1>4 DEF TreeStep

\* The file f_open opens is the only thing it enters in the table.
LEMMA OpenedFile ==
  ASSUME IInv, TableInv, Orderly, OpenFile, fds = {}
  PROVE  /\ call' = Idle \/ (call'.pc \in {"blockfault", "tablefault"} /\ fds' = {})
         /\ \A h \in fds' : file_table'[h[1]].ino # None /\ file_table'[h[1]].node.type = "REG"
<1>1. PICK dn, files, n : dn = DirNode /\ files = Files(dn) /\ n = sb.free_inode
  OBVIOUS
<1>2. call.pc = "ready" /\ OnDisk /\ IsTable(file_table) /\ IsCall(call)
  BY Parts DEF OpenFile, TableInv
<1>3. DirIno \in Allocated /\ dn = inodes[DirIno] /\ DirIno \in Inode
  BY <1>1, <1>2, DirSlotRight, RecordedSize
<1>4. ASSUME NEW ft, IsTable(ft), NEW i \in Inode, NEW node, node.type = "REG", table_freehead # None,
             Install(ft, i, node), call' = Idle
      PROVE  /\ call' = Idle
             /\ \A h \in fds' : file_table'[h[1]].ino # None /\ file_table'[h[1]].node.type = "REG"
  <2>1. table_freehead \in Slot
    BY <1>2, <1>4, SlotOfSlot DEF TableInv, FirstFree
  <2>2. \A h \in fds' : h[1] = table_freehead
    BY <1>4 DEF Install
  <2>3. file_table'[table_freehead].ino = i /\ file_table'[table_freehead].node = node
    BY <1>4, <2>1 DEF Install, IsTable, Open
  <2>. QED
    BY <1>4, <2>2, <2>3, Sizes
<1>5. \A k : IsTable([file_table EXCEPT ![DirSlot].byte_offset = k])
  BY <1>2, OffsetKeeps
<1>6. CASE fds' = fds /\ (call' = Idle \/ call'.pc \in {"blockfault", "tablefault"})
  BY <1>6
<1>7. CASE /\ files # {} /\ table_freehead # None
           /\ LET k == Least(files)
                  i == EntryAt(dn, k).inode_index
              IN  Install([file_table EXCEPT ![DirSlot].byte_offset = k + 1], i, inodes[i])
           /\ call' = Idle
  <2>1. PICK k, i, ft : /\ k = Least(files) /\ i = EntryAt(dn, k).inode_index
                        /\ ft = [file_table EXCEPT ![DirSlot].byte_offset = k + 1]
    OBVIOUS
  <2>2. files \subseteq Matches(inodes[DirIno], 0, call.name)
    BY <1>1, <1>3 DEF Files
  <2>3. k \in files
    BY <1>2, <1>3, <1>7, <2>1, <2>2, FirstMatch
  <2>4. inodes[i].type = "REG"
    BY <1>1, <2>1, <2>3 DEF Files
  <2>5. i \in Inode
    BY <1>2, <1>3, <2>1, <2>2, <2>3, LookedUp DEF Allocated
  <2>6. IsTable(ft) /\ Install(ft, i, inodes[i])
    BY <1>5, <1>7, <2>1
  <2>. QED
    BY <1>4, <1>7, <2>4, <2>5, <2>6
<1>8. CASE /\ files = {} /\ call.op = "f_open_write" /\ n # None
           /\ ~ NoBlock(dn) /\ table_freehead # None
           /\ Install(SetNode([file_table EXCEPT ![DirSlot].byte_offset = dn.size], DirSlot, Grown(dn)),
                      n, NewFileNode(dn, n))
           /\ call' = Idle
  <2>1. PICK ft, gt, nn : /\ ft = [file_table EXCEPT ![DirSlot].byte_offset = dn.size]
                          /\ gt = SetNode(ft, DirSlot, Grown(dn)) /\ nn = NewFileNode(dn, n)
    OBVIOUS
  <2>2. IsTable(ft)
    BY <1>5, <2>1
  <2>3. IsTable(gt)
    BY <2>1, <2>2, NodeKeeps
  <2>4. n \in FreeInodes /\ n \in Inode /\ n # DirIno
    BY <1>1, <1>3, <1>8, FreeListFacts DEF Allocated
  <2>5. FreeAfter(dn) \in Block
    BY <1>1, <1>2, <1>8, CreatePlace DEF Appends
  <2>6. nn.type = "REG"
    BY <1>2, <1>3, <2>1, <2>4, <2>5, NewFileIs
  <2>. QED
    BY <1>4, <1>8, <2>1, <2>3, <2>4, <2>6
<1>9. ASSUME NEW kind \in {"blockfault", "tablefault"}, Fault(kind)
      PROVE  fds' = fds /\ call'.pc \in {"blockfault", "tablefault"}
  BY <1>2, <1>9 DEF Fault, table, IsCall
<1>10. ASSUME NEW o, AppendToFull(dn, DirSlot, o) PROVE fds' = fds /\ call' = Idle
  BY <1>10 DEF AppendToFull
<1>. QED
  BY <1>1, <1>6, <1>7, <1>8, <1>9, <1>10 DEF OpenFile

--------------------------------------------------------------------------------
\* The command in progress

Fields == {"pc", "op", "arg", "todo", "cur", "slot", "at", "up", "freed", "names", "rooted", "from"}

IsCmd(c) == c = [f \in Fields |-> c[f]]

IsDir(e) == e = [ino |-> e.ino, name |-> e.name]

LEMMA Forms ==
  /\ DOMAIN Prompt = Fields /\ IsCmd(Prompt) /\ IsCmd(Login)
  /\ DOMAIN Calling = {"mkdir", "rm", "rmdir", "cat", "redirect"}
  /\ IsDir(NoDir) /\ NoDir.ino = None
<1>1. DOMAIN Prompt = Fields /\ IsCmd(Prompt)
  BY DEF Prompt, Fields, IsCmd
<1>2. IsCmd(Login)
  BY <1>1 DEF Login, IsCmd, Fields
<1>3. DOMAIN Calling = {"mkdir", "rm", "rmdir", "cat", "redirect"}
  BY DEF Calling
<1>. QED
  BY <1>1, <1>2, <1>3 DEF NoDir, IsDir

LEMMA CmdForm == CmdRight => IsCmd(cmd) /\ IsDir(pwd) /\ IsDir(cmd.cur)
BY Forms DEF CmdRight, IsCmd, IsDir

\* What is left to show of a command between two calls.
CmdGood ==
  /\ IsCmd(cmd) /\ IsDir(pwd) /\ IsDir(cmd.cur)
  /\ cmd.pc = "open" => cmd.cur.ino = None
  /\ cmd.pc = "issue" => cmd.names \in Seq(FileNames)

LEMMA CmdAfter ==
  ASSUME CmdGood',
         cmd'.pc \in {"prompt", "open", "fault"} \cup Going \cup Climbing,
         cmd'.pc \in {"open"} \cup Going \cup Climbing =>
           cmd'.op \in {"mkdir", "rm", "rmdir", "cat", "redirect", "pwd", "cd", "login"},
         cmd'.op = "login" => cmd'.pc \notin Going \cup Climbing,
         cmd'.op = "cd" => cmd'.pc \notin Climbing,
         cmd'.op = "pwd" => cmd'.pc \notin {"issue", "wait"},
         cmd'.op \in {"mkdir", "rm", "cat", "redirect"} => SX!Last(cmd'.arg) \in Names,
         cmd'.pc \in {"open", "start"} \cup Going => cmd'.names = <<>>
  PROVE  CmdRight'
<1>1. cmd' = [f \in DOMAIN Prompt |-> cmd'[f]] /\ pwd' = [ino |-> pwd'.ino, name |-> pwd'.name]
      /\ cmd'.cur = [ino |-> cmd'.cur.ino, name |-> cmd'.cur.name]
  BY Forms DEF CmdGood, IsCmd, IsDir
<1>2. cmd'.pc # "login"
  BY DEF Going, Climbing
<1>. QED
  BY <1>1, <1>2, Forms DEF CmdRight

\* The shell's own steps: no call is in progress after them.
LEMMA ShellStep ==
  ASSUME NavRight, IInv', TableInv', UNCHANGED <<inodes, blocks, sb>>,
         call'.pc = "idle", fds' = {}, CmdRight', CmdGood', Standing',
         cmd'.pc = "climb" => ClimbRight', cmd'.pc = "issue" => PathLeadsBack', FaultsExplained'
  PROVE  NavRight'
<1>1. CallAsked'
  BY DEF CallAsked, CmdGood
<1>2. FilesClosed'
  BY DEF FilesClosed
<1>3. NoLoop'
  <2>1. Allocated' = Allocated
    BY SameDisk, Parts DEF NavRight
  <2>. QED
    BY <2>1 DEF NavRight, NavInv, NoLoop
<1>4. ClimbRight' /\ PathLeadsBack'
  BY DEF ClimbRight, PathLeadsBack
<1>5. LeadsOn' /\ WorksWhereSent'
  BY DEF LeadsOn, WorksWhereSent, CmdGood
<1>. QED
  BY <1>1, <1>2, <1>3, <1>4, <1>5 DEF NavRight, NavInv

\* What explains a fault at the step where the command is now.
Cause(from) ==
  CASE from = "prompt" -> pwd = NoDir
    [] from = "open"   -> cmd.cur.ino = None \/ root_entry = "freed"
    [] from = "goto"   -> lost /\ cmd.cur.ino = pwd.ino
    [] from = "start"  -> lost /\ cmd.cur.ino = pwd.ino
    [] from = "name"   -> inodes[cmd.cur.ino].parent # Root
    [] from = "climb"  -> cmd.freed
    [] from = "wait"   -> root_entry = "freed" \/ (cmd.op = "rmdir" /\ cmd.names = <<>>)

LEMMA StopMoved ==
  ASSUME NavRight, IInv', TableInv', UNCHANGED <<inodes, blocks, sb, call>>, fds' = {},
         Keeps(file_table, file_table'), UNCHANGED <<pwd, root_entry, lost>>, Stop,
         cmd.pc # "login", cmd.pc # "fault", FirstFree(file_table') # None => Cause(cmd.pc)
  PROVE  NavRight'
<1>1. CmdRight /\ Standing /\ NoLoop /\ IsCmd(cmd) /\ IsDir(pwd) /\ IsDir(cmd.cur)
  BY CmdForm DEF NavRight, NavInv
<1>2. /\ IsCmd(cmd') /\ cmd'.pc = "fault" /\ cmd'.from = cmd.pc /\ cmd'.op = cmd.op /\ cmd'.arg = cmd.arg
      /\ cmd'.names = cmd.names /\ cmd'.cur = cmd.cur /\ cmd'.freed = cmd.freed
  BY <1>1 DEF Stop, IsCmd, Fields
<1>3. CmdGood'
  BY <1>1, <1>2 DEF CmdGood, IsDir
<1>4. CmdRight'
  <2>1. cmd'.op \in {"mkdir", "rm", "cat", "redirect"} => SX!Last(cmd'.arg) \in Names
    BY <1>1, <1>2, Forms DEF CmdRight
  <2>. QED
    BY <1>2, <1>3, <2>1, CmdAfter DEF Going, Climbing
<1>5. CallAsked' /\ FilesClosed'
  BY <1>2 DEF CallAsked, FilesClosed
<1>6. Allocated' = Allocated
  BY SameDisk, Parts DEF NavRight
<1>7. Standing'
  <2>1. 0 \in Slot /\ Root # None
    BY Slots
  <2>2. file_table'[0].ino = Root
    BY <1>1, <2>1 DEF Standing, Keeps
  <2>3. pwd # NoDir => pwd.ino \in Allocated /\ (SlotOf(file_table', pwd.ino) # None \/ lost)
    BY <1>1, InTableIs, KeepsIn, Sizes DEF Standing, Allocated
  <2>. QED
    BY <1>2, <1>6, <2>2, <2>3 DEF Standing, Going
<1>8. NoLoop'
  BY <1>1, <1>6 DEF NoLoop
<1>9. ClimbRight' /\ PathLeadsBack' /\ LeadsOn' /\ WorksWhereSent'
  BY <1>2 DEF ClimbRight, PathLeadsBack, LeadsOn, WorksWhereSent
<1>10. FaultsExplained'
  BY <1>2 DEF FaultsExplained, Cause
<1>. QED
  BY <1>4, <1>5, <1>7, <1>8, <1>9, <1>10 DEF NavRight, NavInv

LEMMA StopRight ==
  ASSUME NavRight, IInv', TableInv', UNCHANGED vars, UNCHANGED <<pwd, root_entry, lost>>, Stop,
         cmd.pc # "login", cmd.pc # "fault", cmd.pc = "wait" => call.pc # "idle",
         FirstFree(file_table) # None => Cause(cmd.pc)
  PROVE  NavRight'
<1>1. UNCHANGED <<inodes, blocks, sb, file_table, fds, call>>
  BY DEF vars
<1>2. fds' = {}
  BY <1>1 DEF NavRight, NavInv, FilesClosed
<1>3. Keeps(file_table, file_table')
  BY <1>1 DEF Keeps
<1>. QED
  BY <1>1, <1>2, <1>3, StopMoved

\* What a step of the shell starts from.
LEMMA NavFacts ==
  ASSUME NavRight
  PROVE  /\ IInv /\ TableInv /\ OnDisk /\ Kinds
         /\ IsTable(file_table) /\ CachedIn(file_table, Allocated, inodes) /\ IsCall(call)
         /\ IsCmd(cmd) /\ IsDir(pwd) /\ IsDir(cmd.cur)
         /\ CmdRight /\ CallAsked /\ FilesClosed /\ Standing /\ NoLoop
         /\ cmd.pc \notin {"open", "wait", "fault"} => call.pc = "idle" /\ fds = {}
         /\ cmd.pc # "login" => file_table[0].ino = Root
BY Parts, CachedIs, CmdForm DEF NavRight, NavInv, TableInv, OnDisk, CallAsked, FilesClosed, Standing

\* The calls' own steps, and none.
LEMMA FsStep ==
  ASSUME NavRight, Orderly, [Next]_vars
  PROVE  IInv' /\ TableInv' /\ TreeStep /\ NotClobbered
BY StepRight, CallStep DEF NavRight, StepOK

LEMMA NothingMoves ==
  ASSUME NavRight, Orderly, UNCHANGED vars
  PROVE  /\ IInv' /\ TableInv' /\ UNCHANGED <<inodes, blocks, sb, file_table, fds, call>>
         /\ Allocated' = Allocated
<1>1. IInv' /\ TableInv'
  BY FsStep
<1>2. UNCHANGED <<inodes, blocks, sb, file_table, fds, call>>
  BY DEF vars
<1>. QED
  BY <1>1, <1>2, SameDisk, NavFacts

--------------------------------------------------------------------------------
\* From command to command

LEMMA NoPwdRight ==
  ASSUME NavRight, Orderly, NoPwd
  PROVE  NavRight'
<1>1. UNCHANGED vars /\ UNCHANGED <<pwd, root_entry, lost>> /\ Stop /\ cmd.pc = "prompt" /\ pwd = NoDir
  BY DEF NoPwd
<1>2. Cause(cmd.pc)
  BY <1>1 DEF Cause
<1>. QED
  BY <1>1, <1>2, NothingMoves, StopRight

LEMMA NotOpenedRight ==
  ASSUME NavRight, Orderly, NotOpened
  PROVE  NavRight'
<1>1. UNCHANGED vars /\ UNCHANGED <<root_entry, lost>> /\ cmd.pc = "open" /\ call.pc = "idle"
  BY DEF NotOpened
<1>2. CASE Stop /\ UNCHANGED pwd
  <2>1. cmd.cur.ino = None
    BY <1>1, NavFacts DEF CallAsked
  <2>2. Cause(cmd.pc)
    BY <1>1, <2>1 DEF Cause
  <2>. QED
    BY <1>1, <1>2, <2>2, NothingMoves, StopRight
<1>3. CASE cmd' = Prompt /\ pwd' = NoDir
  <2>1. /\ IsCmd(cmd') /\ cmd'.pc = "prompt" /\ cmd'.op = "none" /\ IsDir(cmd'.cur) /\ IsDir(pwd')
    BY <1>3, Forms DEF Prompt
  <2>2. CmdGood'
    BY <2>1 DEF CmdGood, IsDir
  <2>3. CmdRight'
    BY <2>1, <2>2, CmdAfter DEF Going, Climbing
  <2>4. fds' = {} /\ call'.pc = "idle"
    BY <1>1, NavFacts DEF FilesClosed, vars
  <2>5. Standing'
    BY <1>1, <1>3, <2>1, NavFacts DEF Standing, Going, vars
  <2>6. FaultsExplained'
    BY <2>1 DEF FaultsExplained
  <2>. QED
    BY <1>1, <2>1, <2>2, <2>3, <2>4, <2>5, <2>6, NothingMoves, ShellStep
<1>. QED
  BY <1>2, <1>3 DEF NotOpened

LEMMA GotoEndRight ==
  ASSUME NavRight, Orderly, GotoEnd
  PROVE  NavRight'
<1>1. UNCHANGED vars /\ UNCHANGED root_entry /\ cmd.pc = "goto" /\ call.pc = "idle" /\ fds = {}
      /\ IsCmd(cmd) /\ IsDir(cmd.cur) /\ IsDir(pwd) /\ Standing /\ CmdRight
      /\ cmd.cur.ino \in Allocated /\ AtHand(cmd.cur.ino)
  BY NavFacts DEF GotoEnd, Standing, Going
<1>2. UNCHANGED <<inodes, blocks, sb, file_table, fds, call>> /\ Allocated' = Allocated
  BY <1>1, NothingMoves
<1>3. CASE cmd' = Prompt /\ pwd' = cmd.cur /\ lost' = (SlotOf(file_table, cmd.cur.ino) = None)
  <2>1. IsCmd(cmd') /\ cmd'.pc = "prompt" /\ cmd'.op = "none" /\ IsDir(cmd'.cur) /\ IsDir(pwd')
    BY <1>1, <1>3, Forms DEF Prompt, IsDir
  <2>2. CmdGood'
    BY <2>1 DEF CmdGood, IsDir
  <2>3. CmdRight'
    BY <2>1, <2>2, CmdAfter DEF Going, Climbing
  <2>4. Standing'
    BY <1>1, <1>2, <1>3, <2>1 DEF Standing, Going
  <2>5. FaultsExplained'
    BY <2>1 DEF FaultsExplained
  <2>. QED
    BY <1>1, <1>2, <2>1, <2>2, <2>3, <2>4, <2>5, NothingMoves, ShellStep
<1>4. CASE cmd.op # "cd" /\ cmd' = [cmd EXCEPT !.pc = "start"] /\ UNCHANGED <<pwd, lost>>
  <2>1. /\ IsCmd(cmd') /\ cmd'.pc = "start" /\ cmd'.op = cmd.op /\ cmd'.arg = cmd.arg
        /\ cmd'.cur = cmd.cur /\ cmd'.names = cmd.names
    BY <1>1, <1>4 DEF IsCmd, Fields
  <2>2. CmdGood'
    BY <1>1, <1>4, <2>1 DEF CmdGood, IsDir
  <2>3. CmdRight'
    <3>1. /\ cmd.op \in {"mkdir", "rm", "rmdir", "cat", "redirect", "pwd", "cd", "login"}
          /\ cmd.op # "login" /\ cmd.names = <<>>
          /\ cmd.op \in {"mkdir", "rm", "cat", "redirect"} => SX!Last(cmd.arg) \in Names
      BY <1>1, Forms DEF CmdRight, Going
    <3>. QED
      BY <1>4, <2>1, <2>2, <3>1, CmdAfter DEF Going, Climbing
  <2>4. Standing'
    BY <1>1, <1>2, <1>4, <2>1 DEF Standing, Going, AtHand
  <2>5. FaultsExplained'
    BY <2>1 DEF FaultsExplained
  <2>. QED
    BY <1>1, <1>2, <2>1, <2>2, <2>3, <2>4, <2>5, NothingMoves, ShellStep
<1>. QED
  BY <1>3, <1>4 DEF GotoEnd

LEMMA DoneRight ==
  ASSUME NavRight, Orderly, Done
  PROVE  NavRight'
<1>1. UNCHANGED vars /\ UNCHANGED <<pwd, lost>> /\ cmd.pc = "wait" /\ call.pc = "idle" /\ fds = {}
      /\ cmd' = Prompt /\ Standing /\ IsDir(pwd)
  BY NavFacts DEF Done
<1>2. UNCHANGED <<inodes, blocks, sb, file_table, fds, call>> /\ Allocated' = Allocated
  BY <1>1, NothingMoves
<1>3. IsCmd(cmd') /\ cmd'.pc = "prompt" /\ cmd'.op = "none" /\ IsDir(cmd'.cur)
  BY <1>1, Forms DEF Prompt
<1>4. CmdGood'
  BY <1>1, <1>3 DEF CmdGood, IsDir
<1>5. CmdRight'
  BY <1>3, <1>4, CmdAfter DEF Going, Climbing
<1>6. Standing'
  BY <1>1, <1>2, <1>3 DEF Standing, Going
<1>7. FaultsExplained'
  BY <1>3 DEF FaultsExplained
<1>. QED
  BY <1>1, <1>2, <1>3, <1>4, <1>5, <1>6, <1>7, NothingMoves, ShellStep

\* The climb has come to the root: the names it collected lead back down.
LEMMA ClimbEndRight ==
  ASSUME NavRight, Orderly, ClimbEnd
  PROVE  NavRight'
<1>1. UNCHANGED vars /\ UNCHANGED <<pwd, lost, root_entry>> /\ cmd.pc = "climb" /\ cmd.at <= 0
      /\ call.pc = "idle" /\ fds = {} /\ Standing /\ IsDir(pwd) /\ IsCmd(cmd) /\ IsDir(cmd.cur)
      /\ CmdRight /\ ClimbRight
  BY NavFacts DEF ClimbEnd, NavRight, NavInv
<1>2. UNCHANGED <<inodes, blocks, sb, file_table, fds, call>> /\ Allocated' = Allocated
  BY <1>1, NothingMoves
<1>3. CASE cmd.op = "pwd" /\ cmd' = [Prompt EXCEPT !.op = "pwd", !.names = cmd.names, !.cur = cmd.cur]
  <2>1. IsCmd(cmd') /\ cmd'.pc = "prompt" /\ cmd'.op = "pwd" /\ cmd'.cur = cmd.cur
    BY <1>3 DEF IsCmd, Fields, Prompt
  <2>2. CmdGood'
    BY <1>1, <2>1 DEF CmdGood, IsDir
  <2>3. CmdRight'
    BY <2>1, <2>2, CmdAfter DEF Going, Climbing
  <2>4. Standing'
    BY <1>1, <1>2, <2>1 DEF Standing, Going
  <2>5. FaultsExplained'
    BY <2>1 DEF FaultsExplained
  <2>. QED
    BY <1>1, <1>2, <2>1, <2>2, <2>3, <2>4, <2>5, NothingMoves, ShellStep
<1>4. CASE cmd.op # "pwd" /\ cmd' = [cmd EXCEPT !.pc = "issue"]
  <2>1. /\ IsCmd(cmd') /\ cmd'.pc = "issue" /\ cmd'.op = cmd.op /\ cmd'.arg = cmd.arg
        /\ cmd'.cur = cmd.cur /\ cmd'.names = cmd.names
    BY <1>1, <1>4 DEF IsCmd, Fields
  <2>2. /\ cmd.at = Root /\ cmd.names \in Seq(FileNames)
        /\ Leads(cmd.at, cmd.names, cmd.cur.ino) \/ Doubled
    <3>1. cmd.at \in Nat /\ Root = 0
      BY <1>1, Sizes DEF ClimbRight, Allocated, Root
    <3>. QED
      BY <1>1, <3>1 DEF ClimbRight
  <2>3. CmdGood'
    BY <1>1, <2>1, <2>2 DEF CmdGood, IsDir
  <2>4. CmdRight'
    <3>1. /\ cmd.op \in {"mkdir", "rm", "rmdir", "cat", "redirect", "pwd", "cd", "login"}
          /\ cmd.op # "login" /\ cmd.op # "cd"
          /\ cmd.op \in {"mkdir", "rm", "cat", "redirect"} => SX!Last(cmd.arg) \in Names
      BY <1>1, Forms DEF CmdRight, Climbing
    <3>. QED
      BY <1>4, <2>1, <2>3, <3>1, CmdAfter DEF Going, Climbing
  <2>5. Standing'
    BY <1>1, <1>2, <2>1 DEF Standing, Going
  <2>6. PathLeadsBack'
    <3>1. CASE Doubled
      BY <1>2, <3>1, DoubledSame, NavFacts DEF PathLeadsBack
    <3>2. CASE Leads(Root, cmd.names, cmd.cur.ino)
      <4>1. PICK ns, x : ns = cmd.names /\ x = cmd.cur.ino
        OBVIOUS
      <4>2. Leads(Root, ns, x) /\ cmd'.names = ns /\ cmd'.cur.ino = x
        BY <2>1, <3>2, <4>1
      <4>3. Leads(Root, cmd.names, cmd.cur.ino)'
        BY <1>2, <4>2, WayBack
      <4>. QED
        BY <4>3 DEF PathLeadsBack
    <3>. QED
      BY <2>2, <3>1, <3>2
  <2>7. FaultsExplained'
    BY <2>1 DEF FaultsExplained
  <2>. QED
    BY <1>1, <1>2, <2>1, <2>3, <2>4, <2>5, <2>6, <2>7, NothingMoves, ShellStep
<1>. QED
  BY <1>3, <1>4 DEF ClimbEnd

\* A step that keeps to the same command, between the same two calls or under way.
LEMMA CmdMoves ==
  ASSUME CmdRight, IsCmd(cmd'), IsDir(cmd'.cur), IsDir(pwd'),
         cmd'.op = cmd.op, cmd'.arg = cmd.arg, cmd'.names = cmd.names, cmd.pc # "login",
         cmd'.pc = cmd.pc \/ (cmd.pc \in Going /\ cmd'.pc \in Going)
  PROVE  CmdRight'
<1>1. cmd' = [f \in DOMAIN Prompt |-> cmd'[f]] /\ pwd' = [ino |-> pwd'.ino, name |-> pwd'.name]
      /\ cmd'.cur = [ino |-> cmd'.cur.ino, name |-> cmd'.cur.name]
  BY Forms DEF IsCmd, IsDir
<1>2. cmd'.pc # "login"
  BY DEF Going
<1>. QED
  BY <1>1, <1>2 DEF CmdRight, Going, Climbing

\* The shell asks for a path to be walked.
LEMMA RootOpened ==
  ASSUME NavRight, call.pc = "idle", fds = {}, NEW c, IsCall(c), OpenRoot(c), c.pc # "ready",
         c.name \in FileNames, c.path \in Seq(STRING \cup FileNames),
         c.op = "f_rmdir" => c.path = <<>> \/ c.path[Len(c.path)] \in FileNames
  PROVE  /\ IInv' /\ TableInv' /\ Keeps(file_table, file_table') /\ file_table'[0].ino = Root
         /\ UNCHANGED <<inodes, blocks, sb>> /\ fds' = {}
         /\ call'.pc = "walk" /\ call'.at = 0 /\ call'.op = c.op /\ call'.todo = c.todo
         /\ call'.path = c.path
<1>1. IInv /\ TableInv /\ IsTable(file_table)
  BY NavFacts
<1>2. UNCHANGED <<inodes, blocks, sb, sbdisk, fds>>
  BY DEF OpenRoot, disk
<1>3. SbDurable'
  BY <1>1, <1>2 DEF IInv, SbDurable
<1>4. IInv'
  BY <1>1, <1>3, OpenRootRight
<1>5. TableInv'
  BY <1>1, OpenRootStep DEF StepOK
<1>6. call'.pc = "walk" /\ call'.at = 0 /\ call'.op = c.op /\ call'.todo = c.todo /\ call'.path = c.path
  BY DEF OpenRoot, IsCall
<1>7. file_table'[0].ino = Root
  BY <1>5, <1>6 DEF TableInv
<1>8. Keeps(file_table, file_table')
  <2>1. file_table[0].ino \in {Root, None}
    BY <1>1 DEF TableInv
  <2>2. \A s \in Slot \ {0} : file_table'[s] = file_table[s]
    BY <1>1 DEF OpenRoot, IsTable
  <2>. QED
    BY <1>7, <2>1, <2>2 DEF Keeps
<1>. QED
  BY <1>2, <1>4, <1>5, <1>6, <1>7, <1>8

\* The working directory stays in the table while nothing is dropped from it.
LEMMA HomeKept ==
  ASSUME NavRight, UNCHANGED <<pwd, lost>>, Keeps(file_table, file_table'), Allocated' = Allocated
  PROVE  pwd' # NoDir => pwd'.ino \in Allocated' /\ (SlotOf(file_table', pwd'.ino) # None \/ lost')
BY InTableIs, KeepsIn, Sizes DEF NavRight, NavInv, Standing, Allocated

LEMMA SameTree ==
  ASSUME NavRight, UNCHANGED <<inodes, blocks, sb>>
  PROVE  NoLoop' /\ Allocated' = Allocated
<1>1. Allocated' = Allocated
  BY SameDisk, NavFacts
<1>. QED
  BY <1>1 DEF NavRight, NavInv, NoLoop

\* f_opendir is on its way.
LEMMA OpeningRight ==
  ASSUME NavRight, cmd.pc \in {"login", "prompt"}, UNCHANGED <<pwd, lost>>,
         NEW c, IsCall(c), OpenRoot(c), c.pc # "ready", c.op = "f_opendir", c.name = NoName, c.path = <<>>,
         IsCmd(cmd'), cmd'.pc = "open", IsDir(cmd'.cur), cmd'.cur.ino = None, cmd'.names = <<>>,
         cmd'.op \in {"mkdir", "rm", "rmdir", "cat", "redirect", "pwd", "cd", "login"},
         cmd'.op \in {"mkdir", "rm", "cat", "redirect"} => SX!Last(cmd'.arg) \in Names
  PROVE  NavRight'
<1>1. call.pc = "idle" /\ fds = {} /\ IsDir(pwd)
  BY NavFacts
<1>2. NoName \in FileNames /\ <<>> \in Seq(STRING \cup FileNames)
  BY IdleCall
<1>3. /\ IInv' /\ TableInv' /\ Keeps(file_table, file_table') /\ file_table'[0].ino = Root
      /\ UNCHANGED <<inodes, blocks, sb>> /\ fds' = {} /\ call'.op = "f_opendir"
  BY <1>1, <1>2, RootOpened
<1>4. NoLoop' /\ Allocated' = Allocated
  BY <1>3, SameTree
<1>5. CmdGood'
  BY <1>1 DEF CmdGood, IsDir
<1>6. CmdRight'
  BY <1>5, CmdAfter DEF Going, Climbing
<1>7. CallAsked' /\ FilesClosed'
  BY <1>3 DEF CallAsked, FilesClosed
<1>8. Standing'
  BY <1>3, <1>4, HomeKept DEF Standing, Going
<1>9. ClimbRight' /\ PathLeadsBack' /\ LeadsOn' /\ WorksWhereSent' /\ FaultsExplained'
  BY DEF ClimbRight, PathLeadsBack, LeadsOn, WorksWhereSent, FaultsExplained
<1>. QED
  BY <1>3, <1>4, <1>6, <1>7, <1>8, <1>9 DEF NavRight, NavInv

LEMMA LogInRight ==
  ASSUME NavRight, LogIn
  PROVE  NavRight'
<1>1. cmd = Login /\ UNCHANGED <<pwd, lost>> /\ cmd.pc = "login"
  BY NavFacts DEF LogIn, CmdRight
<1>2. PICK c : c = [Idle EXCEPT !.op = "f_opendir"]
  OBVIOUS
<1>3. OpenRoot(c)
  BY <1>2 DEF LogIn
<1>4. IsCall(c) /\ c.pc = "idle" /\ c.op = "f_opendir" /\ c.name = NoName /\ c.path = <<>>
  BY <1>2 DEF Idle, IsCall
<1>5. /\ IsCmd(cmd') /\ cmd'.pc = "open" /\ cmd'.op = "login" /\ cmd'.names = <<>>
      /\ cmd'.cur = [NoDir EXCEPT !.name = "/"]
  BY <1>1 DEF LogIn, Login, Prompt, IsCmd, Fields
<1>6. IsDir(cmd'.cur) /\ cmd'.cur.ino = None
  BY <1>5 DEF NoDir, IsDir
<1>. QED
  BY <1>1, <1>3, <1>4, <1>5, <1>6, OpeningRight

LEMMA CommandIs ==
  ASSUME NEW c \in Commands
  PROVE  /\ c.op \in Ops
         /\ c.op \in {"mkdir", "rm", "cat", "redirect"} => SX!Last(c.path) \in Names
BY CommandsAssumption DEF CommandsAssumption, SX!Last

LEMMA EnterRight ==
  ASSUME NavRight, Orderly, NEW c \in Commands, Enter(c)
  PROVE  NavRight'
<1>1. /\ cmd.pc = "prompt" /\ UNCHANGED <<pwd, lost>> /\ pwd # NoDir /\ IsDir(pwd) /\ Standing
      /\ call.pc = "idle" /\ fds = {}
  BY NavFacts DEF Enter
<1>2. /\ c.op \in {"mkdir", "rm", "rmdir", "cat", "redirect", "pwd", "cd", "login"} /\ c.op # "login"
      /\ c.op \in {"mkdir", "rm", "cat", "redirect"} => SX!Last(c.path) \in Names
  BY CommandIs DEF Enter, Ops
<1>3. PICK w : w = Wanted(c)
  OBVIOUS
<1>4. CASE /\ OpenRoot([Idle EXCEPT !.op = "f_opendir", !.todo = w.path])
           /\ cmd' = [Prompt EXCEPT !.pc = "open", !.op = c.op, !.arg = c.path,
                                    !.rooted = w.path = <<>>,
                                    !.cur.name = IF w.path = <<>> THEN "/" ELSE SX!Last(w.path)]
  <2>1. PICK r : r = [Idle EXCEPT !.op = "f_opendir", !.todo = w.path]
    OBVIOUS
  <2>2. OpenRoot(r)
    BY <1>4, <2>1
  <2>3. IsCall(r) /\ r.pc = "idle" /\ r.op = "f_opendir" /\ r.name = NoName /\ r.path = <<>>
    BY <2>1 DEF Idle, IsCall
  <2>4. PICK nm : nm = IF w.path = <<>> THEN "/" ELSE SX!Last(w.path)
    OBVIOUS
  <2>5. cmd' = [Prompt EXCEPT !.pc = "open", !.op = c.op, !.arg = c.path,
                              !.rooted = w.path = <<>>, !.cur.name = nm]
    BY <1>4, <2>4
  <2>6. /\ IsCmd(cmd') /\ cmd'.pc = "open" /\ cmd'.op = c.op /\ cmd'.arg = c.path /\ cmd'.names = <<>>
        /\ cmd'.cur = [NoDir EXCEPT !.name = nm]
    BY <2>5 DEF Prompt, IsCmd, Fields
  <2>7. IsDir(cmd'.cur) /\ cmd'.cur.ino = None
    BY <2>6 DEF NoDir, IsDir
  <2>. QED
    BY <1>1, <1>2, <2>2, <2>3, <2>6, <2>7, OpeningRight
<1>5. ASSUME NEW todo,
             cmd' = [Prompt EXCEPT !.pc = "goto", !.op = c.op, !.arg = c.path, !.cur = pwd, !.todo = todo],
             UNCHANGED vars
      PROVE  NavRight'
  <2>1. /\ IsCmd(cmd') /\ cmd'.pc = "goto" /\ cmd'.op = c.op /\ cmd'.arg = c.path /\ cmd'.names = <<>>
        /\ cmd'.cur = pwd
    BY <1>5 DEF Prompt, IsCmd, Fields
  <2>2. IInv' /\ TableInv' /\ UNCHANGED <<inodes, blocks, sb, file_table, fds, call>> /\ Allocated' = Allocated
    BY <1>5, NothingMoves
  <2>3. CmdGood'
    BY <1>1, <2>1 DEF CmdGood, IsDir
  <2>4. CmdRight'
    BY <1>2, <2>1, <2>3, CmdAfter DEF Going, Climbing
  <2>5. Standing'
    BY <1>1, <2>1, <2>2 DEF Standing, Going, AtHand
  <2>6. FaultsExplained'
    BY <2>1 DEF FaultsExplained
  <2>. QED
    BY <1>1, <2>1, <2>2, <2>3, <2>4, <2>5, <2>6, ShellStep
<1>. QED
  BY <1>3, <1>4, <1>5 DEF Enter

\* f_opendir has found the directory, which stays in the table.
LEMMA OpenedRight ==
  ASSUME NavRight, Orderly, Opened
  PROVE  NavRight'
<1>1. /\ cmd.pc = "open" /\ OpenedDir /\ Standing /\ CmdRight /\ IsCmd(cmd) /\ IsDir(cmd.cur) /\ IsDir(pwd)
      /\ fds = {} /\ file_table[0].ino = Root
  BY NavFacts DEF Opened, FilesClosed
<1>2. PICK n : n = file_table[call.at].ino
  OBVIOUS
<1>3. n \in Allocated /\ SlotOf(file_table, n) # None
  <2>1. call.at \in Slot /\ n # None
    BY <1>1, <1>2, NavFacts DEF OpenedDir, IInv, CallRight
  <2>2. n \in Allocated
    BY <1>2, <2>1, NavFacts DEF CachedIn
  <2>3. InTable(file_table, n)
    BY <1>2, <2>1 DEF InTable
  <2>. QED
    BY <2>2, <2>3, InTableIs
<1>4. IInv' /\ TableInv'
  BY <1>1, FsStep DEF Next
<1>5. UNCHANGED <<inodes, blocks, sb, file_table>> /\ fds' = {} /\ call'.pc = "idle"
  BY <1>1 DEF OpenedDir, disk, table, Idle
<1>6. Allocated' = Allocated
  BY <1>5, SameTree
<1>7. CASE cmd' = Prompt /\ pwd' = [cmd.cur EXCEPT !.ino = n] /\ lost' = FALSE
  <2>1. IsCmd(cmd') /\ cmd'.pc = "prompt" /\ cmd'.op = "none" /\ IsDir(cmd'.cur)
    BY <1>7, Forms DEF Prompt
  <2>2. IsDir(pwd') /\ pwd'.ino = n
    BY <1>1, <1>7 DEF IsDir
  <2>3. CmdGood'
    BY <2>1, <2>2 DEF CmdGood, IsDir
  <2>4. CmdRight'
    BY <2>1, <2>3, CmdAfter DEF Going, Climbing
  <2>5. Standing'
    BY <1>1, <1>3, <1>5, <1>6, <2>1, <2>2 DEF Standing, Going
  <2>6. FaultsExplained'
    BY <2>1 DEF FaultsExplained
  <2>. QED
    BY <1>4, <1>5, <2>1, <2>3, <2>4, <2>5, <2>6, ShellStep
<1>8. CASE /\ cmd.op \notin {"cd", "login"}
           /\ cmd' = [cmd EXCEPT !.pc = "start", !.cur = [cmd.cur EXCEPT !.ino = n]]
           /\ UNCHANGED <<pwd, lost>>
  <2>1. PICK here : here = [cmd.cur EXCEPT !.ino = n]
    OBVIOUS
  <2>2. IsDir(here) /\ here.ino = n
    BY <1>1, <2>1 DEF IsDir
  <2>3. /\ IsCmd(cmd') /\ cmd'.pc = "start" /\ cmd'.op = cmd.op /\ cmd'.arg = cmd.arg
        /\ cmd'.cur = here /\ cmd'.names = cmd.names
    BY <1>1, <1>8, <2>1 DEF IsCmd, Fields
  <2>4. CmdGood'
    BY <1>1, <1>8, <2>2, <2>3 DEF CmdGood, IsDir
  <2>5. CmdRight'
    <3>1. /\ cmd.op \in {"mkdir", "rm", "rmdir", "cat", "redirect", "pwd", "cd", "login"}
          /\ cmd.names = <<>>
          /\ cmd.op \in {"mkdir", "rm", "cat", "redirect"} => SX!Last(cmd.arg) \in Names
      BY <1>1, Forms DEF CmdRight
    <3>. QED
      BY <1>8, <2>3, <2>4, <3>1, CmdAfter DEF Going, Climbing
  <2>6. Standing'
    BY <1>1, <1>3, <1>5, <1>6, <1>8, <2>2, <2>3 DEF Standing, Going, AtHand
  <2>7. FaultsExplained'
    BY <2>3 DEF FaultsExplained
  <2>. QED
    BY <1>4, <1>5, <2>3, <2>4, <2>5, <2>6, <2>7, ShellStep
<1>. QED
  BY <1>2, <1>7, <1>8 DEF Opened

--------------------------------------------------------------------------------
\* goto_destination, a name at a time

\* The directory the shell goes from, in the table.
LEMMA HereIs ==
  ASSUME NavRight, cmd.pc \in {"goto", "start"}, NEW fd, fd = SlotOf(file_table, cmd.cur.ino)
  PROVE  /\ cmd.cur.ino \in Allocated /\ cmd.cur.ino # None
         /\ fd = None => FirstFree(file_table) = None \/ (lost /\ cmd.cur.ino = pwd.ino)
         /\ fd # None => /\ fd \in Slot /\ file_table[fd].ino = cmd.cur.ino
                         /\ file_table[fd].node = inodes[cmd.cur.ino]
<1>1. cmd.cur.ino \in Allocated /\ AtHand(cmd.cur.ino) /\ CachedIn(file_table, Allocated, inodes)
  BY NavFacts DEF Standing, Going
<1>2. cmd.cur.ino # None
  BY <1>1, Sizes DEF Allocated
<1>3. fd # None => fd \in Slot /\ file_table[fd].ino = cmd.cur.ino
  BY SlotOfSlot
<1>4. fd # None => file_table[fd].node = inodes[cmd.cur.ino]
  BY <1>1, <1>2, <1>3 DEF CachedIn
<1>. QED
  BY <1>1, <1>2, <1>3, <1>4 DEF AtHand

\* A table that is none the worse, and a command that has come one step further.
LEMMA GoingRight ==
  ASSUME NavRight, cmd.pc \in Going, cmd'.pc \in Going, UNCHANGED pwd,
         UNCHANGED <<inodes, blocks, sbdisk, sb, call, fds>>, by_open' \subseteq by_open,
         IsTable(file_table'), CachedIn(file_table', Allocated, inodes), file_table'[0].ino = Root,
         IsCmd(cmd'), IsDir(cmd'.cur), cmd'.op = cmd.op, cmd'.arg = cmd.arg, cmd'.names = cmd.names,
         pwd # NoDir => SlotOf(file_table', pwd.ino) # None \/ lost',
         cmd'.cur.ino \in Allocated,
         cmd'.pc = "goto" => AtHand(cmd.cur.ino)'
  PROVE  NavRight'
<1>1. /\ IInv /\ TableInv /\ CmdRight /\ Standing /\ IsDir(pwd) /\ call.pc = "idle" /\ fds = {}
      /\ cmd.pc # "login"
  BY NavFacts DEF Going
<1>2. IInv' /\ TableInv'
  BY <1>1, TableMoves
<1>3. Allocated' = Allocated
  BY SameTree
<1>4. CmdRight'
  BY <1>1, CmdMoves
<1>5. CmdGood'
  BY <1>1 DEF CmdGood, IsDir, Going
<1>6. Standing'
  BY <1>1, <1>3 DEF Standing, Going
<1>7. cmd'.pc \notin {"climb", "issue"} /\ FaultsExplained'
  BY DEF Going, FaultsExplained
<1>. QED
  BY <1>1, <1>2, <1>4, <1>5, <1>6, <1>7, ShellStep

LEMMA GotoRight ==
  ASSUME NavRight, Orderly, Goto
  PROVE  NavRight'
<1>1. PICK fd, name, cur, found :
        /\ fd = SlotOf(file_table, cur.ino) /\ name = Head(cmd.todo) /\ cur = cmd.cur
        /\ found = Named(file_table[fd].node, name)
  OBVIOUS
<1>2. /\ cmd.pc = "goto" /\ cmd.pc \in Going /\ Standing /\ IsCmd(cmd) /\ IsDir(cur) /\ IsDir(pwd)
      /\ UNCHANGED <<inodes, blocks, sbdisk, sb, fds, call, pwd, root_entry>>
      /\ fds = {} /\ call.pc = "idle" /\ file_table[0].ino = Root /\ OnDisk
      /\ IsTable(file_table) /\ CachedIn(file_table, Allocated, inodes)
  BY <1>1, NavFacts DEF Goto, disk, Going
<1>3. /\ cur.ino \in Allocated /\ cur.ino # None
      /\ fd = None => FirstFree(file_table) = None \/ (lost /\ cur.ino = pwd.ino)
      /\ fd # None => /\ fd \in Slot /\ file_table[fd].ino = cur.ino
                      /\ file_table[fd].node = inodes[cur.ino]
  BY <1>1, <1>2, HereIs
<1>4. CASE fd = None /\ Stop /\ UNCHANGED <<file_table, table_freehead, by_open, lost>>
  <2>1. UNCHANGED vars
    BY <1>2, <1>4 DEF vars
  <2>2. FirstFree(file_table) # None => Cause(cmd.pc)
    BY <1>1, <1>2, <1>3, <1>4 DEF Cause
  <2>3. IInv' /\ TableInv'
    BY <2>1, NothingMoves
  <2>. QED
    BY <1>2, <1>4, <2>1, <2>2, <2>3, StopRight
<1>5. ASSUME NEW k \in Nat, fd # None, file_table' = At(file_table, fd, k),
             UNCHANGED by_open, lost => lost',
             IsCmd(cmd'), cmd'.pc \in Going, cmd'.op = cmd.op, cmd'.arg = cmd.arg,
             cmd'.names = cmd.names, IsDir(cmd'.cur), cmd'.cur.ino \in Allocated,
             cmd'.pc = "goto" => cmd'.cur.ino = cur.ino
      PROVE  NavRight'
  <2>1. /\ IsTable(file_table') /\ CachedIn(file_table', Allocated, inodes)
        /\ SameInos(file_table', file_table)
        /\ \A n : SlotOf(file_table', n) = SlotOf(file_table, n)
    BY <1>2, <1>5, AtRight
  <2>2. file_table'[0].ino = Root
    BY <1>2, <2>1, Slots DEF SameInos
  <2>3. pwd # NoDir => SlotOf(file_table', pwd.ino) # None \/ lost'
    BY <1>2, <1>5, <2>1 DEF Standing
  <2>4. cmd'.pc = "goto" => AtHand(cmd.cur.ino)'
    BY <1>1, <1>5, <2>1 DEF AtHand
  <2>. QED
    BY <1>2, <1>5, <2>1, <2>2, <2>3, <2>4, GoingRight
<1>6. CASE /\ fd # None /\ found = {}
           /\ file_table' = At(file_table, fd, 0)
           /\ cmd' = [cmd EXCEPT !.todo = Remaining(@)]
           /\ UNCHANGED <<table_freehead, by_open, lost>>
  <2>1. /\ IsCmd(cmd') /\ cmd'.pc = cmd.pc /\ cmd'.op = cmd.op /\ cmd'.arg = cmd.arg
        /\ cmd'.cur = cur /\ cmd'.names = cmd.names
    BY <1>1, <1>2, <1>6 DEF IsCmd, Fields
  <2>. QED
    BY <1>2, <1>3, <1>5, <1>6, <2>1
<1>7. ASSUME NEW k \in found, fd # None,
             cmd' = [cmd EXCEPT !.pc = IF name = ".." THEN "name" ELSE "parent", !.slot = fd,
                       !.cur = [ino |-> EntryAt(file_table[fd].node, k).inode_index, name |-> name]],
             file_table' = IF cur.ino = Root THEN At(file_table, fd, k + 1)
                           ELSE [file_table EXCEPT ![fd] = FreeEntry],
             by_open' = IF cur.ino = Root THEN by_open ELSE by_open \ {fd},
             lost' = (lost \/ (cur.ino = pwd.ino /\ pwd.ino # Root))
      PROVE  NavRight'
  <2>1. PICK n, to : n = EntryAt(inodes[cur.ino], k).inode_index /\ to = [ino |-> n, name |-> name]
    OBVIOUS
  <2>2. k \in Matches(inodes[cur.ino], 0, name)
    BY <1>1, <1>3, <1>7 DEF Named, First
  <2>3. k \in Nat /\ n \in Allocated
    BY <1>2, <1>3, <2>1, <2>2, LookedUp
  <2>4. PICK to_pc \in {"name", "parent"} : cmd' = [cmd EXCEPT !.pc = to_pc, !.slot = fd, !.cur = to]
    BY <1>3, <1>7, <2>1
  <2>5. /\ IsCmd(cmd') /\ cmd'.pc = to_pc /\ cmd'.op = cmd.op /\ cmd'.arg = cmd.arg
        /\ cmd'.cur = to /\ cmd'.names = cmd.names
    BY <1>2, <2>4 DEF IsCmd, Fields
  <2>6. IsDir(cmd'.cur) /\ cmd'.cur.ino \in Allocated /\ cmd'.pc \in Going /\ cmd'.pc # "goto"
    BY <2>1, <2>3, <2>5 DEF IsDir, Going
  <2>7. CASE cur.ino = Root
    <3>1. k + 1 \in Nat /\ file_table' = At(file_table, fd, k + 1) /\ by_open' = by_open
      BY <1>7, <2>3, <2>7
    <3>. QED
      BY <1>5, <1>7, <2>5, <2>6, <3>1
  <2>8. CASE cur.ino # Root
    <3>1. PICK gt : gt = [file_table EXCEPT ![fd] = FreeEntry]
      OBVIOUS
    <3>2. file_table' = gt /\ by_open' \subseteq by_open
      BY <1>7, <2>8, <3>1
    <3>3. /\ IsTable(gt) /\ CachedIn(gt, Allocated, inodes)
          /\ \A s \in Slot \ {fd} : gt[s] = file_table[s]
      BY <1>2, <1>3, <1>7, <3>1, CacheFree, ZenonT(40)
    <3>4. fd # 0 /\ 0 \in Slot
      BY <1>2, <1>3, <1>7, <2>8, Slots
    <3>5. file_table'[0].ino = Root
      BY <1>2, <3>2, <3>3, <3>4
    <3>6. pwd # NoDir => SlotOf(file_table', pwd.ino) # None \/ lost'
      <4>1. CASE cur.ino = pwd.ino
        BY <1>7, <2>8, <4>1
      <4>2. CASE cur.ino # pwd.ino /\ pwd # NoDir /\ ~ lost
        <5>1. PICK s \in Slot : file_table[s].ino = pwd.ino
          BY <1>2, <4>2, InTableIs DEF Standing, InTable
        <5>2. file_table'[s].ino = pwd.ino
          BY <1>3, <1>7, <3>2, <3>3, <4>2, <5>1
        <5>. QED
          BY <5>2, InTableIs DEF InTable
      <4>. QED
        BY <1>7, <4>1, <4>2
    <3>. QED
      BY <1>2, <2>5, <2>6, <3>2, <3>3, <3>5, <3>6, GoingRight
  <2>. QED
    BY <2>7, <2>8
<1>. QED
  BY <1>1, <1>4, <1>6, <1>7 DEF Goto

\* What the root and every other inode in use is entered in.
LEMMA ParentInUse ==
  ASSUME OnDisk, NEW i \in Allocated
  PROVE  inodes[i].parent \in Directories /\ inodes[i].parent \in Allocated
<1>1. Kinds
  BY DEF OnDisk
<1>2. CASE i = Root
  BY <1>1, <1>2 DEF Kinds, Directories
<1>3. CASE i # Root
  BY <1>3, ParentNames DEF Directories
<1>. QED
  BY <1>2, <1>3

LEMMA GotoNameRight ==
  ASSUME NavRight, Orderly, GotoName
  PROVE  NavRight'
<1>1. PICK i, up, found :
        /\ i = cmd.cur.ino /\ up = SlotOf(file_table, inodes[i].parent)
        /\ found = IF up = None THEN {} ELSE Numbered(file_table[up].node, i)
  OBVIOUS
<1>2. /\ cmd.pc = "name" /\ cmd.pc \in Going /\ Standing /\ IsCmd(cmd) /\ IsDir(cmd.cur) /\ IsDir(pwd)
      /\ UNCHANGED <<inodes, blocks, sbdisk, sb, fds, call, pwd, root_entry, by_open, lost>>
      /\ fds = {} /\ call.pc = "idle" /\ file_table[0].ino = Root /\ OnDisk /\ Kinds /\ NoLoop
      /\ IsTable(file_table) /\ CachedIn(file_table, Allocated, inodes) /\ i \in Allocated
      /\ UNCHANGED table_freehead
  BY <1>1, NavFacts DEF GotoName, disk, Going, Standing
<1>3. inodes[i].parent \in Allocated /\ inodes[i].parent # None
  BY <1>2, ParentInUse, Sizes DEF Allocated
<1>4. up # None => /\ up \in Slot /\ file_table[up].ino = inodes[i].parent
                   /\ file_table[up].node = inodes[inodes[i].parent]
  <2>1. up # None => up \in Slot /\ file_table[up].ino = inodes[i].parent
    BY <1>1, SlotOfSlot
  <2>. QED
    BY <1>2, <1>3, <2>1 DEF CachedIn
<1>5. CASE found = {} /\ Stop /\ UNCHANGED file_table
  <2>1. UNCHANGED vars
    BY <1>2, <1>5 DEF vars
  <2>2. inodes[i].parent # Root
    <3>1. SUFFICES ASSUME inodes[i].parent = Root PROVE FALSE
      OBVIOUS
    <3>2. up # None
      BY <1>1, <1>2, <3>1, InTableIs, Slots DEF InTable
    <3>3. Numbered(inodes[Root], i) = {}
      BY <1>1, <1>4, <1>5, <3>1, <3>2
    <3>4. CASE i # Root
      BY <1>2, <3>1, <3>3, <3>4, ClimbFinds
    <3>5. CASE i = Root
      <4>1. PICK S : S = {k \in 0 .. inodes[Root].size - 1 : EntryAt(inodes[Root], k).inode_index = Root}
        OBVIOUS
      <4>2. Root \in Directories
        BY <1>2 DEF Kinds, Directories
      <4>3. inodes[Root].size \in Nat /\ inodes[Root].size >= 2
        BY <1>2, <4>2, InDirectories
      <4>4. EntryAt(inodes[Root], 0) = Entry(Root, ".")
        BY <1>2, <4>2 DEF OnDisk, EntriesRight
      <4>5. 0 \in S
        BY <4>1, <4>3, <4>4 DEF Entry
      <4>6. S \in SUBSET Nat /\ S # {}
        BY <4>1, <4>3, <4>5
      <4>7. First(S) # {}
        BY <4>6, FirstIs
      <4>. QED
        BY <3>3, <3>5, <4>1, <4>7 DEF Numbered
    <3>. QED
      BY <3>4, <3>5
  <2>3. Cause(cmd.pc)
    BY <1>1, <1>2, <2>2 DEF Cause
  <2>4. IInv' /\ TableInv'
    BY <2>1, NothingMoves
  <2>. QED
    BY <1>2, <1>5, <2>1, <2>3, <2>4, StopRight
<1>6. ASSUME NEW k \in found, NEW nm, file_table' = At(file_table, up, k + 1),
             cmd' = [cmd EXCEPT !.pc = "parent", !.cur.name = nm]
      PROVE  NavRight'
  <2>1. up # None
    BY <1>1, <1>6
  <2>2. PICK p : p = inodes[i].parent
    OBVIOUS
  <2>3. k \in 0 .. inodes[p].size - 1 /\ p \in Directories
    BY <1>1, <1>2, <1>4, <1>6, <2>1, <2>2, ParentInUse DEF Numbered, First
  <2>4. k \in Nat /\ k + 1 \in Nat
    BY <1>2, <2>3, InDirectories
  <2>5. /\ IsTable(file_table') /\ CachedIn(file_table', Allocated, inodes)
        /\ SameInos(file_table', file_table)
        /\ \A n : SlotOf(file_table', n) = SlotOf(file_table, n)
    BY <1>2, <1>6, <2>4, AtRight
  <2>6. file_table'[0].ino = Root
    BY <1>2, <2>5, Slots DEF SameInos
  <2>7. pwd # NoDir => SlotOf(file_table', pwd.ino) # None \/ lost'
    BY <1>2, <2>5 DEF Standing
  <2>8. /\ IsCmd(cmd') /\ cmd'.pc = "parent" /\ cmd'.op = cmd.op /\ cmd'.arg = cmd.arg
        /\ cmd'.cur = [cmd.cur EXCEPT !.name = nm] /\ cmd'.names = cmd.names
    BY <1>2, <1>6 DEF IsCmd, Fields
  <2>9. IsDir(cmd'.cur) /\ cmd'.cur.ino = i /\ cmd'.pc \in Going /\ cmd'.pc # "goto"
    BY <1>1, <1>2, <2>8 DEF IsDir, Going
  <2>. QED
    BY <1>2, <2>5, <2>6, <2>7, <2>8, <2>9, GoingRight
<1>. QED
  BY <1>1, <1>5, <1>6 DEF GotoName

LEMMA GotoParentRight ==
  ASSUME NavRight, Orderly, GotoParent
  PROVE  NavRight'
<1>1. /\ cmd.pc = "parent" /\ cmd.pc \in Going /\ Standing /\ IsCmd(cmd) /\ IsDir(cmd.cur) /\ IsDir(pwd)
      /\ UNCHANGED <<inodes, blocks, sbdisk, sb, fds, call, pwd, root_entry, by_open, lost>>
      /\ file_table[0].ino = Root /\ OnDisk
      /\ IsTable(file_table) /\ CachedIn(file_table, Allocated, inodes) /\ cmd.cur.ino \in Allocated
  BY NavFacts DEF GotoParent, disk, Going, Standing
<1>2. PICK p, gt : p = inodes[cmd.cur.ino].parent /\ gt = Added(file_table, p)
  OBVIOUS
<1>3. p \in Allocated
  BY <1>1, <1>2, ParentInUse
<1>4. IsTable(gt) /\ CachedIn(gt, Allocated, inodes) /\ Keeps(file_table, gt)
  BY <1>1, <1>2, <1>3, AddedRight
<1>5. file_table' = gt /\ cmd' = [cmd EXCEPT !.pc = "self"]
  BY <1>2 DEF GotoParent
<1>6. /\ IsCmd(cmd') /\ cmd'.pc = "self" /\ cmd'.op = cmd.op /\ cmd'.arg = cmd.arg
      /\ cmd'.cur = cmd.cur /\ cmd'.names = cmd.names /\ cmd'.pc \in Going /\ cmd'.pc # "goto"
  BY <1>1, <1>5 DEF IsCmd, Fields, Going
<1>7. file_table'[0].ino = Root
  BY <1>1, <1>4, <1>5, Slots DEF Keeps
<1>8. pwd # NoDir => SlotOf(file_table', pwd.ino) # None \/ lost'
  BY <1>1, <1>4, <1>5, InTableIs, KeepsIn, Sizes DEF Standing, Allocated
<1>. QED
  BY <1>1, <1>4, <1>5, <1>6, <1>7, <1>8, GoingRight

LEMMA GotoSelfRight ==
  ASSUME NavRight, Orderly, GotoSelf
  PROVE  NavRight'
<1>1. /\ cmd.pc = "self" /\ cmd.pc \in Going /\ Standing /\ IsCmd(cmd) /\ IsDir(cmd.cur) /\ IsDir(pwd)
      /\ UNCHANGED <<inodes, blocks, sbdisk, sb, fds, call, pwd, root_entry, by_open, lost>>
      /\ file_table[0].ino = Root /\ OnDisk
      /\ IsTable(file_table) /\ CachedIn(file_table, Allocated, inodes) /\ cmd.cur.ino \in Allocated
  BY NavFacts DEF GotoSelf, disk, Going, Standing
<1>2. PICK n, ft, gt : n = cmd.cur.ino /\ ft = Added(file_table, n) /\ gt = At(ft, cmd.slot, 0)
  OBVIOUS
<1>3. /\ IsTable(ft) /\ CachedIn(ft, Allocated, inodes) /\ Keeps(file_table, ft)
      /\ InTable(ft, n) \/ FirstFree(ft) = None
  BY <1>1, <1>2, AddedRight
<1>4. /\ IsTable(gt) /\ CachedIn(gt, Allocated, inodes) /\ SameInos(gt, ft)
      /\ \A m : SlotOf(gt, m) = SlotOf(ft, m)
  BY <1>2, <1>3, AtRight
<1>5. file_table' = gt /\ cmd' = [cmd EXCEPT !.pc = "goto", !.todo = Tail(@)]
  BY <1>2 DEF GotoSelf
<1>6. /\ IsCmd(cmd') /\ cmd'.pc = "goto" /\ cmd'.op = cmd.op /\ cmd'.arg = cmd.arg
      /\ cmd'.cur = cmd.cur /\ cmd'.names = cmd.names /\ cmd'.pc \in Going
  BY <1>1, <1>5 DEF IsCmd, Fields, Going
<1>7. file_table'[0].ino = Root
  BY <1>1, <1>3, <1>4, <1>5, Slots DEF Keeps, SameInos
<1>8. pwd # NoDir => SlotOf(file_table', pwd.ino) # None \/ lost'
  BY <1>1, <1>3, <1>4, <1>5, InTableIs, KeepsIn, Sizes DEF Standing, Allocated
<1>9. AtHand(cmd.cur.ino)'
  <2>1. SlotOf(gt, n) # None \/ FirstFree(gt) = None
    BY <1>3, <1>4, InTableIs DEF FirstFree
  <2>. QED
    BY <1>2, <1>5, <1>6, <2>1 DEF AtHand
<1>. QED
  BY <1>1, <1>4, <1>5, <1>6, <1>7, <1>8, <1>9, GoingRight

--------------------------------------------------------------------------------
\* convert_absolute, and the call it is for

\* A climb that goes on: the table is in order, and what is climbed leads back down.
LEMMA ClimbingRight ==
  ASSUME NavRight, cmd.pc \in {"start", "climb"}, cmd'.pc = "climb", UNCHANGED <<pwd, lost>>,
         UNCHANGED <<inodes, blocks, sbdisk, sb, call, fds, by_open>>,
         NEW ft, file_table' = ft, IsTable(ft), CachedIn(ft, Allocated, inodes), Keeps(file_table, ft),
         IsCmd(cmd'), cmd'.op = cmd.op, cmd'.arg = cmd.arg, cmd'.cur = cmd.cur,
         NEW i \in Allocated, NEW s \in Slot, NEW ns \in Seq(FileNames),
         cmd'.at = i, cmd'.up = inodes[i].parent, cmd'.slot = s, ft[s].ino = inodes[i].parent,
         cmd'.names = ns,
         Leads(i, ns, cmd.cur.ino) \/ Doubled
  PROVE  NavRight'
<1>1. /\ IInv /\ TableInv /\ CmdRight /\ Standing /\ IsDir(pwd) /\ IsDir(cmd.cur) /\ OnDisk
      /\ call.pc = "idle" /\ fds = {} /\ file_table[0].ino = Root
  BY NavFacts
<1>2. file_table'[0].ino = Root
  BY <1>1, Slots DEF Keeps
<1>3. IInv' /\ TableInv'
  BY <1>1, <1>2, TableMoves
<1>4. Allocated' = Allocated
  BY SameTree
<1>5. CmdGood'
  BY <1>1 DEF CmdGood, IsDir
<1>6. CmdRight'
  <2>1. /\ cmd.op \in {"mkdir", "rm", "rmdir", "cat", "redirect", "pwd", "cd", "login"}
        /\ cmd.op # "login" /\ cmd.op # "cd"
        /\ cmd.op \in {"mkdir", "rm", "cat", "redirect"} => SX!Last(cmd.arg) \in Names
    BY <1>1, Forms DEF CmdRight, Climbing
  <2>. QED
    BY <1>5, <2>1, CmdAfter DEF Going, Climbing
<1>7. Standing'
  <2>1. pwd' # NoDir => pwd'.ino \in Allocated' /\ (SlotOf(file_table', pwd'.ino) # None \/ lost')
    BY <1>4, HomeKept
  <2>. QED
    BY <1>2, <2>1 DEF Standing, Going
<1>8. ClimbRight'
  <2>1. cmd'.at \in Allocated' /\ cmd'.up = inodes'[cmd'.at].parent /\ cmd'.slot \in Slot
        /\ file_table'[cmd'.slot].ino = cmd'.up /\ cmd'.names \in Seq(FileNames)
    BY <1>4
  <2>2. CASE Doubled
    <3>1. Doubled'
      BY <1>1, <2>2, DoubledSame
    <3>. QED
      BY <2>1, <3>1 DEF ClimbRight
  <2>3. CASE Leads(i, ns, cmd.cur.ino)
    <3>1. PICK x : x = cmd.cur.ino
      OBVIOUS
    <3>2. Leads(i, ns, x) /\ cmd'.cur.ino = x
      BY <2>3, <3>1
    <3>3. Leads(cmd.at, cmd.names, cmd.cur.ino)'
      BY <3>2, WayUp
    <3>. QED
      BY <2>1, <3>3 DEF ClimbRight
  <2>. QED
    BY <2>2, <2>3
<1>9. FaultsExplained'
  BY DEF FaultsExplained
<1>. QED
  BY <1>1, <1>3, <1>5, <1>6, <1>7, <1>8, <1>9, ShellStep

LEMMA ClimbStartRight ==
  ASSUME NavRight, Orderly, ClimbStart
  PROVE  NavRight'
<1>1. PICK i, fd, up, ft, ufd :
        /\ i = cmd.cur.ino /\ fd = SlotOf(file_table, i) /\ up = file_table[fd].node.parent
        /\ ft = Added(file_table, up) /\ ufd = SlotOf(ft, up)
  OBVIOUS
<1>2. /\ cmd.pc = "start" /\ Standing /\ CmdRight /\ IsCmd(cmd) /\ IsDir(cmd.cur) /\ IsDir(pwd)
      /\ UNCHANGED <<inodes, blocks, sbdisk, sb, fds, call, pwd, root_entry, by_open, lost>>
      /\ UNCHANGED table_freehead
      /\ file_table[0].ino = Root /\ OnDisk /\ fds = {}
      /\ IsTable(file_table) /\ CachedIn(file_table, Allocated, inodes)
  BY NavFacts DEF ClimbStart, disk
<1>3. /\ i \in Allocated
      /\ fd = None => FirstFree(file_table) = None \/ (lost /\ i = pwd.ino)
      /\ fd # None => up = inodes[i].parent
  BY <1>1, <1>2, HereIs
<1>4. fd # None => up \in Allocated
  BY <1>2, <1>3, ParentInUse
<1>5. CASE Stop /\ UNCHANGED file_table /\ (fd = None \/ ufd = None)
  <2>1. UNCHANGED vars
    BY <1>2, <1>5 DEF vars
  <2>2. FirstFree(file_table) # None => Cause(cmd.pc)
    <3>1. CASE fd = None
      BY <1>1, <1>2, <1>3, <3>1 DEF Cause
    <3>2. CASE fd # None /\ ufd = None
      <4>1. ~ InTable(ft, up)
        BY <1>1, <3>2, InTableIs
      <4>2. FirstFree(file_table) = None
        BY <1>1, <1>2, <1>4, <3>2, <4>1, AddedRight
      <4>. QED
        BY <4>2
    <3>. QED
      BY <1>5, <3>1, <3>2
  <2>3. IInv' /\ TableInv'
    BY <2>1, NothingMoves
  <2>. QED
    BY <1>2, <1>5, <2>1, <2>2, <2>3, StopRight
<1>6. CASE /\ fd # None /\ ufd # None /\ file_table' = At(ft, ufd, 0)
           /\ cmd' = [cmd EXCEPT !.pc = "climb", !.at = i, !.up = up, !.slot = ufd]
  <2>1. IsTable(ft) /\ CachedIn(ft, Allocated, inodes) /\ Keeps(file_table, ft)
    BY <1>1, <1>2, <1>4, <1>6, AddedRight
  <2>2. PICK gt : gt = At(ft, ufd, 0)
    OBVIOUS
  <2>3. IsTable(gt) /\ CachedIn(gt, Allocated, inodes) /\ SameInos(gt, ft)
    BY <2>1, <2>2, AtRight
  <2>4. Keeps(file_table, gt)
    BY <2>1, <2>3 DEF Keeps, SameInos
  <2>5. ufd \in Slot /\ ft[ufd].ino = up
    BY <1>1, <1>6, SlotOfSlot
  <2>6. gt[ufd].ino = inodes[i].parent
    BY <1>3, <1>6, <2>3, <2>5 DEF SameInos
  <2>7. /\ IsCmd(cmd') /\ cmd'.pc = "climb" /\ cmd'.op = cmd.op /\ cmd'.arg = cmd.arg
        /\ cmd'.cur = cmd.cur /\ cmd'.names = cmd.names /\ cmd'.at = i /\ cmd'.up = up
        /\ cmd'.slot = ufd
    BY <1>2, <1>6 DEF IsCmd, Fields
  <2>8. cmd.names = <<>> /\ <<>> \in Seq(FileNames) /\ i \in Inode
    BY <1>2, <1>3 DEF CmdRight, Allocated
  <2>9. Leads(i, <<>>, cmd.cur.ino)
    BY <1>1, <2>8, LeadsHere
  <2>10. PICK ns : ns = cmd.names
    OBVIOUS
  <2>11. ns \in Seq(FileNames) /\ cmd'.names = ns /\ Leads(i, ns, cmd.cur.ino)
    BY <2>7, <2>8, <2>9, <2>10
  <2>12. file_table' = gt /\ cmd'.up = inodes[i].parent
    BY <1>3, <1>6, <2>2, <2>7
  <2>. QED
    BY <1>2, <1>3, <2>3, <2>4, <2>5, <2>6, <2>7, <2>11, <2>12, ClimbingRight
<1>. QED
  BY <1>1, <1>5, <1>6 DEF ClimbStart

LEMMA ClimbStepRight ==
  ASSUME NavRight, Orderly, Climb
  PROVE  NavRight'
<1>1. PICK i, p, s, found :
        /\ i = cmd.at /\ p = cmd.up /\ s = cmd.slot /\ found = Numbered(file_table[s].node, i)
  OBVIOUS
<1>2. /\ cmd.pc = "climb" /\ i > 0 /\ ClimbRight /\ CmdRight /\ IsCmd(cmd) /\ IsDir(cmd.cur)
      /\ UNCHANGED <<inodes, blocks, sbdisk, sb, fds, call, pwd, root_entry, by_open, lost>>
      /\ UNCHANGED table_freehead
      /\ file_table[0].ino = Root /\ OnDisk /\ NoLoop /\ fds = {} /\ call.pc = "idle"
      /\ IInv /\ TableInv
      /\ IsTable(file_table) /\ CachedIn(file_table, Allocated, inodes)
  BY <1>1, NavFacts DEF Climb, disk, NavRight, NavInv
<1>3. /\ i \in Allocated /\ p = inodes[i].parent /\ s \in Slot /\ file_table[s].ino = p
      /\ cmd.names \in Seq(FileNames) /\ (Leads(i, cmd.names, cmd.cur.ino) \/ Doubled)
  BY <1>1, <1>2 DEF ClimbRight
<1>4. i # Root
  BY <1>2 DEF Root
<1>5. p \in Directories /\ p \in Allocated /\ p \in Inode /\ p # None
  <2>1. p \in Directories /\ p \in Allocated
    BY <1>2, <1>3, ParentInUse
  <2>. QED
    BY <2>1, Sizes DEF Allocated
<1>6. file_table[s].node = inodes[p]
  BY <1>2, <1>3, <1>5 DEF CachedIn
<1>7. found # {} /\ \A k \in found : /\ EntryNames(p, k, i) /\ k \in Nat
                                     /\ EntryAt(inodes[p], k).filename \in FileNames
  BY <1>1, <1>2, <1>3, <1>4, <1>6, ClimbFinds
<1>8. CASE (cmd.freed \/ found = {}) /\ Stop /\ UNCHANGED file_table
  <2>1. UNCHANGED vars
    BY <1>2, <1>8 DEF vars
  <2>2. Cause(cmd.pc)
    BY <1>2, <1>7, <1>8 DEF Cause
  <2>3. IInv' /\ TableInv'
    BY <2>1, NothingMoves
  <2>. QED
    BY <1>2, <1>8, <2>1, <2>2, <2>3, StopRight
<1>9. ASSUME NEW k \in found, NEW next, next = EntryAt(inodes[p], 1).inode_index,
             NEW ft, ft = Added(At(file_table, s, k + 1), next), NEW nfd, nfd = SlotOf(ft, next),
             NEW nm, nm = EntryAt(inodes[p], k).filename, NEW freed,
             \/ nfd = None /\ Stop /\ file_table' = ft
             \/ /\ nfd # None /\ file_table' = At(ft, nfd, 0)
                /\ cmd' = [cmd EXCEPT !.names = Collected(nm, @), !.at = p, !.up = next, !.slot = nfd,
                                      !.freed = freed]
      PROVE  NavRight'
  <2>1. EntryNames(p, k, i) /\ k \in Nat /\ k + 1 \in Nat
    BY <1>7
  <2>2. next = inodes[p].parent /\ next \in Allocated
    <3>1. EntryAt(inodes[p], 1) = Entry(inodes[p].parent, "..")
      BY <1>2, <1>5 DEF OnDisk, EntriesRight
    <3>. QED
      BY <1>2, <1>5, <1>9, <3>1, ParentInUse DEF Entry
  <2>3. PICK gt : gt = At(file_table, s, k + 1)
    OBVIOUS
  <2>4. IsTable(gt) /\ CachedIn(gt, Allocated, inodes) /\ SameInos(gt, file_table)
    BY <1>2, <2>1, <2>3, AtRight
  <2>5. gt[0].ino = Root
    BY <1>2, <2>4, Slots DEF SameInos
  <2>6. /\ IsTable(ft) /\ CachedIn(ft, Allocated, inodes) /\ Keeps(gt, ft)
        /\ InTable(ft, next) \/ (ft = gt /\ FirstFree(gt) = None)
    BY <1>9, <2>2, <2>3, <2>4, <2>5, AddedRight
  <2>7. Keeps(file_table, ft)
    BY <2>4, <2>6 DEF Keeps, SameInos
  <2>8. CASE nfd = None /\ Stop /\ file_table' = ft
    <3>1. FirstFree(file_table') = None
      BY <1>9, <2>6, <2>8, InTableIs
    <3>2. file_table'[0].ino = Root
      BY <1>2, <2>7, <2>8, Slots DEF Keeps
    <3>3. IInv' /\ TableInv'
      BY <1>2, <2>6, <2>8, <3>2, TableMoves
    <3>4. Keeps(file_table, file_table') /\ fds' = {}
      BY <1>2, <2>7, <2>8
    <3>. QED
      BY <1>2, <2>8, <3>1, <3>3, <3>4, StopMoved
  <2>9. PICK ns : ns = <<nm>> \o cmd.names
    OBVIOUS
  <2>10. ns \in Seq(FileNames)
    <3>1. PICK ms, F : ms = cmd.names /\ F = FileNames
      OBVIOUS
    <3>2. nm \in F /\ ms \in Seq(F)
      BY <1>3, <1>7, <1>9, <3>1
    <3>3. <<nm>> \o ms \in Seq(F)
      BY <3>2
    <3>. QED
      BY <2>9, <3>1, <3>3
  <2>11. Leads(p, ns, cmd.cur.ino) \/ Doubled
    <3>1. Child(p, nm) = i \/ Doubled
      BY <1>2, <1>9, <2>1, ChildOf
    <3>2. CASE Leads(i, cmd.names, cmd.cur.ino) /\ Child(p, nm) = i
      <4>1. nm \in FileNames
        BY <1>7, <1>9
      <4>2. PICK ms, x : ms = cmd.names /\ x = cmd.cur.ino
        OBVIOUS
      <4>3. Leads(p, <<nm>> \o ms, x)
        BY <1>3, <1>5, <3>2, <4>1, <4>2, LeadsMore
      <4>. QED
        BY <2>9, <4>2, <4>3
    <3>. QED
      BY <1>3, <3>1, <3>2
  <2>12. CASE /\ nfd # None /\ file_table' = At(ft, nfd, 0)
              /\ cmd' = [cmd EXCEPT !.names = Collected(nm, @), !.at = p, !.up = next, !.slot = nfd,
                                    !.freed = freed]
    <3>1. PICK ht : ht = At(ft, nfd, 0)
      OBVIOUS
    <3>2. IsTable(ht) /\ CachedIn(ht, Allocated, inodes) /\ SameInos(ht, ft)
      BY <2>6, <3>1, AtRight
    <3>3. nfd \in Slot /\ ft[nfd].ino = next
      BY <1>9, <2>12, SlotOfSlot
    <3>4. ht[nfd].ino = inodes[p].parent /\ Keeps(file_table, ht)
      BY <2>2, <2>7, <3>2, <3>3 DEF Keeps, SameInos
    <3>5. /\ IsCmd(cmd') /\ cmd'.pc = "climb" /\ cmd'.op = cmd.op /\ cmd'.arg = cmd.arg
          /\ cmd'.cur = cmd.cur /\ cmd'.names = ns /\ cmd'.at = p /\ cmd'.up = next
          /\ cmd'.slot = nfd
      BY <1>2, <2>9, <2>12 DEF IsCmd, Fields, Collected
    <3>6. file_table' = ht /\ cmd'.up = inodes[p].parent
      BY <2>2, <2>12, <3>1, <3>5
    <3>. QED
      BY <1>2, <1>5, <2>10, <2>11, <3>2, <3>3, <3>4, <3>5, <3>6, ClimbingRight
  <2>. QED
    BY <1>9, <2>8, <2>12
<1>10. CASE \E k \in found : \E next \in {EntryAt(file_table[s].node, 1).inode_index} :
             LET ft  == Added(At(file_table, s, k + 1), next)
                 nfd == SlotOf(ft, next)
             IN  IF nfd = None
                 THEN Stop /\ file_table' = ft
                 ELSE /\ file_table' = At(ft, nfd, 0)
                      /\ cmd' = [cmd EXCEPT !.names = Collected(EntryAt(file_table[s].node, k).filename, @),
                                            !.at = p, !.up = next, !.slot = nfd,
                                            !.freed = SlotOf(file_table, next) # None]
  <2>1. PICK k \in found, next \in {EntryAt(file_table[s].node, 1).inode_index} :
             LET ft  == Added(At(file_table, s, k + 1), next)
                 nfd == SlotOf(ft, next)
             IN  IF nfd = None
                 THEN Stop /\ file_table' = ft
                 ELSE /\ file_table' = At(ft, nfd, 0)
                      /\ cmd' = [cmd EXCEPT !.names = Collected(EntryAt(file_table[s].node, k).filename, @),
                                            !.at = p, !.up = next, !.slot = nfd,
                                            !.freed = SlotOf(file_table, next) # None]
    BY <1>10
  <2>2. PICK ft, nfd, nm, freed :
          /\ ft = Added(At(file_table, s, k + 1), next) /\ nfd = SlotOf(ft, next)
          /\ nm = EntryAt(file_table[s].node, k).filename
          /\ freed = (SlotOf(file_table, next) # None)
    OBVIOUS
  <2>3. CASE nfd = None
    <3>1. Stop /\ file_table' = ft
      BY <2>1, <2>2, <2>3
    <3>. QED
      BY <1>6, <1>9, <2>1, <2>2, <2>3, <3>1
  <2>4. CASE nfd # None
    <3>1. /\ file_table' = At(ft, nfd, 0)
          /\ cmd' = [cmd EXCEPT !.names = Collected(nm, @), !.at = p, !.up = next, !.slot = nfd,
                                !.freed = freed]
      BY <2>1, <2>2, <2>4
    <3>. QED
      BY <1>6, <1>9, <2>1, <2>2, <2>4, <3>1, ZenonT(40)
  <2>. QED
    BY <2>3, <2>4
<1>. QED
  BY <1>1, <1>8, <1>10, ZenonT(40) DEF Climb

LEMMA IssueRight ==
  ASSUME NavRight, Orderly, Issue
  PROVE  NavRight'
<1>1. /\ cmd.pc = "issue" /\ UNCHANGED <<pwd, root_entry, lost>> /\ IsCmd(cmd) /\ IsDir(cmd.cur) /\ IsDir(pwd)
      /\ CmdRight /\ Standing /\ LeadsOn /\ PathLeadsBack /\ call.pc = "idle" /\ fds = {} /\ OnDisk
      /\ cmd' = [cmd EXCEPT !.pc = "wait", !.rooted = Sent = <<>>]
  BY NavFacts DEF Issue, NavRight, NavInv
<1>2. /\ cmd.op \in {"mkdir", "rm", "rmdir", "cat", "redirect"}
      /\ cmd.op # "rmdir" => SX!Last(cmd.arg) \in Names
  BY <1>1, Forms DEF CmdRight, Climbing
<1>3. cmd.names \in Seq(FileNames)
  BY <1>1 DEF LeadsOn
<1>4. /\ IsCmd(cmd') /\ cmd'.pc = "wait" /\ cmd'.op = cmd.op /\ cmd'.arg = cmd.arg
      /\ cmd'.cur = cmd.cur /\ cmd'.names = cmd.names
  BY <1>1 DEF IsCmd, Fields
<1>5. PICK c : c = IF cmd.op = "rmdir"
                   THEN [Idle EXCEPT !.op = "f_rmdir", !.todo = Sent, !.path = Sent]
                   ELSE [Idle EXCEPT !.op = Calling[cmd.op], !.todo = Sent, !.name = SX!Last(cmd.arg)]
  OBVIOUS
<1>6. OpenRoot(c)
  BY <1>5 DEF Issue
<1>7. /\ IsCall(c) /\ c.pc = "idle" /\ c.todo = cmd.names /\ c.name \in FileNames
      /\ c.op # "f_opendir" /\ (c.op = "f_rmdir" <=> cmd.op = "rmdir")
      /\ c.path = IF cmd.op = "rmdir" THEN cmd.names ELSE <<>>
  <2>1. CASE cmd.op = "rmdir"
    BY <1>5, <2>1 DEF Sent, Idle, IsCall, NoName, FileNames
  <2>2. CASE cmd.op # "rmdir"
    <3>1. Calling[cmd.op] \notin {"f_opendir", "f_rmdir"}
      BY <1>2, <2>2 DEF Calling
    <3>. QED
      BY <1>2, <1>5, <2>2, <3>1 DEF Sent, Idle, IsCall, FileNames
  <2>. QED
    BY <2>1, <2>2
<1>8. /\ c.path \in Seq(STRING \cup FileNames)
      /\ c.op = "f_rmdir" => c.path = <<>> \/ c.path[Len(c.path)] \in FileNames
  <2>1. \A ns \in Seq(FileNames) : /\ ns \in Seq(STRING \cup FileNames)
                                   /\ ns = <<>> \/ ns[Len(ns)] \in FileNames
    OBVIOUS
  <2>. QED
    BY <1>3, <1>7, <2>1
<1>9. /\ IInv' /\ TableInv' /\ Keeps(file_table, file_table') /\ file_table'[0].ino = Root
      /\ UNCHANGED <<inodes, blocks, sb>> /\ fds' = {}
      /\ call'.pc = "walk" /\ call'.at = 0 /\ call'.op = c.op /\ call'.todo = cmd.names
      /\ call'.path = c.path
  BY <1>1, <1>6, <1>7, <1>8, RootOpened
<1>10. NoLoop' /\ Allocated' = Allocated
  BY <1>9, SameTree
<1>11. CmdGood'
  BY <1>1, <1>4 DEF CmdGood, IsDir
<1>12. CmdRight'
  BY <1>2, <1>4, <1>11, CmdAfter DEF Going, Climbing
<1>13. CallAsked' /\ FilesClosed'
  BY <1>4, <1>7, <1>9 DEF CallAsked, FilesClosed
<1>14. Standing'
  BY <1>1, <1>4, <1>9, <1>10, HomeKept DEF Standing, Going
<1>15. LeadsOn'
  <2>1. CASE Doubled
    BY <1>1, <1>3, <1>4, <1>9, <2>1, DoubledSame DEF LeadsOn
  <2>2. CASE Leads(Root, cmd.names, cmd.cur.ino)
    <3>1. PICK ns, x : ns = cmd.names /\ x = cmd.cur.ino
      OBVIOUS
    <3>2. /\ Leads(Root, ns, x) /\ file_table'[call'.at].ino = Root /\ call'.todo = ns /\ cmd'.cur.ino = x
      BY <1>4, <1>9, <2>2, <3>1
    <3>3. Leads(file_table[call.at].ino, call.todo, cmd.cur.ino)'
      BY <1>9, <3>2, WayDown
    <3>. QED
      BY <1>3, <1>4, <1>9, <3>3 DEF LeadsOn
  <2>. QED
    BY <1>1, <2>1, <2>2 DEF PathLeadsBack
<1>16. ClimbRight' /\ PathLeadsBack' /\ WorksWhereSent' /\ FaultsExplained'
  BY <1>4, <1>9 DEF ClimbRight, PathLeadsBack, WorksWhereSent, FaultsExplained
<1>. QED
  BY <1>9, <1>10, <1>12, <1>13, <1>14, <1>15, <1>16 DEF NavRight, NavInv

--------------------------------------------------------------------------------
\* While a call runs

\* The shell waits: the call is one it asked for, and the working directory is there.
LEMMA WaitingRight ==
  ASSUME NavRight, WorksInDirectory, cmd.pc \in {"open", "wait"}, UNCHANGED pwd,
         IInv', TableInv', NoLoop', Directories \subseteq Directories', file_table'[0].ino = Root,
         IsCmd(cmd'), cmd'.pc = cmd.pc, cmd'.op = cmd.op, cmd'.arg = cmd.arg, cmd'.cur = cmd.cur,
         cmd'.names = cmd.names,
         pwd # NoDir => SlotOf(file_table', pwd.ino) # None \/ lost',
         CallAsked', FilesClosed', LeadsOn', WorksWhereSent'
  PROVE  NavRight'
<1>1. CmdRight /\ Standing /\ IsDir(cmd.cur) /\ IsDir(pwd)
  BY NavFacts
<1>2. CmdRight'
  BY <1>1, CmdMoves
<1>3. pwd # NoDir => pwd.ino \in Allocated'
  <2>1. pwd # NoDir => pwd.ino \in Directories
    BY <1>1 DEF Standing, WorksInDirectory, Directories
  <2>2. \A d \in Directories' : d \in Allocated'
    BY DEF Directories
  <2>. QED
    BY <2>1, <2>2
<1>4. Standing'
  BY <1>3 DEF Standing, Going
<1>5. ClimbRight' /\ PathLeadsBack' /\ FaultsExplained'
  BY DEF ClimbRight, PathLeadsBack, FaultsExplained
<1>. QED
  BY <1>2, <1>4, <1>5 DEF NavRight, NavInv

\* A call that drops nothing keeps the working directory and the root in the table.
LEMMA CallKeeps ==
  ASSUME NavRight, WorksInDirectory, UNCHANGED <<pwd, lost>>, Keeps(file_table, file_table'),
         cmd.pc # "login"
  PROVE  /\ file_table'[0].ino = Root
         /\ pwd # NoDir => SlotOf(file_table', pwd.ino) # None \/ lost'
<1>1. Standing /\ file_table[0].ino = Root
  BY NavFacts
<1>2. file_table'[0].ino = Root
  BY <1>1, Slots DEF Keeps
<1>. QED
  BY <1>1, <1>2, InTableIs, KeepsIn, Sizes DEF Standing, Allocated

\* Where f_opendir's walk goes.
LEMMA WalkedTo ==
  ASSUME IInv, TableInv, Walk, call.todo \in Seq(FileNames)
  PROVE  \/ call' = Idle
         \/ call'.pc = "tablefault"
         \/ /\ call'.pc = "walk" /\ call'.todo = Tail(call.todo)
            /\ file_table'[call'.at].ino = Child(file_table[call.at].ino, Head(call.todo))
<1>1. PICK at, d, found, left, head, n, fd :
        /\ at = call.at /\ d = file_table[at].ino
        /\ found = Matches(file_table[at].node, 0, Head(call.todo))
        /\ left = [file_table EXCEPT ![at] =
                     IF at # 0 THEN FreeEntry
                     ELSE [@ EXCEPT !.byte_offset =
                             IF found = {} THEN file_table[at].node.size ELSE 0]]
        /\ head = (IF at # 0 THEN at ELSE FirstFree(left))
        /\ n = EntryAt(file_table[at].node, Least(found)).inode_index
        /\ fd = SlotOf(left, n)
  OBVIOUS
<1>2. /\ CallRight /\ IsCall(call) /\ CachedIn(file_table, Allocated, inodes)
      /\ IsTable(file_table) /\ call.pc = "walk" /\ call.todo # <<>>
  BY Parts, CachedIs DEF TableInv, Walk
<1>3. at \in Slot /\ file_table[at].node = inodes[d]
  BY <1>1, <1>2 DEF CallRight, CachedIn
<1>4. found # {} => n = Child(d, Head(call.todo))
  BY <1>1, <1>3 DEF Child
<1>5. ASSUME NEW s, found # {}, call' = [call EXCEPT !.at = s, !.todo = Tail(@)], file_table'[s].ino = n
      PROVE  /\ call'.pc = "walk" /\ call'.todo = Tail(call.todo)
             /\ file_table'[call'.at].ino = Child(file_table[call.at].ino, Head(call.todo))
  <2>1. call'.pc = "walk" /\ call'.at = s /\ call'.todo = Tail(call.todo)
    BY <1>2, <1>5 DEF IsCall
  <2>. QED
    BY <1>1, <1>4, <1>5, <2>1
<1>6. CASE /\ found # {} /\ fd # None /\ file_table' = left
           /\ call' = [call EXCEPT !.at = fd, !.todo = Tail(@)]
  <2>1. fd = SlotOf(left, n) /\ fd # None
    BY <1>1, <1>6
  <2>2. left[fd].ino = n
    BY <2>1, SlotOfSlot
  <2>. QED
    BY <1>5, <1>6, <2>2
<1>7. CASE /\ found # {} /\ head # None
           /\ file_table' = [left EXCEPT ![head] = Open(n, inodes[n])]
           /\ call' = [call EXCEPT !.at = head, !.todo = Tail(@)]
  <2>1. head \in Slot
    <3>1. head = at \/ head = SlotOf(left, None)
      BY <1>1 DEF FirstFree
    <3>. QED
      BY <1>3, <1>7, <3>1, SlotOfSlot
  <2>2. DOMAIN left = Slot
    <3>1. DOMAIN file_table = Slot
      BY <1>2 DEF IsTable
    <3>. QED
      BY <1>1, <3>1
  <2>3. file_table'[head].ino = n
    BY <1>7, <2>1, <2>2 DEF Open
  <2>. QED
    BY <1>5, <1>7, <2>3
<1>8. CASE call' = [call EXCEPT !.pc = "tablefault"]
  BY <1>2, <1>8 DEF IsCall
<1>. QED
  BY <1>1, <1>6, <1>7, <1>8 DEF Walk

\* What a walk leaves as it is.
LEMMA WalkLeaves ==
  ASSUME TableInv, Walk
  PROVE  /\ UNCHANGED <<inodes, blocks, sb, fds>>
         /\ \/ call' = Idle
            \/ /\ call'.pc \in {"walk", "tablefault"} /\ call'.op = call.op /\ call'.path = call.path
<1>1. IsCall(call) /\ call.pc = "walk"
  BY DEF TableInv, Walk
<1>2. CASE call' = Idle
  BY <1>2 DEF Walk, disk
<1>3. ASSUME NEW s, call' = [call EXCEPT !.at = s, !.todo = Tail(@)]
      PROVE  call'.pc = "walk" /\ call'.op = call.op /\ call'.path = call.path
  BY <1>1, <1>3 DEF IsCall
<1>4. CASE call' = [call EXCEPT !.pc = "tablefault"]
  <2>1. call'.pc = "tablefault" /\ call'.op = call.op /\ call'.path = call.path
    BY <1>1, <1>4 DEF IsCall
  <2>. QED
    BY <2>1 DEF Walk, disk
<1>5. UNCHANGED <<inodes, blocks, sb, fds>>
  BY DEF Walk, disk
<1>6. call' = Idle \/ call' = [call EXCEPT !.pc = "tablefault"]
      \/ \E s : call' = [call EXCEPT !.at = s, !.todo = Tail(@)]
  BY DEF Walk
<1>. QED
  BY <1>2, <1>3, <1>4, <1>5, <1>6

LEMMA WalkedRight ==
  ASSUME NavRight, NavOrderly, Walked
  PROVE  NavRight'
<1>1. /\ cmd.pc \in {"open", "wait"} /\ Walk /\ UNCHANGED <<pwd, root_entry, cmd>> /\ call.pc = "walk"
      /\ WorksInDirectory /\ Orderly
      /\ lost' = (lost \/ (SlotOf(file_table, pwd.ino) # None /\ SlotOf(file_table', pwd.ino) = None))
  BY DEF Walked, InCall, Walk, NavOrderly
<1>2. /\ IInv /\ TableInv /\ OnDisk /\ Kinds /\ IsCmd(cmd) /\ CallAsked /\ FilesClosed /\ Standing /\ LeadsOn
      /\ file_table[0].ino = Root
  BY <1>1, NavFacts DEF NavRight, NavInv
<1>3. IInv' /\ TableInv' /\ NotClobbered
  BY <1>1, <1>2, FsStep DEF Next
<1>4. /\ UNCHANGED <<inodes, blocks, sb>> /\ fds' = {}
      /\ \/ call' = Idle
         \/ /\ call'.pc \in {"walk", "tablefault"} /\ call'.op = call.op /\ call'.path = call.path
  BY <1>1, <1>2, WalkLeaves DEF FilesClosed
<1>5. NoLoop' /\ Directories' = Directories
  BY <1>2, <1>4, SameTree, LinksSame
<1>6. file_table'[0].ino = Root
  BY <1>1, <1>2, <1>3, Slots DEF NotClobbered
<1>7. pwd # NoDir => SlotOf(file_table', pwd.ino) # None \/ lost'
  BY <1>1, <1>2 DEF Standing
<1>8. CallAsked'
  BY <1>1, <1>2, <1>4 DEF CallAsked, Idle
<1>9. FilesClosed' /\ WorksWhereSent'
  BY <1>4 DEF FilesClosed, WorksWhereSent, Idle
<1>10. LeadsOn'
  <2>1. SUFFICES ASSUME cmd.pc = "wait", call'.pc = "walk", call'.op # "f_rmdir", call'.path = <<>>,
                        root_entry = "live"
                 PROVE  call'.todo \in Seq(FileNames)
                          /\ (Leads(file_table[call.at].ino, call.todo, cmd.cur.ino)' \/ Doubled')
    BY <1>1 DEF LeadsOn
  <2>2. call'.op = call.op /\ call'.path = call.path /\ call' # Idle
    BY <1>4, <2>1 DEF Idle
  <2>3. /\ call.todo \in Seq(FileNames) /\ call.todo # <<>>
        /\ Leads(file_table[call.at].ino, call.todo, cmd.cur.ino) \/ Doubled
    BY <1>1, <1>2, <2>1, <2>2 DEF LeadsOn, Walk
  <2>4. PICK ns, nd, d, x : /\ ns = call.todo /\ nd = Tail(ns) /\ d = Child(file_table[call.at].ino, Head(ns))
                            /\ x = cmd.cur.ino
    OBVIOUS
  <2>5. call'.todo = nd /\ file_table'[call'.at].ino = d
    BY <1>1, <1>2, <2>1, <2>2, <2>3, <2>4, WalkedTo
  <2>6. nd \in Seq(FileNames)
    BY <2>3, <2>4
  <2>7. CASE Doubled
    BY <1>2, <1>4, <2>5, <2>6, <2>7, DoubledSame
  <2>8. CASE Leads(file_table[call.at].ino, call.todo, cmd.cur.ino)
    <3>1. Leads(d, nd, x)
      BY <2>3, <2>4, <2>8, LeadsRest
    <3>2. cmd'.cur.ino = x
      BY <1>1, <2>4
    <3>3. Leads(file_table[call.at].ino, call.todo, cmd.cur.ino)'
      BY <1>4, <2>5, <3>1, <3>2, WayDown
    <3>. QED
      BY <2>5, <2>6, <3>3
  <2>. QED
    BY <2>3, <2>7, <2>8
<1>. QED
  BY <1>1, <1>2, <1>3, <1>5, <1>6, <1>7, <1>8, <1>9, <1>10, WaitingRight

\* The root's entry read from freed memory: the walk may start anywhere.
LEMMA StaleRootRight ==
  ASSUME NavRight, NavOrderly, EndOnStaleRoot
  PROVE  NavRight'
<1>1. /\ cmd.pc \in {"open", "wait"} /\ call.pc = "walk" /\ root_entry = "freed" /\ WorksInDirectory /\ Orderly
      /\ UNCHANGED <<pwd, root_entry, lost>>
  BY DEF EndOnStaleRoot, StaleRoot, InCall, NavOrderly
<1>2. /\ IInv /\ TableInv /\ OnDisk /\ IsCmd(cmd) /\ CallAsked /\ FilesClosed /\ IsCall(call)
      /\ file_table[0].ino = Root /\ IsTable(file_table) /\ CachedIn(file_table, Allocated, inodes)
      /\ DescriptorsRight /\ CallRight /\ SbDurable
  BY <1>1, NavFacts, Parts
<1>3. CASE Stop /\ UNCHANGED vars
  <2>1. Cause(cmd.pc)
    BY <1>1 DEF Cause
  <2>. QED
    BY <1>1, <1>3, <2>1, NothingMoves, StopRight
<1>4. ASSUME NEW s \in Slot, file_table[s].ino \in Inode,
             call' = [call EXCEPT !.at = s], cmd' = [cmd EXCEPT !.rooted = FALSE],
             UNCHANGED <<disk, sb, table>>
      PROVE  NavRight'
  <2>1. UNCHANGED <<inodes, blocks, sbdisk, sb, file_table, by_open, fds>> /\ fds = {}
    BY <1>1, <1>2, <1>4 DEF disk, table, FilesClosed
  <2>2. /\ call'.pc = "walk" /\ call'.at = s /\ call'.op = call.op /\ call'.path = call.path
        /\ call'.name = call.name /\ IsCall(call')
    BY <1>1, <1>2, <1>4 DEF IsCall
  <2>3. /\ IsCmd(cmd') /\ cmd'.pc = cmd.pc /\ cmd'.op = cmd.op /\ cmd'.arg = cmd.arg
        /\ cmd'.cur = cmd.cur /\ cmd'.names = cmd.names
    BY <1>2, <1>4 DEF IsCmd, Fields
  <2>4. CallRight'
    BY <1>1, <1>2, <1>4, <2>1, <2>2, Sizes DEF CallRight
  <2>5. SbDurable' /\ DescriptorsRight'
    BY <1>2, <2>1 DEF SbDurable, DescriptorsRight
  <2>6. IInv'
    BY <1>2, <2>1, <2>4, <2>5, DiskKept
  <2>7. TableInv'
    BY <1>2, <2>1, <2>2 DEF TableInv
  <2>8. NoLoop' /\ Directories' = Directories
    BY <1>2, <2>1, SameTree, LinksSame
  <2>9. Keeps(file_table, file_table')
    BY <2>1 DEF Keeps
  <2>10. CallAsked' /\ FilesClosed' /\ LeadsOn' /\ WorksWhereSent'
    BY <1>1, <1>2, <2>1, <2>2, <2>3 DEF CallAsked, FilesClosed, LeadsOn, WorksWhereSent
  <2>11. /\ file_table'[0].ino = Root
         /\ pwd # NoDir => SlotOf(file_table', pwd.ino) # None \/ lost'
    BY <1>1, <2>9, CallKeeps
  <2>. QED
    BY <1>1, <2>3, <2>6, <2>7, <2>8, <2>10, <2>11, WaitingRight
<1>. QED
  BY <1>3, <1>4 DEF EndOnStaleRoot

\* What is left of a call after the steps that end it or take it further.
LEMMA CalledLeaves ==
  ASSUME IInv, TableInv, PathEnd \/ Mkdir \/ Remove \/ RmdirOpened \/ RmdirDescend
  PROVE  /\ fds' = fds /\ call.pc \in {"walk", "ready", "helper"}
         /\ \/ call' = Idle
            \/ call'.pc = "blockfault" /\ call'.op = call.op /\ call'.path = call.path
            \/ /\ PathEnd /\ call.pc = "walk" /\ call.todo = <<>> /\ UNCHANGED <<inodes, blocks, sb, file_table>>
               /\ call'.pc = "ready" /\ call'.at = call.at /\ call'.op = call.op /\ call'.path = call.path
            \/ /\ call'.pc = "helper" /\ call'.op = call.op
               /\ call'.path = call.path \/ call'.path # <<>>
<1>1. IsCall(call) /\ call.path \in Seq(STRING \cup FileNames)
  BY Parts DEF TableInv, CallRight
<1>2. CASE PathEnd
  BY <1>1, <1>2 DEF PathEnd, IsCall, disk
<1>3. CASE Mkdir
  <2>1. call.pc = "ready" /\ fds' = fds
    BY <1>3 DEF Mkdir, Fault, AppendToFull, table
  <2>2. call' = Idle \/ Fault("blockfault")
    BY <1>3 DEF Mkdir, AppendToFull
  <2>3. Fault("blockfault") => call'.pc = "blockfault" /\ call'.op = call.op /\ call'.path = call.path
    BY <1>1 DEF Fault, IsCall
  <2>. QED
    BY <2>1, <2>2, <2>3
<1>4. CASE Remove
  BY <1>4 DEF Remove
<1>5. CASE RmdirOpened
  BY <1>1, <1>5 DEF RmdirOpened, IsCall, table
<1>6. CASE RmdirDescend
  <2>1. PICK i, nm : call' = [call EXCEPT !.at = i, !.path = Append(@, nm)]
    BY <1>6 DEF RmdirDescend
  <2>2. PICK path : path = Append(call.path, nm)
    OBVIOUS
  <2>3. path # <<>>
    BY <1>1, <2>2
  <2>4. call'.pc = call.pc /\ call'.op = call.op /\ call'.path = path
    BY <1>1, <2>1, <2>2 DEF IsCall
  <2>5. call.pc = "helper" /\ fds' = fds
    BY <1>6 DEF RmdirDescend, table
  <2>. QED
    BY <2>3, <2>4, <2>5
<1>. QED
  BY <1>2, <1>3, <1>4, <1>5, <1>6

LEMMA CalledRight ==
  ASSUME NavRight, NavOrderly, Called
  PROVE  NavRight'
<1>1. /\ cmd.pc \in {"open", "wait"} /\ WorksInDirectory /\ Orderly
      /\ UNCHANGED <<pwd, root_entry, cmd, lost>>
      /\ PathEnd \/ Mkdir \/ Remove \/ RmdirOpened \/ RmdirDescend
  BY DEF Called, InCall, NavOrderly
<1>2. /\ IInv /\ TableInv /\ OnDisk /\ IsCmd(cmd) /\ CallAsked /\ FilesClosed /\ LeadsOn
  BY <1>1, NavFacts DEF NavRight, NavInv
<1>3. IInv' /\ TableInv' /\ TreeStep /\ NotClobbered
  BY <1>1, <1>2, FsStep DEF Next
<1>4. NoLoop' /\ Directories \subseteq Directories'
  BY <1>2, <1>3, NavFacts, TreeGrows
<1>5. /\ fds' = fds /\ call.pc \in {"walk", "ready", "helper"}
      /\ \/ call' = Idle
         \/ call'.pc = "blockfault" /\ call'.op = call.op /\ call'.path = call.path
         \/ /\ PathEnd /\ call.pc = "walk" /\ call.todo = <<>> /\ UNCHANGED <<inodes, blocks, sb, file_table>>
            /\ call'.pc = "ready" /\ call'.at = call.at /\ call'.op = call.op /\ call'.path = call.path
         \/ /\ call'.pc = "helper" /\ call'.op = call.op
            /\ call'.path = call.path \/ call'.path # <<>>
  BY <1>1, <1>2, CalledLeaves
<1>6. fds' = {}
  BY <1>2, <1>5 DEF FilesClosed
<1>7. Keeps(file_table, file_table')
  <2>1. CASE PathEnd
    BY <2>1 DEF PathEnd, Keeps
  <2>2. CASE ~ PathEnd
    <3>1. call.pc \notin {"walk", "idle"}
      BY <1>1, <2>2 DEF Mkdir, Remove, RmdirOpened, RmdirDescend
    <3>. QED
      BY <1>3, <3>1 DEF NotClobbered, Keeps
  <2>. QED
    BY <2>1, <2>2
<1>8. /\ file_table'[0].ino = Root
      /\ pwd # NoDir => SlotOf(file_table', pwd.ino) # None \/ lost'
  BY <1>1, <1>7, CallKeeps
<1>9. CallAsked'
  <2>1. CASE call' = Idle \/ call'.pc = "blockfault"
    <3>1. call'.pc \notin {"walk", "ready", "helper"}
      BY <2>1 DEF Idle
    <3>2. cmd.pc \in {"open", "wait"} /\ (cmd.pc = "open" => cmd.cur.ino = None)
      BY <1>1, <1>2 DEF CallAsked
    <3>3. call'.pc = "blockfault" => call'.op = call.op /\ call'.path = call.path
      BY <1>5 DEF Idle
    <3>4. call' = Idle => call'.pc = "idle"
      BY DEF Idle
    <3>. QED
      BY <1>1, <1>2, <1>5, <2>1, <3>1, <3>2, <3>3, <3>4 DEF CallAsked
  <2>2. CASE call'.pc \in {"ready", "helper"} /\ call'.op = call.op
             /\ (call'.path = call.path \/ call'.path # <<>>)
    BY <1>1, <1>2, <1>5, <2>2 DEF CallAsked
  <2>. QED
    BY <1>5, <2>1, <2>2
<1>10. FilesClosed'
  BY <1>6 DEF FilesClosed
<1>11. LeadsOn'
  BY <1>1, <1>5 DEF LeadsOn, Idle
<1>12. WorksWhereSent'
  <2>1. SUFFICES ASSUME cmd.pc = "wait", call'.pc = "ready", call'.op # "f_rmdir", call'.path = <<>>,
                        root_entry = "live"
                 PROVE  file_table'[call'.at].ino = cmd.cur.ino \/ Doubled'
    BY <1>1 DEF WorksWhereSent
  <2>2. /\ call.pc = "walk" /\ call.todo = <<>> /\ UNCHANGED <<inodes, blocks, sb, file_table>>
        /\ call'.at = call.at /\ call'.op = call.op /\ call'.path = call.path
    BY <1>5, <2>1 DEF Idle
  <2>3. Leads(file_table[call.at].ino, <<>>, cmd.cur.ino) \/ Doubled
    BY <1>2, <2>1, <2>2 DEF LeadsOn
  <2>4. CASE Doubled
    BY <1>2, <2>2, <2>4, DoubledSame
  <2>5. CASE Leads(file_table[call.at].ino, <<>>, cmd.cur.ino)
    BY <2>2, <2>5, LeadsHere
  <2>. QED
    BY <2>3, <2>4, <2>5
<1>. QED
  BY <1>1, <1>2, <1>3, <1>4, <1>8, <1>9, <1>10, <1>11, <1>12, WaitingRight

LEMMA CalledOpenRight ==
  ASSUME NavRight, NavOrderly, CalledOpen
  PROVE  NavRight'
<1>1. /\ cmd.pc \in {"open", "wait"} /\ WorksInDirectory /\ Orderly /\ OpenFile
      /\ UNCHANGED <<pwd, cmd, lost>> /\ call.pc = "ready" /\ call.op \in {"f_open_read", "f_open_write"}
  BY DEF CalledOpen, InCall, NavOrderly, OpenFile
<1>2. IInv /\ TableInv /\ IsCmd(cmd) /\ CallAsked /\ FilesClosed
  BY <1>1, NavFacts
<1>3. IInv' /\ TableInv' /\ TreeStep /\ NotClobbered
  BY <1>1, <1>2, FsStep DEF Next
<1>4. NoLoop' /\ Directories \subseteq Directories'
  BY <1>2, <1>3, NavFacts, TreeGrows
<1>5. cmd.pc = "wait" /\ fds = {}
  BY <1>1, <1>2 DEF CallAsked, FilesClosed
<1>6. /\ call' = Idle \/ (call'.pc \in {"blockfault", "tablefault"} /\ fds' = {})
      /\ \A h \in fds' : file_table'[h[1]].ino # None /\ file_table'[h[1]].node.type = "REG"
  BY <1>1, <1>2, <1>5, OpenedFile
<1>7. Keeps(file_table, file_table')
  BY <1>1, <1>3 DEF NotClobbered, Keeps
<1>8. /\ file_table'[0].ino = Root
      /\ pwd # NoDir => SlotOf(file_table', pwd.ino) # None \/ lost'
  BY <1>1, <1>7, CallKeeps
<1>9. call'.pc \notin {"walk", "ready", "helper"} /\ (call' = Idle => call'.pc = "idle")
  BY <1>6 DEF Idle
<1>10. call'.pc # "idle" => call'.op = call.op
  <2>1. \A kind : Fault(kind) => call'.op = call.op
    BY <1>2 DEF Fault, TableInv, IsCall
  <2>2. call' = Idle \/ Fault("blockfault") \/ Fault("tablefault")
    BY <1>1 DEF OpenFile, AppendToFull
  <2>. QED
    BY <2>1, <2>2 DEF Idle
<1>11. CallAsked'
  BY <1>1, <1>5, <1>6, <1>9, <1>10 DEF CallAsked
<1>12. FilesClosed'
  BY <1>1, <1>5, <1>6, <1>9 DEF FilesClosed
<1>13. LeadsOn' /\ WorksWhereSent'
  BY <1>1, <1>5, <1>9 DEF LeadsOn, WorksWhereSent
<1>. QED
  BY <1>1, <1>2, <1>3, <1>4, <1>8, <1>11, <1>12, <1>13, WaitingRight

\* f_rmdir_helper calls f_remove on the leaf it has reached.
LEMMA CalledLeafRight ==
  ASSUME NavRight, NavOrderly, CalledLeaf
  PROVE  NavRight'
<1>1. /\ cmd.pc \in {"open", "wait"} /\ WorksInDirectory /\ Orderly /\ call.pc = "helper"
      /\ UNCHANGED <<pwd, root_entry, lost>>
  BY DEF CalledLeaf, InCall, NavOrderly, RmdirLeaf
<1>2. /\ IInv /\ TableInv /\ IsCmd(cmd) /\ CallAsked /\ FilesClosed /\ CallRight /\ OnDisk
  BY <1>1, NavFacts, Parts
<1>3. call.op = "f_rmdir"
  BY <1>1, <1>2 DEF CallRight
<1>4. cmd.pc = "wait" /\ fds = {}
  BY <1>1, <1>2, <1>3 DEF CallAsked, FilesClosed
<1>5. CASE call.path = <<>> /\ Stop /\ UNCHANGED vars
  <2>1. Cause(cmd.pc)
    BY <1>1, <1>2, <1>3, <1>4, <1>5 DEF CallAsked, Cause
  <2>. QED
    BY <1>1, <1>4, <1>5, <2>1, NothingMoves, StopRight
<1>6. ASSUME NEW rooted, RmdirLeaf, cmd' = [cmd EXCEPT !.rooted = rooted]
      PROVE  NavRight'
  <2>1. IInv' /\ TableInv' /\ NotClobbered
    BY <1>1, <1>2, <1>6, FsStep DEF Next
  <2>2. PICK r, path, len, todo :
          /\ r = Idle /\ path = call.path /\ len = Len(path) /\ todo = SubSeq(path, 1, len - 1)
    OBVIOUS
  <2>3. path # <<>> /\ IsCall(r)
    BY <1>6, <2>2, IdleCall DEF RmdirLeaf
  <2>4. PICK c : c = [r EXCEPT !.op = "f_remove", !.name = path[len], !.todo = todo, !.path = path]
    OBVIOUS
  <2>5. OpenRoot(c)
    BY <1>6, <2>2, <2>4 DEF RmdirLeaf
  <2>6. IsCall(c) /\ c.op = "f_remove" /\ c.path = path
    BY <2>3, <2>4 DEF IsCall
  <2>7. /\ call'.pc = "walk" /\ call'.op = "f_remove" /\ call'.path # <<>>
        /\ UNCHANGED <<inodes, blocks, sb>> /\ fds' = {}
    BY <1>4, <2>3, <2>5, <2>6 DEF OpenRoot, IsCall, disk
  <2>8. NoLoop' /\ Directories' = Directories
    BY <1>2, <2>7, SameTree, LinksSame
  <2>9. Keeps(file_table, file_table')
    BY <1>1, <2>1 DEF NotClobbered, Keeps
  <2>10. /\ file_table'[0].ino = Root
         /\ pwd # NoDir => SlotOf(file_table', pwd.ino) # None \/ lost'
    BY <1>1, <2>9, CallKeeps
  <2>11. /\ IsCmd(cmd') /\ cmd'.pc = cmd.pc /\ cmd'.op = cmd.op /\ cmd'.arg = cmd.arg
         /\ cmd'.cur = cmd.cur /\ cmd'.names = cmd.names
    BY <1>2, <1>6 DEF IsCmd, Fields
  <2>12. CallAsked' /\ FilesClosed' /\ LeadsOn' /\ WorksWhereSent'
    BY <1>4, <2>7, <2>11 DEF CallAsked, FilesClosed, LeadsOn, WorksWhereSent
  <2>. QED
    BY <1>1, <2>1, <2>8, <2>10, <2>11, <2>12, WaitingRight
<1>. QED
  BY <1>5, <1>6 DEF CalledLeaf

\* The file that is closed is not the working directory.
LEMMA CloseFileRight ==
  ASSUME NavRight, NavOrderly, CloseFile
  PROVE  NavRight'
<1>1. /\ cmd.pc = "wait" /\ WorksInDirectory /\ Orderly /\ UNCHANGED <<pwd, root_entry, cmd, lost>>
      /\ \E h \in fds : Close(h[1])
  BY DEF CloseFile, NavOrderly
<1>2. /\ IInv /\ TableInv /\ IsCmd(cmd) /\ CallAsked /\ FilesClosed /\ OnDisk /\ Standing
      /\ IsTable(file_table) /\ CachedIn(file_table, Allocated, inodes) /\ file_table[0].ino = Root
  BY <1>1, NavFacts
<1>3. PICK h \in fds : Close(h[1])
  BY <1>1
<1>4. PICK s \in Slot \ {0} : s = h[1]
  BY <1>2, <1>3 DEF TableInv
<1>5. /\ call.pc = "idle" /\ UNCHANGED <<inodes, blocks, sb, call>>
      /\ file_table' = [file_table EXCEPT ![s] = FreeEntry]
      /\ fds' = {g \in fds : g[1] # s}
  BY <1>3, <1>4 DEF Close, disk
<1>6. IInv' /\ TableInv'
  BY <1>1, <1>3, <1>4, FsStep DEF Next
<1>7. NoLoop' /\ Directories' = Directories
  BY <1>2, <1>5, SameTree, LinksSame
<1>8. \A t \in Slot \ {s} : file_table'[t] = file_table[t]
  BY <1>2, <1>5 DEF IsTable
<1>9. file_table[s].ino # None /\ inodes[file_table[s].ino].type = "REG"
  BY <1>2, <1>3, <1>4 DEF FilesClosed, CachedIn
<1>10. file_table'[0].ino = Root
  BY <1>2, <1>4, <1>8, Slots
<1>11. pwd # NoDir => SlotOf(file_table', pwd.ino) # None \/ lost'
  <2>1. SUFFICES ASSUME pwd # NoDir, ~ lost PROVE SlotOf(file_table', pwd.ino) # None
    BY <1>1
  <2>2. PICK t \in Slot : file_table[t].ino = pwd.ino
    BY <1>2, <2>1, InTableIs DEF Standing, InTable
  <2>3. t # s
    BY <1>1, <1>9, <2>1, <2>2 DEF WorksInDirectory
  <2>4. InTable(file_table', pwd.ino)
    BY <1>8, <2>2, <2>3 DEF InTable
  <2>. QED
    BY <2>4, InTableIs
<1>12. CallAsked'
  BY <1>1, <1>2, <1>5 DEF CallAsked
<1>13. FilesClosed'
  <2>1. \A g \in fds' : g \in fds /\ g[1] \in Slot \ {s}
    BY <1>2, <1>5 DEF TableInv
  <2>2. \A g \in fds' : file_table'[g[1]] = file_table[g[1]]
    BY <1>8, <2>1
  <2>. QED
    BY <1>1, <1>2, <1>5, <2>1, <2>2 DEF FilesClosed
<1>14. LeadsOn' /\ WorksWhereSent'
  BY <1>1, <1>5 DEF LeadsOn, WorksWhereSent
<1>. QED
  BY <1>1, <1>2, <1>6, <1>7, <1>10, <1>11, <1>12, <1>13, <1>14, WaitingRight

--------------------------------------------------------------------------------
\* ls, and the end of a process

LEMMA ListRight ==
  ASSUME NavRight, Orderly, List
  PROVE  NavRight'
<1>1. PICK n, ft, fd : n = pwd.ino /\ ft = Added(file_table, n) /\ fd = SlotOf(ft, n)
  OBVIOUS
<1>2. /\ cmd.pc = "prompt" /\ pwd # NoDir /\ IsCmd(cmd) /\ IsDir(cmd.cur) /\ IsDir(pwd) /\ CmdRight
      /\ UNCHANGED <<inodes, blocks, sbdisk, sb, fds, call, pwd, root_entry, by_open>>
      /\ file_table[0].ino = Root /\ OnDisk /\ fds = {} /\ call.pc = "idle" /\ IInv /\ TableInv
      /\ IsTable(file_table) /\ CachedIn(file_table, Allocated, inodes) /\ n \in Allocated
  BY <1>1, NavFacts DEF List, disk, Standing
<1>3. /\ IsTable(ft) /\ CachedIn(ft, Allocated, inodes) /\ Keeps(file_table, ft)
      /\ InTable(ft, n) \/ FirstFree(ft) = None
  BY <1>1, <1>2, AddedRight
<1>4. CASE fd = None /\ Stop /\ UNCHANGED <<file_table, lost>>
  <2>1. FirstFree(file_table') = None
    <3>1. ft = file_table /\ FirstFree(file_table) = None
      BY <1>1, <1>2, <1>4, AddedRight, InTableIs
    <3>. QED
      BY <1>4, <3>1
  <2>2. CachedIn(file_table', Allocated, inodes) /\ IsTable(file_table') /\ file_table'[0].ino = Root
        /\ Keeps(file_table, file_table')
    BY <1>2, <1>4 DEF Keeps
  <2>3. IInv' /\ TableInv'
    BY <1>2, <2>2, TableMoves
  <2>4. fds' = {} /\ FirstFree(file_table') = None
    BY <1>2, <2>1
  <2>. QED
    BY <1>2, <1>4, <2>2, <2>3, <2>4, StopMoved
<1>5. ASSUME NEW z, z = ft[fd].node.size, fd # None, file_table' = At(ft, fd, z), UNCHANGED cmd
      PROVE  NavRight'
  <2>1. fd \in Slot /\ ft[fd].ino = n
    BY <1>1, <1>5, SlotOfSlot
  <2>2. z \in Nat /\ n # None
    BY <1>2, <1>3, <1>5, <2>1, RecordedSize DEF CachedIn
  <2>3. PICK gt : gt = At(ft, fd, z)
    OBVIOUS
  <2>4. IsTable(gt) /\ CachedIn(gt, Allocated, inodes) /\ SameInos(gt, ft)
    BY <1>3, <2>2, <2>3, AtRight
  <2>5. file_table' = gt
    BY <1>5, <2>3
  <2>6. file_table'[0].ino = Root
    BY <1>2, <1>3, <2>4, <2>5, Slots DEF Keeps, SameInos
  <2>7. IInv' /\ TableInv'
    BY <1>2, <2>4, <2>5, <2>6, TableMoves
  <2>8. SlotOf(file_table', n) # None
    BY <2>1, <2>4, <2>5, InTableIs DEF InTable, SameInos
  <2>9. Allocated' = Allocated
    BY <1>2, SameTree
  <2>10. CmdGood'
    BY <1>2, <1>5 DEF CmdGood, IsDir
  <2>11. CmdRight'
    BY <1>2, <1>5, CmdMoves
  <2>12. Standing'
    BY <1>1, <1>2, <1>5, <2>6, <2>8, <2>9 DEF Standing, Going
  <2>13. FaultsExplained'
    BY <1>2, <1>5 DEF FaultsExplained
  <2>. QED
    BY <1>2, <1>5, <2>7, <2>10, <2>11, <2>12, <2>13, ShellStep
<1>. QED
  BY <1>1, <1>4, <1>5 DEF List

LEMMA ExitRight ==
  ASSUME NavRight, Exit
  PROVE  NavRight'
<1>1. /\ IInv /\ TableInv /\ OnDisk /\ call.pc = "idle" /\ IsCall(call) /\ SbDurable /\ CallRight
  BY NavFacts, Parts DEF Exit
<1>2. /\ UNCHANGED <<inodes, blocks, sbdisk, sb, call>> /\ file_table' = [s \in Slot |-> FreeEntry]
      /\ by_open' = {} /\ fds' = {} /\ pwd' = NoDir /\ cmd' = Login
  BY <1>1 DEF Exit, disk, SbDurable
<1>3. CachedIn(file_table', Allocated, inodes)
  BY <1>2, Slots DEF CachedIn, FreeEntry
<1>4. SbDurable' /\ DescriptorsRight'
  BY <1>1, <1>2 DEF SbDurable, DescriptorsRight
<1>5. CallRight'
  BY <1>1, <1>2 DEF CallRight
<1>6. IInv'
  BY <1>1, <1>2, <1>3, <1>4, <1>5, DiskKept
<1>7. TableInv'
  <2>1. IsEntry(FreeEntry) /\ FreeEntry.ino = None
    BY DEF IsEntry, FreeEntry
  <2>2. IsTable(file_table') /\ file_table'[0].ino = None
    BY <1>2, <2>1, Slots DEF IsTable
  <2>. QED
    BY <1>1, <1>2, <2>2 DEF TableInv
<1>8. IsCmd(cmd') /\ IsDir(cmd'.cur) /\ cmd'.pc = "login" /\ cmd'.op = "login" /\ cmd'.names = <<>>
  BY <1>2, Forms DEF Login, Prompt, IsDir, NoDir
<1>9. CmdRight'
  <2>1. cmd' = [f \in DOMAIN Prompt |-> cmd'[f]] /\ pwd' = [ino |-> pwd'.ino, name |-> pwd'.name]
        /\ cmd'.cur = [ino |-> cmd'.cur.ino, name |-> cmd'.cur.name]
    BY <1>2, <1>8, Forms DEF IsCmd, IsDir
  <2>. QED
    BY <1>2, <1>8, <2>1, Forms DEF CmdRight, Going, Climbing
<1>10. NoLoop'
  BY <1>2, SameTree
<1>11. CallAsked' /\ FilesClosed' /\ Standing' /\ ClimbRight' /\ LeadsOn'
  BY <1>1, <1>2, <1>8 DEF CallAsked, FilesClosed, Standing, ClimbRight, LeadsOn, Going
<1>12. PathLeadsBack' /\ WorksWhereSent' /\ FaultsExplained'
  BY <1>8 DEF PathLeadsBack, WorksWhereSent, FaultsExplained
<1>. QED
  BY <1>6, <1>7, <1>9, <1>10, <1>11, <1>12 DEF NavRight, NavInv

LEMMA StutterRight ==
  ASSUME NavRight, Orderly, UNCHANGED navVars
  PROVE  NavRight'
<1>1. UNCHANGED vars /\ UNCHANGED <<pwd, root_entry, cmd, lost>>
  BY DEF navVars, vars
<1>2. /\ IInv' /\ TableInv' /\ UNCHANGED <<inodes, blocks, sb, file_table, fds, call>>
      /\ Allocated' = Allocated
  BY <1>1, NothingMoves
<1>3. NavInv
  BY DEF NavRight
<1>4. CmdRight' /\ CallAsked' /\ FilesClosed'
  BY <1>1, <1>2, <1>3 DEF NavInv, CmdRight, CallAsked, FilesClosed
<1>5. Standing' /\ NoLoop'
  BY <1>1, <1>2, <1>3 DEF NavInv, Standing, AtHand, NoLoop
<1>6. Doubled => Doubled'
  BY <1>2, NavFacts, DoubledSame
<1>7. ClimbRight'
  <2>1. PICK i, ns, x : i = cmd.at /\ ns = cmd.names /\ x = cmd.cur.ino
    OBVIOUS
  <2>2. Leads(i, ns, x) => Leads(cmd.at, cmd.names, cmd.cur.ino)'
    BY <1>1, <1>2, <2>1, WayUp
  <2>. QED
    BY <1>1, <1>2, <1>3, <1>6, <2>1, <2>2 DEF NavInv, ClimbRight
<1>8. PathLeadsBack'
  <2>1. PICK ns, x : ns = cmd.names /\ x = cmd.cur.ino
    OBVIOUS
  <2>2. Leads(Root, ns, x) => Leads(Root, cmd.names, cmd.cur.ino)'
    BY <1>1, <1>2, <2>1, WayBack
  <2>. QED
    BY <1>1, <1>3, <1>6, <2>1, <2>2 DEF NavInv, PathLeadsBack
<1>9. LeadsOn'
  <2>1. PICK d, ns, x : d = file_table[call.at].ino /\ ns = call.todo /\ x = cmd.cur.ino
    OBVIOUS
  <2>2. Leads(d, ns, x) => Leads(file_table[call.at].ino, call.todo, cmd.cur.ino)'
    BY <1>1, <1>2, <2>1, WayDown
  <2>. QED
    BY <1>1, <1>2, <1>3, <1>6, <2>1, <2>2 DEF NavInv, LeadsOn
<1>10. WorksWhereSent'
  BY <1>1, <1>2, <1>3, <1>6 DEF NavInv, WorksWhereSent
<1>11. FaultsExplained'
  <2>1. FirstFree(file_table)' = FirstFree(file_table)
    BY <1>2
  <2>. QED
    BY <1>1, <1>2, <1>3, <2>1 DEF NavInv, FaultsExplained
<1>. QED
  BY <1>2, <1>4, <1>5, <1>7, <1>8, <1>9, <1>10, <1>11 DEF NavRight, NavInv

--------------------------------------------------------------------------------
\* The invariant

LEMMA NavStarts == NavInit => NavRight
<1>. SUFFICES ASSUME NavInit PROVE NavRight
  OBVIOUS
<1>1. Init /\ pwd = NoDir /\ cmd = Login
  BY DEF NavInit
<1>2. IInv /\ TableInv
  BY <1>1, FormatRight, TableInit
<1>3. IsCmd(cmd) /\ IsDir(cmd.cur) /\ cmd.pc = "login" /\ cmd.op = "login" /\ cmd.names = <<>>
  BY <1>1, Forms DEF Login, Prompt, IsDir, NoDir
<1>4. call.pc = "idle" /\ fds = {}
  BY <1>1 DEF Init, Idle
<1>5. CmdRight
  <2>1. cmd = [f \in DOMAIN Prompt |-> cmd[f]] /\ pwd = [ino |-> pwd.ino, name |-> pwd.name]
        /\ cmd.cur = [ino |-> cmd.cur.ino, name |-> cmd.cur.name]
    BY <1>1, <1>3, Forms DEF IsCmd, IsDir
  <2>. QED
    BY <1>1, <1>3, <2>1, Forms DEF CmdRight, Going, Climbing
<1>6. NoLoop
  <2>1. Allocated = {Root}
    BY <1>1, FormatLists
  <2>. QED
    BY <2>1 DEF NoLoop
<1>7. CallAsked /\ FilesClosed /\ Standing /\ ClimbRight /\ LeadsOn
  BY <1>1, <1>3, <1>4 DEF CallAsked, FilesClosed, Standing, ClimbRight, LeadsOn, Going
<1>8. PathLeadsBack /\ WorksWhereSent /\ FaultsExplained
  BY <1>3 DEF PathLeadsBack, WorksWhereSent, FaultsExplained
<1>. QED
  BY <1>2, <1>5, <1>6, <1>7, <1>8 DEF NavRight, NavInv

LEMMA NavStep ==
  ASSUME NavRight, NavOrderly, [NavNext]_navVars
  PROVE  NavRight'
<1>1. Orderly
  BY DEF NavOrderly
<1>2. CASE Work
  BY <1>1, <1>2, LogInRight, OpenedRight, NotOpenedRight, GotoRight, GotoNameRight, GotoParentRight,
     GotoSelfRight, GotoEndRight, ClimbStartRight, ClimbStepRight, ClimbEndRight, IssueRight,
     StaleRootRight, WalkedRight, CalledRight, CalledOpenRight, CalledLeafRight, CloseFileRight,
     DoneRight, Zenon DEF Work
<1>3. CASE NoPwd \/ List \/ Exit
  BY <1>1, <1>3, NoPwdRight, ListRight, ExitRight
<1>4. CASE \E c \in Commands : Enter(c)
  BY <1>1, <1>4, EnterRight
<1>5. CASE UNCHANGED navVars
  BY <1>1, <1>5, StutterRight
<1>. QED
  BY <1>2, <1>3, <1>4, <1>5 DEF NavNext

LEMMA ShellInvariant == NavSpec /\ []NavOrderly => []NavRight
<1>1. NavInit => NavRight
  BY NavStarts
<1>2. NavRight /\ NavOrderly /\ [NavNext]_navVars => NavRight'
  BY NavStep
<1>. QED
  BY <1>1, <1>2, PTL DEF NavSpec

--------------------------------------------------------------------------------
\* The open-file table under the shell

\* f_opendir of an empty path has not left the root yet when it ends.
AtRoot ==
  InCall /\ cmd.rooted /\ call.pc = "walk" =>
    call.todo = <<>> /\ call.at = 0 /\ table_freehead = FirstFree(file_table)

LEMMA OpenedAtRoot ==
  ASSUME NEW c, IsCall(c), OpenRoot(c), cmd'.rooted => c.todo = <<>>
  PROVE  AtRoot'
<1>1. call'.todo = c.todo /\ call'.at = 0
  BY DEF OpenRoot, IsCall
<1>2. table_freehead' = FirstFree(file_table')
  BY DEF OpenRoot
<1>. QED
  BY <1>1, <1>2 DEF AtRoot

LEMMA NotWalking == ASSUME call'.pc # "walk" \/ ~ InCall' PROVE AtRoot'
BY DEF AtRoot

LEMMA AtRootStep ==
  ASSUME NavRight, AtRoot, [NavNext]_navVars
  PROVE  AtRoot'
<1>1. IsCmd(cmd) /\ IsCall(call) /\ IsCall(Idle)
  BY NavFacts, IdleCall
<1>2. CASE LogIn
  <2>1. PICK c : c = [Idle EXCEPT !.op = "f_opendir"]
    OBVIOUS
  <2>2. IsCall(c) /\ c.todo = <<>> /\ OpenRoot(c)
    BY <1>2, <2>1 DEF LogIn, Idle, IsCall
  <2>. QED
    BY <2>2, OpenedAtRoot
<1>3. ASSUME NEW typed \in Commands, Enter(typed) PROVE AtRoot'
  <2>1. PICK w : w = Wanted(typed)
    OBVIOUS
  <2>2. CASE w.abs
    <3>1. PICK c : c = [Idle EXCEPT !.op = "f_opendir", !.todo = w.path]
      OBVIOUS
    <3>2. OpenRoot(c)
      BY <1>3, <2>1, <2>2, <3>1 DEF Enter
    <3>3. IsCall(c) /\ c.todo = w.path
      BY <3>1 DEF Idle, IsCall
    <3>4. cmd'.rooted = (w.path = <<>>)
      BY <1>3, <2>1, <2>2 DEF Enter, Prompt, NoDir
    <3>. QED
      BY <3>2, <3>3, <3>4, OpenedAtRoot
  <2>3. CASE ~ w.abs
    <3>1. cmd'.pc = "goto"
      BY <1>3, <2>1, <2>3 DEF Enter, Prompt
    <3>. QED
      BY <3>1, NotWalking DEF InCall
  <2>. QED
    BY <2>2, <2>3
<1>4. CASE Issue
  <2>1. PICK r, op, path, nm :
          /\ r = Idle
          /\ OpenRoot([r EXCEPT !.op = op, !.todo = Sent, !.path = path])
             \/ OpenRoot([r EXCEPT !.op = op, !.todo = Sent, !.name = nm])
    BY <1>4 DEF Issue
  <2>2. cmd'.rooted = (Sent = <<>>)
    BY <1>1, <1>4 DEF Issue, IsCmd, Fields
  <2>3. PICK c : OpenRoot(c) /\ (\/ c = [r EXCEPT !.op = op, !.todo = Sent, !.path = path]
                                 \/ c = [r EXCEPT !.op = op, !.todo = Sent, !.name = nm])
    BY <2>1
  <2>4. IsCall(c) /\ c.todo = Sent
    BY <1>1, <2>1, <2>3 DEF IsCall
  <2>. QED
    BY <2>2, <2>3, <2>4, OpenedAtRoot
<1>5. CASE CalledLeaf
  <2>1. CASE RmdirLeaf /\ cmd' = [cmd EXCEPT !.rooted = Len(call.path) = 1]
    <3>1. PICK r, c, nm, path :
            /\ r = Idle
            /\ c = [r EXCEPT !.op = "f_remove", !.name = nm,
                      !.todo = SubSeq(call.path, 1, Len(call.path) - 1), !.path = path]
            /\ OpenRoot(c)
      BY <2>1 DEF RmdirLeaf
    <3>2. IsCall(c) /\ c.todo = SubSeq(call.path, 1, Len(call.path) - 1)
      BY <1>1, <3>1 DEF IsCall
    <3>3. cmd'.rooted = (Len(call.path) = 1)
      BY <1>1, <2>1 DEF IsCmd, Fields
    <3>4. Len(call.path) = 1 => SubSeq(call.path, 1, Len(call.path) - 1) = <<>>
      <4>1. call.path \in Seq(STRING \cup FileNames)
        BY NavFacts, Parts DEF CallRight
      <4>. QED
        BY <4>1
    <3>. QED
      BY <3>1, <3>2, <3>3, <3>4, OpenedAtRoot
  <2>2. CASE Stop
    <3>1. cmd'.pc = "fault"
      BY <1>1, <2>2 DEF Stop, IsCmd, Fields
    <3>. QED
      BY <3>1, NotWalking DEF InCall
  <2>. QED
    BY <1>5, <2>1, <2>2 DEF CalledLeaf
<1>6. CASE EndOnStaleRoot
  <2>1. CASE cmd' = [cmd EXCEPT !.rooted = FALSE]
    <3>1. ~ cmd'.rooted
      BY <1>1, <2>1 DEF IsCmd, Fields
    <3>. QED
      BY <3>1 DEF AtRoot
  <2>2. CASE Stop
    <3>1. cmd'.pc = "fault"
      BY <1>1, <2>2 DEF Stop, IsCmd, Fields
    <3>. QED
      BY <3>1, NotWalking DEF InCall
  <2>. QED
    BY <1>6, <2>1, <2>2 DEF EndOnStaleRoot
<1>7. CASE Walked
  <2>1. UNCHANGED cmd /\ InCall /\ InCall' /\ Walk
    BY <1>7 DEF Walked, InCall
  <2>2. call.pc = "walk" /\ call.todo # <<>>
    BY <2>1 DEF Walk
  <2>3. ~ cmd.rooted
    BY <2>1, <2>2 DEF AtRoot
  <2>. QED
    BY <2>1, <2>3 DEF AtRoot
<1>8. CASE Called \/ CalledOpen
  <2>1. call'.pc \in {"ready", "idle", "helper", "blockfault", "tablefault"}
    <3>1. CASE PathEnd \/ RmdirOpened \/ RmdirDescend
      BY <1>1, <3>1 DEF PathEnd, RmdirOpened, RmdirDescend, IsCall
    <3>2. CASE Mkdir \/ Remove \/ OpenFile
      <4>1. call' = Idle \/ Fault("blockfault") \/ Fault("tablefault")
        BY <3>2 DEF Mkdir, Remove, OpenFile, AppendToFull
      <4>. QED
        BY <1>1, <4>1 DEF Fault, Idle, IsCall
    <3>. QED
      BY <1>8, <3>1, <3>2 DEF Called, CalledOpen
  <2>. QED
    BY <2>1, NotWalking
<1>9. CASE CloseFile \/ List \/ Exit
  <2>1. call' = call /\ (call.pc = "idle" \/ cmd.pc = "prompt")
    BY <1>9 DEF CloseFile, Close, List, Exit
  <2>2. call.pc = "idle"
    BY <2>1, NavFacts
  <2>. QED
    BY <2>1, <2>2, NotWalking
<1>10. CASE UNCHANGED navVars
  <2>1. UNCHANGED <<file_table, table_freehead, call, cmd>>
    BY <1>10 DEF navVars
  <2>. QED
    BY <2>1 DEF AtRoot, InCall
<1>11. CASE NotOpened \/ NoPwd \/ Done \/ GotoEnd \/ ClimbEnd
  <2>1. call' = call /\ (call.pc = "idle" \/ cmd.pc \in {"prompt", "goto", "climb"})
    BY <1>11 DEF NotOpened, NoPwd, Done, GotoEnd, ClimbEnd, vars
  <2>2. call.pc = "idle"
    BY <2>1, NavFacts
  <2>. QED
    BY <2>1, <2>2, NotWalking
<1>12. CASE Goto \/ GotoName \/ GotoParent \/ GotoSelf \/ ClimbStart \/ Climb
  <2>1. call' = call /\ cmd.pc \in {"goto", "name", "parent", "self", "start", "climb"}
    BY <1>12 DEF Goto, GotoName, GotoParent, GotoSelf, ClimbStart, Climb
  <2>2. call.pc = "idle"
    BY <2>1, NavFacts
  <2>. QED
    BY <2>1, <2>2, NotWalking
<1>13. CASE Opened
  <2>1. call' = Idle
    BY <1>13 DEF Opened, OpenedDir
  <2>. QED
    BY <2>1, NotWalking DEF Idle
<1>. QED
  BY <1>2, <1>3, <1>4, <1>5, <1>6, <1>7, <1>8, <1>9, <1>10, <1>11, <1>12, <1>13
  DEF NavNext, Work


\* addto_file_table; offsets may move as well.
LEMMA AddTable ==
  ASSUME call.pc = "idle", call' = call, UNCHANGED <<table_freehead, by_open, fds>>,
         NEW n \in Inode, NEW ft, IsTable(ft), SameInos(ft, file_table), ft[0].ino = Root,
         SameInos(file_table', Added(ft, n))
  PROVE  TableStep
<1>1. Stage = "idle" /\ Stage' = "idle" /\ Cur = 0 /\ Cur' = 0
  BY Stages
<1>2. Ids = InosOf(ft)
  BY SameIds, TableSeen
<1>3. PICK p : p = FirstFree(ft)
  OBVIOUS
<1>4. CASE SlotOf(ft, n) # None \/ p = None
  <2>1. Added(ft, n) = ft
    BY <1>3, <1>4 DEF Added
  <2>2. SameInos(file_table', file_table)
    BY <2>1 DEF SameInos
  <2>. QED
    BY <1>1, <2>2, TableUntouched
<1>5. CASE SlotOf(ft, n) = None /\ p # None
  <2>1. PICK e, gt : e = Open(n, inodes[n]) /\ gt = [ft EXCEPT ![p] = e]
    OBVIOUS
  <2>2. Added(ft, n) = gt /\ e.ino = n
    BY <1>3, <1>5, <2>1 DEF Added, Open
  <2>3. p \in Slot
    BY <1>3, <1>5, HeadFound
  <2>4. InosOf(gt) = [InosOf(ft) EXCEPT ![p] = e.ino]
    <3>1. InosOf([ft EXCEPT ![p] = e]) = [InosOf(ft) EXCEPT ![p] = e.ino]
      BY <2>3, EntryPut
    <3>. QED
      BY <2>1, <3>1
  <2>5. Ids' = InosOf(gt)
    BY <2>2, SameIds, TableSeen
  <2>6. Ids' = [Ids EXCEPT ![p] = n]
    BY <1>2, <2>2, <2>4, <2>5
  <2>7. FT!SlotOf(Ids, n) = FT!None /\ FT!FirstFree(Ids) = p /\ p # FT!None
    BY <1>2, <1>3, <1>5, SearchesAgree, TableConstants
  <2>8. Ids[0] # FT!Free
    <3>1. file_table[0].ino = Root
      BY Slots DEF SameInos
    <3>. QED
      BY <3>1, Slots, TableConstants DEF Ids
  <2>9. UNCHANGED <<table_freehead, by_open, {h[1] : h \in fds}>>
    OBVIOUS
  <2>10. FT!AddTo(n)
    BY <1>1, <2>6, <2>7, <2>8, <2>9 DEF FT!AddTo, Cur
  <2>. QED
    BY <2>10, TableConstants DEF TableStep, FT!Next
<1>. QED
  BY <1>3, <1>4, <1>5

\* remove_from_file_table.
LEMMA DropTable ==
  ASSUME TableInv, call.pc = "idle", call' = call, UNCHANGED fds, NEW n \in Inode, n # Root,
         NEW p, p = SlotOf(file_table, n), p # None,
         file_table' = [file_table EXCEPT ![p] = FreeEntry],
         table_freehead' = p, by_open' = by_open \ {p}
  PROVE  TableStep
<1>1. Stage = "idle" /\ Stage' = "idle" /\ Cur = 0 /\ Cur' = 0
  BY Stages
<1>2. p \in Slot
  BY SlotOfSlot
<1>3. Ids' = [Ids EXCEPT ![p] = None]
  BY <1>2, EntryFreed, TableSeen DEF TableInv
<1>4. FT!SlotOf(Ids, n) = p
  BY SearchesAgree, TableSeen
<1>5. UNCHANGED {h[1] : h \in fds}
  OBVIOUS
<1>6. FT!RemoveFrom(n)
  BY <1>1, <1>3, <1>4, <1>5, TableConstants DEF FT!RemoveFrom, Cur
<1>. QED
  BY <1>6, TableConstants DEF TableStep, FT!Next

\* Steps that leave the calls and the table alone but for its offsets.
LEMMA OffsetsTable ==
  ASSUME UNCHANGED <<call, table_freehead, by_open, fds>>, SameInos(file_table', file_table)
  PROVE  TableStep
<1>1. Stage' = Stage /\ Cur' = Cur
  BY DEF Stage, Cur
<1>. QED
  BY <1>1, TableUntouched

LEMMA OffsetMoved ==
  ASSUME NEW ft, IsTable(ft), NEW p, NEW k
  PROVE  IsTable(At(ft, p, k)) /\ SameInos(At(ft, p, k), ft)
BY OffsetKeeps DEF At

\* A table that is entered into is still one.
LEMMA AddedIsTable ==
  ASSUME NEW ft, IsTable(ft), NEW n
  PROVE  IsTable(Added(ft, n))
<1>1. CASE SlotOf(ft, n) # None \/ FirstFree(ft) = None
  BY <1>1 DEF Added
<1>2. CASE SlotOf(ft, n) = None /\ FirstFree(ft) # None
  <2>1. PICK p, e : p = FirstFree(ft) /\ e = Open(n, inodes[n])
    OBVIOUS
  <2>2. IsEntry(e)
    BY <2>1 DEF Open, IsEntry
  <2>3. Added(ft, n) = [ft EXCEPT ![p] = e]
    BY <1>2, <2>1 DEF Added
  <2>. QED
    BY <2>2, <2>3 DEF IsTable
<1>. QED
  BY <1>1, <1>2

LEMMA GotoTable ==
  ASSUME NavRight, Goto
  PROVE  TableStep
<1>1. PICK fd, n, found :
        /\ n = cmd.cur.ino /\ fd = SlotOf(file_table, n)
        /\ found = Named(file_table[fd].node, Head(cmd.todo))
  OBVIOUS
<1>2. /\ cmd.pc = "goto" /\ call.pc = "idle" /\ UNCHANGED <<call, fds>>
      /\ TableInv /\ IsTable(file_table) /\ SameInos(file_table, file_table)
  BY NavFacts DEF Goto, SameInos
<1>3. n \in Inode
  BY <1>1, <1>2, HereIs DEF Allocated
<1>4. CASE file_table' = file_table /\ UNCHANGED <<table_freehead, by_open>>
  BY <1>2, <1>4, OffsetsTable
<1>5. ASSUME NEW k, file_table' = At(file_table, fd, k), UNCHANGED <<table_freehead, by_open>>
      PROVE  TableStep
  BY <1>2, <1>5, OffsetMoved, OffsetsTable
<1>6. CASE /\ n # Root /\ fd # None /\ file_table' = [file_table EXCEPT ![fd] = FreeEntry]
           /\ table_freehead' = fd /\ by_open' = by_open \ {fd}
  BY <1>1, <1>2, <1>3, <1>6, DropTable
<1>. QED
  BY <1>1, <1>4, <1>5, <1>6 DEF Goto

LEMMA GotoNameTable ==
  ASSUME NavRight, GotoName
  PROVE  TableStep
<1>1. IsTable(file_table) /\ SameInos(file_table, file_table)
      /\ UNCHANGED <<call, table_freehead, by_open, fds>>
  BY NavFacts DEF GotoName, SameInos
<1>2. file_table' = file_table \/ \E p, k : file_table' = At(file_table, p, k)
  BY DEF GotoName
<1>3. SameInos(file_table', file_table)
  BY <1>1, <1>2, OffsetMoved
<1>. QED
  BY <1>1, <1>3, OffsetsTable

\* goto_destination and convert_absolute enter a parent, or the directory arrived at.
LEMMA EnterTable ==
  ASSUME NavRight, GotoParent \/ GotoSelf
  PROVE  TableStep
<1>1. /\ cmd.pc \in {"parent", "self"} /\ call.pc = "idle" /\ cmd.cur.ino \in Allocated /\ OnDisk
      /\ UNCHANGED <<call, table_freehead, by_open, fds>>
      /\ IsTable(file_table) /\ SameInos(file_table, file_table) /\ file_table[0].ino = Root
  BY NavFacts DEF GotoParent, GotoSelf, Standing, Going, SameInos
<1>2. PICK n \in Inode : SameInos(file_table', Added(file_table, n))
  <2>1. inodes[cmd.cur.ino].parent \in Inode /\ cmd.cur.ino \in Inode
    BY <1>1, ParentInUse DEF Allocated
  <2>2. CASE GotoParent
    BY <2>1, <2>2 DEF GotoParent, SameInos
  <2>3. CASE GotoSelf
    <3>1. IsTable(Added(file_table, cmd.cur.ino))
      BY <1>1, AddedIsTable
    <3>2. SameInos(file_table', Added(file_table, cmd.cur.ino))
      BY <2>3, <3>1, OffsetMoved DEF GotoSelf
    <3>. QED
      BY <2>1, <3>2
  <2>. QED
    BY <2>2, <2>3
<1>. QED
  BY <1>1, <1>2, AddTable


LEMMA ClimbStartTable ==
  ASSUME NavRight, ClimbStart
  PROVE  TableStep
<1>1. PICK i, fd, up, ft, ufd :
        /\ i = cmd.cur.ino /\ fd = SlotOf(file_table, i) /\ up = file_table[fd].node.parent
        /\ ft = Added(file_table, up) /\ ufd = SlotOf(ft, up)
  OBVIOUS
<1>2. /\ cmd.pc = "start" /\ call.pc = "idle" /\ OnDisk
      /\ UNCHANGED <<call, table_freehead, by_open, fds>>
      /\ IsTable(file_table) /\ SameInos(file_table, file_table) /\ file_table[0].ino = Root
  BY NavFacts DEF ClimbStart, SameInos
<1>3. CASE UNCHANGED file_table
  BY <1>2, <1>3, OffsetsTable
<1>4. CASE fd # None /\ file_table' = At(ft, ufd, 0)
  <2>1. i \in Allocated /\ up = inodes[i].parent
    BY <1>1, <1>2, <1>4, HereIs
  <2>2. up \in Inode
    BY <1>2, <2>1, ParentInUse DEF Allocated
  <2>3. SameInos(file_table', ft)
    BY <1>1, <1>2, <1>4, AddedIsTable, OffsetMoved
  <2>. QED
    BY <1>1, <1>2, <2>2, <2>3, AddTable
<1>. QED
  BY <1>1, <1>3, <1>4 DEF ClimbStart

LEMMA ClimbTable ==
  ASSUME NavRight, Climb
  PROVE  TableStep
<1>1. PICK p, s : p = cmd.up /\ s = cmd.slot
  OBVIOUS
<1>2. /\ cmd.pc = "climb" /\ call.pc = "idle" /\ OnDisk /\ ClimbRight
      /\ UNCHANGED <<call, table_freehead, by_open, fds>>
      /\ IsTable(file_table) /\ SameInos(file_table, file_table) /\ file_table[0].ino = Root
      /\ CachedIn(file_table, Allocated, inodes)
  BY NavFacts DEF Climb, SameInos, NavRight, NavInv
<1>3. p \in Directories /\ s \in Slot /\ file_table[s].node = inodes[p]
  <2>1. p \in Directories /\ p \in Allocated /\ s \in Slot /\ file_table[s].ino = p
    BY <1>1, <1>2, ParentInUse DEF ClimbRight
  <2>2. p # None
    BY <2>1, Sizes DEF Allocated
  <2>. QED
    BY <1>2, <2>1, <2>2 DEF CachedIn
<1>4. PICK next : next = EntryAt(inodes[p], 1).inode_index
  OBVIOUS
<1>5. next \in Inode
  <2>1. EntryAt(inodes[p], 1) = Entry(inodes[p].parent, "..") /\ p \in Allocated
    BY <1>2, <1>3 DEF OnDisk, EntriesRight, Directories
  <2>. QED
    BY <1>2, <1>4, <2>1, ParentInUse DEF Entry, Allocated
<1>6. CASE UNCHANGED file_table
  BY <1>2, <1>6, OffsetsTable
<1>7. ASSUME NEW k, NEW ft, ft = Added(At(file_table, s, k + 1), next), NEW nfd,
             file_table' \in {ft, At(ft, nfd, 0)}
      PROVE  TableStep
  <2>1. PICK gt : gt = At(file_table, s, k + 1)
    OBVIOUS
  <2>2. IsTable(gt) /\ SameInos(gt, file_table)
    BY <1>2, <2>1, OffsetMoved
  <2>3. gt[0].ino = Root
    BY <1>2, <2>2, Slots DEF SameInos
  <2>4. IsTable(ft) /\ SameInos(ft, ft)
    BY <1>7, <2>1, <2>2, AddedIsTable DEF SameInos
  <2>5. SameInos(file_table', ft)
    BY <1>7, <2>4, OffsetMoved
  <2>. QED
    BY <1>2, <1>5, <1>7, <2>1, <2>2, <2>3, <2>5, AddTable
<1>8. \/ UNCHANGED file_table
      \/ \E k : \E n \in {EntryAt(file_table[s].node, 1).inode_index} :
           LET ft  == Added(At(file_table, s, k + 1), n)
               nfd == SlotOf(ft, n)
           IN  file_table' \in {ft, At(ft, nfd, 0)}
  BY <1>1 DEF Climb
<1>. QED
  BY <1>3, <1>4, <1>6, <1>7, <1>8

LEMMA ListTable ==
  ASSUME NavRight, List
  PROVE  TableStep
<1>1. PICK n, ft, fd : n = pwd.ino /\ ft = Added(file_table, n) /\ fd = SlotOf(ft, n)
  OBVIOUS
<1>2. /\ cmd.pc = "prompt" /\ call.pc = "idle" /\ n \in Inode
      /\ UNCHANGED <<call, table_freehead, by_open, fds>>
      /\ IsTable(file_table) /\ SameInos(file_table, file_table) /\ file_table[0].ino = Root
  BY <1>1, NavFacts DEF List, SameInos, Standing, Allocated
<1>3. CASE UNCHANGED file_table
  BY <1>2, <1>3, OffsetsTable
<1>4. CASE file_table' = At(ft, fd, ft[fd].node.size)
  <2>1. SameInos(file_table', ft)
    BY <1>1, <1>2, <1>4, AddedIsTable, OffsetMoved
  <2>. QED
    BY <1>1, <1>2, <2>1, AddTable
<1>. QED
  BY <1>1, <1>3, <1>4 DEF List

\* The root's entry is freed memory, and f_opendir ends in another directory that is in
\* the table: to FileTable that is one more component, to a directory cached already.
LEMMA StaleTable ==
  ASSUME NavRight, AtRoot, EndOnStaleRoot
  PROVE  TableStep
<1>1. /\ call.pc = "walk" /\ call.at = 0 /\ table_freehead = FirstFree(file_table)
      /\ IsCall(call) /\ IsTable(file_table)
  BY NavFacts DEF EndOnStaleRoot, StaleRoot, AtRoot
<1>2. CASE UNCHANGED vars
  <2>1. UNCHANGED <<file_table, call, table_freehead, by_open, fds>>
    BY <1>2 DEF vars
  <2>2. SameInos(file_table', file_table)
    BY <2>1 DEF SameInos
  <2>. QED
    BY <2>1, <2>2, OffsetsTable
<1>3. ASSUME NEW s \in Slot, file_table[s].ino \in Inode,
             SlotOf(file_table, file_table[s].ino) = s, call' = [call EXCEPT !.at = s],
             UNCHANGED <<file_table, table_freehead, by_open, fds>>
      PROVE  TableStep
  <2>1. Stage = "walk" /\ Cur = 0 /\ Stage' = "walk" /\ Cur' = s
    <3>1. call'.pc = "walk" /\ call'.at = s
      BY <1>1, <1>3 DEF IsCall
    <3>. QED
      BY <1>1, <3>1, Stages
  <2>2. PICK n : n = file_table[s].ino
    OBVIOUS
  <2>3. FT!Vacated = Ids /\ FT!VacatedHead = table_freehead /\ FT!VacatedOpen = by_open
    <3>1. FT!FirstFree(Ids) = table_freehead
      BY <1>1, SearchesAgree, TableSeen
    <3>. QED
      BY <2>1, <3>1 DEF FT!Vacated, FT!VacatedHead, FT!VacatedOpen, Cur
  <2>4. FT!SlotOf(Ids, n) = s /\ s # FT!None
    BY <1>3, <2>2, SearchesAgree, TableSeen, TableConstants, Slots
  <2>5. UNCHANGED <<Ids, table_freehead, by_open, {h[1] : h \in fds}>>
    BY <1>3, TableSeen
  <2>6. FT!Descend(n)
    BY <2>1, <2>3, <2>4, <2>5 DEF FT!Descend, Cur
  <2>. QED
    BY <1>3, <2>2, <2>6, TableConstants DEF TableStep, FT!Next
<1>. QED
  BY <1>2, <1>3 DEF EndOnStaleRoot, table


\* The shell asks for a path to be walked.
LEMMA AskTable ==
  ASSUME NavRight, LogIn \/ Issue \/ \E c \in Commands : Enter(c)
  PROVE  TableStep
<1>1. TableInv /\ cmd.pc \in {"login", "issue", "prompt"} /\ call.pc = "idle" /\ IsCall(Idle)
  BY NavFacts, IdleCall DEF LogIn, Issue, Enter
<1>2. PICK r : r = Idle
  OBVIOUS
<1>3. CASE UNCHANGED vars
  BY <1>1, <1>3, TableStepRight DEF NavRight
<1>4. CASE ~ UNCHANGED vars
  <2>1. PICK op, todo, nm, path :
          \/ OpenRoot([r EXCEPT !.op = op])
          \/ OpenRoot([r EXCEPT !.op = op, !.todo = todo])
          \/ OpenRoot([r EXCEPT !.op = op, !.todo = todo, !.path = path])
          \/ OpenRoot([r EXCEPT !.op = op, !.todo = todo, !.name = nm])
    BY <1>2, <1>4 DEF LogIn, Issue, Enter
  <2>2. PICK c : OpenRoot(c) /\ c \in {[r EXCEPT !.op = op], [r EXCEPT !.op = op, !.todo = todo],
                                      [r EXCEPT !.op = op, !.todo = todo, !.path = path],
                                      [r EXCEPT !.op = op, !.todo = todo, !.name = nm]}
    BY <2>1
  <2>3. IsCall(c)
    BY <1>1, <1>2, <2>2 DEF IsCall
  <2>. QED
    BY <1>1, <2>2, <2>3, RootTable
<1>. QED
  BY <1>3, <1>4

LEMMA NavTableStep ==
  ASSUME NavRight, AtRoot, [NavNext]_navVars
  PROVE  TableStep
<1>1. IInv /\ TableInv
  BY NavFacts
<1>2. CASE [Next]_vars
  BY <1>1, <1>2, TableStepRight
<1>3. CASE LogIn \/ Issue \/ \E c \in Commands : Enter(c)
  BY <1>3, AskTable
<1>4. CASE Goto \/ GotoName \/ GotoParent \/ GotoSelf
  BY <1>4, GotoTable, GotoNameTable, EnterTable
<1>5. CASE ClimbStart \/ Climb \/ List
  BY <1>5, ClimbStartTable, ClimbTable, ListTable
<1>6. CASE EndOnStaleRoot
  BY <1>6, StaleTable
<1>7. CASE Exit
  <2>1. call.pc = "idle"
    BY <1>7, NavFacts DEF Exit
  <2>2. /\ call' = call /\ file_table' = [s \in Slot |-> FreeEntry]
        /\ table_freehead' = 0 /\ by_open' = {} /\ fds' = {}
    BY <1>7 DEF Exit
  <2>. QED
    BY <2>1, <2>2, TableEmptied
<1>8. CASE Opened \/ Walked \/ Called \/ CalledOpen \/ CalledLeaf
  <2>1. [Next]_vars
    BY <1>8 DEF Opened, Walked, Called, CalledOpen, CalledLeaf, Next
  <2>. QED
    BY <1>2, <2>1
<1>9. CASE CloseFile
  <2>1. \E fd \in Slot : Close(fd)
    BY <1>1, <1>9 DEF CloseFile, TableInv
  <2>. QED
    BY <1>2, <2>1 DEF Next
<1>10. CASE NotOpened \/ GotoEnd \/ ClimbEnd \/ Done \/ NoPwd \/ UNCHANGED navVars
  <2>1. UNCHANGED vars
    BY <1>10 DEF NotOpened, GotoEnd, ClimbEnd, Done, NoPwd, navVars, vars
  <2>. QED
    BY <1>2, <2>1
<1>. QED
  BY <1>3, <1>4, <1>5, <1>6, <1>7, <1>8, <1>9, <1>10 DEF NavNext, Work

--------------------------------------------------------------------------------
(* Theorems *)

\* The path convert_absolute makes for a command leads back to the directory
\* goto_destination arrived at, or a name is there twice.
THEOREM PathsLeadBack == NavSpec /\ []NavOrderly => []PathLeadsBack
<1>1. NavRight => PathLeadsBack
  BY DEF NavRight, NavInv
<1>. QED
  BY <1>1, ShellInvariant, PTL

\* The call a command makes works in the directory the path was made for, although the
\* call walks that path anew through a table the climb has changed.
THEOREM CallsWorkWhereSent == NavSpec /\ []NavOrderly => []WorksWhereSent
<1>1. NavRight => WorksWhereSent
  BY DEF NavRight, NavInv
<1>. QED
  BY <1>1, ShellInvariant, PTL

\* The shell ends itself only in the ways FaultsExplained lists.
THEOREM EndsExplained == NavSpec /\ []NavOrderly => []FaultsExplained
<1>1. NavRight => FaultsExplained
  BY DEF NavRight, NavInv
<1>. QED
  BY <1>1, ShellInvariant, PTL

\* What goto_destination, convert_absolute and ls do to the table between the calls, and
\* exit and the next login, leave what it caches true.
THEOREM ShellKeepsCache == NavSpec /\ []NavOrderly => []CacheCoherent
<1>1. NavRight => CacheCoherent
  BY CacheFollows DEF NavRight
<1>. QED
  BY <1>1, ShellInvariant, PTL

\* And so the tree, the blocks, the inodes and the descriptors are as sound under the
\* shell as under calls that come from anywhere.
THEOREM ShellKeepsTree ==
  NavSpec /\ []NavOrderly => [](TreeLinked /\ BlocksDisjoint /\ InodesPartitioned /\ NoFreeInodeOpen)
<1>1. NavRight => TreeLinked /\ BlocksDisjoint /\ InodesPartitioned /\ NoFreeInodeOpen
  BY CacheFollows, TreeFollows, BlocksFollow, InodesFollow DEF NavRight
<1>. QED
  BY <1>1, ShellInvariant, PTL

\* What the shell does to the open-file table between the calls, a slot at a time, is
\* also what FileTable has its users do: they enter an inode, or drop one that is not the
\* root.  So what is proved of that module holds while paths are made and walked.
THEOREM ShellFollowsTable == NavSpec /\ []NavOrderly => ImplementsFileTable
<1>1. NavRight /\ AtRoot /\ [NavNext]_navVars => TableStep
  BY NavTableStep
<1>2. NavRight /\ AtRoot /\ [NavNext]_navVars => AtRoot'
  BY AtRootStep
<1>3. NavInit => FT!Init /\ AtRoot
  BY TableStarts DEF NavInit, AtRoot, InCall, Login, Prompt
<1>. QED
  BY <1>1, <1>2, <1>3, ShellInvariant, PTL
  DEF NavSpec, ImplementsFileTable, FT!Spec, TableStep

\* No command puts an inode over one that is cached, although addto_file_table leaves
\* table_freehead on the slot it has just filled; and but for the files that are open an
\* inode is cached once, whatever goto_destination and convert_absolute entered and dropped.
THEOREM ShellOverwritesNothing ==
  NavSpec /\ []NavOrderly => []FT!OneDirectoryCopy /\ FT!NoClobber
BY ShellFollowsTable, TableTheorems, PTL

================================================================================
