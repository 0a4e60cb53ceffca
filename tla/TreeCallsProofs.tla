---------------------------- MODULE TreeCallsProofs ----------------------------
(***************************************************************************)
(* The calls of FileSystem do to the tree what Namespace promises: an      *)
(* orderly run, seen through the entries of its directories and its list   *)
(* of free inodes, is a run of Namespace, and what is proved of that tree  *)
(* holds on the disk.  The blocks that are on no list are those of files   *)
(* that were removed.  And runs are orderly, on every disk and table, when *)
(* the callers keep the names of directories and those of files apart and  *)
(* the directories stay small enough.  To the open-file table they do what *)
(* FileTable has them do.                                                  *)
(***************************************************************************)
EXTENDS FileTreeProofs

\* Entry k of directory d says that nm is inode i.
Says(d, k, nm, i) ==
  /\ d \in Directories /\ k \in 2 .. inodes[d].size - 1
  /\ EntryAt(inodes[d], k).filename = nm /\ EntryAt(inodes[d], k).inode_index = i

SaysAfter(d, k, nm, i) ==
  /\ d \in Directories' /\ k \in 2 .. inodes'[d].size - 1
  /\ EntryAfter(d, k).filename = nm /\ EntryAfter(d, k).inode_index = i

\* The links Namespace sees.
Links == {<<e[1], e[3].filename, e[3].inode_index>> : e \in Entries}

LEMMA LinkIs ==
  /\ \A d, k, nm, i : Says(d, k, nm, i) => <<d, nm, i>> \in Links
  /\ \A l \in Links : \E d, k, nm, i : l = <<d, nm, i>> /\ Says(d, k, nm, i)
<1>1. ASSUME NEW d, NEW k, NEW nm, NEW i, Says(d, k, nm, i) PROVE <<d, nm, i>> \in Links
  <2>1. PICK e : e = <<d, k, EntryAt(inodes[d], k)>>
    OBVIOUS
  <2>2. e \in Entries /\ e[1] = d /\ e[3].filename = nm /\ e[3].inode_index = i
    BY <1>1, <2>1, InEntries DEF Says
  <2>. QED
    BY <2>2 DEF Links
<1>2. ASSUME NEW l \in Links PROVE \E d, k, nm, i : l = <<d, nm, i>> /\ Says(d, k, nm, i)
  <2>1. PICK e \in Entries : l = <<e[1], e[3].filename, e[3].inode_index>>
    BY DEF Links
  <2>2. PICK d \in Directories : \E k \in 2 .. inodes[d].size - 1 : e = <<d, k, EntryAt(inodes[d], k)>>
    BY InEntries
  <2>3. PICK k \in 2 .. inodes[d].size - 1 : e = <<d, k, EntryAt(inodes[d], k)>>
    BY <2>2
  <2>4. PICK nm, i : nm = EntryAt(inodes[d], k).filename /\ i = EntryAt(inodes[d], k).inode_index
    OBVIOUS
  <2>5. Says(d, k, nm, i) /\ l = <<d, nm, i>>
    BY <2>1, <2>2, <2>3, <2>4 DEF Says
  <2>. QED
    BY <2>5
<1>. QED
  BY <1>1, <1>2

\* The same of the next state.
LEMMA LinkIsAfter ==
  /\ \A d, k, nm, i : SaysAfter(d, k, nm, i) => <<d, nm, i>> \in Links'
  /\ \A l \in Links' : \E d, k, nm, i : l = <<d, nm, i>> /\ SaysAfter(d, k, nm, i)
<1>1. \A d, k, nm, i : SaysAfter(d, k, nm, i) <=> Says(d, k, nm, i)'
  BY DEF SaysAfter, Says, EntryAfter, EntryAt
<1>2. (/\ \A d, k, nm, i : Says(d, k, nm, i) => <<d, nm, i>> \in Links
       /\ \A l \in Links : \E d, k, nm, i : l = <<d, nm, i>> /\ Says(d, k, nm, i))'
  BY LinkIs, PTL
<1>. QED
  BY <1>1, <1>2

--------------------------------------------------------------------------------
\* The three kinds of step.

LEMMA LinksSame ==
  ASSUME OnDisk, UNCHANGED <<inodes, blocks, sb>>
  PROVE  Links' = Links /\ Directories' = Directories /\ FreeInodes' = FreeInodes
<1>1. Allocated' = Allocated
  BY SameDisk
<1>2. Directories' = Directories
  BY <1>1 DEF Directories
<1>3. FreeInodes' = FreeInodes
  BY DEF FreeInodes, NextInode
<1>4. Links' = Links
  BY <1>2 DEF Links, Entries, EntryAt
<1>. QED
  BY <1>2, <1>3, <1>4

LEMMA LinksAppended ==
  ASSUME IInv, NEW d, NEW n, NEW nn, NEW tb, NEW fb, AppendStep(d, n, nn, tb, fb)
  PROVE  /\ Links' = Links \cup {<<d, call.name, n>>}
         /\ Directories' = IF nn.type = "DIR" THEN Directories \cup {n} ELSE Directories
         /\ FreeInodes' = FreeInodes \ {n}
         /\ d \in Directories /\ n \in FreeInodes /\ call.name \in FileNames
<1>1. AppendTree(d, n, nn) /\ FreeInodes' = FreeInodes \ {n} /\ Kinds
  BY AppendTreeStep, AppendLists DEF IInv
<1>2. PICK s : s = inodes[d].size
  OBVIOUS
<1>3. ASSUME NEW c, NEW k, NEW nm, NEW i, Says(c, k, nm, i) PROVE SaysAfter(c, k, nm, i)
  <2>1. c \in Directories /\ k \in 2 .. inodes[c].size - 1
        /\ EntryAt(inodes[c], k).filename = nm /\ EntryAt(inodes[c], k).inode_index = i
    BY <1>3 DEF Says
  <2>2. inodes[c].size \in Nat
    BY <1>1, <2>1, InDirectories
  <2>3. k \in 0 .. inodes[c].size - 1 /\ k \in 2 .. inodes'[c].size - 1 /\ c \in Directories'
    BY <1>1, <2>1, <2>2 DEF AppendTree
  <2>4. EntryAfter(c, k) = EntryAt(inodes[c], k)
    BY <1>1, <2>1, <2>3 DEF AppendTree
  <2>. QED
    BY <2>1, <2>3, <2>4 DEF SaysAfter
<1>4. EntryAfter(d, s) = Entry(n, call.name) /\ SaysAfter(d, s, call.name, n)
  <2>1. s \in 2 .. inodes'[d].size - 1 /\ d \in Directories' /\ EntryAfter(d, s) = Entry(n, call.name)
    BY <1>1, <1>2 DEF AppendTree
  <2>. QED
    BY <2>1 DEF SaysAfter, Entry
<1>5. ASSUME NEW c, NEW k, NEW nm, NEW i, SaysAfter(c, k, nm, i)
      PROVE  Says(c, k, nm, i) \/ (c = d /\ nm = call.name /\ i = n)
  <2>1. c \in Directories' /\ k \in 2 .. inodes'[c].size - 1
        /\ EntryAfter(c, k).filename = nm /\ EntryAfter(c, k).inode_index = i
    BY <1>5 DEF SaysAfter
  <2>2. c \in Directories
    BY <1>1, <2>1 DEF AppendTree
  <2>3. CASE c = d /\ k = s
    BY <1>4, <2>1, <2>3 DEF Entry
  <2>4. CASE k \in 2 .. inodes[c].size - 1
    <3>1. inodes[c].size \in Nat
      BY <1>1, <2>2, InDirectories
    <3>2. k \in 0 .. inodes[c].size - 1
      BY <2>4, <3>1
    <3>3. EntryAfter(c, k) = EntryAt(inodes[c], k)
      BY <1>1, <2>2, <3>2 DEF AppendTree
    <3>. QED
      BY <2>1, <2>2, <2>4, <3>3 DEF Says
  <2>. QED
    BY <1>1, <1>2, <2>1, <2>2, <2>3, <2>4 DEF AppendTree
<1>6. Links' \subseteq Links \cup {<<d, call.name, n>>}
  <2>1. ASSUME NEW l \in Links' PROVE l \in Links \cup {<<d, call.name, n>>}
    <3>1. PICK c, k, nm, i : l = <<c, nm, i>> /\ SaysAfter(c, k, nm, i)
      BY LinkIsAfter
    <3>. QED
      BY <1>5, <3>1, LinkIs
  <2>. QED
    BY <2>1
<1>7. Links \cup {<<d, call.name, n>>} \subseteq Links'
  <2>1. ASSUME NEW l \in Links PROVE l \in Links'
    <3>1. PICK c, k, nm, i : l = <<c, nm, i>> /\ Says(c, k, nm, i)
      BY LinkIs
    <3>. QED
      BY <1>3, <3>1, LinkIsAfter
  <2>2. <<d, call.name, n>> \in Links'
    BY <1>4, LinkIsAfter
  <2>. QED
    BY <2>1, <2>2
<1>8. d \in Directories /\ n \in FreeInodes /\ call.name \in FileNames
  BY FreeListFacts DEF AppendStep
<1>. QED
  BY <1>1, <1>6, <1>7, <1>8 DEF AppendTree

LEMMA LinksRemoved ==
  ASSUME IInv, NEW d, NEW k, NEW t, RemoveStep(d, k, t)
  PROVE  /\ \E nm \in FileNames : <<d, nm, t>> \in Links /\ Links' = Links \ {<<d, nm, t>>}
         /\ Directories' = Directories /\ FreeInodes' = FreeInodes \cup {t}
         /\ d \in Inode /\ t \in Inode /\ t \notin Directories
<1>1. PICK lb, last : lb = BlockOf(inodes[d], inodes[d].size - 1) /\ last = inodes[d].size - 1
  OBVIOUS
<1>2. RemoveLeaves(d, k, t, lb)
  BY <1>1, RemoveWritten
<1>3. RemoveTree(d, k, t) /\ FreeInodes' = FreeInodes \cup {t} /\ Kinds /\ EntriesRight /\ NamedOnce
  BY <1>1, <1>2, RemoveTreeStep, RemoveLists DEF IInv
<1>4. EachNamed
  BY <1>3, NamedOnceIs
<1>5. d \in Directories /\ last \in Nat /\ k \in 2 .. last /\ Directories' = Directories
      /\ inodes'[d].size = last /\ last = inodes[d].size - 1 /\ inodes[d].size \in Nat
  BY <1>1, <1>3, InDirectories DEF RemoveTree
<1>6. PICK nm : nm = EntryAt(inodes[d], k).filename
  OBVIOUS
<1>7. Says(d, k, nm, t) /\ nm \in FileNames
  BY <1>1, <1>3, <1>5, <1>6 DEF Says, RemoveTree, EntriesRight
<1>8. \A c, l, x, i : Says(c, l, x, i) => EntryNames(c, l, i)
  BY DEF Says, EntryNames
<1>9. ASSUME NEW c, NEW l, NEW x, NEW i, Says(c, l, x, i), ~ (c = d /\ l = k)
      PROVE  i # t /\ \E m : SaysAfter(c, m, x, i)
  <2>1. i # t
    BY <1>4, <1>7, <1>8, <1>9 DEF EachNamed
  <2>2. c \in Directories /\ l \in 2 .. inodes[c].size - 1 /\ inodes[c].size \in Nat
        /\ EntryAt(inodes[c], l).filename = x /\ EntryAt(inodes[c], l).inode_index = i
    BY <1>3, <1>9, InDirectories DEF Says
  <2>3. CASE c = d /\ l = last
    <3>1. k \in 0 .. last - 1 /\ k \in 2 .. last - 1
      BY <1>5, <1>9, <2>3
    <3>2. EntryAfter(d, k) = EntryAt(inodes[d], last)
      BY <1>1, <1>3, <1>5, <3>1 DEF RemoveTree
    <3>3. SaysAfter(d, k, x, i)
      BY <1>5, <2>2, <2>3, <3>1, <3>2 DEF SaysAfter
    <3>. QED
      BY <2>1, <2>3, <3>3
  <2>4. CASE ~ (c = d /\ l = last)
    <3>1. l \in 0 .. inodes'[c].size - 1 /\ l \in 2 .. inodes'[c].size - 1
      <4>1. CASE c = d
        BY <1>5, <2>2, <2>4, <4>1
      <4>2. CASE c # d
        <5>1. inodes'[c].size = inodes[c].size
          BY <1>3, <2>2, <4>2 DEF RemoveTree
        <5>. QED
          BY <2>2, <5>1
      <4>. QED
        BY <4>1, <4>2
    <3>2. EntryAfter(c, l) = EntryAt(inodes[c], l)
      BY <1>3, <1>9, <2>2, <3>1 DEF RemoveTree
    <3>3. SaysAfter(c, l, x, i)
      BY <1>5, <2>2, <3>1, <3>2 DEF SaysAfter
    <3>. QED
      BY <2>1, <3>3
  <2>. QED
    BY <2>3, <2>4
<1>10. ASSUME NEW c, NEW l, NEW x, NEW i, SaysAfter(c, l, x, i)
       PROVE  i # t /\ \E m : Says(c, m, x, i)
  <2>1. c \in Directories /\ l \in 2 .. inodes'[c].size - 1
        /\ EntryAfter(c, l).filename = x /\ EntryAfter(c, l).inode_index = i
    BY <1>5, <1>10 DEF SaysAfter
  <2>2. EntryNamesAfter(c, l, i)
    BY <1>10 DEF SaysAfter, EntryNamesAfter
  <2>3. PICK m : m = IF c = d /\ l = k THEN inodes[d].size - 1 ELSE l
    OBVIOUS
  <2>4. i # t /\ EntryNames(c, m, i)
    BY <1>3, <1>4, <2>2, <2>3, RemoveNames
  <2>5. l \in 0 .. inodes'[c].size - 1
    <3>1. inodes'[c].size \in Nat
      <4>1. c # d => inodes'[c].size = inodes[c].size
        BY <1>3, <2>1 DEF RemoveTree
      <4>. QED
        BY <1>3, <1>5, <2>1, <4>1, InDirectories
    <3>. QED
      BY <2>1, <3>1
  <2>6. EntryAfter(c, l) = EntryAt(inodes[c], m)
    BY <1>3, <2>1, <2>3, <2>5 DEF RemoveTree
  <2>7. Says(c, m, x, i)
    BY <2>1, <2>4, <2>6 DEF Says, EntryNames
  <2>. QED
    BY <2>4, <2>7
<1>11. PICK z : z = <<d, nm, t>>
  OBVIOUS
<1>12. Links' \subseteq Links \ {z}
  <2>1. ASSUME NEW l \in Links' PROVE l \in Links \ {z}
    <3>1. PICK c, q, x, i : l = <<c, x, i>> /\ SaysAfter(c, q, x, i)
      BY LinkIsAfter
    <3>. QED
      BY <1>10, <1>11, <3>1, LinkIs
  <2>. QED
    BY <2>1
<1>13. Links \ {z} \subseteq Links'
  <2>1. ASSUME NEW l \in Links, l # z PROVE l \in Links'
    <3>1. PICK c, q, x, i : l = <<c, x, i>> /\ Says(c, q, x, i)
      BY LinkIs
    <3>2. ~ (c = d /\ q = k)
      BY <1>7, <1>11, <2>1, <3>1 DEF Says
    <3>. QED
      BY <1>9, <3>1, <3>2, LinkIsAfter
  <2>. QED
    BY <2>1
<1>14. z \in Links
  BY <1>7, <1>11, LinkIs
<1>15. d \in Inode /\ t \in Inode /\ t \notin Directories
  BY <1>3, <1>5, InDirectories DEF RemoveStep, RemoveTree, Allocated, Directories
<1>. QED
  BY <1>3, <1>5, <1>7, <1>11, <1>12, <1>13, <1>14, <1>15

--------------------------------------------------------------------------------
LEMMA NamespaceStarts == Init => NS!Init
<1>. SUFFICES ASSUME Init PROVE NS!Init
  OBVIOUS
<1>1. FreeInodes = Inode \ {Root} /\ Allocated = {Root} /\ IInv
  BY FormatLists, FormatRight
<1>2. Root \in Inode /\ inodes[Root].type = "DIR" /\ inodes[Root].size = 2
  <2>1. Root \in Inode
    BY <1>1 DEF Allocated
  <2>. QED
    BY <2>1 DEF Init, FormatInode
<1>3. Directories = {Root}
  BY <1>1, <1>2 DEF Directories
<1>4. Entries = {}
  BY <1>2, <1>3 DEF Entries
<1>. QED
  BY <1>1, <1>3, <1>4 DEF NS!Init, NS!Inode, NS!Root, Inode, Root

LEMMA NamespaceStep ==
  ASSUME IInv, TreeStep
  PROVE  [NS!Next]_(NS!vars)
<1>1. NS!vars = <<Links, Directories, FreeInodes>> /\ NS!Inode = Inode
      /\ NS!vars' = <<Links', Directories', FreeInodes'>>
  BY DEF NS!vars, NS!Inode, Inode, Links
<1>2. CASE UNCHANGED <<inodes, blocks, sb>>
  BY <1>1, <1>2, LinksSame, Parts
<1>3. CASE \E d, n, nn, tb, fb : AppendStep(d, n, nn, tb, fb)
  <2>1. PICK d, n, nn, tb, fb : AppendStep(d, n, nn, tb, fb)
    BY <1>3
  <2>2. /\ Links' = Links \cup {<<d, call.name, n>>}
        /\ Directories' = IF nn.type = "DIR" THEN Directories \cup {n} ELSE Directories
        /\ FreeInodes' = FreeInodes \ {n}
        /\ d \in Directories /\ n \in FreeInodes /\ call.name \in FileNames
    BY <2>1, LinksAppended
  <2>3. d \in Inode /\ n \in Inode
    BY <2>2, FreeListFacts DEF Directories, Allocated
  <2>4. NS!MakeDir(d, call.name, n) \/ NS!MakeFile(d, call.name, n)
    BY <2>2 DEF NS!MakeDir, NS!MakeFile, Links
  <2>. QED
    BY <1>1, <2>2, <2>3, <2>4 DEF NS!Next
<1>4. CASE call.op = "f_remove" /\ \E d, k, t : RemoveStep(d, k, t)
  <2>1. PICK d, k, t : RemoveStep(d, k, t)
    BY <1>4
  <2>2. PICK nm \in FileNames : <<d, nm, t>> \in Links /\ Links' = Links \ {<<d, nm, t>>}
    BY <2>1, LinksRemoved
  <2>3. Directories' = Directories /\ FreeInodes' = FreeInodes \cup {t}
        /\ d \in Inode /\ t \in Inode /\ t \notin Directories
    BY <2>1, LinksRemoved
  <2>4. \A l \in Links : l[1] # t
    BY <2>3, LinkIs DEF Says
  <2>5. Directories' = Directories \ {t}
    BY <2>3
  <2>6. Links' = {l \in Links : l # <<d, nm, t>> /\ l[1] # t}
    BY <2>2, <2>4
  <2>7. NS!Unlink(d, nm, t)
    BY <2>2, <2>3, <2>5, <2>6 DEF NS!Unlink, Links
  <2>. QED
    BY <1>1, <2>2, <2>3, <2>7 DEF NS!Next
<1>. QED
  BY <1>2, <1>3, <1>4, Creation DEF TreeStep

\* Seen through the entries of the directories and the free list, f_mkdir, f_open and
\* f_remove add a name, or take one away, and the steps in between do nothing.
THEOREM NamespaceImplemented == Spec /\ []Orderly => ImplementsNamespace
<1>1. IInv /\ TableInv /\ Orderly /\ [Next]_vars => [NS!Next]_(NS!vars)
  BY StepRight, NamespaceStep
<1>. QED
  BY <1>1, NamespaceStarts, TreeInvariant, TableInvariant, PTL DEF Spec, ImplementsNamespace, NS!Spec

--------------------------------------------------------------------------------
\* Where the blocks are, as long as nothing is removed.

\* Block b belongs to an inode in use.
IsHeld(b) == \E i \in Allocated : \E k \in Held(i) : b = BlockOf(inodes[i], k)

AllHeld == \A b \in Block : b \in FreeBlocks \/ IsHeld(b)

NothingRemoved == call.op \notin {"f_remove", "f_rmdir"}

LEMMA HeldOwned ==
  ASSUME NEW i \in Allocated, NEW k \in Held(i)
  PROVE  BlockOf(inodes[i], k) \in BlocksOf(i)
<1>1. CASE inodes[i].type = "REG"
  <2>1. k = 0 /\ 0 \div EPB = 0 /\ 0 < ND
    BY <1>1, FirstPlaces, Measures DEF Held
  <2>2. BlockOf(inodes[i], 0) = inodes[i].dblocks[1]
    BY <2>1 DEF BlockOf
  <2>. QED
    BY <1>1, <2>1, <2>2 DEF BlocksOf
<1>2. CASE inodes[i].type # "REG"
  BY <1>2 DEF BlocksOf, Held
<1>. QED
  BY <1>1, <1>2

LEMMA AllHeldIs == IInv => (AllHeld <=> NoBlockLost)
<1>. SUFFICES ASSUME IInv PROVE AllHeld <=> NoBlockLost
  OBVIOUS
<1>1. \A b : IsHeld(b) <=> \E i \in Allocated : b \in BlocksOf(i)
  BY HeldOwned, HeldIs DEF IsHeld
<1>2. FreeBlocks \subseteq Block
  BY FreeListFacts
<1>3. \A b : IsHeld(b) => b \in Block
  BY HeldPlace DEF IInv, IsHeld
<1>4. NoBlockLost <=> \A b : b \in Block <=> b \in FreeBlocks \/ \E i \in Allocated : b \in BlocksOf(i)
  BY DEF NoBlockLost
<1>. QED
  BY <1>1, <1>2, <1>3, <1>4 DEF AllHeld

\* An entry is appended: the blocks it takes are held afterwards, and no other is let go.
LEMMA AppendHolds ==
  ASSUME IInv, AllHeld, NEW d, NEW n, NEW nn, NEW tb, NEW fb, AppendStep(d, n, nn, tb, fb)
  PROVE  AllHeld'
<1>1. /\ Grows(d, tb, fb) /\ AppendLeaves(d, n, nn, tb, fb) /\ Kinds
      /\ FreeBlocks' = FreeBlocks \ {tb, fb} /\ Allocated' = Allocated \cup {n}
  BY AppendGrows, AppendWritten, AppendLists DEF IInv
<1>2. PICK s : s = inodes[d].size
  OBVIOUS
<1>3. /\ d \in Allocated /\ n \notin Allocated /\ d # n /\ inodes[d].type = "DIR" /\ s \in Nat
      /\ inodes'[d] = Grown(inodes[d]) /\ inodes'[d].size = s + 1 /\ inodes'[d].type = "DIR"
      /\ inodes'[n] = nn
  BY <1>1, <1>2, InDirectories DEF AppendStep, AppendLeaves, Grows, Allocated
<1>4. ASSUME NEW i \in Allocated, NEW k \in Held(i)
      PROVE  i \in Allocated' /\ k \in Held(i)' /\ BlockOf(inodes'[i], k) = BlockOf(inodes[i], k)
  <2>1. CASE i = d
    <3>1. k \in 0 .. s - 1 /\ k \in 0 .. (s + 1) - 1
      BY <1>2, <1>3, <1>4, <2>1 DEF Held
    <3>. QED
      BY <1>1, <1>2, <1>3, <2>1, <3>1 DEF Grows, Held
  <2>2. CASE i # d
    <3>1. inodes'[i] = inodes[i]
      BY <1>1, <1>3, <1>4, <2>2 DEF AppendLeaves, Allocated
    <3>. QED
      BY <1>1, <1>4, <3>1 DEF Held
  <2>. QED
    BY <2>1, <2>2
<1>5. IsHeld(tb)'
  <2>1. s \in Held(d)' /\ BlockOf(inodes'[d], s) = tb /\ d \in Allocated'
    <3>1. s \in 0 .. (s + 1) - 1
      BY <1>3
    <3>. QED
      BY <1>1, <1>2, <1>3, <3>1 DEF Grows, Held
  <2>. QED
    BY <2>1 DEF IsHeld
<1>6. IsHeld(fb)'
  <2>1. 0 \in Held(n)'
    <3>1. (nn.type = "DIR" /\ nn.size = 2) \/ (nn.type = "REG" /\ nn.size = 0)
      BY DEF AppendStep
    <3>. QED
      BY <1>3, <3>1 DEF Held
  <2>2. BlockOf(inodes'[n], 0) = fb /\ n \in Allocated'
    <3>1. 0 \div EPB = 0 /\ 0 < ND
      BY FirstPlaces, Measures
    <3>2. nn.dblocks[1] = fb
      BY DEF AppendStep
    <3>. QED
      BY <1>1, <1>3, <3>1, <3>2 DEF BlockOf
  <2>. QED
    BY <2>1, <2>2 DEF IsHeld
<1>7. \A b : IsHeld(b) => IsHeld(b)'
  BY <1>4 DEF IsHeld
<1>. QED
  BY <1>1, <1>5, <1>6, <1>7 DEF AllHeld

LEMMA NothingRemovedStep ==
  ASSUME \A w \in Workload : w[1] \notin {"f_remove", "f_rmdir"},
         NothingRemoved, IInv, TableInv, [Next]_vars
  PROVE  NothingRemoved'
<1>. USE DEF NothingRemoved
<1>1. Idle.op = "none" /\ IsCall(call)
  BY DEF Idle, TableInv
<1>2. CASE call' = Idle \/ UNCHANGED call
  BY <1>1, <1>2
<1>3. ASSUME NEW kind, Fault(kind) PROVE NothingRemoved'
  BY <1>1, <1>3 DEF Fault, IsCall
<1>4. ASSUME NEW w \in Workload, Begin(w[1], w[2], w[3]) PROVE NothingRemoved'
  <2>1. PICK r, op, nm, todo, path :
          /\ r = Idle /\ op = w[1]
          /\ OpenRoot([r EXCEPT !.op = op, !.name = nm, !.todo = todo, !.path = path])
    BY <1>4 DEF Begin
  <2>2. PICK c : c = [r EXCEPT !.op = op, !.name = nm, !.todo = todo, !.path = path]
    OBVIOUS
  <2>3. c.op = op /\ IsCall(c)
    <3>1. IsCall(r)
      BY <2>1, IdleCall
    <3>. QED
      BY <2>2, <3>1 DEF IsCall
  <2>4. call' = [c EXCEPT !.pc = "walk", !.at = 0]
    BY <2>1, <2>2 DEF OpenRoot
  <2>5. call'.op = w[1]
    BY <2>1, <2>3, <2>4 DEF IsCall
  <2>. QED
    BY <2>5
<1>5. CASE Walk \/ PathEnd
  BY <1>1, <1>2, <1>5 DEF Walk, PathEnd, IsCall
<1>6. CASE OpenedDir \/ Mkdir \/ OpenFile \/ Remove
  BY <1>1, <1>2, <1>3, <1>6 DEF OpenedDir, Mkdir, OpenFile, Remove, AppendToFull
<1>7. CASE RmdirOpened \/ RmdirDescend \/ RmdirLeaf
  BY <1>7 DEF RmdirOpened, RmdirDescend, RmdirLeaf, IInv, CallRight
<1>8. CASE (\E fd \in Slot : Close(fd)) \/ Restart \/ UNCHANGED vars
  BY <1>2, <1>8 DEF Close, Restart, vars
<1>. QED
  BY <1>4, <1>5, <1>6, <1>7, <1>8 DEF Next

LEMMA HoldingStep ==
  ASSUME IInv, AllHeld, NothingRemoved, TreeStep
  PROVE  AllHeld'
<1>1. CASE UNCHANGED <<inodes, blocks, sb>>
  <2>1. Allocated' = Allocated
    BY <1>1, SameDisk, Parts
  <2>2. FreeBlocks' = FreeBlocks
    BY <1>1 DEF FreeBlocks, NextBlock, NextFree
  <2>3. \A b : IsHeld(b)' <=> IsHeld(b)
    BY <1>1, <2>1 DEF IsHeld, Held
  <2>. QED
    BY <2>2, <2>3 DEF AllHeld
<1>2. CASE \E d, n, nn, tb, fb : AppendStep(d, n, nn, tb, fb)
  BY <1>2, AppendHolds
<1>. QED
  BY <1>1, <1>2, Creation DEF TreeStep, NothingRemoved

LEMMA FormatHolds == Init => AllHeld /\ NothingRemoved
<1>. SUFFICES ASSUME Init PROVE AllHeld /\ NothingRemoved
  OBVIOUS
<1>1. FreeBlocks = Block \ {0} /\ Allocated = {Root} /\ IInv
  BY FormatLists, FormatRight
<1>2. inodes[Root].type = "DIR" /\ inodes[Root].size = 2 /\ inodes[Root].dblocks[1] = 0
  <2>1. Root \in Inode /\ 1 \in 1 .. ND
    BY <1>1, Measures DEF Allocated
  <2>. QED
    BY <2>1 DEF Init, FormatInode
<1>3. 0 \in Held(Root) /\ BlockOf(inodes[Root], 0) = 0
  <2>1. 0 \div EPB = 0 /\ 0 < ND
    BY FirstPlaces, Measures
  <2>. QED
    BY <1>2, <2>1 DEF Held, BlockOf
<1>4. IsHeld(0)
  BY <1>1, <1>3 DEF IsHeld
<1>. QED
  BY <1>1, <1>4 DEF AllHeld, NothingRemoved, Init, Idle

\* f_mkdir and f_open lose no block: whatever they do in whatever order, one that is not
\* free belongs to a directory or a file.
THEOREM NoBlockGetsLost ==
  ASSUME \A w \in Workload : w[1] \notin {"f_remove", "f_rmdir"}
  PROVE  Spec /\ []Orderly => []NoBlockLost
<1>1. IInv /\ TableInv /\ Orderly /\ AllHeld /\ NothingRemoved /\ [Next]_vars
        => (AllHeld /\ NothingRemoved)'
  BY StepRight, HoldingStep, NothingRemovedStep
<1>2. IInv /\ AllHeld => NoBlockLost
  BY AllHeldIs
<1>. QED
  BY <1>1, <1>2, FormatHolds, TreeInvariant, TableInvariant, PTL DEF Spec

--------------------------------------------------------------------------------
\* Callers whose calls are Orderly

\* The callers use the names in D for directories only, and no other names for them; f_rmdir,
\* which finds by itself what it removes, is not called.
NamesApart(D) ==
  /\ D \subseteq FileNames
  /\ \A w \in Workload :
       /\ w[2] \in Seq(D)
       /\ w[1] = "f_mkdir" => w[3] \in D
       /\ w[1] \in {"f_open_read", "f_open_write", "f_remove"} => w[3] \notin D
       /\ w[1] # "f_rmdir"

\* A directory that gets a new entry has less than C of them.  What a directory may hold is
\* limited by its direct blocks; where something is removed, by the first one.
HasRoom(C) == call.pc = "ready" /\ Appends => DirNode.size < C

NoRemoval == \A w \in Workload : w[1] \notin {"f_remove", "f_rmdir"}

Limit(C) == C = EPB \/ (C = ND * EPB /\ NoRemoval)

--------------------------------------------------------------------------------
\* The invariant

ByName(D) == \A l \in Links : l[2] \in D <=> l[3] \in Directories

\* The walk goes from directory to directory, to do what is due to the name.
OnItsWay(D) ==
  /\ call.op # "f_rmdir" /\ call.pc # "helper"
  /\ call.op = "f_mkdir" => call.name \in D
  /\ call.op \in {"f_open_read", "f_open_write", "f_remove"} => call.name \notin D
  /\ call.pc \in {"walk", "ready"} => call.todo \in Seq(D) /\ file_table[call.at].ino \in Directories

\* The block of the last entry, where it is known.
LastKept ==
  \A d \in Directories : inodes[d].last \in {None, BlockOf(inodes[d], inodes[d].size - 1)}

\* Where nothing is removed, a free inode is as format.c left it; elsewhere a directory
\* keeps to its first block.
Small == \A d \in Directories : inodes[d].size <= EPB
Unused == \A i \in FreeInodes : inodes[i].last = None

Steady(D, C) ==
  /\ ByName(D) /\ OnItsWay(D) /\ LastKept
  /\ IF C = EPB THEN Small ELSE NothingRemoved /\ Unused

--------------------------------------------------------------------------------
\* The walk

LEMMA WayBegins ==
  ASSUME NEW D, NamesApart(D), NEW w \in Workload, Begin(w[1], w[2], w[3]),
         TableInv', IInv'
  PROVE  OnItsWay(D)'
<1>1. PICK r, op, nm, todo : /\ r = Idle /\ op = w[1] /\ nm = w[3] /\ todo = w[2]
  OBVIOUS
<1>2. /\ todo \in Seq(D) /\ op # "f_rmdir"
      /\ op = "f_mkdir" => nm \in D
      /\ op \in {"f_open_read", "f_open_write", "f_remove"} => nm \notin D
  BY <1>1 DEF NamesApart
<1>3. PICK c : c = [r EXCEPT !.op = op, !.name = nm, !.todo = todo, !.path = <<>>]
  OBVIOUS
<1>4. OpenRoot(c)
  BY <1>1, <1>2, <1>3 DEF Begin
<1>5. c.op = op /\ c.name = nm /\ c.todo = todo /\ IsCall(c)
  <2>1. IsCall(r)
    BY <1>1, IdleCall
  <2>. QED
    BY <1>3, <2>1 DEF IsCall
<1>6. call'.op = op /\ call'.name = nm /\ call'.todo = todo /\ call'.at = 0 /\ call'.pc = "walk"
  BY <1>4, <1>5 DEF OpenRoot, IsCall
<1>7. file_table'[0].ino = Root
  BY <1>6 DEF TableInv
<1>8. Root \in Directories'
  BY DEF IInv, Kinds, Directories
<1>. QED
  BY <1>2, <1>6, <1>7, <1>8 DEF OnItsWay

\* The entry a walk finds under a name of directories leads to one.
LEMMA WayLeads ==
  ASSUME OnDisk, NEW D, D \subseteq FileNames, ByName(D), NEW d \in Allocated, NEW nm \in D,
         NEW k, k \in Matches(inodes[d], 0, nm)
  PROVE  EntryAt(inodes[d], k).inode_index \in Directories
<1>1. d \in Directories /\ k \in 2 .. inodes[d].size - 1
  BY LookedUp
<1>2. EntryAt(inodes[d], k).filename = nm
  BY DEF Matches
<1>3. Says(d, k, nm, EntryAt(inodes[d], k).inode_index)
  BY <1>1, <1>2 DEF Says
<1>4. <<d, nm, EntryAt(inodes[d], k).inode_index>> \in Links
  BY <1>3, LinkIs
<1>. QED
  BY <1>4 DEF ByName

LEMMA WayWalked ==
  ASSUME IInv, TableInv, NEW D, D \subseteq FileNames, ByName(D), OnItsWay(D), Walk
  PROVE  OnItsWay(D)'
<1>1. PICK at, d, found, left, head, k, n, fd :
        /\ at = call.at /\ d = file_table[at].ino
        /\ found = Matches(file_table[at].node, 0, Head(call.todo))
        /\ left = [file_table EXCEPT ![at] =
                     IF at # 0 THEN FreeEntry
                     ELSE [@ EXCEPT !.byte_offset =
                             IF found = {} THEN file_table[at].node.size ELSE 0]]
        /\ head = (IF at # 0 THEN at ELSE FirstFree(left))
        /\ k = Least(found) /\ n = EntryAt(file_table[at].node, k).inode_index
        /\ fd = SlotOf(left, n)
  OBVIOUS
<1>2. /\ OnDisk /\ CallRight /\ IsCall(call) /\ CachedIn(file_table, Allocated, inodes)
      /\ IsTable(file_table) /\ call.pc = "walk" /\ call.todo # <<>>
  BY Parts, CachedIs DEF TableInv, Walk
<1>3. /\ at \in Slot /\ d \in Allocated /\ file_table[at].node = inodes[d]
      /\ Head(call.todo) \in D /\ Tail(call.todo) \in Seq(D)
  <2>1. at \in Slot /\ d # None
    BY <1>1, <1>2 DEF CallRight
  <2>2. call.todo \in Seq(D)
    BY <1>2 DEF OnItsWay
  <2>3. Head(call.todo) \in D /\ Tail(call.todo) \in Seq(D)
    BY <1>2, <2>2
  <2>4. d \in Allocated /\ file_table[at].node = inodes[d]
    BY <1>1, <1>2, <2>1 DEF CachedIn
  <2>. QED
    BY <2>1, <2>3, <2>4
<1>4. found # {} => n \in Directories
  <2>1. ASSUME found # {} PROVE k \in Matches(inodes[d], 0, Head(call.todo))
    BY <1>1, <1>2, <1>3, <2>1, FirstMatch
  <2>. QED
    BY <1>1, <1>2, <1>3, <2>1, WayLeads
<1>5. UNCHANGED <<inodes, blocks, sb>> /\ Directories' = Directories
  <2>1. UNCHANGED <<inodes, blocks, sb>>
    BY DEF Walk, disk
  <2>. QED
    BY <1>2, <2>1, LinksSame
<1>6. CASE call' = Idle
  BY <1>6 DEF OnItsWay, Idle
<1>7. ASSUME NEW s, found # {}, call' = [call EXCEPT !.at = s, !.todo = Tail(@)], file_table'[s].ino = n
      PROVE  OnItsWay(D)'
  <2>1. /\ call'.pc = "walk" /\ call'.at = s /\ call'.todo = Tail(call.todo) /\ call'.op = call.op
        /\ call'.name = call.name
    BY <1>2, <1>7 DEF IsCall
  <2>. QED
    BY <1>3, <1>4, <1>5, <1>7, <2>1 DEF OnItsWay
<1>8. CASE /\ found # {} /\ fd # None /\ file_table' = left
           /\ call' = [call EXCEPT !.at = fd, !.todo = Tail(@)]
  <2>1. fd = SlotOf(left, n) /\ fd # None
    BY <1>1, <1>8
  <2>2. left[fd].ino = n
    BY <2>1, SlotOfSlot
  <2>. QED
    BY <1>7, <1>8, <2>2
<1>9. CASE /\ found # {} /\ head # None
           /\ file_table' = [left EXCEPT ![head] = Open(n, inodes[n])]
           /\ call' = [call EXCEPT !.at = head, !.todo = Tail(@)]
  <2>1. head \in Slot
    <3>1. head = at \/ head = SlotOf(left, None)
      BY <1>1 DEF FirstFree
    <3>. QED
      BY <1>3, <1>9, <3>1, SlotOfSlot
  <2>2. DOMAIN left = Slot
    <3>1. DOMAIN file_table = Slot
      BY <1>2 DEF IsTable
    <3>. QED
      BY <1>1, <3>1
  <2>3. file_table'[head].ino = n
    BY <1>9, <2>1, <2>2 DEF Open
  <2>. QED
    BY <1>7, <1>9, <2>3
<1>10. CASE call' = [call EXCEPT !.pc = "tablefault"]
  <2>1. call'.pc = "tablefault" /\ call'.op = call.op /\ call'.name = call.name
    BY <1>2, <1>10 DEF IsCall
  <2>. QED
    BY <2>1 DEF OnItsWay
<1>. QED
  BY <1>1, <1>6, <1>8, <1>9, <1>10 DEF Walk

LEMMA WayStep ==
  ASSUME IInv, TableInv, IInv', TableInv', NEW D, NamesApart(D), ByName(D), OnItsWay(D), [Next]_vars
  PROVE  OnItsWay(D)'
<1>1. IsCall(call) /\ OnDisk /\ D \subseteq FileNames
  BY Parts DEF TableInv, NamesApart
<1>2. CASE call' = Idle
  BY <1>2 DEF OnItsWay, Idle
<1>3. ASSUME NEW kind \in {"blockfault", "tablefault"}, Fault(kind) PROVE OnItsWay(D)'
  <2>1. call'.pc = kind /\ call'.op = call.op /\ call'.name = call.name
    BY <1>1, <1>3 DEF Fault, IsCall
  <2>. QED
    BY <2>1 DEF OnItsWay
<1>4. ASSUME NEW w \in Workload, Begin(w[1], w[2], w[3]) PROVE OnItsWay(D)'
  BY <1>4, WayBegins
<1>5. CASE Walk
  BY <1>1, <1>5, WayWalked
<1>6. CASE PathEnd
  <2>1. /\ call.pc = "walk" /\ call'.pc = "ready" /\ call'.at = call.at /\ call'.todo = call.todo
        /\ call'.op = call.op /\ call'.name = call.name /\ UNCHANGED file_table
    BY <1>1, <1>6 DEF PathEnd, IsCall
  <2>2. Directories' = Directories
    BY <1>1, <1>6, LinksSame DEF PathEnd, disk
  <2>. QED
    BY <2>1, <2>2 DEF OnItsWay
<1>7. CASE OpenedDir \/ Mkdir \/ OpenFile \/ Remove
  BY <1>2, <1>3, <1>7 DEF OpenedDir, Mkdir, OpenFile, Remove, AppendToFull
<1>8. CASE RmdirOpened \/ RmdirDescend \/ RmdirLeaf
  BY <1>8 DEF RmdirOpened, RmdirDescend, RmdirLeaf, OnItsWay
<1>9. CASE (\E fd \in Slot : Close(fd)) \/ Restart
  <2>1. UNCHANGED call /\ call.pc = "idle"
    BY <1>9 DEF Close, Restart
  <2>. QED
    BY <2>1 DEF OnItsWay
<1>10. CASE UNCHANGED vars
  <2>1. UNCHANGED <<inodes, blocks, sb, file_table, call>>
    BY <1>10 DEF vars
  <2>2. Directories' = Directories
    BY <1>1, <2>1, LinksSame
  <2>. QED
    BY <2>1, <2>2 DEF OnItsWay
<1>. QED
  BY <1>4, <1>5, <1>6, <1>7, <1>8, <1>9, <1>10 DEF Next

--------------------------------------------------------------------------------
\* The tree

LEMMA NamesStep ==
  ASSUME IInv, TreeStep, NEW D, ByName(D), OnItsWay(D)
  PROVE  ByName(D)'
<1>1. CASE UNCHANGED <<inodes, blocks, sb>>
  <2>1. Links' = Links /\ Directories' = Directories
    BY <1>1, LinksSame, Parts
  <2>. QED
    BY <2>1 DEF ByName
<1>2. CASE CreateStep
  <2>1. PICK n, nn, tb, fb :
          /\ AppendStep(DirIno, n, nn, tb, fb)
          /\ IF call.op = "f_mkdir" THEN nn = NewDirNode(inodes[n], inodes[DirIno], DirIno)
                                    ELSE nn.type = "REG"
    BY <1>2 DEF CreateStep
  <2>2. PICK d : d = DirIno
    OBVIOUS
  <2>3. /\ Links' = Links \cup {<<d, call.name, n>>}
        /\ Directories' = IF nn.type = "DIR" THEN Directories \cup {n} ELSE Directories
        /\ n \in FreeInodes
    BY <2>1, <2>2, LinksAppended
  <2>4. nn.type = "DIR" <=> call.name \in D
    <3>1. CASE call.op = "f_mkdir"
      <4>1. nn = NewDirNode(inodes[n], inodes[DirIno], DirIno) /\ inodes[n] \in InodeRecord
        BY <2>1, <2>3, <3>1, FreeListFacts DEF IInv, Shapes
      <4>2. nn.type = "DIR"
        BY <4>1, RecordParts DEF NewDirNode
      <4>. QED
        BY <3>1, <4>2 DEF OnItsWay
    <3>2. CASE call.op # "f_mkdir"
      <4>1. call.op = "f_open_write"
        BY <1>2, <3>2 DEF CreateStep, Appends
      <4>. QED
        BY <2>1, <3>2, <4>1 DEF OnItsWay
    <3>. QED
      BY <3>1, <3>2
  <2>5. ASSUME NEW l \in Links PROVE l[3] # n /\ (l[2] \in D <=> l[3] \in Directories)
    <3>1. PICK e, k, nm, i : l = <<e, nm, i>> /\ Says(e, k, nm, i)
      BY LinkIs
    <3>2. i \in Allocated
      BY <3>1 DEF IInv, EntriesRight, Says
    <3>. QED
      BY <2>3, <3>1, <3>2 DEF ByName, Allocated
  <2>6. n \notin Directories
    BY <2>3 DEF Directories, Allocated
  <2>7. ASSUME NEW l \in Links' PROVE l[2] \in D <=> l[3] \in Directories'
    <3>1. CASE l \in Links
      BY <2>3, <2>5, <3>1
    <3>2. CASE l = <<d, call.name, n>>
      BY <2>3, <2>4, <2>6, <3>2
    <3>. QED
      BY <2>3, <2>7, <3>1, <3>2
  <2>. QED
    BY <2>7 DEF ByName
<1>3. CASE \E d, k, t : RemoveStep(d, k, t)
  <2>1. PICK d, k, t : RemoveStep(d, k, t)
    BY <1>3
  <2>2. Links' \subseteq Links /\ Directories' = Directories
    BY <2>1, LinksRemoved
  <2>. QED
    BY <2>2 DEF ByName
<1>. QED
  BY <1>1, <1>2, <1>3 DEF TreeStep

--------------------------------------------------------------------------------
\* last_block_index and the size of a directory

LEMMA FirstBlock ==
  ASSUME NEW k \in Nat, k < EPB
  PROVE  k \div EPB = 0 /\ k % EPB = k
<1>1. k \div EPB \in Nat /\ k % EPB \in 0 .. EPB - 1 /\ k = EPB * (k \div EPB) + (k % EPB)
  BY Place
<1> DEFINE q == k \div EPB
<1>2. 0 < q => EPB * 0 + EPB <= EPB * q
  BY <1>1, Products
<1>3. EPB * q \in Nat
  BY <1>1, Measures
<1>4. q = 0
  <2> HIDE DEF q
  <2>. QED
    BY <1>1, <1>2, <1>3, Measures DEF q
<1>5. EPB * q = 0
  BY <1>4, Measures
<1>. QED
  BY <1>1, <1>4, <1>5

\* The directory that gets an entry remembers the block it went into, and the new one its own.
LEMMA LastAppended ==
  ASSUME IInv, LastKept, CreateStep, NEW C, HasRoom(C), IF C = EPB THEN Small ELSE Unused
  PROVE  LastKept' /\ IF C = EPB THEN Small' ELSE Unused'
<1>1. PICK d, n, nn, tb, fb :
        /\ d = DirIno /\ AppendStep(d, n, nn, tb, fb)
        /\ IF call.op = "f_mkdir" THEN nn = NewDirNode(inodes[n], inodes[d], d)
                                  ELSE nn.type = "REG"
  BY DEF CreateStep
<1>2. /\ AppendLeaves(d, n, nn, tb, fb) /\ Grows(d, tb, fb) /\ AppendTree(d, n, nn)
      /\ FreeInodes' = FreeInodes \ {n}
  BY <1>1, AppendWritten, AppendGrows, AppendTreeStep, AppendLists
<1>3. /\ d \in Directories /\ d \in Allocated /\ n \in Inode /\ n \in FreeInodes /\ inodes[n] \in InodeRecord
      /\ inodes[d].size \in Nat /\ inodes[d].size >= 2 /\ inodes[d] \in InodeRecord
      /\ inodes'[d] = Grown(inodes[d]) /\ inodes'[n] = nn /\ n \notin Allocated
      /\ \A i \in Inode \ {d, n} : inodes'[i] = inodes[i]
  BY <1>1, <1>2, InDirectories DEF AppendStep, AppendLeaves, IInv, Shapes, Allocated
<1>4. DirNode = inodes[d] /\ inodes[d].size < C
  BY <1>1, DirSlotRight DEF CreateStep, HasRoom
<1>5. C = EPB => ~ Spills(inodes[d]) /\ inodes[d].size + 1 <= EPB
  <2>1. ASSUME C = EPB PROVE inodes[d].size % EPB # 0 /\ inodes[d].size + 1 <= EPB
    BY <1>3, <1>4, <2>1, FirstBlock, Measures
  <2>. QED
    BY <2>1 DEF Spills
<1>6. inodes'[d].last = BlockOf(inodes'[d], inodes'[d].size - 1)
  <2>1. Grown(inodes[d]).last = tb /\ inodes'[d].size = inodes[d].size + 1
    <3>1. Target(inodes[d]) = tb
      BY <1>1 DEF AppendStep
    <3>2. Grown(inodes[d]).last = Target(inodes[d])
      BY <1>3, RecordParts DEF Grown
    <3>. QED
      BY <1>2, <3>1, <3>2 DEF AppendTree
  <2>2. inodes'[d].size - 1 = inodes[d].size /\ inodes[d].size \in Nat
    BY <1>3, <2>1
  <2>3. BlockOf(inodes'[d], inodes[d].size) = tb
    BY <1>2, <1>3 DEF Grows
  <2>. QED
    BY <1>3, <2>1, <2>2, <2>3
<1>7. ASSUME nn.type = "DIR" PROVE inodes'[n].last \in {None, BlockOf(inodes'[n], inodes'[n].size - 1)}
  <2>1. nn = NewDirNode(inodes[n], inodes[d], d) /\ nn.dblocks[1] = fb /\ fb = FreeAfter(inodes[d]) /\ nn.size = 2
    BY <1>1, <1>7 DEF AppendStep
  <2>2. nn.last = IF Spills(inodes[d]) THEN inodes[n].last ELSE FreeAfter(inodes[d])
    <3>1. PICK old, x, f : old = inodes[n] /\ f = FreeAfter(inodes[d]) /\ x = (IF Spills(inodes[d]) THEN old.last ELSE f)
      OBVIOUS
    <3>2. nn = [old EXCEPT !.type = "DIR", !.parent = d, !.size = 2, !.dblocks[1] = f, !.last = x]
      BY <2>1, <3>1 DEF NewDirNode
    <3>3. nn.last = x
      BY <1>3, <3>1, <3>2, RecordParts
    <3>. QED
      BY <3>1, <3>3
  <2>3. BlockOf(nn, 1) = fb
    <3>1. 1 \div EPB = 0 /\ 0 < ND /\ 0 + 1 = 1
      BY FirstPlaces, Measures
    <3>. QED
      BY <2>1, <3>1 DEF BlockOf
  <2>4. Spills(inodes[d]) => inodes[n].last = None
    BY <1>3, <1>5 DEF Unused
  <2>. QED
    BY <1>3, <2>1, <2>2, <2>3, <2>4
<1>8. \A e \in Directories' : e = d \/ (e = n /\ nn.type = "DIR") \/ (e \in Directories /\ e \in Inode \ {d, n})
  BY <1>2, <1>3 DEF AppendTree, Directories, Allocated
<1>9. LastKept'
  <2>1. ASSUME NEW e \in Directories' PROVE inodes'[e].last \in {None, BlockOf(inodes'[e], inodes'[e].size - 1)}
    <3>1. CASE e = d
      BY <1>6, <3>1
    <3>2. CASE e = n /\ nn.type = "DIR"
      BY <1>7, <3>2
    <3>3. CASE e \in Directories /\ e \in Inode \ {d, n}
      <4>1. inodes'[e] = inodes[e]
        BY <1>3, <3>3
      <4>. QED
        BY <3>3, <4>1 DEF LastKept
    <3>. QED
      BY <1>8, <3>1, <3>2, <3>3
  <2>2. \A e, k : BlockOf(inodes'[e], k) = BlockOf(inodes[e], k)'
    BY DEF BlockOf
  <2>. QED
    BY <2>1, <2>2 DEF LastKept
<1>10. CASE C = EPB
  <2>1. ASSUME NEW e \in Directories' PROVE inodes'[e].size <= EPB
    <3>1. CASE e = d
      BY <1>2, <1>3, <1>5, <1>10, <3>1 DEF AppendTree
    <3>2. CASE e = n /\ nn.type = "DIR"
      BY <1>2, <3>2, Measures DEF AppendTree
    <3>3. CASE e \in Directories /\ e \in Inode \ {d, n}
      <4>1. inodes'[e] = inodes[e]
        BY <1>3, <3>3
      <4>. QED
        BY <1>10, <3>3, <4>1 DEF Small
    <3>. QED
      BY <1>8, <3>1, <3>2, <3>3
  <2>. QED
    BY <1>9, <1>10, <2>1 DEF Small
<1>11. CASE C # EPB
  <2>1. ASSUME NEW i \in FreeInodes' PROVE inodes'[i].last = None
    <3>1. i \in FreeInodes /\ i \in Inode \ {d, n}
      BY <1>2, <1>3, <2>1, FreeListFacts DEF Allocated
    <3>2. inodes'[i] = inodes[i]
      BY <1>3, <3>1
    <3>. QED
      BY <1>11, <3>1, <3>2 DEF Unused
  <2>. QED
    BY <1>9, <1>11, <2>1 DEF Unused
<1>. QED
  BY <1>10, <1>11

\* A directory in its first block that loses an entry stays there.
LEMMA LastRemoved ==
  ASSUME IInv, LastKept, Small, NEW d, NEW k, NEW t, RemoveStep(d, k, t)
  PROVE  LastKept' /\ Small'
<1>1. PICK lb : lb = BlockOf(inodes[d], inodes[d].size - 1)
  OBVIOUS
<1>2. RemoveLeaves(d, k, t, lb) /\ RemoveTree(d, k, t)
  BY <1>1, RemoveWritten, RemoveTreeStep
<1>3. /\ d \in Directories /\ d \in Inode /\ t \in Inode /\ t # d /\ Directories' = Directories
      /\ inodes[d] \in InodeRecord /\ inodes[d].size \in Nat /\ inodes[d].size <= EPB
      /\ inodes'[d].size = inodes[d].size - 1 /\ inodes'[d].size >= 2
      /\ inodes'[d].dblocks = inodes[d].dblocks
      /\ \A i \in Inode \ {d, t} : inodes'[i] = inodes[i]
      /\ inodes[t].type = "REG"
  BY <1>2, InDirectories DEF RemoveLeaves, RemoveTree, IInv, Shapes, Small
<1>4. inodes'[d].last = inodes[d].last
  <2>1. inodes' = [inodes EXCEPT ![d] = Shrunk(inodes[d]), ![t] = FreedInode(t)]
    BY DEF RemoveStep
  <2>2. inodes'[d] = Shrunk(inodes[d])
    BY <1>3, <2>1 DEF IInv, Shapes
  <2>. QED
    BY <1>3, <2>2, RecordParts DEF Shrunk
<1>5. BlockOf(inodes[d], inodes[d].size - 1) = inodes[d].dblocks[1]
      /\ BlockOf(inodes'[d], inodes'[d].size - 1) = inodes'[d].dblocks[1]
  <2>1. /\ inodes[d].size - 1 \in Nat /\ inodes[d].size - 1 < EPB
        /\ inodes'[d].size - 1 \in Nat /\ inodes'[d].size - 1 < EPB
    BY <1>3, Measures
  <2>2. (inodes[d].size - 1) \div EPB = 0 /\ (inodes'[d].size - 1) \div EPB = 0
    BY <2>1, FirstBlock
  <2>3. 0 < ND /\ 0 + 1 = 1
    BY Measures
  <2>. QED
    BY <2>2, <2>3 DEF BlockOf
<1>6. ASSUME NEW e \in Directories
      PROVE  inodes'[e].last \in {None, BlockOf(inodes'[e], inodes'[e].size - 1)} /\ inodes'[e].size <= EPB
  <2>1. CASE e = d
    <3>1. inodes[d].last \in {None, BlockOf(inodes[d], inodes[d].size - 1)}
      BY <1>3 DEF LastKept
    <3>2. BlockOf(inodes'[d], inodes'[d].size - 1) = BlockOf(inodes[d], inodes[d].size - 1)
      BY <1>3, <1>5
    <3>3. inodes'[d].last \in {None, BlockOf(inodes'[d], inodes'[d].size - 1)}
      BY <1>4, <3>1, <3>2
    <3>4. inodes'[d].size <= EPB
      BY <1>3, Measures
    <3>. QED
      BY <2>1, <3>3, <3>4
  <2>2. CASE e # d
    <3>1. inodes'[e] = inodes[e]
      BY <1>3, <2>2 DEF Directories, Allocated
    <3>. QED
      BY <3>1 DEF LastKept, Small
  <2>. QED
    BY <2>1, <2>2
<1>7. \A e, l : BlockOf(inodes'[e], l) = BlockOf(inodes[e], l)'
  BY DEF BlockOf
<1>. QED
  BY <1>3, <1>6, <1>7 DEF LastKept, Small

--------------------------------------------------------------------------------
\* The invariant keeps the calls orderly, and orderly calls keep the invariant.

LEMMA SteadyOrderly ==
  ASSUME IInv, NEW D, NEW C, D \subseteq FileNames, Limit(C), Steady(D, C), HasRoom(C)
  PROVE  Orderly
<1>1. CASE call.pc # "ready"
  BY <1>1 DEF Orderly
<1>2. ASSUME call.pc = "ready", Appends
      PROVE  /\ DirNode.type = "DIR" /\ ~ DirFull(DirNode)
             /\ Spills(DirNode) \/ DirNode.last \in {None, BlockOf(DirNode, DirNode.size - 1)}
  <2>1. PICK d : d = DirIno
    OBVIOUS
  <2>2. d \in Directories /\ DirNode = inodes[d]
    <3>1. file_table[call.at].ino = d /\ DirNode = inodes[d]
      BY <1>2, <2>1, DirSlotRight
    <3>. QED
      BY <1>2, <3>1 DEF Steady, OnItsWay
  <2>3. inodes[d].type = "DIR" /\ inodes[d].size \in Nat /\ inodes[d].size < C
    BY <1>2, <2>2, InDirectories DEF IInv, HasRoom
  <2>4. inodes[d].size \div EPB < ND
    <3>1. CASE C = EPB
      <4>1. inodes[d].size \div EPB = 0
        BY <2>3, <3>1, FirstBlock
      <4>. QED
        BY <4>1, Measures
    <3>2. CASE C = ND * EPB
      BY <2>3, <3>2, Within
    <3>. QED
      BY <3>1, <3>2 DEF Limit
  <2>5. ~ DirFull(inodes[d])
    <3>1. inodes[d].size \div EPB \in Nat
      BY <2>3, Place
    <3>. QED
      BY <2>4, <3>1, Measures DEF DirFull
  <2>. QED
    BY <2>2, <2>3, <2>5 DEF Steady, LastKept
<1>3. ASSUME call.pc = "ready", call.op = "f_remove"
      PROVE  LET dir   == file_table[LastSlotOf(file_table[call.at].ino)]
                 found == Matches(dir.node, dir.byte_offset, call.name)
                 t     == EntryAt(dir.node, Least(found)).inode_index
             IN  found # {} /\ Removable(t) => inodes[t].type = "REG"
  <2>1. PICK p, dir, d, found, k, t :
          /\ p = LastSlotOf(file_table[call.at].ino) /\ dir = file_table[p] /\ d = file_table[p].ino
          /\ found = Matches(dir.node, dir.byte_offset, call.name) /\ k = Least(found)
          /\ t = EntryAt(dir.node, k).inode_index
    OBVIOUS
  <2>2. d \in Allocated /\ dir.node = inodes[d] /\ dir.byte_offset \in Nat /\ call.name \in FileNames
    BY <1>3, <2>1, LastSlotRight
  <2>3. ASSUME found # {} PROVE inodes[t].type = "REG"
    <3>1. OnDisk /\ Kinds
      BY Parts DEF OnDisk
    <3>2. k \in Matches(inodes[d], dir.byte_offset, call.name)
      <4>1. PICK from, nm, S : from = dir.byte_offset /\ nm = call.name /\ S = Matches(inodes[d], from, nm)
        OBVIOUS
      <4>2. S # {} /\ k = Least(S) /\ from \in Nat /\ S \in SUBSET Matches(inodes[d], from, nm)
        BY <2>1, <2>2, <2>3, <4>1
      <4>3. Least(S) \in S
        BY <2>2, <3>1, <4>2, FirstMatch
      <4>. QED
        BY <4>1, <4>2, <4>3
    <3>3. d \in Directories /\ k \in 2 .. inodes[d].size - 1 /\ t \in Allocated
      BY <2>1, <2>2, <3>1, <3>2, LookedUp
    <3>4. Says(d, k, call.name, t)
      BY <2>1, <2>2, <3>2, <3>3 DEF Says, Matches
    <3>5. call.name \notin D
      BY <1>3 DEF Steady, OnItsWay
    <3>6. t \notin Directories
      <4>1. <<d, call.name, t>> \in Links
        BY <3>4, LinkIs
      <4>2. \A l \in Links : l[2] \in D <=> l[3] \in Directories
        BY DEF Steady, ByName
      <4>. QED
        BY <3>5, <4>1, <4>2
    <3>. QED
      BY <3>1, <3>3, <3>6 DEF Kinds, Directories
  <2>. QED
    BY <2>1, <2>3
<1>. QED
  BY <1>1, <1>2, <1>3 DEF Orderly

LEMMA SteadyStep ==
  ASSUME NEW D, NEW C, NamesApart(D), Limit(C),
         IInv, TableInv, HasRoom(C), Steady(D, C), [Next]_vars
  PROVE  IInv' /\ Steady(D, C)'
<1>1. D \subseteq FileNames /\ (C # EPB => NoRemoval)
  BY DEF NamesApart, Limit
<1>2. Orderly
  BY <1>1, SteadyOrderly
<1>3. IInv' /\ TreeStep
  BY <1>2, StepRight
<1>4. TableInv'
  BY CallStep DEF StepOK
<1>5. ByName(D)' /\ OnItsWay(D)'
  BY <1>3, <1>4, NamesStep, WayStep DEF Steady
<1>6. C # EPB => NothingRemoved'
  BY <1>1, NothingRemovedStep DEF NoRemoval, Steady
<1>7. LastKept' /\ IF C = EPB THEN Small' ELSE Unused'
  <2>1. LastKept /\ (IF C = EPB THEN Small ELSE Unused)
    BY DEF Steady
  <2>2. CASE UNCHANGED <<inodes, blocks, sb>>
    <3>1. Directories' = Directories /\ FreeInodes' = FreeInodes
      BY <2>2, LinksSame, Parts
    <3>. QED
      BY <2>1, <2>2, <3>1 DEF LastKept, Small, Unused, BlockOf
  <2>3. CASE CreateStep
    BY <2>1, <2>3, LastAppended
  <2>4. CASE call.op = "f_remove" /\ \E d, k, t : RemoveStep(d, k, t)
    <3>1. C = EPB
      BY <2>4 DEF Steady, NothingRemoved
    <3>. QED
      BY <2>1, <2>4, <3>1, LastRemoved
  <2>. QED
    BY <1>3, <2>2, <2>3, <2>4 DEF TreeStep
<1>. QED
  BY <1>3, <1>5, <1>6, <1>7 DEF Steady

LEMMA SteadyStart ==
  ASSUME NEW D, NEW C
  PROVE  Init => Steady(D, C)
<1>. SUFFICES ASSUME Init PROVE Steady(D, C)
  OBVIOUS
<1>1. FreeInodes = Inode \ {Root} /\ Allocated = {Root} /\ IInv
  BY FormatLists, FormatRight
<1>2. \A i \in Inode : inodes[i] = FormatInode(i)
  BY DEF Init
<1>3. Root \in Inode
  BY <1>1 DEF Allocated
<1>4. Directories = {Root} /\ inodes[Root].size = 2 /\ inodes[Root].last = 0 /\ inodes[Root].dblocks[1] = 0
  <2>1. 1 \in 1 .. ND
    BY Measures
  <2>2. /\ inodes[Root].size = 2 /\ inodes[Root].last = 0 /\ inodes[Root].dblocks[1] = 0
        /\ inodes[Root].type = "DIR"
    <3>1. inodes[Root] = FormatInode(Root)
      BY <1>2, <1>3
    <3>2. FormatInode(Root).size = 2 /\ FormatInode(Root).last = 0 /\ FormatInode(Root).type = "DIR"
      BY DEF FormatInode
    <3>3. FormatInode(Root).dblocks = [j \in 1 .. ND |-> 0]
      BY DEF FormatInode
    <3>. QED
      BY <2>1, <3>1, <3>2, <3>3
  <2>. QED
    BY <1>1, <2>2 DEF Directories
<1>5. Entries = {}
  BY <1>4 DEF Entries
<1>6. BlockOf(inodes[Root], 1) = 0
  <2>1. 1 \div EPB = 0 /\ 0 < ND /\ 0 + 1 = 1
    BY FirstPlaces, Measures
  <2>. QED
    BY <1>4, <2>1 DEF BlockOf
<1>7. LastKept /\ Small
  BY <1>4, <1>6, Measures DEF LastKept, Small
<1>8. Unused
  <2>1. ASSUME NEW i \in FreeInodes PROVE inodes[i].last = None
    <3>1. i \in Inode /\ i # Root
      BY <1>1, <2>1
    <3>2. inodes[i] = FormatInode(i)
      BY <1>2, <3>1
    <3>. QED
      BY <3>1, <3>2 DEF FormatInode
  <2>. QED
    BY <2>1 DEF Unused
<1>9. OnItsWay(D) /\ NothingRemoved
  BY DEF Init, Idle, OnItsWay, NothingRemoved
<1>10. ByName(D)
  BY <1>5 DEF ByName, Links
<1>. QED
  BY <1>7, <1>8, <1>9, <1>10 DEF Steady

\* f_mkdir, f_open and f_remove can trust what they do not look at - that a path ends in a
\* directory with room and a right last_block_index, that f_remove was given a file - when the
\* callers tell files from directories by their names and fill no directory.
THEOREM CallsStayOrderly ==
  ASSUME NEW D, NEW C, NamesApart(D), Limit(C)
  PROVE  Spec /\ []HasRoom(C) => []Orderly
<1>1. IInv /\ TableInv /\ HasRoom(C) /\ Steady(D, C) /\ [Next]_vars => (IInv /\ Steady(D, C))'
  BY SteadyStep
<1>2. IInv /\ Steady(D, C) /\ HasRoom(C) => Orderly
  BY SteadyOrderly DEF NamesApart
<1>. QED
  BY <1>1, <1>2, FormatRight, SteadyStart, TableInvariant, PTL DEF Spec

--------------------------------------------------------------------------------
\* Room for all inodes of the disk.

LEMMA FewEntries ==
  ASSUME IInv, NEW d \in Directories, sb.free_inode # None
  PROVE  inodes[d].size <= NInodes
<1>1. PICK n, s : n = sb.free_inode /\ s = inodes[d].size
  OBVIOUS
<1>2. /\ s \in Nat /\ s >= 2 /\ n \in Inode /\ n \notin Allocated /\ Root \in Allocated /\ n # Root
      /\ EachNamed /\ NInodes \in Nat /\ Root \in Inode
  BY <1>1, InDirectories, FreeListFacts, NamedOnceIs, Sizes DEF Allocated, IInv, Kinds
<1>3. PICK S, T : S = 2 .. s - 1 /\ T = Inode \ {Root, n}
  OBVIOUS
<1>4. PICK f : f = [k \in S |-> EntryAt(inodes[d], k).inode_index]
  OBVIOUS
<1>5. \A k \in S : EntryNames(d, k, f[k]) /\ f[k] \in T
  <2>1. ASSUME NEW k \in S PROVE EntryNames(d, k, f[k]) /\ f[k] \in T
    <3>1. k \in 2 .. inodes[d].size - 1 /\ f[k] = EntryAt(inodes[d], k).inode_index
      BY <1>1, <1>3, <1>4
    <3>2. f[k] \in Allocated \ {Root}
      BY <3>1 DEF IInv, EntriesRight
    <3>. QED
      BY <1>2, <1>3, <3>1, <3>2 DEF EntryNames, Allocated
  <2>. QED
    BY <2>1
<1>6. f \in Injection(S, T)
  <2>1. f \in [S -> T]
    BY <1>4, <1>5
  <2>2. \A k, l \in S : f[k] = f[l] => k = l
    BY <1>2, <1>5 DEF EachNamed
  <2>. QED
    BY <2>1, <2>2 DEF Injection, IsInjective
<1>7. Cardinality(S) = s - 2
  <2>1. 2 \in Int /\ s - 1 \in Int
    BY <1>2
  <2>2. Cardinality(2 .. s - 1) = IF 2 > s - 1 THEN 0 ELSE (s - 1) - 2 + 1
    BY <2>1, FS_Interval
  <2>. QED
    BY <1>2, <1>3, <2>2
<1>8. IsFiniteSet(T) /\ Cardinality(T) = NInodes - 2
  <2>1. IsFiniteSet(Inode) /\ Cardinality(Inode) = NInodes
    <3>1. 0 \in Int /\ NInodes - 1 \in Int /\ NInodes > 0
      BY Sizes
    <3>2. Cardinality(0 .. NInodes - 1) = IF 0 > NInodes - 1 THEN 0 ELSE (NInodes - 1) - 0 + 1
      BY <3>1, FS_Interval
    <3>. QED
      BY <1>2, <3>1, <3>2, FiniteRegions DEF Inode
  <2>2. IsFiniteSet(Inode \ {Root}) /\ Cardinality(Inode \ {Root}) = NInodes - 1
    BY <1>2, <2>1, FS_RemoveElement
  <2>3. IsFiniteSet((Inode \ {Root}) \ {n}) /\ Cardinality((Inode \ {Root}) \ {n}) = (NInodes - 1) - 1
    <3>1. n \in Inode \ {Root}
      BY <1>2
    <3>. QED
      BY <2>2, <3>1, FS_RemoveElement
  <2>4. T = (Inode \ {Root}) \ {n}
    BY <1>3
  <2>. QED
    BY <1>2, <2>3, <2>4
<1>9. Cardinality(S) <= Cardinality(T)
  BY <1>6, <1>8, FS_Injection
<1>. QED
  BY <1>1, <1>2, <1>7, <1>8, <1>9

LEMMA RoomForAll ==
  ASSUME NEW D, NEW C, Limit(C), NInodes < C, IInv, Steady(D, C)
  PROVE  HasRoom(C)
<1>. SUFFICES ASSUME call.pc = "ready", Appends
              PROVE  DirNode.size < C
  BY DEF HasRoom
<1>1. PICK d : d = DirIno
  OBVIOUS
<1>2. d \in Directories /\ DirNode = inodes[d]
  <2>1. file_table[call.at].ino = d /\ DirNode = inodes[d]
    BY <1>1, DirSlotRight
  <2>. QED
    BY <2>1 DEF Steady, OnItsWay
<1>3. inodes[d].size <= NInodes /\ inodes[d].size \in Nat
  BY <1>2, FewEntries, InDirectories DEF Appends, IInv
<1>4. C \in Nat /\ NInodes \in Nat
  BY Sizes DEF Limit
<1>. QED
  BY <1>2, <1>3, <1>4

\* And they need not watch the directories on a disk with fewer inodes than fit in one.
THEOREM SmallDisksStayOrderly ==
  ASSUME NEW D, NEW C, NamesApart(D), Limit(C), NInodes < C
  PROVE  Spec => []Orderly
<1>1. IInv /\ TableInv /\ Steady(D, C) /\ [Next]_vars => (IInv /\ Steady(D, C))'
  BY RoomForAll, SteadyStep
<1>2. IInv /\ Steady(D, C) => Orderly
  BY RoomForAll, SteadyOrderly DEF NamesApart
<1>. QED
  BY <1>1, <1>2, FormatRight, SteadyStart, TableInvariant, PTL DEF Spec

--------------------------------------------------------------------------------
\* The open-file table.

InosOf(ft) == [s \in Slot |-> ft[s].ino]
Cur == IF Stage = "idle" THEN 0 ELSE call.at

LEMMA TableConstants ==
  /\ FT!Slot = Slot /\ FT!Inode = Inode /\ FT!Root = Root /\ FT!Free = None /\ FT!None = None
BY DEF FT!Slot, FT!Inode, FT!Root, FT!Free, FT!None, Slot, Inode, Root, None

\* FileTable's searches find what FileSystem's do.
LEMMA SearchesAgree ==
  \A ft, n : FT!SlotOf(InosOf(ft), n) = SlotOf(ft, n) /\ FT!FirstFree(InosOf(ft)) = FirstFree(ft)
<1>1. ASSUME NEW ft, NEW n PROVE FT!SlotOf(InosOf(ft), n) = SlotOf(ft, n)
  <2>1. PICK S : S = {s \in Slot : ft[s].ino = n}
    OBVIOUS
  <2>2. PICK gt : gt = InosOf(ft)
    OBVIOUS
  <2>3. \A s \in Slot : gt[s] = n <=> s \in S
    BY <2>1, <2>2 DEF InosOf
  <2>4. S \in SUBSET Nat
    BY <2>1, Slots
  <2>5. CASE S = {}
    <3>1. FT!SlotOf(gt, n) = None
      BY <2>1, <2>3, <2>5, TableConstants DEF FT!SlotOf
    <3>2. SlotOf(ft, n) = None
      BY <2>1, <2>5 DEF SlotOf
    <3>. QED
      BY <2>2, <3>1, <3>2
  <2>6. CASE S # {}
    <3>1. Least(S) \in S /\ \A t \in S : Least(S) <= t
      BY <2>4, <2>6, LeastNat
    <3>2. SlotOf(ft, n) = Least(S)
      BY <2>1, <2>6 DEF SlotOf
    <3>3. \A s \in Slot : gt[s] = n /\ (\A t \in Slot : gt[t] = n => s <= t) <=> s = Least(S)
      <4>1. ASSUME NEW s \in S, \A t \in S : s <= t PROVE s = Least(S)
        <5>1. s <= Least(S) /\ Least(S) <= s /\ s \in Nat /\ Least(S) \in Nat
          BY <2>4, <3>1, <4>1
        <5>. QED
          BY <5>1
      <4>2. S \subseteq Slot
        BY <2>1
      <4>. QED
        BY <2>3, <3>1, <4>1, <4>2
    <3>4. (CHOOSE s \in Slot : gt[s] = n /\ \A t \in Slot : gt[t] = n => s <= t) = Least(S)
      <4>1. Least(S) \in Slot
        BY <2>1, <3>1
      <4>. QED
        BY <3>3, <4>1
    <3>5. \E s \in Slot : gt[s] = n
      BY <2>1, <2>3, <3>1
    <3>6. FT!SlotOf(gt, n) = Least(S)
      BY <3>4, <3>5, TableConstants DEF FT!SlotOf
    <3>. QED
      BY <2>2, <3>2, <3>6
  <2>. QED
    BY <2>5, <2>6
<1>2. ASSUME NEW ft PROVE FT!FirstFree(InosOf(ft)) = FirstFree(ft)
  <2>1. FT!FirstFree(InosOf(ft)) = FT!SlotOf(InosOf(ft), None)
    BY TableConstants DEF FT!FirstFree, FT!SlotOf
  <2>. QED
    BY <1>1, <2>1 DEF FirstFree
<1>. QED
  BY <1>1, <1>2

\* What FileTable sees of a state, and of the next.
LEMMA TableSeen ==
  /\ Ids = InosOf(file_table) /\ Ids' = InosOf(file_table')
  /\ FT!vars = <<Ids, table_freehead, by_open, {h[1] : h \in fds}, Stage, Cur>>
  /\ FT!vars' = <<Ids', table_freehead', by_open', {h[1] : h \in fds'}, Stage', Cur'>>
BY DEF Ids, InosOf, FT!vars, Cur

LEMMA SameIds == \A ft, gt : SameInos(ft, gt) => InosOf(ft) = InosOf(gt)
BY DEF SameInos, InosOf

LEMMA Stages ==
  /\ call.pc \in {"walk", "ready"} => Stage = call.pc /\ Cur = call.at
  /\ call.pc = "tablefault" => Stage = "fault" /\ Cur = call.at
  /\ call.pc \notin {"walk", "ready", "tablefault"} => Stage = "idle" /\ Cur = 0
  /\ call'.pc \in {"walk", "ready"} => Stage' = call'.pc /\ Cur' = call'.at
  /\ call'.pc = "tablefault" => Stage' = "fault" /\ Cur' = call'.at
  /\ call'.pc \notin {"walk", "ready", "tablefault"} => Stage' = "idle" /\ Cur' = 0
BY DEF Stage, Cur

TableStep == [FT!Next]_(FT!vars)

LEMMA EntryPut ==
  ASSUME NEW ft, IsTable(ft), NEW p \in Slot, NEW e
  PROVE  InosOf([ft EXCEPT ![p] = e]) = [InosOf(ft) EXCEPT ![p] = e.ino]
BY DEF InosOf, IsTable

LEMMA EntryFreed ==
  ASSUME NEW ft, IsTable(ft), NEW p \in Slot
  PROVE  /\ IsTable([ft EXCEPT ![p] = FreeEntry])
         /\ InosOf([ft EXCEPT ![p] = FreeEntry]) = [InosOf(ft) EXCEPT ![p] = None]
<1>1. PICK e : e = FreeEntry
  OBVIOUS
<1>2. e.ino = None /\ IsEntry(e)
  BY <1>1 DEF FreeEntry, IsEntry
<1>3. IsTable([ft EXCEPT ![p] = e])
  BY <1>2 DEF IsTable
<1>4. InosOf([ft EXCEPT ![p] = e]) = [InosOf(ft) EXCEPT ![p] = None]
  BY <1>2, EntryPut
<1>. QED
  BY <1>1, <1>3, <1>4

\* Offsets, cached inodes and the contents of the disk are none of FileTable's business.
LEMMA TableUntouched ==
  ASSUME SameInos(file_table', file_table), UNCHANGED <<table_freehead, by_open, fds>>,
         Stage' = Stage, Cur' = Cur
  PROVE  TableStep
<1>1. Ids' = Ids
  BY TableSeen, SameIds
<1>. QED
  BY <1>1, TableSeen DEF TableStep

LEMMA RootTable ==
  ASSUME TableInv, NEW c, IsCall(c), call.pc \notin {"walk", "ready", "tablefault"}, OpenRoot(c)
  PROVE  TableStep
<1>1. Stage = "idle" /\ Stage' = "walk" /\ Cur' = 0
  <2>1. call'.pc = "walk" /\ call'.at = 0
    BY DEF OpenRoot, IsCall
  <2>. QED
    BY <2>1, Stages
<1>2. PICK e : e = (IF file_table[0].ino = None THEN Open(Root, inodes[Root])
                    ELSE [file_table[0] EXCEPT !.byte_offset = 0])
  OBVIOUS
<1>3. file_table' = [file_table EXCEPT ![0] = e]
  BY <1>2 DEF OpenRoot
<1>4. e.ino = IF file_table[0].ino = None THEN Root ELSE file_table[0].ino
  BY <1>2, Slots DEF TableInv, IsTable, IsEntry, Open
<1>5. Ids' = [Ids EXCEPT ![0] = e.ino]
  BY <1>3, EntryPut, TableSeen, Slots DEF TableInv
<1>6. Ids[0] = file_table[0].ino
  BY Slots DEF Ids
<1>7. Ids' = [Ids EXCEPT ![0] = IF @ = FT!Free THEN FT!Root ELSE @]
  BY <1>4, <1>5, <1>6, TableConstants
<1>8. table_freehead' = FT!FirstFree(Ids') /\ UNCHANGED <<by_open, {h[1] : h \in fds}>>
  BY SearchesAgree, TableSeen DEF OpenRoot
<1>9. FT!OpenRoot
  BY <1>1, <1>7, <1>8 DEF FT!OpenRoot, Cur
<1>. QED
  BY <1>9 DEF TableStep, FT!Next

LEMMA PathEndTable ==
  ASSUME TableInv, PathEnd
  PROVE  TableStep
<1>1. Stage = "walk" /\ Stage' = "ready" /\ Cur' = Cur
  <2>1. call.pc = "walk" /\ call'.pc = "ready" /\ call'.at = call.at
    BY DEF PathEnd, TableInv, IsCall
  <2>. QED
    BY <2>1, Stages
<1>2. table_freehead' = FT!FirstFree(Ids) /\ UNCHANGED <<Ids, by_open, {h[1] : h \in fds}>>
  <2>1. UNCHANGED <<file_table, by_open, fds>> /\ table_freehead' = FirstFree(file_table)
    BY DEF PathEnd
  <2>. QED
    BY <2>1, SearchesAgree, TableSeen
<1>3. FT!PathEnd
  BY <1>1, <1>2 DEF FT!PathEnd, Cur
<1>. QED
  BY <1>3 DEF TableStep, FT!Next

\* A call that has its directory ends, or goes on, without f_open's entry.
LEMMA ReturnTable ==
  ASSUME call.pc = "ready", call'.pc \notin {"walk", "ready", "tablefault"},
         SameInos(file_table', file_table), UNCHANGED <<table_freehead, by_open, fds>>
  PROVE  TableStep
<1>1. Stage = "ready" /\ Stage' = "idle" /\ Cur' = 0
  BY Stages
<1>2. UNCHANGED <<Ids, table_freehead, by_open, {h[1] : h \in fds}>>
  BY TableSeen, SameIds
<1>3. FT!Return
  BY <1>1, <1>2 DEF FT!Return, Cur
<1>. QED
  BY <1>3 DEF TableStep, FT!Next

\* f_open's entry, or no place for it.
LEMMA InstallTable ==
  ASSUME TableInv, call.pc = "ready", NEW ft, IsTable(ft), SameInos(ft, file_table),
         NEW n \in Inode \ {Root}, NEW node, table_freehead # None, Install(ft, n, node), call' = Idle
  PROVE  TableStep
<1>1. Stage = "ready" /\ Stage' = "idle" /\ Cur' = 0
  BY Stages DEF Idle
<1>2. PICK h : h = table_freehead
  OBVIOUS
<1>3. h \in Slot
  BY <1>2, SlotOfSlot DEF TableInv, FirstFree
<1>4. /\ file_table' = [ft EXCEPT ![h] = Open(n, node)] /\ by_open' = by_open \cup {h}
      /\ fds' = fds \cup {<<h, n>>} /\ table_freehead' = FirstFree(file_table')
  BY <1>2 DEF Install
<1>5. Ids' = [Ids EXCEPT ![h] = n]
  <2>1. PICK e : e = Open(n, node)
    OBVIOUS
  <2>2. e.ino = n
    BY <2>1 DEF Open
  <2>3. file_table' = [ft EXCEPT ![h] = e]
    BY <1>4, <2>1
  <2>4. InosOf(file_table') = [InosOf(ft) EXCEPT ![h] = n]
    BY <1>3, <2>2, <2>3, EntryPut
  <2>. QED
    BY <2>4, SameIds, TableSeen
<1>6. {g[1] : g \in fds'} = {g[1] : g \in fds} \cup {h}
  <2>1. PICK new : new = <<h, n>>
    OBVIOUS
  <2>2. new[1] = h /\ fds' = fds \cup {new}
    BY <1>4, <2>1
  <2>. QED
    BY <2>2
<1>7. table_freehead' = FT!FirstFree(Ids')
  BY <1>4, SearchesAgree, TableSeen
<1>8. FT!OpenFile(n)
  BY <1>1, <1>2, <1>4, <1>5, <1>6, <1>7, TableConstants DEF FT!OpenFile, Cur
<1>. QED
  BY <1>8, TableConstants DEF TableStep, FT!Next

LEMMA NoPlaceTable ==
  ASSUME TableInv, call.pc = "ready", NEW n \in Inode \ {Root}, table_freehead = None,
         Fault("tablefault")
  PROVE  TableStep
<1>1. Stage = "ready" /\ Stage' = "fault" /\ Cur' = Cur
  <2>1. call'.pc = "tablefault" /\ call'.at = call.at
    BY DEF Fault, TableInv, IsCall
  <2>. QED
    BY <2>1, Stages
<1>2. UNCHANGED <<Ids, table_freehead, by_open, {h[1] : h \in fds}>>
  <2>1. UNCHANGED <<file_table, table_freehead, by_open, fds>>
    BY DEF Fault, table
  <2>. QED
    BY <2>1, TableSeen
<1>3. FT!OpenFile(n)
  BY <1>1, <1>2, TableConstants DEF FT!OpenFile, Cur
<1>. QED
  BY <1>3, TableConstants DEF TableStep, FT!Next

\* Each component of a path: not found, in the table, entered, or no room.
LEMMA WalkTable ==
  ASSUME IInv, TableInv, Walk
  PROVE  TableStep
<1>1. PICK at, found, left, head, k, n, fd :
        /\ at = call.at
        /\ found = Matches(file_table[at].node, 0, Head(call.todo))
        /\ left = [file_table EXCEPT ![at] =
                     IF at # 0 THEN FreeEntry
                     ELSE [@ EXCEPT !.byte_offset =
                             IF found = {} THEN file_table[at].node.size ELSE 0]]
        /\ head = (IF at # 0 THEN at ELSE FirstFree(left))
        /\ k = Least(found) /\ n = EntryAt(file_table[at].node, k).inode_index
        /\ fd = SlotOf(left, n)
  OBVIOUS
<1>2. /\ OnDisk /\ CallRight /\ IsTable(file_table) /\ IsCall(call)
      /\ CachedIn(file_table, Allocated, inodes)
  BY Parts, CachedIs DEF TableInv
<1>3. call.pc = "walk" /\ at \in Slot /\ file_table[at].ino # None
  BY <1>1, <1>2 DEF Walk, CallRight
<1>4. ASSUME found # {} PROVE n \in Inode
  <2>1. PICK d : d = file_table[at].ino
    OBVIOUS
  <2>2. d \in Allocated /\ file_table[at].node = inodes[d]
    BY <1>2, <1>3, <2>1 DEF CachedIn
  <2>3. k \in found
    BY <1>1, <1>2, <1>4, <2>2, FirstMatch
  <2>4. n \in Allocated
    BY <1>1, <1>2, <2>2, <2>3, LookedUp
  <2>. QED
    BY <2>4 DEF Allocated
<1>5. Stage = "walk" /\ Cur = at
  BY <1>1, <1>3, Stages
<1>6. IsTable(left) /\ InosOf(left) = IF at = 0 THEN Ids ELSE [Ids EXCEPT ![at] = None]
  <2>1. CASE at = 0
    <3>1. PICK o : left = [file_table EXCEPT ![0].byte_offset = o]
      BY <1>1, <2>1
    <3>2. IsTable(left) /\ SameInos(left, file_table)
      BY <1>2, <3>1, OffsetKeeps
    <3>. QED
      BY <2>1, <3>2, SameIds, TableSeen
  <2>2. CASE at # 0
    <3>1. left = [file_table EXCEPT ![at] = FreeEntry]
      BY <1>1, <2>2
    <3>2. IsTable(left) /\ InosOf(left) = [InosOf(file_table) EXCEPT ![at] = None]
      BY <1>2, <1>3, <3>1, EntryFreed
    <3>. QED
      BY <2>2, <3>2, TableSeen
  <2>. QED
    BY <2>1, <2>2
<1>7. /\ FT!Vacated = InosOf(left)
      /\ FT!VacatedHead = head
      /\ FT!VacatedOpen = IF at # 0 THEN by_open \ {at} ELSE by_open
  <2>1. FT!Vacated = InosOf(left)
    BY <1>5, <1>6, TableConstants DEF FT!Vacated, Cur
  <2>2. FT!VacatedHead = head
    <3>1. FT!VacatedHead = IF at = 0 THEN FT!FirstFree(Ids) ELSE at
      BY <1>5 DEF FT!VacatedHead, Cur
    <3>2. at = 0 => FT!FirstFree(Ids) = FirstFree(left)
      BY <1>6, SearchesAgree
    <3>. QED
      BY <1>1, <3>1, <3>2
  <2>3. FT!VacatedOpen = IF at # 0 THEN by_open \ {at} ELSE by_open
    BY <1>5 DEF FT!VacatedOpen, Cur
  <2>. QED
    BY <2>1, <2>2, <2>3
<1>8. /\ table_freehead' = FT!VacatedHead /\ by_open' = FT!VacatedOpen
      /\ UNCHANGED {h[1] : h \in fds}
  <2>1. table_freehead' = head /\ by_open' = (IF at # 0 THEN by_open \ {at} ELSE by_open)
        /\ UNCHANGED fds
    BY <1>1 DEF Walk
  <2>. QED
    BY <1>7, <2>1
<1>9. fd = FT!SlotOf(FT!Vacated, n)
  BY <1>1, <1>7, SearchesAgree
<1>10. CASE file_table' = left /\ call' = Idle
  <2>1. Stage' = "idle" /\ Cur' = 0 /\ Ids' = FT!Vacated
    BY <1>7, <1>10, Stages, TableSeen DEF Idle
  <2>2. FT!NotFound
    BY <1>5, <1>8, <2>1 DEF FT!NotFound, Cur
  <2>. QED
    BY <2>2 DEF TableStep, FT!Next
<1>11. CASE found # {} /\ fd # None /\ file_table' = left
            /\ call' = [call EXCEPT !.at = fd, !.todo = Tail(@)]
  <2>1. call'.pc = "walk" /\ call'.at = fd
    BY <1>2, <1>3, <1>11 DEF IsCall
  <2>2. Stage' = "walk" /\ Cur' = fd /\ Ids' = FT!Vacated
    BY <1>7, <1>11, <2>1, Stages, TableSeen
  <2>3. FT!Descend(n)
    BY <1>5, <1>8, <1>9, <1>11, <2>2, TableConstants DEF FT!Descend, Cur
  <2>. QED
    BY <1>4, <1>11, <2>3, TableConstants DEF TableStep, FT!Next
<1>12. CASE found # {} /\ fd = None /\ head # None
            /\ file_table' = [left EXCEPT ![head] = Open(n, inodes[n])]
            /\ call' = [call EXCEPT !.at = head, !.todo = Tail(@)]
  <2>1. call'.pc = "walk" /\ call'.at = head
    BY <1>2, <1>3, <1>12 DEF IsCall
  <2>2. head \in Slot
    <3>1. FirstFree(left) \in Slot \cup {None}
      BY HeadFound
    <3>. QED
      BY <1>1, <1>3, <1>12, <3>1
  <2>3. PICK e : e = Open(n, inodes[n])
    OBVIOUS
  <2>4. e.ino = n
    BY <2>3 DEF Open
  <2>5. InosOf(file_table') = [InosOf(left) EXCEPT ![head] = n]
    <3>1. file_table' = [left EXCEPT ![head] = e]
      BY <1>12, <2>3
    <3>2. IsTable(left)
      BY <1>6
    <3>3. InosOf([left EXCEPT ![head] = e]) = [InosOf(left) EXCEPT ![head] = e.ino]
      BY <2>2, <3>2, EntryPut, Zenon
    <3>. QED
      BY <2>4, <3>1, <3>3, Zenon
  <2>6. Stage' = "walk" /\ Cur' = head /\ Ids' = [FT!Vacated EXCEPT ![FT!VacatedHead] = n]
    BY <1>7, <2>1, <2>5, Stages, TableSeen
  <2>7. FT!Descend(n)
    BY <1>5, <1>7, <1>8, <1>9, <1>12, <2>6, TableConstants DEF FT!Descend, Cur
  <2>. QED
    BY <1>4, <1>12, <2>7, TableConstants DEF TableStep, FT!Next
<1>13. CASE found # {} /\ fd = None /\ head = None /\ file_table' = left
            /\ call' = [call EXCEPT !.pc = "tablefault"]
  <2>1. call'.pc = "tablefault" /\ call'.at = at
    BY <1>1, <1>2, <1>13 DEF IsCall
  <2>2. Stage' = "fault" /\ Cur' = Cur /\ Ids' = FT!Vacated
    BY <1>5, <1>7, <1>13, <2>1, Stages, TableSeen
  <2>3. FT!Descend(n)
    BY <1>5, <1>7, <1>8, <1>9, <1>13, <2>2, TableConstants DEF FT!Descend, Cur
  <2>. QED
    BY <1>4, <1>13, <2>3, TableConstants DEF TableStep, FT!Next
<1>. QED
  BY <1>1, <1>10, <1>11, <1>12, <1>13 DEF Walk

LEMMA CloseTable ==
  ASSUME TableInv, NEW fd \in Slot, Close(fd)
  PROVE  TableStep
<1>1. Stage = "idle" /\ Stage' = "idle" /\ Cur = 0 /\ Cur' = 0
  BY Stages DEF Close
<1>2. fd \in {h[1] : h \in fds}
  BY DEF Close
<1>3. Ids' = [Ids EXCEPT ![fd] = None]
  <2>1. file_table' = [file_table EXCEPT ![fd] = FreeEntry]
    BY DEF Close
  <2>. QED
    BY <2>1, EntryFreed, TableSeen DEF TableInv
<1>4. {h[1] : h \in fds'} = {h[1] : h \in fds} \ {fd}
  <2>1. fds' = {h \in fds : h[1] # fd}
    BY DEF Close
  <2>. QED
    BY <2>1
<1>5. table_freehead' = FT!FirstFree(Ids') /\ by_open' = by_open \ {fd}
  BY SearchesAgree, TableSeen DEF Close
<1>6. FT!Close(fd)
  BY <1>1, <1>2, <1>3, <1>4, <1>5, TableConstants DEF FT!Close, Cur
<1>. QED
  BY <1>6, TableConstants DEF TableStep, FT!Next

\* A new process.
LEMMA TableEmptied ==
  ASSUME call.pc = "idle", call' = call, file_table' = [s \in Slot |-> FreeEntry],
         table_freehead' = 0, by_open' = {}, fds' = {}
  PROVE  TableStep
<1>1. Stage = "idle" /\ Stage' = "idle" /\ Cur = 0 /\ Cur' = 0
  BY Stages
<1>2. Ids' = [s \in Slot |-> None]
  BY DEF Ids, FreeEntry
<1>3. FT!Restart
  BY <1>1, <1>2, TableConstants DEF FT!Restart, Cur
<1>. QED
  BY <1>3 DEF TableStep, FT!Next

LEMMA FaultTable ==
  ASSUME TableInv, call.pc = "ready", Fault("blockfault")
  PROVE  TableStep
<1>1. call'.pc = "blockfault" /\ UNCHANGED <<file_table, table_freehead, by_open, fds>>
  BY DEF Fault, table, TableInv, IsCall
<1>2. SameInos(file_table', file_table)
  BY <1>1 DEF SameInos
<1>. QED
  BY <1>1, <1>2, ReturnTable

LEMMA FullTable ==
  ASSUME TableInv, call.pc = "ready", NEW dn, NEW p, NEW offset, AppendToFull(dn, p, offset)
  PROVE  TableStep
<1>1. PICK ft : ft = SetNode(file_table, p, Grown(dn))
  OBVIOUS
<1>2. IsTable(ft) /\ SameInos(ft, file_table)
  BY <1>1, NodeKeeps DEF TableInv
<1>3. file_table' = [ft EXCEPT ![p].byte_offset = offset]
  BY <1>1 DEF AppendToFull
<1>4. SameInos(file_table', file_table)
  <2>1. SameInos(file_table', ft)
    BY <1>2, <1>3, OffsetKeeps
  <2>. QED
    BY <1>2, <2>1 DEF SameInos
<1>5. call'.pc = "idle" /\ UNCHANGED <<table_freehead, by_open, fds>>
  BY DEF AppendToFull, Idle
<1>. QED
  BY <1>4, <1>5, ReturnTable

\* What f_open is to open is an inode other than the root.
LEMMA FileFound ==
  ASSUME IInv, call.pc = "ready", Files(DirNode) # {}
  PROVE  EntryAt(DirNode, Least(Files(DirNode))).inode_index \in Inode \ {Root}
<1>1. PICK dn, d, k, i :
        /\ dn = DirNode /\ d = DirIno /\ k = Least(Files(dn)) /\ i = EntryAt(dn, k).inode_index
  OBVIOUS
<1>2. d \in Allocated /\ dn = inodes[d] /\ call.name \in FileNames /\ OnDisk
  BY <1>1, DirSlotRight, Parts
<1>3. k \in Files(dn) /\ Files(dn) \subseteq Matches(inodes[d], 0, call.name)
  <2>1. Files(dn) \subseteq Matches(inodes[d], 0, call.name)
    BY <1>2 DEF Files
  <2>. QED
    BY <1>1, <1>2, <2>1, FirstMatch
<1>4. i \in Allocated /\ i # Root
  BY <1>1, <1>2, <1>3, LookedUp
<1>. QED
  BY <1>1, <1>4 DEF Allocated

LEMMA FileCreated == IInv /\ sb.free_inode # None => sb.free_inode \in Inode \ {Root}
BY FreeListFacts DEF IInv, Kinds, Allocated

LEMMA OpenTable ==
  ASSUME IInv, TableInv, OpenFile
  PROVE  TableStep
<1>1. PICK p, dn, files, n, newNode :
        /\ p = DirSlot /\ dn = DirNode /\ files = Files(dn) /\ n = sb.free_inode
        /\ newNode = NewFileNode(dn, n)
  OBVIOUS
<1>2. call.pc = "ready" /\ IsTable(file_table)
  BY DEF OpenFile, TableInv
<1>3. ASSUME NEW k PROVE /\ IsTable([file_table EXCEPT ![p].byte_offset = k])
                         /\ SameInos([file_table EXCEPT ![p].byte_offset = k], file_table)
  BY <1>2, OffsetKeeps
<1>4. CASE /\ files # {} /\ table_freehead # None /\ call' = Idle
           /\ LET k == Least(files)
                  i == EntryAt(dn, k).inode_index
              IN  Install([file_table EXCEPT ![p].byte_offset = k + 1], i, inodes[i])
  <2>1. PICK k, i, ft : /\ k = Least(files) /\ i = EntryAt(dn, k).inode_index
                        /\ ft = [file_table EXCEPT ![p].byte_offset = k + 1]
    OBVIOUS
  <2>2. i \in Inode \ {Root}
    BY <1>1, <1>2, <1>4, <2>1, FileFound
  <2>3. Install(ft, i, inodes[i]) /\ IsTable(ft) /\ SameInos(ft, file_table)
    BY <1>3, <1>4, <2>1
  <2>. QED
    BY <1>2, <1>4, <2>2, <2>3, InstallTable
<1>5. CASE /\ file_table' = [file_table EXCEPT ![p].byte_offset = dn.size] /\ call' = Idle
           /\ UNCHANGED <<table_freehead, by_open, fds>>
  <2>1. SameInos(file_table', file_table) /\ call'.pc = "idle"
    BY <1>3, <1>5 DEF Idle
  <2>. QED
    BY <1>2, <1>5, <2>1, ReturnTable
<1>6. CASE Fault("blockfault")
  BY <1>2, <1>6, FaultTable
<1>7. CASE AppendToFull(dn, p, dn.size)
  BY <1>2, <1>7, FullTable
<1>8. CASE /\ n # None /\ table_freehead # None /\ call' = Idle
           /\ Install(SetNode([file_table EXCEPT ![p].byte_offset = dn.size], p, Grown(dn)), n, newNode)
  <2>1. PICK ft, gt : /\ ft = [file_table EXCEPT ![p].byte_offset = dn.size]
                      /\ gt = SetNode(ft, p, Grown(dn))
    OBVIOUS
  <2>2. IsTable(gt) /\ SameInos(gt, file_table)
    <3>1. IsTable(ft) /\ SameInos(ft, file_table)
      BY <1>3, <2>1
    <3>2. IsTable(gt) /\ SameInos(gt, ft)
      BY <2>1, <3>1, NodeKeeps
    <3>. QED
      BY <3>1, <3>2 DEF SameInos
  <2>3. n \in Inode \ {Root} /\ Install(gt, n, newNode)
    BY <1>1, <1>8, <2>1, FileCreated
  <2>. QED
    BY <1>2, <1>8, <2>2, <2>3, InstallTable
<1>9. CASE table_freehead = None /\ files # {} /\ Fault("tablefault")
  BY <1>1, <1>2, <1>9, FileFound, NoPlaceTable
<1>10. CASE table_freehead = None /\ n # None /\ Fault("tablefault")
  BY <1>1, <1>2, <1>10, FileCreated, NoPlaceTable
<1>. QED
  BY <1>1, <1>4, <1>5, <1>6, <1>7, <1>8, <1>9, <1>10 DEF OpenFile

LEMMA MkdirTable ==
  ASSUME TableInv, Mkdir
  PROVE  TableStep
<1>1. call.pc = "ready" /\ IsTable(file_table) /\ SameInos(file_table, file_table)
  BY DEF Mkdir, TableInv, SameInos
<1>2. CASE call' = Idle /\ UNCHANGED table
  <2>1. SameInos(file_table', file_table) /\ call'.pc = "idle"
    BY <1>1, <1>2 DEF Idle, table
  <2>. QED
    BY <1>1, <1>2, <2>1, ReturnTable DEF table
<1>3. CASE Fault("blockfault")
  BY <1>1, <1>3, FaultTable
<1>4. CASE AppendToFull(DirNode, DirSlot, file_table[DirSlot].byte_offset)
  BY <1>1, <1>4, FullTable
<1>5. CASE /\ file_table' = SetNode(file_table, DirSlot, Grown(DirNode)) /\ call' = Idle
           /\ UNCHANGED <<table_freehead, by_open, fds>>
  <2>1. SameInos(file_table', file_table) /\ call'.pc = "idle"
    BY <1>1, <1>5, NodeKeeps DEF Idle
  <2>. QED
    BY <1>1, <1>5, <2>1, ReturnTable
<1>. QED
  BY <1>2, <1>3, <1>4, <1>5 DEF Mkdir

LEMMA RemoveTable ==
  ASSUME TableInv, Remove
  PROVE  TableStep
<1> DEFINE p  == LastSlotOf(file_table[call.at].ino)
           ft == SetNode(file_table, p, Shrunk(file_table[p].node))
<1>1. call.pc = "ready" /\ call.op = "f_remove" /\ call' = Idle /\ UNCHANGED <<table_freehead, by_open, fds>>
  BY DEF Remove
<1>2. \/ \E k : file_table' = [file_table EXCEPT ![p].byte_offset = k]
      \/ \E k : file_table' = [ft EXCEPT ![p].byte_offset = k]
  BY DEF Remove
<1>3. IsTable(file_table) /\ SameInos(file_table, file_table)
  BY DEF TableInv, SameInos
<1>4. IsTable(ft) /\ SameInos(ft, file_table)
  BY <1>3, NodeKeeps
<1>. HIDE DEF p, ft
<1>5. SameInos(file_table', file_table)
  <2>1. PICK gt, k : gt \in {file_table, ft} /\ file_table' = [gt EXCEPT ![p].byte_offset = k]
    BY <1>2
  <2>2. SameInos(file_table', gt) /\ SameInos(gt, file_table)
    BY <1>3, <1>4, <2>1, OffsetKeeps
  <2>. QED
    BY <2>2 DEF SameInos
<1>6. call'.pc = "idle"
  BY <1>1 DEF Idle
<1>. QED
  BY <1>1, <1>5, <1>6, ReturnTable

\* Each step of FileSystem is one of FileTable, or none.
LEMMA TableStepRight ==
  ASSUME IInv, TableInv, [Next]_vars
  PROVE  TableStep
<1>1. SameInos(file_table, file_table)
  BY DEF SameInos
<1>2. ASSUME NEW w \in Workload, Begin(w[1], w[2], w[3]) PROVE TableStep
  <2>1. PICK r, op, todo, nm, path :
          /\ r = Idle
          /\ OpenRoot([r EXCEPT !.op = op, !.name = nm, !.todo = todo, !.path = path])
    BY <1>2 DEF Begin
  <2>2. PICK c : c = [r EXCEPT !.op = op, !.name = nm, !.todo = todo, !.path = path]
    OBVIOUS
  <2>3. IsCall(c)
    BY <2>1, <2>2, IdleCall DEF IsCall
  <2>4. call.pc = "idle" /\ OpenRoot(c)
    BY <1>2, <2>1, <2>2 DEF Begin
  <2>. QED
    BY <2>3, <2>4, RootTable
<1>3. CASE Walk
  BY <1>3, WalkTable
<1>4. CASE PathEnd
  BY <1>4, PathEndTable
<1>5. CASE OpenedDir \/ RmdirOpened
  <2>1. /\ call.pc = "ready" /\ call'.pc \in {"idle", "helper"}
        /\ UNCHANGED <<file_table, table_freehead, by_open, fds>>
    <3>1. call'.pc \in {"idle", "helper"}
      <4>1. CASE OpenedDir
        BY <4>1 DEF OpenedDir, Idle
      <4>2. CASE RmdirOpened
        BY <4>2 DEF RmdirOpened, TableInv, IsCall
      <4>. QED
        BY <1>5, <4>1, <4>2
    <3>. QED
      BY <1>5, <3>1 DEF OpenedDir, RmdirOpened, table
  <2>. QED
    BY <1>1, <2>1, ReturnTable
<1>6. CASE Mkdir
  BY <1>6, MkdirTable
<1>7. CASE OpenFile
  BY <1>7, OpenTable
<1>8. CASE Remove
  BY <1>8, RemoveTable
<1>9. CASE RmdirDescend
  <2>1. /\ call.pc = "helper" /\ call'.pc = "helper"
        /\ UNCHANGED <<file_table, table_freehead, by_open, fds>>
    BY <1>9 DEF RmdirDescend, table, TableInv, IsCall
  <2>. QED
    BY <1>1, <2>1, Stages, TableUntouched
<1>10. CASE RmdirLeaf
  <2>1. PICK r, op, todo, nm, path :
          /\ r = Idle
          /\ OpenRoot([r EXCEPT !.op = op, !.name = nm, !.todo = todo, !.path = path])
    BY <1>10 DEF RmdirLeaf
  <2>2. PICK c : c = [r EXCEPT !.op = op, !.name = nm, !.todo = todo, !.path = path]
    OBVIOUS
  <2>3. IsCall(c)
    BY <2>1, <2>2, IdleCall DEF IsCall
  <2>4. call.pc = "helper" /\ OpenRoot(c)
    BY <1>10, <2>1, <2>2 DEF RmdirLeaf
  <2>. QED
    BY <2>3, <2>4, RootTable
<1>11. ASSUME NEW fd \in Slot, Close(fd) PROVE TableStep
  BY <1>11, CloseTable
<1>12. CASE Restart
  <2>1. /\ call.pc = "idle" /\ call' = call /\ file_table' = [s \in Slot |-> FreeEntry]
        /\ table_freehead' = 0 /\ by_open' = {} /\ fds' = {}
    BY <1>12 DEF Restart
  <2>. QED
    BY <2>1, TableEmptied
<1>13. CASE UNCHANGED vars
  <2>1. UNCHANGED <<file_table, table_freehead, by_open, fds, call>>
    BY <1>13 DEF vars
  <2>2. Stage' = Stage /\ Cur' = Cur
    BY <2>1 DEF Stage, Cur
  <2>. QED
    BY <1>1, <2>1, <2>2, TableUntouched
<1>. QED
  BY <1>2, <1>3, <1>4, <1>5, <1>6, <1>7, <1>8, <1>9, <1>10, <1>11, <1>12, <1>13 DEF Next

LEMMA TableStarts == Init => FT!Init
<1>. SUFFICES ASSUME Init PROVE FT!Init
  OBVIOUS
<1>1. Ids = [s \in Slot |-> None]
  BY DEF Init, Ids, FreeEntry
<1>2. Stage = "idle" /\ Cur = 0 /\ {h[1] : h \in fds} = {}
  BY Stages DEF Init, Idle
<1>. QED
  BY <1>1, <1>2, TableConstants DEF FT!Init, Init, Cur

\* The calls of FileSystem do to the open-file table only what FileTable has them do,
\* whatever the directories hold that they walk through: the theorems about that
\* module (FileTableProofs) are about the table of this one.
THEOREM TableImplemented == Spec /\ []Orderly => ImplementsFileTable
<1>1. IInv /\ TableInv /\ [Next]_vars => TableStep
  BY TableStepRight
<1>. QED
  BY <1>1, TableStarts, TreeInvariant, TableInvariant, PTL
  DEF Spec, ImplementsFileTable, FT!Spec, TableStep

\* FileTable's own proofs, of the table of this module.
FTP == INSTANCE FileTableProofs WITH
         file_table <- Ids,
         fds <- {h[1] : h \in fds},
         pc <- Stage,
         cur <- IF Stage = "idle" THEN 0 ELSE call.at

LEMMA TableTheorems == ImplementsFileTable => []FT!OneDirectoryCopy /\ FT!NoClobber
<1>1. NSlots \in Nat \ {0} /\ NInodes \in Nat \ {0}
  BY FSAssumption, Zenon DEF FSAssumption
<1>2. FTP!Spec => []FTP!OneDirectoryCopy /\ FTP!NoClobber
  BY <1>1, FTP!SingleDirectoryCopy, FTP!NothingClobbered
<1>3. FT!Init => FTP!Init
  BY DEF FT!Init, FTP!Init, FT!Slot, FTP!Slot, FT!Free, FTP!Free
<1>4. [FT!Next]_(FT!vars) => [FTP!Next]_(FTP!vars)
  <2>1. FT!vars = FTP!vars /\ FT!vars' = FTP!vars'
    BY DEF FT!vars, FTP!vars
  <2>2. FT!Next => FTP!Next
    BY DEF FT!Next, FTP!Next, FT!Slot, FTP!Slot, FT!Inode, FTP!Inode, FT!Root, FTP!Root,
       FT!Free, FTP!Free, FT!None, FTP!None, FT!FirstFree, FTP!FirstFree, FT!SlotOf, FTP!SlotOf,
       FT!Vacated, FTP!Vacated, FT!VacatedHead, FTP!VacatedHead, FT!VacatedOpen, FTP!VacatedOpen,
       FT!OpenRoot, FTP!OpenRoot, FT!Descend, FTP!Descend, FT!NotFound, FTP!NotFound,
       FT!PathEnd, FTP!PathEnd, FT!Return, FTP!Return, FT!OpenFile, FTP!OpenFile,
       FT!Close, FTP!Close, FT!AddTo, FTP!AddTo, FT!RemoveFrom, FTP!RemoveFrom,
       FT!Restart, FTP!Restart
  <2>. QED
    BY <2>1, <2>2
<1>5. FTP!OneDirectoryCopy => FT!OneDirectoryCopy
  BY DEF FT!OneDirectoryCopy, FTP!OneDirectoryCopy, FT!Slot, FTP!Slot, FT!Free, FTP!Free
<1>6. [FTP!BusySlotsKept]_(FTP!vars) => [FT!BusySlotsKept]_(FT!vars)
  BY DEF FT!BusySlotsKept, FTP!BusySlotsKept, FT!Slot, FTP!Slot, FT!Free, FTP!Free, FT!vars, FTP!vars
<1>. QED
  BY <1>2, <1>3, <1>4, <1>5, <1>6, PTL
  DEF ImplementsFileTable, FT!Spec, FTP!Spec, FT!NoClobber, FTP!NoClobber

================================================================================
