------------------------------- MODULE Namespace -------------------------------
(***************************************************************************)
(* What the directory calls of filesystem.c make of the names: directories *)
(* and files over a fixed supply of inodes.  f_mkdir and f_open take a     *)
(* free inode and name it in a directory in use; f_remove drops a name and *)
(* gives its inode back.  It does not look whether a directory is empty:   *)
(* what was in it keeps its inodes and has no name any more.  Every call   *)
(* is one step, and nothing else changes the names.  FileSystem.tla is     *)
(* checked to implement this module where f_remove is given files; given   *)
(* a directory, it destroys the list of free blocks as well.               *)
(***************************************************************************)
EXTENDS Integers

CONSTANTS
  NInodes,    \* inodes on the disk; inode 0 is the root directory
  Names

ASSUME NInodesAssumption == NInodes \in Nat \ {0}

Inode == 0 .. NInodes - 1
Root  == 0

VARIABLES
  links,      \* the live entries: <<directory, name, inode>>, without "." and ".."
  dirs,       \* the inodes that are directories
  free        \* the inodes on the free list

vars == <<links, dirs, free>>

TypeOK ==
  /\ links \subseteq Inode \X Names \X Inode
  /\ dirs \subseteq Inode
  /\ free \subseteq Inode

\* format: only the root directory exists.
Init ==
  /\ links = {}
  /\ dirs = {Root}
  /\ free = Inode \ {Root}

\* Mutant of MakeDir: the inode stays on the free list.
MakeDirKeepsFree(d, nm, i) ==
  /\ d \in dirs
  /\ i \in free
  /\ links' = links \cup {<<d, nm, i>>}
  /\ dirs' = dirs \cup {i}
  /\ UNCHANGED free

\* Mutant of MakeDir: the parent need not exist.
MakeDirAnywhere(d, nm, i) ==
  /\ i \in free
  /\ links' = links \cup {<<d, nm, i>>}
  /\ dirs' = dirs \cup {i}
  /\ free' = free \ {i}

\* f_mkdir: names need not be fresh, the code does not look.
MakeDir(d, nm, i) ==
  /\ d \in dirs
  /\ i \in free
  /\ links' = links \cup {<<d, nm, i>>}
  /\ dirs' = dirs \cup {i}
  /\ free' = free \ {i}

\* f_open of a file that does not exist, access other than READ.
MakeFile(d, nm, i) ==
  /\ d \in dirs
  /\ i \in free
  /\ links' = links \cup {<<d, nm, i>>}
  /\ free' = free \ {i}
  /\ UNCHANGED dirs

\* Mutant of Unlink: the inode is not given back.
UnlinkKeepsInode(d, nm, i) ==
  /\ <<d, nm, i>> \in links
  /\ links' = {l \in links : l # <<d, nm, i>> /\ l[1] # i}
  /\ dirs' = dirs \ {i}
  /\ UNCHANGED free

\* Mutant of Unlink: the entries of a directory outlive it.
UnlinkKeepsEntries(d, nm, i) ==
  /\ <<d, nm, i>> \in links
  /\ links' = links \ {<<d, nm, i>>}
  /\ dirs' = dirs \ {i}
  /\ free' = free \cup {i}

\* f_remove of a file or of a directory, empty or not: its entries are gone with it,
\* the inodes they named are neither given back nor named elsewhere.
Unlink(d, nm, i) ==
  /\ <<d, nm, i>> \in links
  /\ links' = {l \in links : l # <<d, nm, i>> /\ l[1] # i}
  /\ dirs' = dirs \ {i}
  /\ free' = free \cup {i}

Next ==
  \E d \in Inode, nm \in Names, i \in Inode :
    MakeDir(d, nm, i) \/ MakeFile(d, nm, i) \/ Unlink(d, nm, i)

Spec == Init /\ [][Next]_vars

--------------------------------------------------------------------------------
(* Properties *)

\* The inodes in use that no entry names, but for the root: their names went with
\* the directory they were in.
Lost == {i \in Inode \ ({Root} \cup free) : \A l \in links : l[3] # i}

\* No inode is handed out twice: one that is free, or the root, has no name, and no
\* other has two, whatever was removed with its entries in it.
OneNameEach ==
  /\ Root \notin free
  /\ \A l \in links : l[3] # Root /\ l[3] \notin free
  /\ \A l, m \in links : l[3] = m[3] => l = m

\* Only directories that are in use have entries.
ParentsAreDirectories ==
  /\ dirs \cap free = {}
  /\ \A l \in links : l[1] \in dirs

\* No directory comes to lie below itself: whatever set of named inodes one takes,
\* one of them is an entry of a directory outside the set.  So everything named
\* hangs from the root, or from a lost directory.
Rooted ==
  \A S \in SUBSET (Inode \ ({Root} \cup free \cup Lost)) :
    S # {} => \E l \in links : l[3] \in S /\ l[1] \notin S

\* An inode is lost only by the call that frees the directory it is named in, and
\* for good: no call gives it a name again or puts it on the free list.
LostWithDirectory ==
  [][/\ Lost \subseteq Lost'
     /\ \A i \in Lost' \ Lost :
          \E l \in links : l[3] = i /\ l[1] \in free' \ free]_vars

IInv ==
  /\ TypeOK
  /\ Root \in dirs
  /\ OneNameEach
  /\ ParentsAreDirectories
  /\ Rooted
================================================================================
