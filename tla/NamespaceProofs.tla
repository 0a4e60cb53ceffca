--------------------------- MODULE NamespaceProofs ---------------------------
(***************************************************************************)
(* The promise of Namespace holds for every number of inodes and every set *)
(* of names.                                                               *)
(***************************************************************************)
EXTENDS Namespace, TLAPS

LEMMA RootIsInode == Root \in Inode
BY NInodesAssumption DEF Root, Inode

LEMMA InitIInv == Init => IInv
BY RootIsInode DEF Init, IInv, TypeOK, OneNameEach, ParentsAreDirectories, Rooted, Lost

\* Naming a free inode in a directory keeps every conjunct but Rooted, whether
\* or not the inode becomes a directory.
LEMMA NamingKeepsBookkeeping ==
  ASSUME IInv, NEW d \in Inode, NEW nm \in Names, NEW i \in Inode,
         MakeDir(d, nm, i) \/ MakeFile(d, nm, i)
  PROVE  (TypeOK /\ Root \in dirs /\ OneNameEach /\ ParentsAreDirectories)'
<1>1. links' = links \cup {<<d, nm, i>>} /\ free' = free \ {i} /\ d \in dirs /\ i \in free
  BY DEF MakeDir, MakeFile
<1>2. dirs \subseteq dirs' /\ dirs' \subseteq dirs \cup {i}
  BY DEF MakeDir, MakeFile
<1>3. TypeOK'
  BY <1>1, <1>2 DEF IInv, TypeOK
<1>4. OneNameEach'
  <2>. DEFINE new == <<d, nm, i>>
  <2>1. new[3] = i  OBVIOUS
  <2>2. i # Root /\ \A l \in links : l[3] # i
    BY <1>1 DEF IInv, OneNameEach
  <2>. HIDE DEF new
  <2>3. links' = links \cup {new}  BY <1>1 DEF new
  <2>5. \A l, m \in links' : l[3] = m[3] => l = m
    BY <2>1, <2>2, <2>3 DEF IInv, OneNameEach
  <2>6. Root \notin free' /\ \A l \in links' : l[3] # Root /\ l[3] \notin free'
    BY <1>1, <2>1, <2>2, <2>3 DEF IInv, OneNameEach
  <2>. QED  BY <2>5, <2>6 DEF OneNameEach
<1>5. ParentsAreDirectories'
  BY <1>1, <1>2 DEF IInv, TypeOK, ParentsAreDirectories
<1>. QED
  BY <1>2, <1>3, <1>4, <1>5 DEF IInv

\* A newly named inode has no entries of its own, so it cannot be what keeps a
\* set apart from the root.
LEMMA NamingKeepsRooted ==
  ASSUME IInv, NEW d \in Inode, NEW nm \in Names, NEW i \in Inode,
         MakeDir(d, nm, i) \/ MakeFile(d, nm, i)
  PROVE  Rooted'
<1>1. links' = links \cup {<<d, nm, i>>} /\ free' = free \ {i} /\ d \in dirs /\ i \in free
  BY DEF MakeDir, MakeFile
<1>2. d # i /\ \A l \in links : l[1] # i
  BY <1>1 DEF IInv, ParentsAreDirectories
<1>. SUFFICES ASSUME NEW S \in SUBSET (Inode \ ({Root} \cup free' \cup Lost')), S # {}
              PROVE  \E l \in links' : l[3] \in S /\ l[1] \notin S
  BY DEF Rooted
<1>3. CASE S = {i}
  <2>1. <<d, nm, i>> \in links'  BY <1>1
  <2>. QED  BY <1>2, <1>3, <2>1
<1>4. CASE S # {i}
  <2>0. ASSUME NEW j \in S \ {i} PROVE j \in Inode \ ({Root} \cup free \cup Lost)
    <3>. DEFINE new == <<d, nm, i>>
    <3>1. PICK l \in links' : l[3] = j
      BY DEF Lost
    <3>2. new[3] = i  OBVIOUS
    <3>. HIDE DEF new
    <3>3. links' = links \cup {new}  BY <1>1 DEF new
    <3>4. l \in links  BY <3>1, <3>2, <3>3
    <3>. QED  BY <1>1, <3>1, <3>4 DEF Lost
  <2>1. S \ {i} # {} /\ S \ {i} \in SUBSET (Inode \ ({Root} \cup free \cup Lost))
    BY <1>4, <2>0
  <2>2. PICK l \in links : l[3] \in S \ {i} /\ l[1] \notin S \ {i}
    BY <2>1 DEF IInv, Rooted
  <2>. QED  BY <1>1, <1>2, <2>2
<1>. QED
  BY <1>3, <1>4

\* Removing an entry keeps the promise, whatever was below it.
LEMMA UnlinkKeepsIInv ==
  ASSUME IInv, NEW d \in Inode, NEW nm \in Names, NEW i \in Inode, Unlink(d, nm, i)
  PROVE  IInv'
<1>. USE DEF Unlink
<1>1. <<d, nm, i>> \in links /\ i # Root /\ i \notin free
  BY DEF IInv, OneNameEach
<1>2. \A l \in links : l[3] = i => l = <<d, nm, i>>
  BY <1>1 DEF IInv, OneNameEach
<1>3. TypeOK'
  BY DEF IInv, TypeOK
<1>4. Root \in dirs'
  BY <1>1 DEF IInv
<1>5. OneNameEach'
  <2>1. \A l \in links' : l[3] # i  BY <1>2
  <2>. QED  BY <1>1, <2>1 DEF IInv, OneNameEach
<1>6. ParentsAreDirectories'
  BY DEF IInv, ParentsAreDirectories
<1>7. Rooted'
  <2>. SUFFICES ASSUME NEW S \in SUBSET (Inode \ ({Root} \cup free' \cup Lost')), S # {}
                PROVE  \E l \in links' : l[3] \in S /\ l[1] \notin S
    BY DEF Rooted
  <2>0. ASSUME NEW j \in S PROVE \E l \in links' : l[3] = j
    BY DEF Lost
  <2>1. S \in SUBSET (Inode \ ({Root} \cup free \cup Lost)) /\ i \notin S
    <3>1. ASSUME NEW j \in S PROVE j \in Inode \ ({Root} \cup free \cup Lost) /\ j # i
      BY <2>0 DEF Lost
    <3>. QED  BY <3>1
  <2>2. PICK l \in links : l[3] \in S /\ l[1] \notin S
    BY <2>1 DEF IInv, Rooted
  <2>3. PICK m \in links' : m[3] = l[3]
    BY <2>0, <2>2
  <2>4. m = l
    BY <2>3 DEF IInv, OneNameEach
  <2>. QED  BY <2>2, <2>3, <2>4
<1>. QED
  BY <1>3, <1>4, <1>5, <1>6, <1>7 DEF IInv

LEMMA StepIInv == IInv /\ [Next]_vars => IInv'
<1>. SUFFICES ASSUME IInv, [Next]_vars PROVE IInv'
  OBVIOUS
<1>1. ASSUME NEW d \in Inode, NEW nm \in Names, NEW i \in Inode,
             MakeDir(d, nm, i) \/ MakeFile(d, nm, i)
      PROVE  IInv'
  BY <1>1, NamingKeepsBookkeeping, NamingKeepsRooted DEF IInv
<1>2. ASSUME NEW d \in Inode, NEW nm \in Names, NEW i \in Inode, Unlink(d, nm, i)
      PROVE  IInv'
  BY <1>2, UnlinkKeepsIInv
<1>3. CASE UNCHANGED vars
  BY <1>3 DEF vars, IInv, TypeOK, OneNameEach, ParentsAreDirectories, Rooted, Lost
<1>. QED
  BY <1>1, <1>2, <1>3 DEF Next

\* What is lost stays lost, and only the entries of a directory freed get lost.
LEMMA StepLosesEntries ==
  IInv /\ [Next]_vars =>
    [/\ Lost \subseteq Lost'
     /\ \A i \in Lost' \ Lost : \E l \in links : l[3] = i /\ l[1] \in free' \ free]_vars
<1>. SUFFICES ASSUME IInv, Next
              PROVE  /\ Lost \subseteq Lost'
                     /\ \A i \in Lost' \ Lost :
                          \E l \in links : l[3] = i /\ l[1] \in free' \ free
  BY DEF vars
<1>1. ASSUME NEW d \in Inode, NEW nm \in Names, NEW i \in Inode,
             MakeDir(d, nm, i) \/ MakeFile(d, nm, i)
      PROVE  Lost' = Lost
  <2>. DEFINE new == <<d, nm, i>>
  <2>1. new[3] = i  OBVIOUS
  <2>2. links' = links \cup {new} /\ free' = free \ {i} /\ i \in free
    BY <1>1 DEF MakeDir, MakeFile
  <2>. HIDE DEF new
  <2>3. ASSUME NEW j \in Inode PROVE j \in Lost' <=> j \in Lost
    BY <2>1, <2>2 DEF Lost
  <2>. QED  BY <2>3 DEF Lost
<1>2. ASSUME NEW d \in Inode, NEW nm \in Names, NEW i \in Inode, Unlink(d, nm, i)
      PROVE  /\ Lost \subseteq Lost'
             /\ \A j \in Lost' \ Lost :
                  \E l \in links : l[3] = j /\ l[1] \in free' \ free
  <2>. DEFINE gone == <<d, nm, i>>
  <2>1. /\ gone[3] = i /\ gone \in links /\ free' = free \cup {i}
        /\ links' = {l \in links : l # gone /\ l[1] # i}
    BY <1>2 DEF Unlink
  <2>. HIDE DEF gone
  <2>2. i \notin free /\ \A l \in links : l[3] = i => l = gone
    BY <2>1 DEF IInv, OneNameEach
  <2>3. Lost \subseteq Lost'
    BY <2>1 DEF Lost
  <2>4. ASSUME NEW j \in Lost' \ Lost
        PROVE  \E l \in links : l[3] = j /\ l[1] \in free' \ free
    <3>1. j \in Inode \ ({Root} \cup free) /\ j # i /\ \A l \in links' : l[3] # j
      BY <2>1 DEF Lost
    <3>2. PICK l \in links : l[3] = j
      BY <3>1 DEF Lost
    <3>3. l # gone /\ l[1] = i
      BY <2>1, <3>1, <3>2
    <3>. QED  BY <2>1, <2>2, <3>2, <3>3
  <2>. QED  BY <2>3, <2>4
<1>. QED
  BY <1>1, <1>2 DEF Next

--------------------------------------------------------------------------------
\* The promise holds throughout, in its inductive form.
THEOREM NamespaceInvariant == Spec => []IInv
BY InitIInv, StepIInv, PTL DEF Spec

\* Inodes are not given two names, nor named and handed out again, for any tree and
\* any history of calls.
THEOREM InodesNamedOnce == Spec => []OneNameEach
<1>1. IInv => OneNameEach  BY DEF IInv
<1>. QED  BY <1>1, NamespaceInvariant, PTL

\* No directory comes to lie below itself, so what is named hangs from the root or
\* from a directory that f_remove cut off.
THEOREM TreeStaysRooted == Spec => []Rooted
<1>1. IInv => Rooted  BY DEF IInv
<1>. QED  BY <1>1, NamespaceInvariant, PTL

\* An inode loses its name without being freed only with the directory it was in,
\* and never gets one again.
THEOREM OrphansExplained == Spec => LostWithDirectory
<1>. QED  BY StepLosesEntries, NamespaceInvariant, PTL DEF Spec, LostWithDirectory
================================================================================
