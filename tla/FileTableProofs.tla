--------------------------- MODULE FileTableProofs ---------------------------
(***************************************************************************)
(* Proofs about FileTable for every table size and every number of inodes. *)
(***************************************************************************)
EXTENDS FileTable, FiniteSetTheorems, WellFoundedInduction, TLAPS

\* A nonempty set of slots has a least element: the intervals 0..s below its
\* members are finite, and strict inclusion between finite sets is well founded.
LEMMA LeastSlot ==
  ASSUME NEW S \in SUBSET Slot, S # {}
  PROVE  \E s \in S : \A t \in S : s <= t
<1> DEFINE T == {0 .. s : s \in S}
<1>1. Slot \subseteq Nat
  BY SlotsAssumption DEF Slot
<1>2. T \subseteq FiniteSubsetsOf(Nat) /\ T # {}
  <2>1. ASSUME NEW s \in S PROVE 0 .. s \in FiniteSubsetsOf(Nat)
    <3>1. s \in Int  BY <1>1
    <3>2. IsFiniteSet(0 .. s)  BY <3>1, FS_Interval
    <3>. QED  BY <3>1, <3>2 DEF FiniteSubsetsOf
  <2>. QED  BY <2>1
<1>3. PICK x \in T : \A y \in T : ~ (<<y, x>> \in StrictSubsetOrdering(Nat))
  <2>. HIDE DEF T
  <2>. QED  BY <1>2, WFMin, FS_StrictSubsetOrderingWellFounded
<1>4. PICK s \in S : x = 0 .. s
  OBVIOUS
<1>5. ASSUME NEW t \in S PROVE s <= t
  <2>1. s \in Nat /\ t \in Nat  BY <1>1
  <2>2. SUFFICES ASSUME t < s PROVE FALSE  BY <2>1
  <2>3. 0 .. t \subseteq 0 .. s /\ 0 .. t # 0 .. s  BY <2>1, <2>2
  <2>4. <<0 .. t, 0 .. s>> \in StrictSubsetOrdering(Nat)
    BY <2>1, <2>3 DEF StrictSubsetOrdering
  <2>. QED  BY <1>3, <1>4, <2>4
<1>. QED
  BY <1>5

\* find_next_freehead returns a free slot, or None exactly when there is none.
LEMMA FirstFreeSlot ==
  ASSUME NEW ft
  PROVE  \/ FirstFree(ft) \in Slot /\ ft[FirstFree(ft)] = Free
         \/ FirstFree(ft) = None /\ \A s \in Slot : ft[s] # Free
<1> DEFINE F == {s \in Slot : ft[s] = Free}
<1>1. CASE F = {}
  BY <1>1 DEF FirstFree
<1>2. CASE F # {}
  <2>1. \E s \in F : \A t \in F : s <= t
    BY <1>2, LeastSlot
  <2>. QED
    BY <2>1 DEF FirstFree
<1>. QED
  BY <1>1, <1>2

\* already_in_table returns a slot that caches n, or None exactly when none does.
LEMMA SlotOfSlot ==
  ASSUME NEW ft, NEW n
  PROVE  \/ SlotOf(ft, n) \in Slot /\ ft[SlotOf(ft, n)] = n
         \/ SlotOf(ft, n) = None /\ \A s \in Slot : ft[s] # n
<1> DEFINE F == {s \in Slot : ft[s] = n}
<1>1. CASE F = {}
  BY <1>1 DEF SlotOf
<1>2. CASE F # {}
  <2>1. \E s \in F : \A t \in F : s <= t
    BY <1>2, LeastSlot
  <2>. QED
    BY <2>1 DEF SlotOf
<1>. QED
  BY <1>1, <1>2

--------------------------------------------------------------------------------
\* No slot is the value None, and no inode the value Free.
LEMMA Distinct ==
  /\ 0 \in Slot /\ None \notin Slot
  /\ Root \in Inode /\ Free \notin Inode
  /\ Root # Free
BY SlotsAssumption, InodesAssumption DEF Slot, Inode, None, Free, Root

LEMMA InitIInv == Init => IInv
BY Distinct DEF Init, IInv, TypeOK, RootPinned, OneDirectoryCopy

\* The slot f_opendir leaves is free afterwards and the rest is as it was.
LEMMA VacatedFacts ==
  ASSUME IInv
  PROVE  /\ Vacated \in [Slot -> Inode \cup {Free}]
         /\ VacatedHead \in Slot => Vacated[VacatedHead] = Free
         /\ VacatedHead \in Slot \cup {None}
         /\ \A s \in Slot : Vacated[s] \in {file_table[s], Free}
         /\ Vacated[0] = file_table[0]
         /\ VacatedOpen \subseteq by_open
         /\ \A s \in VacatedOpen : Vacated[s] # Free
         /\ \A s \in by_open \ VacatedOpen : Vacated[s] = Free
<1>. USE DEF IInv, TypeOK, Vacated, VacatedHead, VacatedOpen
<1>1. CASE cur = 0
  BY <1>1, FirstFreeSlot, Distinct
<1>2. CASE cur # 0
  BY <1>2, Distinct
<1>. QED
  BY <1>1, <1>2

\* Every step of every call preserves the inductive invariant.
LEMMA StepIInv == IInv /\ [Next]_vars => IInv'
<1>. SUFFICES ASSUME IInv, [Next]_vars PROVE IInv'
  OBVIOUS
<1>. USE Distinct DEF IInv, TypeOK, RootPinned, OneDirectoryCopy
<1>1. CASE OpenRoot
  <2>1. FirstFree(file_table') \in Slot \cup {None}  BY FirstFreeSlot
  <2>. QED  BY <1>1, <2>1 DEF OpenRoot
<1>2. ASSUME NEW n \in Inode, Descend(n) PROVE IInv'
  <2>1. file_table[0] = Root  BY <1>2 DEF Descend
  <2>2. CASE SlotOf(Vacated, n) # None /\ file_table' = Vacated
    <3>1. SlotOf(Vacated, n) \in Slot  BY <2>2, SlotOfSlot
    <3>2. pc' = "walk" /\ cur' = SlotOf(Vacated, n)
      BY <1>2, <2>2 DEF Descend
    <3>. QED  BY <1>2, <2>1, <2>2, <3>1, <3>2, VacatedFacts DEF Descend
  <2>3. CASE /\ SlotOf(Vacated, n) = None /\ VacatedHead # None
             /\ file_table' = [Vacated EXCEPT ![VacatedHead] = n]
             /\ cur' = VacatedHead /\ pc' = "walk"
    <3>1. VacatedHead \in Slot /\ Vacated[VacatedHead] = Free
      BY <2>3, VacatedFacts
    <3>2. \A s \in Slot : Vacated[s] # n  BY <2>3, SlotOfSlot
    <3>3. n # Root /\ VacatedHead # 0  BY <2>1, <3>1, <3>2, VacatedFacts
    <3>4. VacatedHead \notin by_open'  BY <1>2, <3>1, VacatedFacts DEF Descend
    <3>. HIDE DEF OneDirectoryCopy
    <3>5. OneDirectoryCopy'
      BY <1>2, <2>3, <3>1, <3>2, <3>4, VacatedFacts DEF Descend, OneDirectoryCopy
    <3>. QED  BY <1>2, <2>1, <2>3, <3>1, <3>3, <3>4, <3>5, VacatedFacts DEF Descend
  <2>4. CASE /\ SlotOf(Vacated, n) = None /\ VacatedHead = None
             /\ file_table' = Vacated /\ pc' = "fault" /\ UNCHANGED cur
    BY <1>2, <2>1, <2>4, VacatedFacts DEF Descend
  <2>. QED  BY <1>2, <2>2, <2>3, <2>4 DEF Descend
<1>3. CASE NotFound
  BY <1>3, VacatedFacts DEF NotFound
<1>4. CASE PathEnd
  BY <1>4, FirstFreeSlot DEF PathEnd
<1>5. CASE Return
  BY <1>5 DEF Return
<1>6. ASSUME NEW n \in Inode, OpenFile(n) PROVE IInv'
  <2>1. CASE table_freehead = None
    BY <1>6, <2>1 DEF OpenFile
  <2>2. CASE table_freehead # None
    <3>1. file_table[table_freehead] = Free /\ table_freehead \in Slot
      BY <1>6, <2>2, FirstFreeSlot DEF OpenFile
    <3>2. table_freehead # 0  BY <1>6, <3>1 DEF OpenFile
    <3>3. FirstFree(file_table') \in Slot \cup {None}  BY FirstFreeSlot
    <3>. QED  BY <1>6, <2>2, <3>1, <3>2, <3>3 DEF OpenFile
  <2>. QED  BY <2>1, <2>2
<1>7. ASSUME NEW fd \in Slot, Close(fd) PROVE IInv'
  <2>1. FirstFree(file_table') \in Slot \cup {None}  BY FirstFreeSlot
  <2>. QED  BY <1>7, <2>1 DEF Close
<1>8. ASSUME NEW n \in Inode, AddTo(n) PROVE IInv'
  <2> DEFINE f == FirstFree(file_table)
  <2>1. f \in Slot /\ file_table[f] = Free  BY <1>8, FirstFreeSlot DEF AddTo
  <2>2. \A s \in Slot : file_table[s] # n  BY <1>8, SlotOfSlot DEF AddTo
  <2>3. file_table' = [file_table EXCEPT ![f] = n] /\ file_table[0] = Root
    BY <1>8 DEF AddTo
  <2>4. n # Root /\ f # 0 /\ f \notin by_open  BY <2>1, <2>2, <2>3
  <2>. HIDE DEF f
  <2>. QED  BY <1>8, <2>1, <2>2, <2>3, <2>4 DEF AddTo
<1>9. ASSUME NEW n \in Inode, RemoveFrom(n) PROVE IInv'
  <2>1. SlotOf(file_table, n) \in Slot /\ SlotOf(file_table, n) # 0
    BY <1>9, SlotOfSlot DEF RemoveFrom
  <2>. QED  BY <1>9, <2>1 DEF RemoveFrom
<1>10. CASE Restart
  BY <1>10 DEF Restart
<1>11. CASE UNCHANGED vars
  BY <1>11 DEF vars
<1>. QED
  BY <1>1, <1>2, <1>3, <1>4, <1>5, <1>6, <1>7, <1>8, <1>9, <1>10, <1>11 DEF Next

--------------------------------------------------------------------------------
\* The strengthened invariant holds throughout.
THEOREM TableInvariant == Spec => []IInv
BY InitIInv, StepIInv, PTL DEF Spec

\* Every variable keeps its type, whatever the order of calls.
THEOREM TypeCorrect == Spec => []TypeOK
<1>1. IInv => TypeOK  BY DEF IInv
<1>. QED  BY <1>1, TableInvariant, PTL

\* f_opendir always starts its walk in the root directory (slot 0).
THEOREM RootAlwaysPinned == Spec => []RootPinned
<1>1. IInv => RootPinned  BY DEF IInv
<1>. QED  BY <1>1, TableInvariant, PTL

\* A directory has one in-memory copy, however calls are interleaved.
THEOREM SingleDirectoryCopy == Spec => []OneDirectoryCopy
<1>1. IInv => OneDirectoryCopy  BY DEF IInv
<1>. QED  BY <1>1, TableInvariant, PTL

\* table_freehead may be stale, but no call ever installs over a busy entry.
THEOREM NothingClobbered == Spec => NoClobber
<1>1. ASSUME IInv, [Next]_vars PROVE [BusySlotsKept]_vars
  <2>. USE DEF IInv, TypeOK, BusySlotsKept
  <2>1. CASE OpenRoot  BY <2>1 DEF OpenRoot
  <2>2. ASSUME NEW n \in Inode, Descend(n) PROVE BusySlotsKept
    <3>1. \A s \in Slot \ {cur} : Vacated[s] = file_table[s]  BY DEF Vacated
    <3>2. VacatedHead = None \/ VacatedHead = cur \/ file_table[VacatedHead] = Free
      BY FirstFreeSlot DEF VacatedHead
    <3>. QED  BY <1>1, <2>2, <3>1, <3>2, VacatedFacts, Distinct DEF Descend
  <2>3. CASE NotFound  BY <2>3 DEF NotFound, Vacated
  <2>4. CASE PathEnd  BY <2>4 DEF PathEnd
  <2>5. CASE Return  BY <2>5 DEF Return
  <2>6. ASSUME NEW n \in Inode, OpenFile(n) PROVE BusySlotsKept
    BY <1>1, <2>6, FirstFreeSlot DEF OpenFile
  <2>7. ASSUME NEW fd \in Slot, Close(fd) PROVE BusySlotsKept  BY <2>7 DEF Close
  <2>8. ASSUME NEW n \in Inode, AddTo(n) PROVE BusySlotsKept
    BY <2>8, FirstFreeSlot DEF AddTo
  <2>9. ASSUME NEW n \in Inode, RemoveFrom(n) PROVE BusySlotsKept  BY <2>9 DEF RemoveFrom
  <2>10. CASE Restart  BY <2>10 DEF Restart
  <2>11. CASE UNCHANGED vars  BY <2>11
  <2>. QED
    BY <1>1, <2>1, <2>2, <2>3, <2>4, <2>5, <2>6, <2>7, <2>8, <2>9, <2>10, <2>11 DEF Next
<1>. QED
  BY <1>1, TableInvariant, PTL DEF Spec, NoClobber
================================================================================
