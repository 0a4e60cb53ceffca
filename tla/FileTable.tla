------------------------------- MODULE FileTable -------------------------------
(***************************************************************************)
(* The open-file table of filesystem.c: file_table[], table_freehead and   *)
(* the calls that install and evict entries (f_opendir, f_open, f_close,   *)
(* addto_file_table, remove_from_file_table, and process restart).         *)
(*                                                                         *)
(* What a directory contains is abstracted away: each path component       *)
(* f_opendir looks up resolves to an arbitrary inode or is not found.      *)
(* FileSystem.tla supplies the directories and refines this module.        *)
(*                                                                         *)
(* f_opendir runs one path component per step; no other call can start     *)
(* while it runs, for the program has one thread.                          *)
(***************************************************************************)
EXTENDS Integers

CONSTANTS
  NSlots,     \* FILETABLESIZE
  NInodes     \* number of inodes on the disk; inode 0 is the root directory

ASSUME SlotsAssumption  == NSlots \in Nat \ {0}
ASSUME InodesAssumption == NInodes \in Nat \ {0}

Slot  == 0 .. NSlots - 1
Inode == 0 .. NInodes - 1
Root  == 0
Free  == -1   \* file_table[s]->free_file = TRUE
None  == -1   \* "no slot": find_next_freehead() = EXITFAILURE, already_in_table() = -1

VARIABLES
  file_table,       \* [Slot -> Inode \cup {Free}]: the inode_index each busy entry caches
  table_freehead,   \* where f_open and f_opendir install next
  by_open,          \* the slots whose present entry was installed by f_open
  fds,              \* descriptors f_open returned and the caller has not closed
  pc,               \* "idle", "walk" (in f_opendir), "ready" (f_opendir returned), "fault"
  cur               \* variable i of f_opendir: slot of the directory reached so far

vars == <<file_table, table_freehead, by_open, fds, pc, cur>>

TypeOK ==
  /\ file_table \in [Slot -> Inode \cup {Free}]
  /\ table_freehead \in Slot \cup {None}
  /\ by_open \subseteq Slot
  /\ fds \subseteq Slot
  /\ pc \in {"idle", "walk", "ready", "fault"}
  /\ cur \in Slot

--------------------------------------------------------------------------------
\* find_next_freehead: the lowest free slot of table ft.
FirstFree(ft) ==
  IF \E s \in Slot : ft[s] = Free
  THEN CHOOSE s \in Slot : ft[s] = Free /\ \A t \in Slot : ft[t] = Free => s <= t
  ELSE None

\* already_in_table and get_fd_from_inode_value: the lowest slot that caches inode n.
SlotOf(ft, n) ==
  IF \E s \in Slot : ft[s] = n
  THEN CHOOSE s \in Slot : ft[s] = n /\ \A t \in Slot : ft[t] = n => s <= t
  ELSE None

\* setup(): every entry free, table_freehead statically 0.
Init ==
  /\ file_table = [s \in Slot |-> Free]
  /\ table_freehead = 0
  /\ by_open = {}
  /\ fds = {}
  /\ pc = "idle"
  /\ cur = 0

\* f_opendir up to its loop: the root directory is pinned in slot 0.
OpenRoot ==
  /\ pc = "idle"
  /\ file_table' = [file_table EXCEPT ![0] = IF @ = Free THEN Root ELSE @]
  /\ table_freehead' = FirstFree(file_table')
  /\ pc' = "walk"
  /\ cur' = 0
  /\ UNCHANGED <<by_open, fds>>

\* Mutant of Vacated: the root is dropped like any other directory.
VacatedEvenRoot == [file_table EXCEPT ![cur] = Free]

\* After scanning the directory in slot cur, f_opendir drops that entry unless
\* it is the root, and aims table_freehead at the slot it vacated.
Vacated     == IF cur = 0 THEN file_table ELSE [file_table EXCEPT ![cur] = Free]
VacatedHead == IF cur = 0 THEN FirstFree(file_table) ELSE cur
VacatedOpen == IF cur = 0 THEN by_open ELSE by_open \ {cur}

\* The component names inode n: reuse the entry that caches it, or install it
\* at table_freehead.  With table_freehead = -1 the code indexes file_table[-1].
Descend(n) ==
  /\ pc = "walk"
  /\ table_freehead' = VacatedHead
  /\ by_open' = VacatedOpen
  /\ UNCHANGED fds
  /\ \/ /\ SlotOf(Vacated, n) # None
        /\ file_table' = Vacated
        /\ cur' = SlotOf(Vacated, n)
        /\ pc' = "walk"
     \/ /\ SlotOf(Vacated, n) = None
        /\ VacatedHead # None
        /\ file_table' = [Vacated EXCEPT ![VacatedHead] = n]
        /\ cur' = VacatedHead
        /\ pc' = "walk"
     \/ /\ SlotOf(Vacated, n) = None
        /\ VacatedHead = None
        /\ file_table' = Vacated
        /\ pc' = "fault"
        /\ UNCHANGED cur

\* The component is not found: f_opendir returns NULL, and so does its caller.
NotFound ==
  /\ pc = "walk"
  /\ file_table' = Vacated
  /\ table_freehead' = VacatedHead
  /\ by_open' = VacatedOpen
  /\ pc' = "idle"
  /\ cur' = 0
  /\ UNCHANGED fds

\* Mutant of PathEnd: f_opendir returns without recomputing table_freehead.
PathEndStaleHead ==
  /\ pc = "walk"
  /\ pc' = "ready"
  /\ UNCHANGED <<file_table, table_freehead, by_open, fds, cur>>

\* The path is used up: f_opendir recomputes table_freehead and returns.
PathEnd ==
  /\ pc = "walk"
  /\ table_freehead' = FirstFree(file_table)
  /\ pc' = "ready"
  /\ UNCHANGED <<file_table, by_open, fds, cur>>

\* The rest of f_mkdir, f_remove, f_open's failures, or the caller of
\* f_opendir itself: the table is left as f_opendir left it.
Return ==
  /\ pc = "ready"
  /\ pc' = "idle"
  /\ cur' = 0
  /\ UNCHANGED <<file_table, table_freehead, by_open, fds>>

\* f_open on an existing or a newly created regular file: installed at
\* table_freehead with no check that it is already open or that a slot is left.
OpenFile(n) ==
  /\ pc = "ready"
  /\ n # Root
  /\ IF table_freehead = None
     THEN /\ pc' = "fault"
          /\ UNCHANGED <<file_table, table_freehead, by_open, fds, cur>>
     ELSE /\ file_table' = [file_table EXCEPT ![table_freehead] = n]
          /\ by_open' = by_open \cup {table_freehead}
          /\ fds' = fds \cup {table_freehead}
          /\ table_freehead' = FirstFree(file_table')
          /\ pc' = "idle"
          /\ cur' = 0

\* f_close of a descriptor f_open returned.
Close(fd) ==
  /\ pc = "idle"
  /\ fd \in fds
  /\ file_table' = [file_table EXCEPT ![fd] = Free]
  /\ by_open' = by_open \ {fd}
  /\ fds' = fds \ {fd}
  /\ table_freehead' = FirstFree(file_table')
  /\ UNCHANGED <<pc, cur>>

\* Mutant of AddTo: an inode that is in the table already is added again.
AddToAgain(n) ==
  /\ pc = "idle"
  /\ file_table[0] # Free
  /\ FirstFree(file_table) # None
  /\ file_table' = [file_table EXCEPT ![FirstFree(file_table)] = n]
  /\ UNCHANGED <<table_freehead, by_open, fds, pc, cur>>

\* Mutant of AddTo: the entry goes where table_freehead points.
AddToAtHead(n) ==
  /\ pc = "idle"
  /\ file_table[0] # Free
  /\ SlotOf(file_table, n) = None
  /\ table_freehead # None
  /\ file_table' = [file_table EXCEPT ![table_freehead] = n]
  /\ UNCHANGED <<table_freehead, by_open, fds, pc, cur>>

\* addto_file_table, called by the shell once login has opened the root
\* directory.  It never updates table_freehead.
AddTo(n) ==
  /\ pc = "idle"
  /\ file_table[0] # Free
  /\ SlotOf(file_table, n) = None
  /\ FirstFree(file_table) # None
  /\ file_table' = [file_table EXCEPT ![FirstFree(file_table)] = n]
  /\ UNCHANGED <<table_freehead, by_open, fds, pc, cur>>

\* remove_from_file_table; goto_destination never passes it the root.
RemoveFrom(n) ==
  /\ pc = "idle"
  /\ n # Root
  /\ SlotOf(file_table, n) # None
  /\ file_table' = [file_table EXCEPT ![SlotOf(file_table, n)] = Free]
  /\ table_freehead' = SlotOf(file_table, n)
  /\ by_open' = by_open \ {SlotOf(file_table, n)}
  /\ UNCHANGED <<fds, pc, cur>>

\* exit runs shutdown(); the next process runs setup() again.
Restart ==
  /\ pc = "idle"
  /\ file_table' = [s \in Slot |-> Free]
  /\ table_freehead' = 0
  /\ by_open' = {}
  /\ fds' = {}
  /\ UNCHANGED <<pc, cur>>

Next ==
  \/ OpenRoot
  \/ \E n \in Inode : Descend(n)
  \/ NotFound
  \/ PathEnd
  \/ Return
  \/ \E n \in Inode : OpenFile(n)
  \/ \E fd \in Slot : Close(fd)
  \/ \E n \in Inode : AddTo(n)
  \/ \E n \in Inode : RemoveFrom(n)
  \/ Restart

Spec == Init /\ [][Next]_vars

--------------------------------------------------------------------------------
(* Properties *)

\* Slot 0 never holds anything but the root directory, and holds it whenever a
\* path is being walked or has been: f_opendir starts every walk at slot 0
\* without looking at what it holds (README: "The root directory file always
\* occupies the first entry in the open file table").
RootPinned ==
  /\ file_table[0] \in {Root, Free}
  /\ pc \in {"walk", "ready"} => file_table[0] = Root

\* Apart from the entries f_open installs, an inode is cached in one slot only,
\* so the slot get_fd_from_inode_value picks is THE in-memory copy of a
\* directory, and updating it cannot leave another copy behind.
OneDirectoryCopy ==
  \A s, t \in Slot \ by_open :
     s # t /\ file_table[s] # Free => file_table[s] # file_table[t]

\* The inductive strengthening of the three invariants above: the root directory
\* is cached in slot 0 only; f_open's entries are busy and never in slot 0; and
\* when f_opendir has returned, table_freehead is exact, which is what lets
\* f_open install there without a check.
IInv ==
  /\ TypeOK
  /\ RootPinned
  /\ OneDirectoryCopy
  /\ \A s \in Slot \ {0} : file_table[s] # Root
  /\ 0 \notin by_open \cup fds
  /\ \A s \in by_open : file_table[s] # Free
  /\ pc = "ready" => table_freehead = FirstFree(file_table)

BusySlotsKept ==
  \A s \in Slot : file_table[s] # Free /\ file_table'[s] # file_table[s]
                 => file_table'[s] = Free \/ (pc = "walk" /\ s = cur)

\* No call installs an entry over a busy one, although addto_file_table leaves
\* table_freehead on a slot it has just filled: every user of table_freehead
\* recomputes it first.  The slot f_opendir is standing on is the exception, it
\* is vacated in the same step.
NoClobber == [][BusySlotsKept]_vars
================================================================================
