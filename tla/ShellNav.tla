-------------------------------- MODULE ShellNav --------------------------------
(***************************************************************************)
(* The commands of the shell that name files, on top of FileSystem: cd,    *)
(* pwd, ls, mkdir, rm, rmdir, cat and output redirected to a file.         *)
(*                                                                         *)
(* A command turns its argument into an absolute path (convert_absolute):  *)
(* goto_destination walks to the directory, entering it and its parent in  *)
(* the open-file table and dropping what it leaves, and the climb back to  *)
(* the root collects the names.  The path then goes to a call of           *)
(* FileSystem, which walks it once more.  Each change of the table is a    *)
(* step of its own.                                                        *)
(*                                                                         *)
(* "fault" is the end of the program: a NULL argument, file_table[-1], or  *)
(* what became of freed memory.                                            *)
(***************************************************************************)
EXTENDS FileSystem

SX == INSTANCE SequencesExt

CONSTANT Commands    \* what the user types: [op, abs, path], path the components of the
                     \* argument and abs whether it starts with a slash

Ops == {"cd", "pwd", "ls", "mkdir", "rm", "rmdir", "cat", "redirect", "exit"}
ASSUME CommandsAssumption ==
  /\ \A c \in Commands : c.op \in Ops /\ c.abs \in BOOLEAN
  /\ \A c \in Commands : c.op \in {"mkdir", "rm", "cat", "redirect"} =>
                           c.path # <<>> /\ c.path[Len(c.path)] \in Names
  /\ Workload = {}    \* the calls come from here

VARIABLES
  pwd,          \* pwd_directory: inode_index and filename
  root_entry,   \* the memory f_opendir returns for an empty path: "live" or "freed"
  cmd,          \* the command in progress
  lost          \* history: a walk of the shell dropped the working directory from the table,
                \* or it arrived there with the table full

navVars == <<inodes, blocks, sbdisk, sb, file_table, table_freehead, by_open, fds, call,
             pwd, root_entry, cmd, lost>>

NoDir  == [ino |-> None, name |-> ""]     \* NULL
Prompt == [pc |-> "prompt", op |-> "none", arg |-> <<>>, todo |-> <<>>, cur |-> NoDir,
           slot |-> 0, at |-> 0, up |-> 0, freed |-> FALSE, names |-> <<>>, rooted |-> FALSE,
           from |-> ""]
Login  == [Prompt EXCEPT !.pc = "login", !.op = "login"]

NavInit == Init /\ pwd = NoDir /\ root_entry = "live" /\ cmd = Login /\ lost = FALSE

--------------------------------------------------------------------------------
\* The table, as addto_file_table and remove_from_file_table leave it

\* Mutant of Added: an inode is entered again although it is there.
AddedAgain(ft, n) ==
  IF FirstFree(ft) = None THEN ft ELSE [ft EXCEPT ![FirstFree(ft)] = Open(n, inodes[n])]

Added(ft, n) ==
  IF SlotOf(ft, n) # None \/ FirstFree(ft) = None THEN ft
  ELSE [ft EXCEPT ![FirstFree(ft)] = Open(n, inodes[n])]

At(ft, s, offset) == [ft EXCEPT ![s].byte_offset = offset]

Stop == cmd' = [cmd EXCEPT !.pc = "fault", !.from = cmd.pc]

--------------------------------------------------------------------------------
\* The directory a command wants, as the path given to goto_destination

IsDotted(c) == ~ c.abs /\ c.path[1] \in {".", ".."}

\* mkdir and rm take a path of several names for absolute unless it starts with a
\* dot, and one name for relative whether or not it starts with a slash; cat and
\* redirection drop the slash.  pwd looks its own name up, from where it is.
Wanted(c) ==
  CASE c.op \in {"cd", "rmdir"} -> [abs |-> c.abs, path |-> c.path]
    [] c.op = "pwd" -> [abs |-> pwd.name = "/", path |-> IF pwd.name = "/" THEN <<>> ELSE <<pwd.name>>]
    [] c.op \in {"mkdir", "rm"} -> [abs  |-> Len(c.path) > 1 /\ ~ IsDotted(c),
                                    path |-> SX!Front(c.path)]
    [] OTHER -> [abs |-> FALSE, path |-> SX!Front(c.path)]

\* A command is read.  It dereferences pwd_directory, whatever it is.
Enter(c) ==
  LET w == Wanted(c)
  IN
  /\ cmd.pc = "prompt"
  /\ c.op \notin {"ls", "exit"}
  /\ pwd # NoDir
  /\ \/ /\ w.abs
        /\ OpenRoot([Idle EXCEPT !.op = "f_opendir", !.todo = w.path])
        /\ cmd' = [Prompt EXCEPT !.pc = "open", !.op = c.op, !.arg = c.path,
                                 !.rooted = w.path = <<>>,
                                 !.cur.name = IF w.path = <<>> THEN "/" ELSE SX!Last(w.path)]
     \/ /\ ~ w.abs
        /\ cmd' = [Prompt EXCEPT !.pc = "goto", !.op = c.op, !.arg = c.path, !.cur = pwd,
                                 !.todo = SelectSeq(w.path, LAMBDA token : token # ".")]
        /\ UNCHANGED vars
  /\ UNCHANGED <<pwd, root_entry, lost>>

NoPwd ==
  /\ cmd.pc = "prompt"
  /\ pwd = NoDir
  /\ Stop
  /\ UNCHANGED <<vars, pwd, root_entry, lost>>

\* main after login: f_opendir of the home directory, "/" for every user.
LogIn ==
  /\ cmd.pc = "login"
  /\ OpenRoot([Idle EXCEPT !.op = "f_opendir"])
  /\ cmd' = [cmd EXCEPT !.pc = "open", !.rooted = TRUE, !.cur.name = "/"]
  /\ UNCHANGED <<pwd, root_entry, lost>>

--------------------------------------------------------------------------------
\* goto_destination with an absolute path: f_opendir and one more entry, which is
\* there already.  The entry f_opendir returned is freed, the root's too.
Opened ==
  LET n == file_table[call.at].ino
      here == [cmd.cur EXCEPT !.ino = n]
  IN
  /\ cmd.pc = "open"
  /\ OpenedDir
  /\ root_entry' = IF cmd.rooted /\ cmd.op # "login" THEN "freed" ELSE root_entry
  /\ IF cmd.op \in {"cd", "login"}
     THEN cmd' = Prompt /\ pwd' = here /\ lost' = FALSE
     ELSE cmd' = [cmd EXCEPT !.pc = "start", !.cur = here] /\ UNCHANGED <<pwd, lost>>

\* No such directory: cd makes NULL the working directory, the others use NULL.
NotOpened ==
  /\ cmd.pc = "open"
  /\ call.pc = "idle"
  /\ IF cmd.op = "cd" THEN cmd' = Prompt /\ pwd' = NoDir ELSE Stop /\ UNCHANGED pwd
  /\ UNCHANGED <<vars, root_entry, lost>>

\* The first of a set of entries, as a set of one or none.
First(entries) == {k \in entries : \A j \in entries : k <= j}

\* The entry of a directory that has a name, and the one of an inode.
Named(node, name) == First(Matches(node, 0, name))
Numbered(node, n) == First({k \in 0 .. node.size - 1 : EntryAt(node, k).inode_index = n})

\* Mutant of Remaining: strtok is called only where the name was found.
RemainingSame(tokens) == tokens
Remaining(tokens) == Tail(tokens)

\* goto_destination with a relative path, a name at a time.  A name that is not
\* there is passed over.  The directory left is dropped unless it is the root.
Goto ==
  LET fd    == SlotOf(file_table, cmd.cur.ino)
      name  == Head(cmd.todo)
      found == Named(file_table[fd].node, name)
  IN
  /\ cmd.pc = "goto" /\ cmd.todo # <<>>
  /\ \/ /\ fd = None
        /\ Stop
        /\ UNCHANGED <<file_table, table_freehead, by_open, lost>>
     \/ /\ fd # None /\ found = {}
        /\ file_table' = At(file_table, fd, 0)
        /\ cmd' = [cmd EXCEPT !.todo = Remaining(@)]
        /\ UNCHANGED <<table_freehead, by_open, lost>>
     \/ /\ fd # None
        /\ \E k \in found :
             /\ cmd' = [cmd EXCEPT !.pc = IF name = ".." THEN "name" ELSE "parent", !.slot = fd,
                          !.cur = [ino |-> EntryAt(file_table[fd].node, k).inode_index, name |-> name]]
             /\ file_table' = IF cmd.cur.ino = Root THEN At(file_table, fd, k + 1)
                              ELSE [file_table EXCEPT ![fd] = FreeEntry]
        /\ table_freehead' = IF cmd.cur.ino = Root THEN table_freehead ELSE fd
        /\ by_open' = IF cmd.cur.ino = Root THEN by_open ELSE by_open \ {fd}
        /\ lost' = (lost \/ (cmd.cur.ino = pwd.ino /\ pwd.ino # Root))
  /\ UNCHANGED <<disk, sb, fds, call, pwd, root_entry>>

\* get_parentdir_name: ".." is called what its parent calls it, which must be in
\* the table.
GotoName ==
  LET up    == SlotOf(file_table, inodes[cmd.cur.ino].parent)
      found == IF up = None THEN {}
               ELSE Numbered(file_table[up].node, cmd.cur.ino)
  IN
  /\ cmd.pc = "name"
  /\ \/ /\ found = {}
        /\ Stop
        /\ UNCHANGED file_table
     \/ \E k \in found :
          /\ file_table' = At(file_table, up, k + 1)
          /\ cmd' = [cmd EXCEPT !.pc = "parent",
                                !.cur.name = EntryAt(file_table[up].node, k).filename]
  /\ UNCHANGED <<disk, sb, table_freehead, by_open, fds, call, pwd, root_entry, lost>>

\* The table once n and then the directory's own inode are entered; the slot that
\* was read is rewound, whoever has it now.
GotoParent ==
  /\ cmd.pc = "parent"
  /\ file_table' = Added(file_table, inodes[cmd.cur.ino].parent)
  /\ cmd' = [cmd EXCEPT !.pc = "self"]
  /\ UNCHANGED <<disk, sb, table_freehead, by_open, fds, call, pwd, root_entry, lost>>

\* Mutant of GotoSelf: the directory arrived at is not entered.
GotoSelfNot ==
  /\ cmd.pc = "self"
  /\ file_table' = At(file_table, cmd.slot, 0)
  /\ cmd' = [cmd EXCEPT !.pc = "goto", !.todo = Tail(@)]
  /\ UNCHANGED <<disk, sb, table_freehead, by_open, fds, call, pwd, root_entry, lost>>

GotoSelf ==
  /\ cmd.pc = "self"
  /\ file_table' = At(Added(file_table, cmd.cur.ino), cmd.slot, 0)
  /\ cmd' = [cmd EXCEPT !.pc = "goto", !.todo = Tail(@)]
  /\ UNCHANGED <<disk, sb, table_freehead, by_open, fds, call, pwd, root_entry, lost>>

GotoEnd ==
  /\ cmd.pc = "goto" /\ cmd.todo = <<>>
  /\ IF cmd.op = "cd"
     THEN cmd' = Prompt /\ pwd' = cmd.cur /\ lost' = (SlotOf(file_table, cmd.cur.ino) = None)
     ELSE cmd' = [cmd EXCEPT !.pc = "start"] /\ UNCHANGED <<pwd, lost>>
  /\ UNCHANGED <<vars, root_entry>>

--------------------------------------------------------------------------------
\* convert_absolute: from the destination up to the root

\* The destination's cached inode gives the parent, which is entered and rewound.
ClimbStart ==
  LET fd  == SlotOf(file_table, cmd.cur.ino)
      up  == file_table[fd].node.parent
      ft  == Added(file_table, up)
      ufd == SlotOf(ft, up)
  IN
  /\ cmd.pc = "start"
  /\ \/ /\ fd = None
        /\ Stop
        /\ UNCHANGED file_table
     \/ /\ fd # None
        /\ IF ufd = None
           THEN Stop /\ UNCHANGED file_table
           ELSE /\ file_table' = At(ft, ufd, 0)
                /\ cmd' = [cmd EXCEPT !.pc = "climb", !.at = cmd.cur.ino, !.up = up, !.slot = ufd]
  /\ UNCHANGED <<disk, sb, table_freehead, by_open, fds, call, pwd, root_entry, lost>>

\* Mutant of Collected: count is not advanced.
CollectedNot(name, names) == names

\* absolute_path_collection, in the order it is put together at the end.
Collected(name, names) == <<name>> \o names

\* One directory: find the entry of inode cmd.at, enter the next parent, which the
\* ".." entry names.  If it was in the table already its inode is freed, and the
\* size that bounds the next scan is what malloc left there: past the end or
\* none at all.  A name not found leaves a hole among the names, or is NULL.
Climb ==
  LET node  == file_table[cmd.slot].node
      found == Numbered(node, cmd.at)
  IN
  /\ cmd.pc = "climb" /\ cmd.at > 0
  /\ \/ /\ cmd.freed \/ found = {}
        /\ Stop
        /\ UNCHANGED file_table
     \/ \E k \in found : \E next \in {EntryAt(node, 1).inode_index} :
          LET ft  == Added(At(file_table, cmd.slot, k + 1), next)
              nfd == SlotOf(ft, next)
          IN  IF nfd = None
              THEN Stop /\ file_table' = ft
              ELSE /\ file_table' = At(ft, nfd, 0)
                   /\ cmd' = [cmd EXCEPT !.names = Collected(EntryAt(node, k).filename, @),
                                         !.at = cmd.up, !.up = next, !.slot = nfd,
                                         !.freed = SlotOf(file_table, next) # None]
  /\ UNCHANGED <<disk, sb, table_freehead, by_open, fds, call, pwd, root_entry, lost>>

\* pwd prints the names; the others pass them on.
ClimbEnd ==
  /\ cmd.pc = "climb" /\ cmd.at <= 0
  /\ cmd' = IF cmd.op = "pwd" THEN [Prompt EXCEPT !.op = "pwd", !.names = cmd.names, !.cur = cmd.cur]
            ELSE [cmd EXCEPT !.pc = "issue"]
  /\ UNCHANGED <<vars, pwd, root_entry, lost>>

--------------------------------------------------------------------------------
\* The call, and the command's end

Calling == [mkdir |-> "f_mkdir", rm |-> "f_remove", rmdir |-> "f_rmdir",
            cat |-> "f_open_read", redirect |-> "f_open_write"]

\* Mutant of Sent: the path typed goes to the call as if it started at the root.
SentAsTyped == SX!Front(cmd.arg)

\* The directories of the path that goes to the call, which walks them from the root.
Sent == cmd.names

Issue ==
  /\ cmd.pc = "issue"
  /\ cmd' = [cmd EXCEPT !.pc = "wait", !.rooted = Sent = <<>>]
  /\ OpenRoot(IF cmd.op = "rmdir"
              THEN [Idle EXCEPT !.op = "f_rmdir", !.todo = Sent, !.path = Sent]
              ELSE [Idle EXCEPT !.op = Calling[cmd.op], !.todo = Sent, !.name = SX!Last(cmd.arg)])
  /\ UNCHANGED <<pwd, root_entry, lost>>

InCall == cmd.pc \in {"open", "wait"}

\* For an empty path f_opendir returns the root's entry.  Once that is freed it
\* reads as a directory entry read since, or as nothing in the table.
StaleRoot == InCall /\ cmd.rooted /\ root_entry = "freed" /\ call.pc = "walk"

EndOnStaleRoot ==
  /\ StaleRoot
  /\ \/ /\ \E s \in Slot :
             /\ file_table[s].ino \in {i \in Inode : inodes[i].type = "DIR"}
             /\ SlotOf(file_table, file_table[s].ino) = s
             /\ call' = [call EXCEPT !.at = s]
        /\ cmd' = [cmd EXCEPT !.rooted = FALSE]
        /\ UNCHANGED <<disk, sb, table, pwd, root_entry, lost>>
     \/ /\ Stop
        /\ UNCHANGED <<vars, pwd, root_entry, lost>>

\* A path walk drops the directories it passes.
Walked ==
  /\ InCall
  /\ Walk
  /\ lost' = (lost \/ (SlotOf(file_table, pwd.ino) # None /\ SlotOf(file_table', pwd.ino) = None))
  /\ UNCHANGED <<pwd, root_entry, cmd>>

Called ==
  /\ InCall /\ ~ StaleRoot
  /\ PathEnd \/ Mkdir \/ Remove \/ RmdirOpened \/ RmdirDescend
  /\ UNCHANGED <<pwd, root_entry, cmd, lost>>

\* f_open frees the directory's entry unless it makes a file in the root.
CalledOpen ==
  /\ InCall
  /\ OpenFile
  /\ root_entry' = IF cmd.rooted /\ (Files(DirNode) # {} \/ call.op = "f_open_read")
                   THEN "freed" ELSE root_entry
  /\ UNCHANGED <<pwd, cmd, lost>>

\* The leaf f_rmdir_helper reached; at the root itself there is no name to remove.
CalledLeaf ==
  /\ InCall
  /\ \/ /\ RmdirLeaf
        /\ cmd' = [cmd EXCEPT !.rooted = Len(call.path) = 1]
     \/ /\ call.pc = "helper" /\ IsLeaf(inodes[call.at]) /\ call.path = <<>>
        /\ Stop
        /\ UNCHANGED vars
  /\ UNCHANGED <<pwd, root_entry, lost>>

\* cat, more and redirection close the file they were given.
CloseFile ==
  /\ cmd.pc = "wait"
  /\ \E h \in fds : Close(h[1])
  /\ UNCHANGED <<pwd, root_entry, cmd, lost>>

\* The command is done; rmdir frees what f_rmdir returned.
Done ==
  /\ cmd.pc = "wait"
  /\ call.pc = "idle" /\ fds = {}
  /\ cmd' = Prompt
  /\ root_entry' = IF cmd.op = "rmdir" /\ cmd.names = <<>> THEN "freed" ELSE root_entry
  /\ UNCHANGED <<vars, pwd, lost>>

\* ls enters the working directory and reads it to its end, where it stays.
List ==
  LET ft == Added(file_table, pwd.ino)
      fd == SlotOf(ft, pwd.ino)
  IN
  /\ cmd.pc = "prompt"
  /\ \E c \in Commands : c.op = "ls"
  /\ pwd # NoDir
  /\ IF fd = None THEN Stop /\ UNCHANGED <<file_table, lost>>
     ELSE file_table' = At(ft, fd, ft[fd].node.size) /\ lost' = FALSE /\ UNCHANGED cmd
  /\ UNCHANGED <<disk, sb, table_freehead, by_open, fds, call, pwd, root_entry>>

\* exit, and the next process.
Exit ==
  /\ cmd.pc = "prompt"
  /\ \E c \in Commands : c.op = "exit"
  /\ pwd # NoDir
  /\ sb' = sbdisk
  /\ file_table' = [s \in Slot |-> FreeEntry]
  /\ table_freehead' = 0
  /\ by_open' = {} /\ fds' = {}
  /\ pwd' = NoDir /\ root_entry' = "live" /\ cmd' = Login /\ lost' = FALSE
  /\ UNCHANGED <<disk, call>>

Work ==
  \/ LogIn \/ Opened \/ NotOpened \/ Goto \/ GotoName \/ GotoParent \/ GotoSelf \/ GotoEnd
  \/ ClimbStart \/ Climb \/ ClimbEnd \/ Issue \/ EndOnStaleRoot \/ Walked \/ Called
  \/ CalledOpen \/ CalledLeaf \/ CloseFile \/ Done

\* Once f_remove has released a directory's blocks it can give out any block, and
\* the commands end.
NavNext == Work \/ NoPwd \/ List \/ Exit \/ (BlocksDisjoint /\ \E c \in Commands : Enter(c))

\* The shell goes on with the command it has begun.
NavSpec == NavInit /\ [][NavNext]_navVars /\ WF_navVars(Work)

--------------------------------------------------------------------------------
(* Properties *)

\* The entry of d that a walk takes for a name, read from the disk alone.
Child(d, name) ==
  LET named == Matches(inodes[d], 0, name)
  IN  IF named = {} THEN None ELSE EntryAt(inodes[d], Least(named)).inode_index

\* A path leads from one inode to another: there are inodes on the way, each the
\* child of the one before.
Leads(from, path, to) ==
  \E way \in [0 .. Len(path) -> Inode] :
    /\ way[0] = from /\ way[Len(path)] = to
    /\ \A k \in 1 .. Len(path) : way[k] = Child(way[k - 1], path[k])

\* Two entries of a directory have the same name, which f_mkdir does not prevent; the
\* one found first may then be another than the shell has walked through.
Doubled == \E e, f \in Entries : e # f /\ e[1] = f[1] /\ e[3].filename = f[3].filename

\* The path convert_absolute makes leads back to the directory goto_destination
\* arrived at: neither the slots dropped and reused under way nor the names cached
\* in the working directory send a command elsewhere, only a name that is doubled.
PathLeadsBack == cmd.pc = "issue" => Leads(Root, cmd.names, cmd.cur.ino) \/ Doubled

\* A call made for a command works in the directory the path was made for, as long
\* as the root's entry is not freed memory and no name is doubled.
WorksWhereSent ==
  cmd.pc = "wait" /\ call.pc = "ready" /\ call.op # "f_rmdir" /\ call.path = <<>>
  /\ root_entry = "live"
    => file_table[call.at].ino = cmd.cur.ino \/ Doubled

\* The only ways the shell ends itself, by where it was: at the prompt there is no
\* working directory; the directory wanted does not exist; the shell's own walks
\* dropped the working directory from the table; ".." led to a directory that is
\* not right below the root; a size read from freed memory; the root's entry read
\* from freed memory, or rmdir sent to the root.  A full table apart.
FaultsExplained ==
  cmd.pc = "fault" /\ FirstFree(file_table) # None =>
    CASE cmd.from = "prompt" -> pwd = NoDir
      [] cmd.from = "open"   -> cmd.cur.ino = None \/ root_entry = "freed"
      [] cmd.from = "goto"   -> lost /\ cmd.cur.ino = pwd.ino
      [] cmd.from = "start"  -> lost /\ cmd.cur.ino = pwd.ino
      [] cmd.from = "name"   -> inodes[cmd.cur.ino].parent # Root
      [] cmd.from = "climb"  -> cmd.freed
      [] cmd.from = "wait"   -> root_entry = "freed" \/ (cmd.op = "rmdir" /\ cmd.names = <<>>)

\* Every command ends, in the prompt or in the end of the program.
Returns == cmd.pc # "prompt" ~> \/ cmd.pc \in {"prompt", "fault"}
                                 \/ call.pc \in {"tablefault", "blockfault"}

--------------------------------------------------------------------------------
(* What a command must not meet, and the inductive invariant of ShellNavProofs *)

\* cd does not look whether it was given a file, and rm can then remove the inode of
\* the working directory.
WorksInDirectory == pwd # NoDir => inodes[pwd.ino].type = "DIR"

NavOrderly == Orderly /\ WorksInDirectory

Going    == {"goto", "name", "parent", "self"}
Climbing == {"start", "climb", "issue", "wait"}

\* The command in progress has a known form, and names what it is to make or remove.
CmdRight ==
  /\ cmd = [f \in DOMAIN Prompt |-> cmd[f]]
  /\ \A e \in {pwd, cmd.cur} : e = [ino |-> e.ino, name |-> e.name]
  /\ cmd.pc \in {"login", "prompt", "open", "fault"} \cup Going \cup Climbing
  /\ cmd.pc = "login" => cmd = Login
  /\ cmd.pc \in {"open"} \cup Going \cup Climbing =>
       cmd.op \in DOMAIN Calling \cup {"pwd", "cd", "login"}
  /\ cmd.op = "login" => cmd.pc \notin Going \cup Climbing
  /\ cmd.op = "cd" => cmd.pc \notin Climbing
  /\ cmd.op = "pwd" => cmd.pc \notin {"issue", "wait"}
  /\ cmd.op \in DOMAIN Calling \ {"rmdir"} => SX!Last(cmd.arg) \in Names
  /\ cmd.pc \in {"open", "start"} \cup Going => cmd.names = <<>>

\* A call is in progress only while the shell waits for it, and the call it asked for.
CallAsked ==
  /\ cmd.pc \notin {"open", "wait", "fault"} => call.pc = "idle"
  /\ cmd.pc = "open" /\ call.pc \in {"walk", "ready", "helper"} => call.op = "f_opendir"
  /\ cmd.pc = "open" => cmd.cur.ino = None
  /\ cmd.pc = "wait" /\ call.pc # "idle" => call.op # "f_opendir"
  /\ cmd.pc = "wait" /\ call.pc # "idle" /\ call.op = "f_rmdir" /\ call.path = <<>> =>
       cmd.op = "rmdir" /\ cmd.names = <<>>

\* A file is open only until the command that opened it has closed it.
FilesClosed ==
  fds # {} => /\ cmd.pc \in {"wait", "fault"} /\ call.pc = "idle"
              /\ \A h \in fds : file_table[h[1]].ino # None /\ file_table[h[1]].node.type = "REG"

\* A directory is in the table, or was lost from it, or there is no room for it.
AtHand(n) == SlotOf(file_table, n) # None \/ FirstFree(file_table) = None \/ (lost /\ n = pwd.ino)

\* The directories the shell is at and comes from.
Standing ==
  /\ cmd.pc # "login" => file_table[0].ino = Root
  /\ pwd # NoDir => pwd.ino \in Allocated /\ (SlotOf(file_table, pwd.ino) # None \/ lost)
  /\ cmd.pc \in Going \cup {"start"} => cmd.cur.ino \in Allocated
  /\ cmd.pc \in {"goto", "start"} => AtHand(cmd.cur.ino)

\* The climb is at a directory's child and has its slot.
ClimbRight ==
  cmd.pc = "climb" =>
    /\ cmd.at \in Allocated /\ cmd.up = inodes[cmd.at].parent
    /\ cmd.slot \in Slot /\ file_table[cmd.slot].ino = cmd.up
    /\ cmd.names \in Seq(FileNames)
    /\ Leads(cmd.at, cmd.names, cmd.cur.ino) \/ Doubled

\* What is left of the path leads to where the command is to work.
LeadsOn ==
  /\ cmd.pc = "issue" => cmd.names \in Seq(FileNames)
  /\ cmd.pc = "wait" /\ call.pc = "walk" /\ call.op # "f_rmdir" /\ call.path = <<>> /\ root_entry = "live"
       => call.todo \in Seq(FileNames)
            /\ (Leads(file_table[call.at].ino, call.todo, cmd.cur.ino) \/ Doubled)

\* No inode is its own parent or its parent's.
NoLoop ==
  \A i \in Allocated \ {Root} : inodes[i].parent # i /\ inodes[inodes[i].parent].parent # i

NavInv ==
  /\ CmdRight /\ CallAsked /\ FilesClosed /\ Standing /\ ClimbRight /\ LeadsOn /\ NoLoop
  /\ PathLeadsBack /\ WorksWhereSent /\ FaultsExplained
================================================================================
