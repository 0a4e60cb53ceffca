------------------------------ MODULE JobControl ------------------------------
(***************************************************************************)
(* Job control in shell.c: launchJob forks a job and waits for it or lists *)
(* it, fg, bg, kill -9 and exit act on listed jobs, and the SIGCHLD        *)
(* handler childReturning changes the list and the jobs of the line        *)
(* between any two steps of the shell.                                     *)
(*                                                                         *)
(* Three parties interleave: the shell (a program counter, one step per    *)
(* system call), its handler, and the children.  A job is one process, as  *)
(* perform_parse makes it.  What the kernel does is modelled from how      *)
(* shell.c uses it: SIGCHLD is one pending instance, so a report that      *)
(* arrives while another is pending is dropped; a system call of the shell *)
(* delivers the pending signal before it returns, unless it is masked; an  *)
(* exited child is a zombie until waitpid reports it, and a stop that no   *)
(* waitpid has reported yet is dropped by SIGCONT.                         *)
(*                                                                         *)
(* The children ignore SIGTERM, as the shell does (launchProcess does not  *)
(* restore it), so "kill %n" changes nothing here and is left out.         *)
(***************************************************************************)
EXTENDS Integers, Sequences

CONSTANTS
  Job,     \* the jobs the user may start; a job stands for its pgid
  Cat,     \* those that run "cat", whose child always takes the terminal
  Shell,   \* shell_pgid, as owner of the terminal
  NoJob,   \* a null pointer
  NoSig    \* no SIGCHLD is pending

ASSUME CatAssumption  == Cat \subseteq Job
ASSUME NullAssumption == Shell \notin Job /\ NoJob \notin Job

Status == {"running", "suspended"}
Code   == {"exited", "stopped", "continued"}   \* si_code, CLD_KILLED with CLD_EXITED
Live   == {"forked", "running", "stopped", "dying"}

ASSUME SigAssumption == NoSig \notin [job : Job, code : Code]

Command == {"prompt", "next"}                  \* where the next command is taken up
Over    == {"exited", "crashed"}
Stage   == Command \cup Over \cup
           {"launchfg", "give", "wait",                 \* a foreground job
            "launchbg", "mask", "traverse", "link",     \* a background job
            "suspend", "addsuspended",                  \* the end of the line
            "fg", "fgcont", "fgwait",
            "bg", "bgcont", "bgset", "bgscan",
            "kill", "walk"}                             \* exit

VARIABLES
  proc,                 \* [Job -> state of its process]
  unreported,           \* stopped jobs whose stop waitpid has not returned yet
  pending,              \* the pending SIGCHLD: NoSig, or its si_pid and si_code
  masked,               \* SIGCHLD is blocked
  terminal,             \* the foreground process group of the terminal
  all_background_jobs,  \* the list of jobs: pgid and status of each entry
  all_jobs,             \* the recorded jobs of the present line, oldest first
  suspend_this_job,     \* those of them the handler has flagged
  taking,               \* jobs whose child will take the terminal when it starts
  EXIT,                 \* exit has been given
  pc,                   \* where the shell is
  cur,                  \* the job the shell is working on
  held,                 \* an entry it holds a pointer to: the tail, or the next
  astray                \* history: jobs of which a report was lost, or came too early
                        \* or too late for the shell to use it

shell    == <<pc, cur, held, EXIT>>
children == <<proc, unreported, taking>>
lists    == <<all_background_jobs, all_jobs, suspend_this_job>>
signals  == <<pending, masked, astray>>
vars     == <<shell, children, lists, signals, terminal>>

TypeOK ==
  /\ proc \in [Job -> Live \cup {"none", "zombie", "gone"}]
  /\ unreported \subseteq Job
  /\ pending \in [job : Job, code : Code] \cup {NoSig}
  /\ masked \in BOOLEAN
  /\ terminal \in Job \cup {Shell}
  /\ all_background_jobs \in Seq([pgid : Job, status : Status])
  /\ all_jobs \in Seq(Job)
  /\ suspend_this_job \subseteq Job
  /\ taking \subseteq Job
  /\ EXIT \in BOOLEAN
  /\ pc \in Stage
  /\ cur \in Job \cup {NoJob}
  /\ held \in Job \cup {NoJob}
  /\ astray \subseteq Job

Init ==
  /\ proc = [j \in Job |-> "none"]
  /\ unreported = {}
  /\ pending = NoSig
  /\ masked = FALSE
  /\ terminal = Shell
  /\ all_background_jobs = <<>>
  /\ all_jobs = <<>>
  /\ suspend_this_job = {}
  /\ taking = {}
  /\ EXIT = FALSE
  /\ pc = "prompt"
  /\ cur = NoJob
  /\ held = NoJob
  /\ astray = {}

-----------------------------------------------------------------------------
(* The list of background jobs *)

Listed(j) == \E i \in DOMAIN all_background_jobs : all_background_jobs[i].pgid = j

\* The position of j's first entry.
Position(j) ==
  CHOOSE i \in DOMAIN all_background_jobs :
    /\ all_background_jobs[i].pgid = j
    /\ \A k \in 1 .. i - 1 : all_background_jobs[k].pgid # j

\* The list after trim_background_process_list(j): j's first entry is gone.
Trimmed(j) ==
  IF ~ Listed(j) THEN all_background_jobs
  ELSE [i \in 1 .. Len(all_background_jobs) - 1 |->
          all_background_jobs[IF i < Position(j) THEN i ELSE i + 1]]

Last == IF all_background_jobs = <<>> THEN NoJob
        ELSE all_background_jobs[Len(all_background_jobs)].pgid

\* The entry that follows j's.
Successor(j) == IF Listed(j) /\ Position(j) + 1 \in DOMAIN all_background_jobs
                THEN all_background_jobs[Position(j) + 1].pgid ELSE NoJob

\* The list with every entry of j marked running.
MarkedRunning(j) ==
  [i \in DOMAIN all_background_jobs |->
     IF all_background_jobs[i].pgid = j
     THEN [all_background_jobs[i] EXCEPT !.status = "running"]
     ELSE all_background_jobs[i]]

Recorded(j) == \E i \in DOMAIN all_jobs : all_jobs[i] = j

-----------------------------------------------------------------------------
(* Children and the signals they cause *)

\* The SIGCHLD for j: dropped when one is pending already.
Post(j, code) ==
  IF pending = NoSig
  THEN pending' = [job |-> j, code |-> code] /\ UNCHANGED astray
  ELSE UNCHANGED pending /\ astray' = IF code = "continued" THEN astray ELSE astray \cup {j}

\* launchProcess, up to exec: a foreground child takes the terminal itself.
Start(j) ==
  /\ proc[j] = "forked" /\ pc \notin Over
  /\ proc' = [proc EXCEPT ![j] = "running"]
  /\ terminal' = IF j \in taking THEN j ELSE terminal
  /\ taking' = taking \ {j}
  /\ UNCHANGED <<shell, unreported, lists, signals>>

\* The program ends, or a SIGKILL reaches it.
Exit(j) ==
  /\ proc[j] \in {"running", "dying"} /\ pc \notin Over
  /\ proc' = [proc EXCEPT ![j] = "zombie"]
  /\ Post(j, "exited")
  /\ UNCHANGED <<shell, unreported, taking, lists, masked, terminal>>

\* Control-Z, or a background job that reads the terminal.
Stop(j) ==
  /\ proc[j] = "running" /\ pc \notin Over
  /\ proc' = [proc EXCEPT ![j] = "stopped"]
  /\ unreported' = unreported \cup {j}
  /\ Post(j, "stopped")
  /\ UNCHANGED <<shell, taking, lists, masked, terminal>>

\* kill(-j, SIGCONT) by the shell.
Continue(j) ==
  IF proc[j] = "stopped"
  THEN /\ proc' = [proc EXCEPT ![j] = "running"]
       /\ unreported' = unreported \ {j}
       /\ IF pending = [job |-> j, code |-> "stopped"]   \* a stop masked by bg: reported late
          THEN UNCHANGED pending /\ astray' = astray \cup {j}
          ELSE Post(j, "continued")
       /\ UNCHANGED <<taking, masked>>
  ELSE UNCHANGED <<children, signals>>

\* Mutant of Kill: a stop not reported yet survives the kill.
KillKeepsStop(j) ==
  /\ proc' = [proc EXCEPT ![j] = IF @ \in Live THEN "dying" ELSE @]
  /\ taking' = taking \ {j}
  /\ UNCHANGED unreported

\* kill(j, SIGKILL) by the shell: the process is gone only when it next runs.
Kill(j) ==
  /\ proc' = [proc EXCEPT ![j] = IF @ \in Live THEN "dying" ELSE @]
  /\ unreported' = unreported \ {j}
  /\ taking' = taking \ {j}

-----------------------------------------------------------------------------
(* childReturning, the SIGCHLD handler *)

\* The report of a job that is neither recorded for the line nor listed yet,
\* or of a background job that is recorded but not listed, goes unused.
Overlooked(j) == j = cur /\ pc \in {"launchfg", "launchbg", "mask"}

\* Mutant of Suspended: the jobs of the line are looked at before the list.
SuspendedLineFirst(j) ==
  IF Recorded(j)
  THEN suspend_this_job' = suspend_this_job \cup {j} /\ UNCHANGED all_background_jobs
  ELSE /\ UNCHANGED suspend_this_job
       /\ all_background_jobs' =
            IF Listed(j)
            THEN [all_background_jobs EXCEPT ![Position(j)].status = "suspended"]
            ELSE all_background_jobs

\* The entry job_suspend_helper finds, or the job of the line it flags.
Suspended(j) ==
  IF Listed(j)
  THEN /\ all_background_jobs' = [all_background_jobs EXCEPT ![Position(j)].status = "suspended"]
       /\ UNCHANGED suspend_this_job
  ELSE /\ suspend_this_job' = IF Recorded(j) THEN suspend_this_job \cup {j} ELSE suspend_this_job
       /\ UNCHANGED all_background_jobs

Reported(r) ==
  \/ r.code = "exited"
     /\ all_background_jobs' = Trimmed(r.job) /\ UNCHANGED suspend_this_job
  \/ r.code = "stopped" /\ Suspended(r.job)
  \/ r.code = "continued" /\ UNCHANGED <<all_background_jobs, suspend_this_job>>

ChildReturning ==
  /\ pending # NoSig /\ ~ masked /\ pc \notin Over
  /\ Reported(pending)
  /\ astray' = IF Overlooked(pending.job) /\ pending.code # "continued"
               THEN astray \cup {pending.job} ELSE astray
  /\ pending' = NoSig
  /\ UNCHANGED <<shell, children, all_jobs, masked, terminal>>

-----------------------------------------------------------------------------
(* The shell.  Each step ends in a system call, so it takes the next only   *)
(* when no unmasked signal is pending.                                      *)

Quiet == pending = NoSig \/ masked

AtCommand == pc \in Command /\ ~ EXIT /\ Quiet

\* launchJob, fork: the child may run from here on.
Launch(j, foreground) ==
  /\ AtCommand /\ proc[j] = "none"
  /\ proc' = [proc EXCEPT ![j] = "forked"]
  /\ taking' = IF foreground \/ j \in Cat THEN taking \cup {j} ELSE taking
  /\ cur' = j
  /\ pc' = IF foreground THEN "launchfg" ELSE "launchbg"
  /\ UNCHANGED <<held, EXIT, unreported, lists, signals, terminal>>

\* launchJob, the parent: p->pid and j->pgid are set.
Record ==
  /\ pc \in {"launchfg", "launchbg"} /\ Quiet
  /\ all_jobs' = Append(all_jobs, cur)
  /\ pc' = IF pc = "launchfg" THEN "give" ELSE "mask"
  /\ UNCHANGED <<cur, held, EXIT, children, all_background_jobs, suspend_this_job,
                 signals, terminal>>

\* put_job_in_foreground gives the job the terminal.
GiveTerminal ==
  /\ pc = "give" /\ Quiet
  /\ terminal' = cur
  /\ pc' = "wait"
  /\ UNCHANGED <<cur, held, EXIT, children, lists, signals>>

\* Mutant of Reportable: WUNTRACED left out.
ReportableExited == proc[cur] = "zombie"

\* Mutant of Reportable: waitpid with WNOHANG.
ReportableAlways == TRUE

\* waitpid(cur, WUNTRACED) has something to return.
Reportable == proc[cur] = "zombie" \/ cur \in unreported

\* What waitpid(cur, WUNTRACED) consumes.
Collected ==
  /\ proc' = IF proc[cur] = "zombie" THEN [proc EXCEPT ![cur] = "gone"] ELSE proc
  /\ unreported' = unreported \ {cur}
  /\ UNCHANGED taking

\* put_job_in_foreground, waitpid and the terminal taken back.
Wait ==
  /\ pc = "wait" /\ Quiet /\ Reportable
  /\ Collected
  /\ terminal' = Shell
  /\ pc' = "next"
  /\ cur' = NoJob
  /\ UNCHANGED <<held, EXIT, lists, signals>>

\* sigprocmask(SIG_BLOCK) before put_job_in_background.
Block ==
  /\ pc = "mask" /\ Quiet
  /\ masked' = TRUE
  /\ pc' = "traverse"
  /\ UNCHANGED <<cur, held, EXIT, children, lists, pending, astray, terminal>>

\* put_job_in_background, the search for the tail of the list.
Traverse ==
  /\ pc = "traverse" /\ Quiet
  /\ held' = Last
  /\ pc' = "link"
  /\ UNCHANGED <<cur, EXIT, children, lists, signals, terminal>>

\* Mutant of Linked: the entry is set up from the tail found instead of the job.
LinkedFromTail(status) ==
  IF held = NoJob \/ Listed(held)
  THEN /\ all_background_jobs' = Append(all_background_jobs, [pgid |-> held, status |-> status])
       /\ UNCHANGED astray
  ELSE UNCHANGED all_background_jobs /\ astray' = astray \cup {cur}

\* put_job_in_background, the new entry is linked behind the tail found.  If
\* the handler has freed that entry since, the new one is lost with it.
Linked(status) ==
  IF held = NoJob \/ Listed(held)
  THEN /\ all_background_jobs' = Append(all_background_jobs, [pgid |-> cur, status |-> status])
       /\ UNCHANGED astray
  ELSE UNCHANGED all_background_jobs /\ astray' = astray \cup {cur}

Link ==
  /\ pc = "link" /\ Quiet
  /\ Linked("running")
  /\ masked' = FALSE
  /\ pc' = "next"
  /\ cur' = NoJob
  /\ held' = NoJob
  /\ UNCHANGED <<EXIT, children, all_jobs, suspend_this_job, pending, terminal>>

\* The job of the line that follows j, if any.
NextJob(j) ==
  IF \E i \in 1 .. Len(all_jobs) - 1 : all_jobs[i] = j
  THEN all_jobs[1 + CHOOSE i \in 1 .. Len(all_jobs) - 1 : all_jobs[i] = j]
  ELSE NoJob

\* main, after the last command of the line: the flagged jobs get listed.
EndLine ==
  /\ pc = "next" /\ Quiet
  /\ cur' = IF all_jobs = <<>> THEN NoJob ELSE all_jobs[1]
  /\ pc' = "suspend"
  /\ UNCHANGED <<held, EXIT, children, lists, signals, terminal>>

\* main: a job the handler has not flagged is passed over.
PassOver ==
  /\ pc = "suspend" /\ Quiet
  /\ cur # NoJob /\ cur \notin suspend_this_job
  /\ cur' = NextJob(cur)
  /\ UNCHANGED <<pc, held, EXIT, children, lists, signals, terminal>>

\* main, put_job_in_background(to_suspend, 0, SUSPENDED), with SIGCHLD let in:
\* first the search for the tail, then the link.
FindTail ==
  /\ pc = "suspend" /\ Quiet
  /\ cur \in suspend_this_job
  /\ held' = Last
  /\ pc' = "addsuspended"
  /\ UNCHANGED <<cur, EXIT, children, lists, signals, terminal>>

AddSuspended ==
  /\ pc = "addsuspended" /\ Quiet
  /\ Linked("suspended")
  /\ cur' = NextJob(cur)
  /\ pc' = "suspend"
  /\ held' = NoJob
  /\ UNCHANGED <<EXIT, children, all_jobs, suspend_this_job, pending, masked, terminal>>

\* main, free_all_jobs and back to the prompt, or out of the loop.
FinishLine ==
  /\ pc = "suspend" /\ Quiet
  /\ cur = NoJob
  /\ all_jobs' = <<>>
  /\ suspend_this_job' = {}
  /\ pc' = IF EXIT THEN "exited" ELSE "prompt"
  /\ UNCHANGED <<cur, held, EXIT, children, all_background_jobs, signals, terminal>>

-----------------------------------------------------------------------------
(* Built-in commands.  Between the choice of the entry and its use the      *)
(* handler may free it.  A freed entry still holds the old pgid, or not:    *)
(* then nothing of what the shell asks for happens.                         *)

Choose(stage) ==
  /\ AtCommand
  /\ \E i \in DOMAIN all_background_jobs : cur' = all_background_jobs[i].pgid
  /\ pc' = stage
  /\ UNCHANGED <<held, EXIT, children, lists, signals, terminal>>

Freed(j) == ~ Listed(j)

\* foreground_builtin: the last entry, or the one given by number.
Fg == Choose("fg")

\* foreground_helper, tcsetpgrp: fails when no process is left in the group.
FgTerminal ==
  /\ pc = "fg" /\ Quiet
  /\ \/ proc[cur] # "gone" /\ terminal' = cur
     \/ (proc[cur] = "gone" \/ Freed(cur)) /\ UNCHANGED terminal
  /\ pc' = "fgcont"
  /\ UNCHANGED <<cur, held, EXIT, children, lists, signals>>

\* foreground_helper, SIGCONT.
FgContinue ==
  /\ pc = "fgcont" /\ Quiet
  /\ Continue(cur)
  /\ pc' = "fgwait"
  /\ UNCHANGED <<cur, held, EXIT, lists, terminal>>

\* foreground_helper, waitpid and the terminal taken back.  There is no child
\* to wait for when it has been collected before, or the pgid read is garbage.
FgWait ==
  /\ pc = "fgwait" /\ Quiet
  /\ \/ Reportable /\ Collected
     \/ (proc[cur] = "gone" \/ Freed(cur)) /\ UNCHANGED children
  /\ terminal' = Shell
  /\ pc' = "next"
  /\ cur' = NoJob
  /\ UNCHANGED <<held, EXIT, lists, signals>>

\* background_builtin: the last entry, or the one given by number.
Bg == Choose("bg")

\* Mutant of BgBlock: SIGCHLD is not blocked.
BgBlockNot ==
  /\ pc = "bg" /\ Quiet
  /\ pc' = "bgcont"
  /\ UNCHANGED <<cur, held, EXIT, children, lists, signals, terminal>>

\* background_built_in_helper is entered with SIGCHLD blocked.
BgBlock ==
  /\ pc = "bg" /\ Quiet
  /\ masked' = TRUE
  /\ pc' = "bgcont"
  /\ UNCHANGED <<cur, held, EXIT, children, lists, pending, astray, terminal>>

\* background_built_in_helper, SIGCONT.
BgContinue ==
  /\ pc = "bgcont" /\ Quiet
  /\ Continue(cur)
  /\ pc' = "bgset"
  /\ UNCHANGED <<cur, held, EXIT, lists, terminal>>

\* background_built_in_helper marks every entry of that pgid; SIGCHLD is let in.
BgRunning ==
  /\ pc = "bgset" /\ Quiet
  /\ all_background_jobs' = MarkedRunning(cur)
  /\ masked' = FALSE
  /\ pc' = "bgscan"
  /\ UNCHANGED <<cur, held, EXIT, children, all_jobs, suspend_this_job, pending, astray,
                 terminal>>

\* "bg %n" goes on through the list from the entry it has just continued, and
\* follows a stale pointer if the handler has freed it.
BgScan ==
  /\ pc = "bgscan" /\ Quiet
  /\ pc' \in IF Freed(cur) THEN {"next", "crashed"} ELSE {"next"}
  /\ cur' = NoJob
  /\ UNCHANGED <<held, EXIT, children, lists, signals, terminal>>

\* kill_builtin, "kill -9 %n".
Kill9 ==
  /\ AtCommand
  /\ \E i \in DOMAIN all_background_jobs : Kill(all_background_jobs[i].pgid)
  /\ pc' = "next"
  /\ UNCHANGED <<cur, held, EXIT, lists, signals, terminal>>

\* exit_builtin kills the listed jobs one after the other, with SIGCHLD let
\* in; here it is the last command of its line.
ExitBuiltin ==
  /\ AtCommand
  /\ EXIT' = TRUE
  /\ cur' = IF all_background_jobs = <<>> THEN NoJob ELSE all_background_jobs[1].pgid
  /\ pc' = "kill"
  /\ UNCHANGED <<held, children, lists, signals, terminal>>

\* exit_builtin, the kill.  An entry freed already has no process to kill.
ExitKill ==
  /\ pc = "kill" /\ Quiet
  /\ IF cur = NoJob
     THEN pc' = "next" /\ UNCHANGED <<held, children>>
     ELSE /\ Kill(cur)
          /\ held' = Successor(cur)
          /\ pc' = "walk"
  /\ UNCHANGED <<cur, EXIT, lists, signals, terminal>>

\* exit_builtin, the step to the next entry.  If the killed job is reported
\* before, its entry is free: the pointer read there is the old one, null, or
\* garbage, which crashes the shell.
ExitWalk ==
  /\ pc = "walk" /\ Quiet
  /\ \/ ~ Freed(cur) /\ cur' = Successor(cur) /\ pc' = "kill"
     \/ Freed(cur) /\ cur' \in {held, NoJob} /\ pc' = "kill"
     \/ Freed(cur) /\ cur' = NoJob /\ pc' = "crashed"
  /\ held' = NoJob
  /\ UNCHANGED <<EXIT, children, lists, signals, terminal>>

-----------------------------------------------------------------------------
Builtin == Fg \/ FgTerminal \/ FgContinue \/ FgWait \/ Bg \/ BgBlock \/ BgContinue
             \/ BgRunning \/ BgScan \/ Kill9 \/ ExitBuiltin \/ ExitKill \/ ExitWalk

LaunchJob == (\E j \in Job, fg \in BOOLEAN : Launch(j, fg)) \/ Record \/ GiveTerminal \/ Wait
               \/ Block \/ Traverse \/ Link

MainLoop == EndLine \/ PassOver \/ FindTail \/ AddSuspended \/ FinishLine

Children == \E j \in Job : Start(j) \/ Exit(j) \/ Stop(j)

Next == LaunchJob \/ MainLoop \/ Builtin \/ Children \/ ChildReturning

Spec == Init /\ [][Next]_vars

\* The kernel runs the shell, its handler and the children, and every program
\* ends, or is stopped, at last.  The user need not type anything.
Fairness ==
  /\ WF_vars(Wait \/ FgTerminal \/ FgContinue \/ FgWait \/ GiveTerminal)
  /\ WF_vars(ChildReturning)
  /\ \A j \in Job : WF_vars(Start(j)) /\ WF_vars(Exit(j) \/ Stop(j))

FairSpec == Spec /\ Fairness

-----------------------------------------------------------------------------
(* Properties *)

\* The terminal is the shell's again whenever it takes the next command:
\* neither put_job_in_foreground or foreground_helper, nor a child that starts
\* late and takes the terminal itself, leaves it with a job.  The one
\* exception is "cat", whose child takes it also when started with "&".
ShellHasTerminal == pc \in Command => terminal \in {Shell} \cup Cat

Entries(j) == {i \in DOMAIN all_background_jobs : all_background_jobs[i].pgid = j}

\* A live job is listed once, as suspended exactly when it is stopped; what
\* has exited is not listed.
ListedRight(j) ==
  IF proc[j] \in Live
  THEN \E i \in Entries(j) :
         /\ Entries(j) = {i}
         /\ proc[j] # "dying" =>
              (all_background_jobs[i].status = "suspended" <=> proc[j] = "stopped")
  ELSE Entries(j) = {}

\* At the prompt, with every signal handled, the list of jobs is right about
\* each job whose reports all reached it in time, however launches, stops,
\* bg, fg and kills of several jobs and their SIGCHLDs were interleaved.
ListAccurate == pc = "prompt" /\ pending = NoSig => \A j \in Job \ astray : ListedRight(j)

\* A shell that waits for a foreground job gets back to the user: no exit or
\* stop of the job is missed by waitpid, and fg of a stopped job wakes it.
ShellReturns == pc \in {"give", "wait", "fg", "fgcont", "fgwait"} ~> pc \in Command

\* The stages at which the terminal may be with the job the shell works on.
Waiting == {"launchfg", "give", "wait", "fgcont", "fgwait"}

\* The shell works on some job except between commands and at the ends of its
\* walks along the line and the list.
WorksOnJob == cur = NoJob => pc \in Command \cup Over \cup {"suspend", "kill"}

\* A child that has yet to take the terminal is one the shell is about to wait
\* for, or a cat.
TakersAwaited ==
  \A j \in taking : /\ proc[j] = "forked"
                    /\ j \in Cat \/ (j = cur /\ pc \in {"launchfg", "give", "wait"})

UnreportedStopped == \A j \in unreported : proc[j] = "stopped"

TerminalHeld == terminal \in {Shell} \cup Cat \/ (terminal = cur /\ pc \in Waiting)

\* The inductive invariant behind ShellHasTerminal: launchProcess, waitpid and
\* the two places that give and take back the terminal together never leave
\* it, or a child that will still take it, behind.
IInv == TypeOK /\ WorksOnJob /\ TakersAwaited /\ UnreportedStopped /\ TerminalHeld

\* Where SIGCHLD is blocked.
MaskedWhere == masked <=> pc \in {"traverse", "link", "bgcont", "bgset"}

\* A job that has not been launched is nowhere.
Unborn ==
  \A j \in Job : proc[j] = "none" =>
    /\ ~ Listed(j) /\ ~ Recorded(j)
    /\ j \notin {cur, held} /\ j \notin astray \cup suspend_this_job
    /\ pending # NoSig => pending.job # j

\* The line records each job once, from the step after its fork on; only
\* recorded jobs are flagged.
LineRecorded ==
  /\ \A i, k \in DOMAIN all_jobs : all_jobs[i] = all_jobs[k] => i = k
  /\ pc \in {"launchfg", "launchbg"} => ~ Recorded(cur)
  /\ pc \in {"give", "wait", "mask", "traverse", "link"} => Recorded(cur)
  /\ pc \in {"suspend", "addsuspended"} => cur = NoJob \/ Recorded(cur)
  /\ pc = "addsuspended" => cur \in suspend_this_job
  /\ pc = "prompt" => all_jobs = <<>>
  /\ \A j \in suspend_this_job : Recorded(j)

\* The entry a command works on, and the next one exit will kill, is in the list
\* or was there until its job exited.
ChosenListed ==
  /\ pc \in {"fg", "fgcont", "fgwait", "bg", "bgcont", "bgset", "kill", "walk"} =>
       \A j \in {cur} \ (astray \cup {NoJob}) : Listed(j) \/ proc[j] \in {"zombie", "gone"}
  /\ pc = "walk" =>
       \A j \in {held} \ (astray \cup {NoJob}) : Listed(j) \/ proc[j] \in {"zombie", "gone"}

\* A job forked and not yet listed, or waited for; in the first stages a report
\* of it has no effect.
Launching(j) == cur = j /\ pc \in {"launchfg", "launchbg", "mask", "traverse", "link", "give", "wait"}
Unheard(j)   == cur = j /\ pc \in {"launchfg", "launchbg", "mask", "traverse", "link"}

\* The walk along the line has got past j.
Passed(j) ==
  /\ pc \in {"suspend", "addsuspended"}
  /\ \/ cur = NoJob
     \/ \E i, k \in DOMAIN all_jobs : i < k /\ all_jobs[i] = j /\ all_jobs[k] = cur

StopPending(j) == pending = [job |-> j, code |-> "stopped"]
ExitPending(j) == pending = [job |-> j, code |-> "exited"]

\* fg does not mark its job as running; bg does after the SIGCONT, whose own
\* report keeps others from coming in between.
Excused(j) == cur = j /\ (pc = "fgwait" \/ (pc = "bgset" /\ pending # NoSig))

Once(j) == \A i, k \in Entries(j) : i = k
Marked(j, status) == \A i \in Entries(j) : all_background_jobs[i].status = status

\* What holds of a job whose reports have all been heard, wherever the shell is:
\* its process, its entry, its flag and the pending signal agree.
Tracked(j) ==
  /\ Once(j)
  /\ Launching(j) => ~ Listed(j) /\ proc[j] \notin {"dying", "gone"}
  /\ StopPending(j) => proc[j] = "stopped"
  /\ ExitPending(j) => proc[j] = "zombie"
  /\ j \in suspend_this_job =>
       proc[j] = "stopped" /\ ~ StopPending(j) /\ (Listed(j) <=> Passed(j))
  /\ proc[j] \in Live /\ ~ Launching(j) => Listed(j) \/ j \in suspend_this_job
  /\ proc[j] \in {"forked", "running"} => Marked(j, "running") \/ Excused(j)
  /\ proc[j] = "stopped" =>
       \/ StopPending(j)
       \/ ~ Unheard(j) /\ ~ (cur = j /\ pc = "bgset")
            /\ (IF Listed(j) THEN Marked(j, "suspended") ELSE j \in suspend_this_job)
  /\ proc[j] \in {"zombie", "gone"} => ExitPending(j) \/ (~ Listed(j) /\ ~ Unheard(j))

\* The inductive invariant behind ListAccurate.
ListIInv ==
  /\ MaskedWhere /\ Unborn /\ LineRecorded /\ ChosenListed
  /\ \A j \in Job \ astray : Tracked(j)

\* "child process has terminated and so we need to remove the process from
\* the linked list" (childReturning): a job that has exited is not listed.
FinishedJobsLeave ==
  pc = "prompt" /\ pending = NoSig =>
    \A j \in Job : proc[j] \in {"zombie", "gone"} => Entries(j) = {}
=============================================================================
