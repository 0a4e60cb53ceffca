--------------------------- MODULE JobControlProofs ---------------------------
(***************************************************************************)
(* Proofs about JobControl for every set of jobs: types and the terminal   *)
(* from IInv, then the list at the prompt from ListIInv.                   *)
(***************************************************************************)
EXTENDS JobControl, TLAPS, WellFoundedInduction

Entry == [pgid : Job, status : Status]

\* The fields of an entry of the list.
LEMMA EntryFields ==
  ASSUME all_background_jobs \in Seq(Entry), NEW i \in DOMAIN all_background_jobs
  PROVE  /\ all_background_jobs[i] \in Entry
         /\ all_background_jobs[i].pgid \in Job
<1>1. all_background_jobs[i] \in Entry
  OBVIOUS
<1>. QED
  BY <1>1 DEF Entry

\* Setting the status of an entry leaves an entry.
LEMMA StatusSet ==
  ASSUME NEW e \in Entry
  PROVE  /\ [e EXCEPT !.status = "running"] \in Entry
         /\ [e EXCEPT !.status = "suspended"] \in Entry
BY DEF Entry, Status

\* trim_background_process_list leaves a list of entries.
LEMMA TrimmedType ==
  ASSUME all_background_jobs \in Seq(Entry), NEW j
  PROVE  Trimmed(j) \in Seq(Entry)
<1> DEFINE n == Len(all_background_jobs)
<1>1. CASE ~ Listed(j)
  BY <1>1 DEF Trimmed
<1>2. CASE Listed(j)
  <2>1. n \in Nat /\ n # 0
    BY <1>2 DEF Listed
  <2>2. ASSUME NEW i \in 1 .. n - 1
        PROVE  all_background_jobs[IF i < Position(j) THEN i ELSE i + 1] \in Entry
    BY <2>1
  <2>3. Trimmed(j) \in [1 .. n - 1 -> Entry]
    BY <1>2, <2>1, <2>2 DEF Trimmed
  <2>. QED
    BY <2>1, <2>3
<1>. QED
  BY <1>1, <1>2

\* background_built_in_helper leaves a list of entries.
LEMMA MarkedRunningType ==
  ASSUME all_background_jobs \in Seq(Entry), NEW j
  PROVE  MarkedRunning(j) \in Seq(Entry)
<1>1. ASSUME NEW i \in DOMAIN all_background_jobs
      PROVE  MarkedRunning(j)[i] \in Entry
  BY EntryFields, StatusSet DEF MarkedRunning
<1>2. MarkedRunning(j) \in [1 .. Len(all_background_jobs) -> Entry]
  BY <1>1 DEF MarkedRunning
<1>. QED
  BY <1>2

\* The pointers the shell reads off its lists are jobs or null.
LEMMA PointerTypes ==
  ASSUME all_background_jobs \in Seq(Entry), all_jobs \in Seq(Job), NEW j
  PROVE  /\ Last \in Job \cup {NoJob}
         /\ Successor(j) \in Job \cup {NoJob}
         /\ NextJob(j) \in Job \cup {NoJob}
<1>1. Last \in Job \cup {NoJob}
  <2>1. CASE all_background_jobs # <<>>
    <3>1. Len(all_background_jobs) \in DOMAIN all_background_jobs
      BY <2>1
    <3>. QED
      BY <2>1, <3>1, EntryFields DEF Last
  <2>. QED
    BY <2>1 DEF Last
<1>2. Successor(j) \in Job \cup {NoJob}
  BY EntryFields DEF Successor
<1>3. NextJob(j) \in Job \cup {NoJob}
  <2> DEFINE I == {i \in 1 .. Len(all_jobs) - 1 : all_jobs[i] = j}
  <2>1. CASE \E i \in 1 .. Len(all_jobs) - 1 : all_jobs[i] = j
    <3>1. PICK k \in 1 .. Len(all_jobs) - 1 :
            k = CHOOSE i \in 1 .. Len(all_jobs) - 1 : all_jobs[i] = j
      BY <2>1
    <3>2. NextJob(j) = all_jobs[1 + k]
      BY <2>1, <3>1 DEF NextJob
    <3>. QED
      BY <3>2
  <2>2. CASE ~ \E i \in 1 .. Len(all_jobs) - 1 : all_jobs[i] = j
    BY <2>2 DEF NextJob
  <2>. QED
    BY <2>1, <2>2
<1>. QED
  BY <1>1, <1>2, <1>3

\* A new entry, linked or lost, leaves a list of entries.
LEMMA LinkedType ==
  ASSUME all_background_jobs \in Seq(Entry), astray \subseteq Job, cur \in Job,
         NEW status \in Status, Linked(status)
  PROVE  all_background_jobs' \in Seq(Entry) /\ astray' \subseteq Job
<1>1. [pgid |-> cur, status |-> status] \in Entry
  BY DEF Entry
<1>. QED
  BY <1>1 DEF Linked

\* What the handler does leaves a list of entries and a set of flagged jobs.
LEMMA ReportedType ==
  ASSUME all_background_jobs \in Seq(Entry), suspend_this_job \subseteq Job,
         NEW r \in [job : Job, code : Code], Reported(r)
  PROVE  all_background_jobs' \in Seq(Entry) /\ suspend_this_job' \subseteq Job
<1>1. CASE r.code = "exited"
  BY <1>1, TrimmedType DEF Reported
<1>2. CASE r.code = "stopped"
  <2>1. Suspended(r.job)
    BY <1>2 DEF Reported
  <2>2. CASE Listed(r.job)
    <3>1. ASSUME NEW i \in DOMAIN all_background_jobs
          PROVE  [all_background_jobs[i] EXCEPT !.status = "suspended"] \in Entry
      BY EntryFields, StatusSet
    <3>2. all_background_jobs' =
            [all_background_jobs EXCEPT ![Position(r.job)].status = "suspended"]
      BY <2>1, <2>2 DEF Suspended
    <3>3. ASSUME NEW i \in DOMAIN all_background_jobs
          PROVE  all_background_jobs'[i] \in Entry
      <4>1. \/ all_background_jobs'[i] = all_background_jobs[i]
            \/ all_background_jobs'[i] = [all_background_jobs[i] EXCEPT !.status = "suspended"]
        BY <3>2, Zenon
      <4>. QED
        BY <3>1, <4>1, EntryFields
    <3>4. all_background_jobs' \in [1 .. Len(all_background_jobs) -> Entry]
      <4>1. all_background_jobs \in [1 .. Len(all_background_jobs) -> Entry]
        OBVIOUS
      <4>2. all_background_jobs' = [i \in 1 .. Len(all_background_jobs) |-> all_background_jobs'[i]]
        BY <3>2, <4>1
      <4>. QED
        BY <3>3, <4>1, <4>2
    <3>. QED
      BY <2>1, <2>2, <3>4 DEF Suspended
  <2>3. CASE ~ Listed(r.job)
    BY <2>1, <2>3 DEF Suspended
  <2>. QED
    BY <2>2, <2>3
<1>3. CASE r.code = "continued"
  BY <1>3 DEF Reported
<1>. QED
  BY <1>1, <1>2, <1>3 DEF Code

-----------------------------------------------------------------------------
(* The inductive invariant *)

\* The shell starts with the terminal and no job.
LEMMA InitInvariant == Init => IInv
<1> SUFFICES ASSUME Init PROVE IInv
  OBVIOUS
<1>1. TypeOK
  <2>1. all_background_jobs \in Seq([pgid : Job, status : Status]) /\ all_jobs \in Seq(Job)
    BY DEF Init
  <2>. QED
    BY <2>1 DEF Init, TypeOK, Stage, Command
<1>2. WorksOnJob /\ TakersAwaited /\ UnreportedStopped /\ TerminalHeld
  BY DEF Init, WorksOnJob, TakersAwaited, UnreportedStopped, TerminalHeld, Command
<1>. QED
  BY <1>1, <1>2 DEF IInv

\* The steps of launchJob.
LEMMA LaunchJobStep ==
  ASSUME IInv, LaunchJob
  PROVE  IInv'
<1> USE DEF IInv, TypeOK, WorksOnJob, TakersAwaited, UnreportedStopped, TerminalHeld,
            Waiting, Command, Over, Stage, Live, Entry
<1>1. ASSUME NEW j \in Job, NEW fg \in BOOLEAN, Launch(j, fg) PROVE IInv'
  <2>1. proc' \in [Job -> Live \cup {"none", "zombie", "gone"}] /\ taking' \subseteq Job
    BY <1>1 DEF Launch
  <2>2. TypeOK'
    BY <1>1, <2>1 DEF Launch, AtCommand, lists, signals
  <2>3. TakersAwaited'
    BY <1>1 DEF Launch, AtCommand, lists, signals
  <2>4. UnreportedStopped'
    BY <1>1 DEF Launch, AtCommand, lists, signals
  <2>. QED
    BY <1>1, <2>2, <2>3, <2>4, NullAssumption DEF Launch, AtCommand, lists, signals
<1>2. CASE Record
  <2>1. all_jobs' \in Seq(Job)
    BY <1>2 DEF Record
  <2>. QED
    BY <1>2, <2>1 DEF Record, children, signals
<1>3. CASE GiveTerminal
  BY <1>3 DEF GiveTerminal, children, lists, signals
<1>4. CASE Wait
  BY <1>4 DEF Wait, Reportable, Collected, lists, signals
<1>5. CASE Block
  BY <1>5 DEF Block, children, lists
<1>6. CASE Traverse
  BY <1>6, PointerTypes DEF Traverse, children, lists, signals
<1>7. CASE Link
  <2>1. cur \in Job
    BY <1>7 DEF Link
  <2>2. all_background_jobs' \in Seq(Entry) /\ astray' \subseteq Job
    BY <1>7, <2>1, LinkedType DEF Link, Status
  <2>. QED
    BY <1>7, <2>2 DEF Link, children
<1>. QED
  BY <1>1, <1>2, <1>3, <1>4, <1>5, <1>6, <1>7 DEF LaunchJob

\* The steps of main between two lines.
LEMMA MainLoopStep ==
  ASSUME IInv, MainLoop
  PROVE  IInv'
<1> USE DEF IInv, TypeOK, WorksOnJob, TakersAwaited, UnreportedStopped, TerminalHeld,
            Waiting, Command, Over, Stage, Live, Entry
<1>1. CASE EndLine
  <2>1. cur' \in Job \cup {NoJob}
    BY <1>1 DEF EndLine
  <2>. QED
    BY <1>1, <2>1 DEF EndLine, children, lists, signals
<1>2. CASE PassOver
  <2>1. cur' \in Job \cup {NoJob}
    BY <1>2, PointerTypes DEF PassOver
  <2>. QED
    BY <1>2, <2>1 DEF PassOver, children, lists, signals
<1>3. CASE FindTail
  <2>1. held' \in Job \cup {NoJob} /\ cur # NoJob
    BY <1>3, PointerTypes, NullAssumption DEF FindTail
  <2>. QED
    BY <1>3, <2>1 DEF FindTail, children, lists, signals
<1>4. CASE AddSuspended
  <2>1. cur \in Job /\ cur' \in Job \cup {NoJob}
    BY <1>4, PointerTypes DEF AddSuspended
  <2>2. all_background_jobs' \in Seq(Entry) /\ astray' \subseteq Job
    BY <1>4, <2>1, LinkedType DEF AddSuspended, Status
  <2>. QED
    BY <1>4, <2>1, <2>2 DEF AddSuspended, children
<1>5. CASE FinishLine
  <2>1. all_jobs' \in Seq(Job)
    BY <1>5 DEF FinishLine
  <2>. QED
    BY <1>5, <2>1 DEF FinishLine, children, signals
<1>. QED
  BY <1>1, <1>2, <1>3, <1>4, <1>5 DEF MainLoop

\* SIGCONT keeps the types, and a job continued has no unreported stop.
LEMMA ContinueStep ==
  ASSUME TypeOK, TakersAwaited, UnreportedStopped, NEW j \in Job, Continue(j)
  PROVE  /\ proc' \in [Job -> Live \cup {"none", "zombie", "gone"}]
         /\ unreported' \subseteq Job /\ UnreportedStopped'
         /\ taking' = taking /\ (\A k \in taking : proc'[k] = "forked")
         /\ pending' \in [job : Job, code : Code] \cup {NoSig}
         /\ masked' = masked /\ astray' \subseteq Job
<1> USE DEF TypeOK, TakersAwaited, UnreportedStopped, Live
<1>1. CASE proc[j] # "stopped"
  BY <1>1 DEF Continue, children, signals
<1>2. CASE proc[j] = "stopped"
  <2>1. proc' = [proc EXCEPT ![j] = "running"] /\ unreported' = unreported \ {j}
        /\ taking' = taking /\ masked' = masked
    BY <1>2 DEF Continue
  <2>2. astray' \subseteq Job /\ pending' \in [job : Job, code : Code] \cup {NoSig}
    BY <1>2 DEF Continue, Post, Code
  <2>3. proc' \in [Job -> Live \cup {"none", "zombie", "gone"}]
    BY <2>1
  <2>4. ASSUME NEW k \in Job, k # j PROVE proc'[k] = proc[k]
    BY <2>1, <2>4
  <2>5. UnreportedStopped'
    BY <2>1, <2>4
  <2>6. \A k \in taking : proc'[k] = "forked"
    BY <1>2, <2>4
  <2>. QED
    BY <2>1, <2>2, <2>3, <2>5, <2>6
<1>. QED
  BY <1>1, <1>2

\* SIGKILL keeps the types; the child killed takes no terminal any more.
LEMMA KillStep ==
  ASSUME TypeOK, TakersAwaited, UnreportedStopped, NEW j \in Job, Kill(j)
  PROVE  /\ proc' \in [Job -> Live \cup {"none", "zombie", "gone"}]
         /\ unreported' \subseteq Job /\ UnreportedStopped'
         /\ taking' \subseteq taking /\ (\A k \in taking' : proc'[k] = "forked")
<1> USE DEF TypeOK, TakersAwaited, UnreportedStopped, Live, Kill
<1>1. proc' \in [Job -> Live \cup {"none", "zombie", "gone"}]
  OBVIOUS
<1>2. ASSUME NEW k \in Job, k # j PROVE proc'[k] = proc[k]
  BY <1>2
<1>. QED
  BY <1>1, <1>2

\* The built-in commands.
LEMMA BuiltinStep ==
  ASSUME IInv, Builtin
  PROVE  IInv'
<1> USE DEF IInv, TypeOK, WorksOnJob, TakersAwaited, UnreportedStopped, TerminalHeld,
            Waiting, Command, Over, Stage, Live, Entry
<1>1. ASSUME NEW stage \in {"fg", "bg"}, Choose(stage) PROVE IInv'
  <2>1. cur' \in Job
    BY <1>1, EntryFields DEF Choose
  <2>. QED
    BY <1>1, <2>1, NullAssumption DEF Choose, AtCommand, children, lists, signals
<1>2. CASE FgTerminal
  BY <1>2 DEF FgTerminal, children, lists, signals
<1>3. CASE FgContinue
  <2>1. cur \in Job
    BY <1>3 DEF FgContinue
  <2>2. /\ proc' \in [Job -> Live \cup {"none", "zombie", "gone"}]
        /\ unreported' \subseteq Job /\ UnreportedStopped'
        /\ taking' = taking /\ (\A k \in taking : proc'[k] = "forked")
        /\ pending' \in [job : Job, code : Code] \cup {NoSig}
        /\ masked' = masked /\ astray' \subseteq Job
    BY <1>3, <2>1, ContinueStep DEF FgContinue
  <2>. QED
    BY <1>3, <2>1, <2>2 DEF FgContinue, lists
<1>4. CASE FgWait
  BY <1>4 DEF FgWait, Reportable, Collected, children, lists, signals
<1>5. CASE BgBlock
  BY <1>5 DEF BgBlock, children, lists
<1>6. CASE BgContinue
  <2>1. cur \in Job
    BY <1>6 DEF BgContinue
  <2>2. /\ proc' \in [Job -> Live \cup {"none", "zombie", "gone"}]
        /\ unreported' \subseteq Job /\ UnreportedStopped'
        /\ taking' = taking /\ (\A k \in taking : proc'[k] = "forked")
        /\ pending' \in [job : Job, code : Code] \cup {NoSig}
        /\ masked' = masked /\ astray' \subseteq Job
    BY <1>6, <2>1, ContinueStep DEF BgContinue
  <2>. QED
    BY <1>6, <2>1, <2>2 DEF BgContinue, lists
<1>7. CASE BgRunning
  <2>1. all_background_jobs' \in Seq(Entry)
    BY <1>7, MarkedRunningType DEF BgRunning
  <2>. QED
    BY <1>7, <2>1 DEF BgRunning, children
<1>8. CASE BgScan
  BY <1>8 DEF BgScan, children, lists, signals
<1>9. CASE Kill9
  <2>1. PICK j \in Job : Kill(j)
    BY <1>9, EntryFields DEF Kill9
  <2>2. /\ proc' \in [Job -> Live \cup {"none", "zombie", "gone"}]
        /\ unreported' \subseteq Job /\ UnreportedStopped'
        /\ taking' \subseteq taking /\ (\A k \in taking' : proc'[k] = "forked")
    BY <2>1, KillStep
  <2>. QED
    BY <1>9, <2>2 DEF Kill9, AtCommand, lists, signals
<1>10. CASE ExitBuiltin
  <2>1. cur' \in Job \cup {NoJob}
    <3>1. CASE all_background_jobs # <<>>
      <4>1. 1 \in DOMAIN all_background_jobs
        BY <3>1
      <4>. QED
        BY <1>10, <3>1, <4>1, EntryFields DEF ExitBuiltin
    <3>. QED
      BY <1>10, <3>1 DEF ExitBuiltin
  <2>. QED
    BY <1>10, <2>1 DEF ExitBuiltin, AtCommand, children, lists, signals
<1>11. CASE ExitKill
  <2>1. CASE cur = NoJob
    BY <1>11, <2>1 DEF ExitKill, children, lists, signals
  <2>2. CASE cur # NoJob
    <3>1. cur \in Job /\ Kill(cur) /\ held' \in Job \cup {NoJob}
      BY <1>11, <2>2, PointerTypes DEF ExitKill
    <3>2. /\ proc' \in [Job -> Live \cup {"none", "zombie", "gone"}]
          /\ unreported' \subseteq Job /\ UnreportedStopped'
          /\ taking' \subseteq taking /\ (\A k \in taking' : proc'[k] = "forked")
      BY <3>1, KillStep
    <3>. QED
      BY <1>11, <2>2, <3>1, <3>2 DEF ExitKill, lists, signals
  <2>. QED
    BY <2>1, <2>2
<1>12. CASE ExitWalk
  <2>1. cur' \in Job \cup {NoJob} /\ pc' \in {"kill", "crashed"} /\ pc = "walk"
        /\ held' = NoJob
    BY <1>12, PointerTypes DEF ExitWalk
  <2>. QED
    BY <1>12, <2>1 DEF ExitWalk, children, lists, signals
<1>. QED
  BY <1>1, <1>2, <1>3, <1>4, <1>5, <1>6, <1>7, <1>8, <1>9, <1>10, <1>11, <1>12
     DEF Builtin, Fg, Bg

\* The children.
LEMMA ChildStep ==
  ASSUME IInv, Children
  PROVE  IInv'
<1> USE DEF IInv, TypeOK, WorksOnJob, TakersAwaited, UnreportedStopped, TerminalHeld,
            Waiting, Command, Over, Live, Entry
<1>1. PICK j \in Job : Start(j) \/ Exit(j) \/ Stop(j)
  BY DEF Children
<1>2. ASSUME NEW code \in Code, Post(j, code)
      PROVE  pending' \in [job : Job, code : Code] \cup {NoSig} /\ astray' \subseteq Job
  BY <1>2 DEF Post
<1>3. CASE Start(j)
  <2>1. proc' \in [Job -> Live \cup {"none", "zombie", "gone"}]
        /\ \A k \in Job \ {j} : proc'[k] = proc[k]
    BY <1>3 DEF Start
  <2>2. TakersAwaited' /\ UnreportedStopped'
    BY <1>3, <2>1 DEF Start, shell
  <2>3. TerminalHeld'
    BY <1>3 DEF Start, shell
  <2>. QED
    BY <1>3, <2>1, <2>2, <2>3 DEF Start, shell, lists, signals
<1>4. CASE Exit(j)
  <2>1. proc' \in [Job -> Live \cup {"none", "zombie", "gone"}]
        /\ \A k \in Job \ {j} : proc'[k] = proc[k]
    BY <1>4 DEF Exit
  <2>2. pending' \in [job : Job, code : Code] \cup {NoSig} /\ astray' \subseteq Job
    BY <1>2, <1>4 DEF Exit, Code
  <2>3. TakersAwaited' /\ UnreportedStopped'
    BY <1>4, <2>1 DEF Exit, shell
  <2>. QED
    BY <1>4, <2>1, <2>2, <2>3 DEF Exit, shell, lists
<1>5. CASE Stop(j)
  <2>1. proc' \in [Job -> Live \cup {"none", "zombie", "gone"}]
        /\ proc'[j] = "stopped" /\ \A k \in Job \ {j} : proc'[k] = proc[k]
    BY <1>5 DEF Stop
  <2>2. pending' \in [job : Job, code : Code] \cup {NoSig} /\ astray' \subseteq Job
    BY <1>2, <1>5 DEF Stop, Code
  <2>3. TakersAwaited' /\ UnreportedStopped'
    BY <1>5, <2>1 DEF Stop, shell
  <2>. QED
    BY <1>5, <2>1, <2>2, <2>3 DEF Stop, shell, lists
<1>. QED
  BY <1>1, <1>3, <1>4, <1>5

\* The handler.
LEMMA HandlerStep ==
  ASSUME IInv, ChildReturning
  PROVE  IInv'
<1> USE DEF IInv, TypeOK
<1>1. pending \in [job : Job, code : Code] /\ Reported(pending)
  BY DEF ChildReturning
<1>2. all_background_jobs' \in Seq(Entry) /\ suspend_this_job' \subseteq Job
  BY <1>1, ReportedType DEF Entry
<1>3. astray' \subseteq Job
  BY <1>1 DEF ChildReturning
<1>. QED
  BY <1>2, <1>3 DEF ChildReturning, shell, children, Entry,
       WorksOnJob, TakersAwaited, UnreportedStopped, TerminalHeld

\* Every step of the shell, of its handler and of the children.
LEMMA StepInvariant == IInv /\ [Next]_vars => IInv'
<1> SUFFICES ASSUME IInv, [Next]_vars PROVE IInv'
  OBVIOUS
<1>1. CASE Next
  BY <1>1, LaunchJobStep, MainLoopStep, BuiltinStep, ChildStep, HandlerStep DEF Next
<1>2. CASE UNCHANGED vars
  BY <1>2 DEF vars, shell, children, lists, signals, IInv, TypeOK, WorksOnJob,
              TakersAwaited, UnreportedStopped, TerminalHeld
<1>. QED
  BY <1>1, <1>2

\* Forks, waits, fg and the late starts of the children keep IInv, whatever
\* number of jobs is started.
THEOREM JobInvariant == Spec => []IInv
  BY InitInvariant, StepInvariant, PTL DEF Spec

\* The shell's lists, flags and pointers keep their types.
THEOREM TypesKept == Spec => []TypeOK
<1>1. IInv => TypeOK
  BY DEF IInv
<1>. QED
  BY <1>1, JobInvariant, PTL

\* The shell holds the terminal whenever it takes a command, unless a cat has
\* taken it.
THEOREM TerminalComesBack == Spec => []ShellHasTerminal
<1>1. IInv => ShellHasTerminal
  BY DEF IInv, TerminalHeld, ShellHasTerminal, Waiting, Command
<1>. QED
  BY <1>1, JobInvariant, PTL

--------------------------------------------------------------------------------
(* What the changes of the list do to the entries of a job *)

\* A job that is listed has a first entry, and Position finds it.
LEMMA PositionFirst ==
  ASSUME all_background_jobs \in Seq(Entry), NEW j, Listed(j)
  PROVE  /\ Position(j) \in DOMAIN all_background_jobs
         /\ all_background_jobs[Position(j)].pgid = j
<1> DEFINE E == {i \in DOMAIN all_background_jobs : all_background_jobs[i].pgid = j}
<1>1. E \subseteq Nat /\ E # {}
  BY DEF Listed
<1>2. PICK x \in E : \A y \in E : ~ (<<y, x>> \in OpToRel(<, Nat))
  BY <1>1, NatLessThanWellFounded, WFMin
<1>3. ASSUME NEW k \in 1 .. x - 1 PROVE all_background_jobs[k].pgid # j
  <2>1. k \in DOMAIN all_background_jobs /\ k < x /\ k \in Nat /\ x \in Nat
    BY <1>1
  <2>2. k \in E => <<k, x>> \in OpToRel(<, Nat)
    BY <2>1 DEF OpToRel
  <2>. QED
    BY <1>2, <2>1, <2>2
<1>. QED
  BY <1>2, <1>3 DEF Position

\* A list left alone.
LEMMA ListKept ==
  ASSUME UNCHANGED all_background_jobs, NEW k
  PROVE  /\ Listed(k)' <=> Listed(k)
         /\ Once(k)' <=> Once(k)
         /\ Marked(k, "running")' <=> Marked(k, "running")
         /\ Marked(k, "suspended")' <=> Marked(k, "suspended")
BY DEF Listed, Once, Marked, Entries

\* An entry taken out leaves the entries of the other jobs, and none of its
\* own job when that had one only.
LEMMA ListTrimmed ==
  ASSUME all_background_jobs \in Seq(Entry), NEW j,
         all_background_jobs' = Trimmed(j), NEW k
  PROVE  /\ k # j => (Listed(k)' <=> Listed(k))
         /\ Listed(k)' => Listed(k)
         /\ Once(k) => Once(k)'
         /\ Once(j) => ~ Listed(j)'
         /\ Marked(k, "running") => Marked(k, "running")'
         /\ Marked(k, "suspended") => Marked(k, "suspended")'
<1>1. CASE ~ Listed(j)
  <2>1. UNCHANGED all_background_jobs
    BY <1>1 DEF Trimmed
  <2>2. ~ Listed(j)'
    BY <1>1, <2>1 DEF Listed
  <2>. QED
    BY <2>1, <2>2, ListKept
<1>2. CASE Listed(j)
  <2> DEFINE L == all_background_jobs
             p == Position(j)
             n == Len(L)
  <2>1. p \in 1 .. n /\ L[p].pgid = j /\ n \in Nat /\ n # 0
    BY <1>2, PositionFirst
  <2>2. L' = [i \in 1 .. n - 1 |-> L[IF i < p THEN i ELSE i + 1]]
    BY <1>2 DEF Trimmed
  <2>3. DOMAIN L = 1 .. n /\ DOMAIN L' = 1 .. n - 1
    BY <2>2
  <2> HIDE DEF p
  <2>4. ASSUME NEW i \in DOMAIN L'
        PROVE  \E m \in DOMAIN L : m # p /\ m = (IF i < p THEN i ELSE i + 1) /\ L'[i] = L[m]
    <3>1. (IF i < p THEN i ELSE i + 1) \in DOMAIN L \ {p}
      BY <2>1, <2>3
    <3>. QED
      BY <2>2, <2>3, <3>1
  <2>5. ASSUME NEW m \in DOMAIN L, m # p
        PROVE  \E i \in DOMAIN L' : L'[i] = L[m]
    <3> DEFINE i == IF m < p THEN m ELSE m - 1
    <3>1. i \in DOMAIN L' /\ (IF i < p THEN i ELSE i + 1) = m
      BY <2>1, <2>3, <2>5
    <3>2. L'[i] = L[IF i < p THEN i ELSE i + 1]
      BY <2>2, <2>3, <3>1
    <3>. QED
      BY <3>1, <3>2
  <2>6. Listed(k)' => Listed(k)
    BY <2>4 DEF Listed
  <2>7. k # j => (Listed(k) => Listed(k)')
    BY <2>1, <2>5 DEF Listed
  <2>8. Once(k) => Once(k)'
    <3> SUFFICES ASSUME Once(k), NEW a \in Entries(k)', NEW b \in Entries(k)' PROVE a = b
      BY DEF Once
    <3>1. a \in DOMAIN L' /\ b \in DOMAIN L' /\ L'[a].pgid = k /\ L'[b].pgid = k
      BY DEF Entries
    <3>2. PICK ma \in DOMAIN L : ma = (IF a < p THEN a ELSE a + 1) /\ L'[a] = L[ma]
      BY <2>4, <3>1
    <3>3. PICK mb \in DOMAIN L : mb = (IF b < p THEN b ELSE b + 1) /\ L'[b] = L[mb]
      BY <2>4, <3>1
    <3>4. ma = mb
      BY <3>1, <3>2, <3>3 DEF Once, Entries
    <3>. QED
      BY <2>1, <2>3, <3>1, <3>2, <3>3, <3>4
  <2>9. Once(j) => ~ Listed(j)'
    <3> SUFFICES ASSUME Once(j), NEW i \in DOMAIN L', L'[i].pgid = j PROVE FALSE
      BY DEF Listed
    <3>1. PICK m \in DOMAIN L : m # p /\ L'[i] = L[m]
      BY <2>4
    <3>. QED
      BY <2>1, <2>3, <3>1 DEF Once, Entries
  <2>10. ASSUME NEW s, Marked(k, s), NEW i \in Entries(k)' PROVE L'[i].status = s
    <3>1. i \in DOMAIN L' /\ L'[i].pgid = k
      BY DEF Entries
    <3>2. PICK m \in DOMAIN L : L'[i] = L[m]
      BY <2>4, <3>1
    <3>. QED
      BY <2>10, <3>1, <3>2 DEF Marked, Entries
  <2>11. Marked(k, "running") => Marked(k, "running")'
    BY <2>10 DEF Marked
  <2>12. Marked(k, "suspended") => Marked(k, "suspended")'
    BY <2>10 DEF Marked
  <2>. QED
    BY <2>6, <2>7, <2>8, <2>9, <2>11, <2>12
<1>. QED
  BY <1>1, <1>2

\* An entry linked behind the others.
LEMMA ListAppended ==
  ASSUME all_background_jobs \in Seq(Entry), NEW j \in Job, NEW status \in Status,
         all_background_jobs' = Append(all_background_jobs, [pgid |-> j, status |-> status]),
         NEW k
  PROVE  /\ Listed(k)' <=> (k = j \/ Listed(k))
         /\ (k # j \/ ~ Listed(k)) /\ Once(k) => Once(k)'
         /\ k # j => /\ Marked(k, "running") => Marked(k, "running")'
                     /\ Marked(k, "suspended") => Marked(k, "suspended")'
         /\ k = j /\ ~ Listed(j) => Marked(j, status)'
<1> DEFINE L == all_background_jobs
           n == Len(L)
           e == [pgid |-> j, status |-> status]
<1>1. e \in Entry /\ e.pgid = j /\ e.status = status
  BY DEF Entry
<1>2. /\ n \in Nat /\ DOMAIN L = 1 .. n /\ DOMAIN L' = 1 .. n + 1
      /\ L'[n + 1] = e
      /\ \A i \in DOMAIN L : L'[i] = L[i]
  BY <1>1
<1> HIDE DEF e
<1>3. \A i \in DOMAIN L' : i \in DOMAIN L \/ i = n + 1
  BY <1>2
<1>4. n + 1 \in DOMAIN L' /\ DOMAIN L \subseteq DOMAIN L'
  BY <1>2
<1>5. Listed(k)' <=> (k = j \/ Listed(k))
  BY <1>1, <1>2, <1>3, <1>4 DEF Listed
<1>6. ASSUME k # j \/ ~ Listed(k), Once(k) PROVE Once(k)'
  <2> SUFFICES ASSUME NEW a \in Entries(k)', NEW b \in Entries(k)' PROVE a = b
    BY DEF Once
  <2>1. a \in DOMAIN L' /\ b \in DOMAIN L' /\ L'[a].pgid = k /\ L'[b].pgid = k
    BY DEF Entries
  <2>2. CASE k # j
    <3>1. a \in Entries(k) /\ b \in Entries(k)
      BY <1>1, <1>2, <1>3, <2>1, <2>2 DEF Entries
    <3>. QED
      BY <1>6, <3>1 DEF Once
  <2>3. CASE ~ Listed(k)
    BY <1>2, <1>3, <2>1, <2>3 DEF Listed
  <2>. QED
    BY <1>6, <2>2, <2>3
<1>7. ASSUME NEW s, k # j, Marked(k, s) PROVE Marked(k, s)'
  BY <1>1, <1>2, <1>3, <1>7 DEF Marked, Entries
<1>8. ASSUME ~ Listed(j) PROVE Marked(j, status)'
  BY <1>1, <1>2, <1>3, <1>8 DEF Marked, Entries, Listed
<1>. QED
  BY <1>5, <1>6, <1>7, <1>8

\* Entries of one job marked running.
LEMMA ListMarked ==
  ASSUME all_background_jobs \in Seq(Entry), NEW j,
         all_background_jobs' = MarkedRunning(j), NEW k
  PROVE  /\ Listed(k)' <=> Listed(k)
         /\ Once(k) => Once(k)'
         /\ k # j => /\ Marked(k, "running") => Marked(k, "running")'
                     /\ Marked(k, "suspended") => Marked(k, "suspended")'
         /\ Marked(j, "running")'
<1> DEFINE L == all_background_jobs
<1>1. DOMAIN L' = DOMAIN L
  BY DEF MarkedRunning
<1>2. ASSUME NEW i \in DOMAIN L
      PROVE  /\ L'[i].pgid = L[i].pgid
             /\ L'[i].status = IF L[i].pgid = j THEN "running" ELSE L[i].status
  <2>1. L[i] \in Entry /\ L'[i] = IF L[i].pgid = j THEN [L[i] EXCEPT !.status = "running"] ELSE L[i]
    BY EntryFields DEF MarkedRunning
  <2>. QED
    BY <2>1 DEF Entry
<1>. QED
  BY <1>1, <1>2 DEF Listed, Once, Marked, Entries

\* The first entry of a job marked suspended.
LEMMA ListSuspended ==
  ASSUME all_background_jobs \in Seq(Entry), NEW j, Listed(j),
         all_background_jobs' = [all_background_jobs EXCEPT ![Position(j)].status = "suspended"],
         NEW k
  PROVE  /\ Listed(k)' <=> Listed(k)
         /\ Once(k) => Once(k)'
         /\ k # j => /\ Marked(k, "running") => Marked(k, "running")'
                     /\ Marked(k, "suspended") => Marked(k, "suspended")'
         /\ Once(j) => Marked(j, "suspended")'
<1> DEFINE L == all_background_jobs
           p == Position(j)
<1>1. p \in DOMAIN L /\ L[p].pgid = j
  BY PositionFirst
<1> HIDE DEF p
<1>2. L \in [DOMAIN L -> Entry] /\ L' = [L EXCEPT ![p] = [L[p] EXCEPT !.status = "suspended"]]
  BY DEF p
<1>3. DOMAIN L' = DOMAIN L
  BY <1>2
<1>4. ASSUME NEW i \in DOMAIN L
      PROVE  /\ L'[i].pgid = L[i].pgid
             /\ L'[i].status = IF i = p THEN "suspended" ELSE L[i].status
  <2>1. L[i] \in Entry /\ L'[i] = IF i = p THEN [L[i] EXCEPT !.status = "suspended"] ELSE L[i]
    BY <1>2
  <2>. QED
    BY <2>1 DEF Entry
<1>5. Listed(k)' <=> Listed(k)
  BY <1>3, <1>4 DEF Listed
<1>6. Once(k) => Once(k)'
  BY <1>3, <1>4 DEF Once, Entries
<1>7. ASSUME NEW s, k # j, Marked(k, s) PROVE Marked(k, s)'
  BY <1>1, <1>3, <1>4, <1>7 DEF Marked, Entries
<1>8. Once(j) => Marked(j, "suspended")'
  BY <1>1, <1>3, <1>4 DEF Once, Marked, Entries
<1>. QED
  BY <1>5, <1>6, <1>7, <1>8

\* A job without entries.
LEMMA Unlisted ==
  ASSUME NEW k, ~ Listed(k)
  PROVE  Once(k) /\ Marked(k, "running") /\ Marked(k, "suspended")
BY DEF Listed, Once, Marked, Entries

-----------------------------------------------------------------------------
(* The walk along the jobs of the line *)

\* A position before the last is a position, and not the last.
LEMMA BeforeLast ==
  ASSUME NEW n \in Nat, NEW m \in 1 .. n - 1
  PROVE  m \in 1 .. n /\ m # n /\ m + 1 \in 1 .. n
OBVIOUS

\* The job NextJob finds is the one behind, since the line records a job once.
LEMMA NextIs ==
  ASSUME all_jobs \in Seq(Job),
         \A i, k \in DOMAIN all_jobs : all_jobs[i] = all_jobs[k] => i = k,
         NEW i \in DOMAIN all_jobs
  PROVE  NextJob(all_jobs[i]) = IF i = Len(all_jobs) THEN NoJob ELSE all_jobs[i + 1]
<1> DEFINE n == Len(all_jobs)
           c == all_jobs[i]
<1>1. n \in Nat /\ DOMAIN all_jobs = 1 .. n
  OBVIOUS
<1>2. CASE i = n
  <2>1. ~ \E m \in 1 .. n - 1 : all_jobs[m] = c
    <3> SUFFICES ASSUME NEW m \in 1 .. n - 1, all_jobs[m] = c PROVE FALSE
      OBVIOUS
    <3>1. m \in 1 .. n /\ m # n
      BY <1>1, BeforeLast
    <3>. QED
      BY <1>1, <1>2, <3>1
  <2>. QED
    BY <1>2, <2>1 DEF NextJob
<1>3. CASE i # n
  <2>1. i \in 1 .. n - 1
    BY <1>1, <1>3
  <2>2. PICK m \in 1 .. n - 1 : all_jobs[m] = c /\ NextJob(c) = all_jobs[1 + m]
    BY <2>1 DEF NextJob
  <2>3. m \in DOMAIN all_jobs
    BY <1>1
  <2>4. m = i
    BY <2>2, <2>3
  <2>5. 1 + m = i + 1
    BY <2>1, <2>4
  <2>. QED
    BY <1>3, <2>2, <2>5
<1>. QED
  BY <1>2, <1>3

\* A step of the walk gets past the job it leaves, and no other.
LEMMA WalkStep ==
  ASSUME TypeOK, LineRecorded, pc \in {"suspend", "addsuspended"}, cur # NoJob,
         cur' = NextJob(cur), pc' = "suspend", UNCHANGED all_jobs
  PROVE  /\ cur' = NoJob \/ Recorded(cur)'
         /\ ~ Passed(cur)
         /\ \A k : Recorded(k) => (Passed(k)' <=> (Passed(k) \/ k = cur))
<1> DEFINE n == Len(all_jobs)
<1>1. /\ all_jobs \in Seq(Job) /\ n \in Nat /\ DOMAIN all_jobs = 1 .. n
      /\ \A i, k \in DOMAIN all_jobs : all_jobs[i] = all_jobs[k] => i = k
  BY DEF TypeOK, LineRecorded
<1>2. PICK i \in DOMAIN all_jobs : all_jobs[i] = cur
  BY DEF LineRecorded, Recorded
<1>3. cur' = IF i = n THEN NoJob ELSE all_jobs[i + 1]
  BY <1>1, <1>2, NextIs
<1>4. ~ Passed(cur)
  <2> SUFFICES ASSUME NEW a \in DOMAIN all_jobs, NEW b \in DOMAIN all_jobs, a < b,
                      all_jobs[a] = cur, all_jobs[b] = cur
               PROVE  FALSE
    BY DEF Passed
  <2>. QED
    BY <1>1
<1>5. ASSUME i = n, NEW k, Recorded(k) PROVE (Passed(k) \/ k = cur) /\ Passed(k)'
  <2>1. cur' = NoJob /\ Passed(k)'
    BY <1>3, <1>5 DEF Passed
  <2>2. PICK a \in DOMAIN all_jobs : all_jobs[a] = k
    BY <1>5 DEF Recorded
  <2>3. a = n \/ a < i
    BY <1>1, <1>5
  <2>. QED
    BY <1>2, <1>5, <2>1, <2>2, <2>3 DEF Passed
<1>6. ASSUME i # n PROVE cur' \in Job /\ i + 1 \in DOMAIN all_jobs /\ all_jobs[i + 1] = cur'
  BY <1>1, <1>3, <1>6
<1>7. ASSUME i # n, NEW k, Recorded(k) PROVE Passed(k)' <=> (Passed(k) \/ k = cur)
  <2>0. /\ cur' \in Job /\ i + 1 \in DOMAIN all_jobs /\ all_jobs[i + 1] = cur'
        /\ cur' # NoJob
    BY <1>6, <1>7, NullAssumption
  <2>1. ASSUME Passed(k)' PROVE Passed(k) \/ k = cur
    <3>1. PICK a \in DOMAIN all_jobs, b \in DOMAIN all_jobs :
            a < b /\ all_jobs[a] = k /\ all_jobs[b] = cur'
      BY <2>0, <2>1 DEF Passed
    <3>2. b = i + 1
      BY <1>1, <2>0, <3>1
    <3>3. a = i \/ a < i
      BY <1>1, <3>1, <3>2
    <3>. QED
      BY <1>2, <3>1, <3>3 DEF Passed
  <2>2. ASSUME Passed(k) PROVE Passed(k)'
    <3>1. PICK a \in DOMAIN all_jobs, b \in DOMAIN all_jobs :
            a < b /\ all_jobs[a] = k /\ all_jobs[b] = cur
      BY <2>2 DEF Passed
    <3>2. b = i
      BY <1>1, <1>2, <3>1
    <3>3. a < i + 1
      BY <1>1, <3>1, <3>2
    <3>. QED
      BY <2>0, <3>1, <3>3 DEF Passed
  <2>3. ASSUME k = cur PROVE Passed(k)'
    <3>1. i < i + 1
      BY <1>1
    <3>. QED
      BY <1>2, <2>0, <2>3, <3>1 DEF Passed
  <2>. QED
    BY <2>1, <2>2, <2>3
<1>8. cur' = NoJob \/ Recorded(cur)'
  BY <1>3, <1>6 DEF Recorded
<1>. QED
  BY <1>4, <1>5, <1>7, <1>8

-----------------------------------------------------------------------------
(* The inductive invariant.  One lemma per group of actions; in each, the   *)
(* jobs that remain tracked are those that do not go astray in the step.    *)

\* A step that has no part in what Tracked says of k keeps it.
LEMMA TrackedFrame ==
  ASSUME NEW k \in Job, Tracked(k),
         Once(k)', Listed(k)' <=> Listed(k),
         Marked(k, "running") => Marked(k, "running")',
         Marked(k, "suspended") => Marked(k, "suspended")',
         proc'[k] = proc[k], k \in suspend_this_job' <=> k \in suspend_this_job,
         StopPending(k)' <=> StopPending(k), ExitPending(k)' <=> ExitPending(k),
         k \in suspend_this_job => (Passed(k)' <=> Passed(k)), Launching(k)' <=> Launching(k),
         Unheard(k)' => Unheard(k), Excused(k) => Excused(k)',
         (cur' = k /\ pc' = "bgset") => (cur = k /\ pc = "bgset")
  PROVE  Tracked(k)'
BY DEF Tracked

\* A step of the shell or of another child that leaves the list, the flags and
\* the pending signal alone.
LEMMA TrackedStep ==
  ASSUME NEW k \in Job, Tracked(k),
         UNCHANGED <<all_background_jobs, suspend_this_job>>, proc'[k] = proc[k],
         StopPending(k)' <=> StopPending(k), ExitPending(k)' <=> ExitPending(k),
         k \in suspend_this_job => (Passed(k)' <=> Passed(k)), Launching(k)' <=> Launching(k),
         Unheard(k)' => Unheard(k), Excused(k) => Excused(k)',
         (cur' = k /\ pc' = "bgset") => (cur = k /\ pc = "bgset")
  PROVE  Tracked(k)'
<1>1. Once(k)
  BY DEF Tracked
<1>. QED
  BY <1>1, ListKept, TrackedFrame

\* A shell about to make a call that lets SIGCHLD in has no report pending.
LEMMA QuietPending ==
  ASSUME MaskedWhere, Quiet, pc \notin {"traverse", "link", "bgcont", "bgset"}
  PROVE  pending = NoSig /\ ~ masked
BY DEF MaskedWhere, Quiet

\* launchJob's fork: the child is not listed and no report of it can be pending.
LEMMA LaunchList ==
  ASSUME IInv, ListIInv, NEW j \in Job, NEW fg \in BOOLEAN, Launch(j, fg)
  PROVE  ListIInv'
<1>0. IInv /\ TypeOK /\ MaskedWhere /\ Unborn /\ LineRecorded /\ \A k \in Job \ astray : Tracked(k)
  BY DEF ListIInv, IInv
<1>1. /\ \A k : Listed(k)' <=> Listed(k)
      /\ \A k : Recorded(k)' <=> Recorded(k)
  BY ListKept DEF Launch, lists, Recorded
<1>2. /\ UNCHANGED <<all_background_jobs, suspend_this_job, all_jobs, pending, masked, astray, held>>
      /\ pc \in Command /\ pc' \in {"launchfg", "launchbg"} /\ cur' = j
      /\ proc[j] = "none" /\ proc' = [proc EXCEPT ![j] = "forked"]
      /\ pending = NoSig
  BY <1>0, QuietPending DEF Launch, AtCommand, lists, signals, Command
<1>3. MaskedWhere' /\ Unborn' /\ LineRecorded' /\ ChosenListed'
  BY <1>0, <1>1, <1>2 DEF TypeOK, MaskedWhere, Unborn, LineRecorded, ChosenListed, Command
<1>4. ASSUME NEW k \in Job \ astray' PROVE Tracked(k)'
  <2>1. Tracked(k)
    BY <1>0, <1>2, <1>4
  <2>2. ~ Passed(k) /\ ~ Passed(k)'
    BY <1>2 DEF Command, Passed
  <2>3. /\ ~ StopPending(k) /\ ~ ExitPending(k)
        /\ ~ StopPending(k)' /\ ~ ExitPending(k)'
    BY <1>2, SigAssumption DEF StopPending, ExitPending, Code
  <2>4. CASE k = j
    BY <1>0, <1>1, <1>2, <2>1, <2>2, <2>3, <2>4, Unlisted, ListKept DEF Unborn, Tracked, Launching, Live, TypeOK
  <2>5. CASE k # j
    <3>1. proc'[k] = proc[k]
      BY <1>0, <1>2, <2>5 DEF TypeOK
    <3>. QED
      BY <1>2, <2>1, <2>2, <2>3, <2>5, <3>1, TrackedStep DEF Command, Launching, Unheard, Excused
  <2>. QED
    BY <2>4, <2>5
<1>. QED
  BY <1>3, <1>4 DEF ListIInv

\* launchJob's parent: the line records the job.
LEMMA RecordList ==
  ASSUME IInv, ListIInv, Record
  PROVE  ListIInv'
<1>0. TypeOK /\ MaskedWhere /\ Unborn /\ LineRecorded /\ \A k \in Job \ astray : Tracked(k)
  BY DEF ListIInv, IInv
<1>1. /\ UNCHANGED <<cur, held, proc, all_background_jobs, suspend_this_job, pending, masked, astray>>
      /\ all_jobs' = Append(all_jobs, cur) /\ cur \in Job
      /\ pc \in {"launchfg", "launchbg"} /\ pc' = IF pc = "launchfg" THEN "give" ELSE "mask"
  BY DEF Record, children, signals, IInv, TypeOK, WorksOnJob, Command, Over
<1>2. \A k : Listed(k)' <=> Listed(k)
  BY <1>1, ListKept
<1>3. \A k : Recorded(k)' <=> (Recorded(k) \/ k = cur)
  BY <1>0, <1>1 DEF TypeOK, Recorded
<1>4. \A i, k \in DOMAIN all_jobs' : all_jobs'[i] = all_jobs'[k] => i = k
  <2> DEFINE n == Len(all_jobs)
  <2>1. /\ n \in Nat /\ DOMAIN all_jobs = 1 .. n /\ DOMAIN all_jobs' = 1 .. n + 1
        /\ all_jobs'[n + 1] = cur /\ \A i \in DOMAIN all_jobs : all_jobs'[i] = all_jobs[i]
    BY <1>0, <1>1 DEF TypeOK
  <2>2. \A i \in DOMAIN all_jobs : all_jobs[i] # cur
    BY <1>0, <1>1 DEF LineRecorded, Recorded
  <2>3. \A i, k \in DOMAIN all_jobs : all_jobs[i] = all_jobs[k] => i = k
    BY <1>0 DEF LineRecorded
  <2>4. \A i \in DOMAIN all_jobs' : i \in DOMAIN all_jobs \/ i = n + 1
    BY <2>1
  <2>. QED
    BY <2>1, <2>2, <2>3, <2>4
<1>5. MaskedWhere' /\ Unborn' /\ LineRecorded' /\ ChosenListed'
  BY <1>0, <1>1, <1>2, <1>3, <1>4 DEF MaskedWhere, Unborn, LineRecorded, ChosenListed
<1>6. ASSUME NEW k \in Job \ astray' PROVE Tracked(k)'
  <2>1. /\ Tracked(k) /\ ~ Passed(k) /\ ~ Passed(k)'
        /\ (StopPending(k)' <=> StopPending(k)) /\ (ExitPending(k)' <=> ExitPending(k))
    BY <1>0, <1>1, <1>6 DEF Passed, StopPending, ExitPending
  <2>. QED
    BY <1>1, <2>1, TrackedStep DEF Launching, Unheard, Excused
<1>. QED
  BY <1>5, <1>6 DEF ListIInv

\* The terminal has no part in the lists.
LEMMA GiveTerminalList ==
  ASSUME IInv, ListIInv, GiveTerminal
  PROVE  ListIInv'
<1>0. TypeOK /\ MaskedWhere /\ Unborn /\ LineRecorded /\ \A k \in Job \ astray : Tracked(k)
  BY DEF ListIInv, IInv
<1>1. /\ UNCHANGED <<cur, held, proc, lists, signals>> /\ pc = "give" /\ pc' = "wait"
      /\ UNCHANGED <<all_background_jobs, all_jobs, suspend_this_job, pending, masked, astray>>
  BY DEF GiveTerminal, children, lists, signals
<1>2. \A k : (Listed(k)' <=> Listed(k)) /\ (Recorded(k)' <=> Recorded(k))
  BY <1>1, ListKept DEF Recorded
<1>3. MaskedWhere' /\ Unborn' /\ LineRecorded' /\ ChosenListed'
  BY <1>0, <1>1, <1>2 DEF MaskedWhere, Unborn, LineRecorded, ChosenListed
<1>4. ASSUME NEW k \in Job \ astray' PROVE Tracked(k)'
  <2>1. /\ Tracked(k) /\ ~ Passed(k) /\ ~ Passed(k)'
        /\ (StopPending(k)' <=> StopPending(k)) /\ (ExitPending(k)' <=> ExitPending(k))
    BY <1>0, <1>1, <1>4 DEF Passed, StopPending, ExitPending
  <2>. QED
    BY <1>1, <2>1, TrackedStep DEF Launching, Unheard, Excused
<1>. QED
  BY <1>3, <1>4 DEF ListIInv

\* What waitpid returns of the job waited for.  A stop it returns has been
\* reported to the handler before, which flagged the job.
LEMMA WaitList ==
  ASSUME IInv, ListIInv, Wait
  PROVE  ListIInv'
<1>0. TypeOK /\ UnreportedStopped /\ MaskedWhere /\ Unborn /\ LineRecorded
      /\ \A k \in Job \ astray : Tracked(k)
  BY DEF ListIInv, IInv
<1>1. /\ UNCHANGED <<held, all_background_jobs, all_jobs, suspend_this_job, pending, masked, astray>>
      /\ pc = "wait" /\ pc' = "next" /\ cur' = NoJob /\ cur \in Job /\ pending = NoSig
      /\ proc' = IF proc[cur] = "zombie" THEN [proc EXCEPT ![cur] = "gone"] ELSE proc
      /\ proc[cur] \in {"zombie", "stopped"}
  BY <1>0, QuietPending DEF Wait, Reportable, Collected, lists, signals, UnreportedStopped,
     IInv, TypeOK, WorksOnJob, Command, Over
<1>2. /\ \A k \in Job : proc'[k] = "none" <=> proc[k] = "none"
      /\ \A k \in Job \ {cur} : proc'[k] = proc[k]
      /\ proc'[cur] = IF proc[cur] = "zombie" THEN "gone" ELSE "stopped"
  BY <1>0, <1>1 DEF TypeOK
<1>3. \A k : (Listed(k)' <=> Listed(k)) /\ (Recorded(k)' <=> Recorded(k))
  BY <1>1, ListKept DEF Recorded
<1>4. MaskedWhere' /\ Unborn' /\ LineRecorded' /\ ChosenListed'
  BY <1>0, <1>1, <1>2, <1>3, NullAssumption DEF MaskedWhere, Unborn, LineRecorded, ChosenListed
<1>5. ASSUME NEW k \in Job \ astray' PROVE Tracked(k)'
  <2>1. /\ Tracked(k) /\ ~ Passed(k) /\ ~ Passed(k)'
        /\ ~ StopPending(k) /\ ~ ExitPending(k) /\ ~ StopPending(k)' /\ ~ ExitPending(k)'
    BY <1>0, <1>1, <1>5, SigAssumption DEF Passed, StopPending, ExitPending, Code
  <2>2. CASE k = cur
    BY <1>1, <1>2, <1>3, <2>1, <2>2, ListKept, Unlisted, NullAssumption
       DEF Tracked, Launching, Unheard, Excused, Live
  <2>3. CASE k # cur
    BY <1>1, <1>2, <2>1, <2>3, TrackedStep, NullAssumption DEF Launching, Unheard, Excused
  <2>. QED
    BY <2>2, <2>3
<1>. QED
  BY <1>4, <1>5 DEF ListIInv

\* launchJob blocks SIGCHLD.
LEMMA BlockList ==
  ASSUME IInv, ListIInv, Block
  PROVE  ListIInv'
<1>0. TypeOK /\ MaskedWhere /\ Unborn /\ LineRecorded /\ \A k \in Job \ astray : Tracked(k)
  BY DEF ListIInv, IInv
<1>1. /\ UNCHANGED <<cur, held, proc, all_background_jobs, all_jobs, suspend_this_job, pending, astray>>
      /\ pc = "mask" /\ pc' = "traverse" /\ masked'
  BY DEF Block, children, lists
<1>2. \A k : (Listed(k)' <=> Listed(k)) /\ (Recorded(k)' <=> Recorded(k))
  BY <1>1, ListKept DEF Recorded
<1>3. MaskedWhere' /\ Unborn' /\ LineRecorded' /\ ChosenListed'
  BY <1>0, <1>1, <1>2 DEF MaskedWhere, Unborn, LineRecorded, ChosenListed
<1>4. ASSUME NEW k \in Job \ astray' PROVE Tracked(k)'
  <2>1. /\ Tracked(k) /\ ~ Passed(k) /\ ~ Passed(k)'
        /\ (StopPending(k)' <=> StopPending(k)) /\ (ExitPending(k)' <=> ExitPending(k))
    BY <1>0, <1>1, <1>4 DEF Passed, StopPending, ExitPending
  <2>. QED
    BY <1>1, <2>1, TrackedStep DEF Launching, Unheard, Excused
<1>. QED
  BY <1>3, <1>4 DEF ListIInv

\* The tail of the list, if any, is listed.
LEMMA LastListed ==
  ASSUME all_background_jobs \in Seq(Entry)
  PROVE  Last = NoJob \/ Listed(Last)
<1>1. CASE all_background_jobs # <<>>
  <2>1. Len(all_background_jobs) \in DOMAIN all_background_jobs
    BY <1>1
  <2>. QED
    BY <1>1, <2>1 DEF Last, Listed
<1>. QED
  BY <1>1 DEF Last

\* put_job_in_background finds the tail.
LEMMA TraverseList ==
  ASSUME IInv, ListIInv, Traverse
  PROVE  ListIInv'
<1>0. TypeOK /\ MaskedWhere /\ Unborn /\ LineRecorded /\ \A k \in Job \ astray : Tracked(k)
  BY DEF ListIInv, IInv
<1>1. /\ UNCHANGED <<cur, proc, all_background_jobs, all_jobs, suspend_this_job, pending, masked, astray>>
      /\ pc = "traverse" /\ pc' = "link" /\ (held' = NoJob \/ Listed(held'))
  BY <1>0, LastListed DEF Traverse, children, lists, signals, TypeOK, Entry
<1>2. \A k : (Listed(k)' <=> Listed(k)) /\ (Recorded(k)' <=> Recorded(k))
  BY <1>1, ListKept DEF Recorded
<1>3. MaskedWhere' /\ Unborn' /\ LineRecorded' /\ ChosenListed'
  BY <1>0, <1>1, <1>2, NullAssumption DEF MaskedWhere, Unborn, LineRecorded, ChosenListed
<1>4. ASSUME NEW k \in Job \ astray' PROVE Tracked(k)'
  <2>1. /\ Tracked(k) /\ ~ Passed(k) /\ ~ Passed(k)'
        /\ (StopPending(k)' <=> StopPending(k)) /\ (ExitPending(k)' <=> ExitPending(k))
    BY <1>0, <1>1, <1>4 DEF Passed, StopPending, ExitPending
  <2>. QED
    BY <1>1, <2>1, TrackedStep DEF Launching, Unheard, Excused
<1>. QED
  BY <1>3, <1>4 DEF ListIInv

\* What linking its entry does for the job the shell works on, unless it is lost.
LEMMA LinkedOwn ==
  ASSUME TypeOK, NEW status \in Status, Linked(status),
         NEW k \in Job \ astray', k = cur, ~ Listed(k), Once(k)
  PROVE  Once(k)' /\ Listed(k)' /\ Marked(k, status)'
<1>1. all_background_jobs' = Append(all_background_jobs, [pgid |-> k, status |-> status])
  BY DEF Linked
<1>. QED
  BY <1>1, ListAppended DEF TypeOK, Entry

\* And for the other jobs.
LEMMA LinkedOther ==
  ASSUME TypeOK, cur \in Job, NEW status \in Status, Linked(status), NEW k \in Job, k # cur, Once(k)
  PROVE  /\ Once(k)' /\ (Listed(k)' <=> Listed(k))
         /\ Marked(k, "running") => Marked(k, "running")'
         /\ Marked(k, "suspended") => Marked(k, "suspended")'
<1>1. PICK j \in Job : j = cur
  OBVIOUS
<1>2. CASE all_background_jobs' = Append(all_background_jobs, [pgid |-> j, status |-> status])
  BY <1>1, <1>2, ListAppended DEF TypeOK, Entry
<1>3. CASE all_background_jobs' = all_background_jobs
  BY <1>3, ListKept
<1>. QED
  BY <1>1, <1>2, <1>3 DEF Linked

\* Linking lists no job but the present one, and leaves no other astray.
LEMMA LinkedOnly ==
  ASSUME TypeOK, cur \in Job, NEW status \in Status, Linked(status)
  PROVE  /\ astray \subseteq astray' /\ astray' \subseteq astray \cup {cur}
         /\ \A k \in Job : /\ Listed(k)' => k = cur \/ Listed(k)
                           /\ Listed(k) => Listed(k)'
<1>1. PICK j \in Job : j = cur
  OBVIOUS
<1>2. CASE all_background_jobs' = Append(all_background_jobs, [pgid |-> j, status |-> status])
           /\ astray' = astray
  BY <1>1, <1>2, ListAppended DEF TypeOK, Entry
<1>3. CASE all_background_jobs' = all_background_jobs /\ astray' = astray \cup {cur}
  BY <1>3, ListKept
<1>. QED
  BY <1>1, <1>2, <1>3 DEF Linked

\* put_job_in_background links the job, or loses it.
LEMMA LinkList ==
  ASSUME IInv, ListIInv, Link
  PROVE  ListIInv'
<1>0. TypeOK /\ MaskedWhere /\ Unborn /\ LineRecorded /\ \A k \in Job \ astray : Tracked(k)
  BY DEF ListIInv, IInv
<1>1. /\ UNCHANGED <<proc, all_jobs, suspend_this_job, pending>>
      /\ pc = "link" /\ pc' = "next" /\ cur' = NoJob /\ held' = NoJob /\ ~ masked'
      /\ cur \in Job /\ "running" \in Status /\ Linked("running")
  BY <1>0 DEF Link, children, IInv, TypeOK, WorksOnJob, Command, Over, Status
<1>2. \A k : Recorded(k)' <=> Recorded(k)
  BY <1>1 DEF Recorded
<1>3. /\ astray \subseteq astray' /\ astray' \subseteq astray \cup {cur}
      /\ \A k \in Job : Listed(k)' => k = cur \/ Listed(k)
  BY <1>0, <1>1, LinkedOnly
<1>4. MaskedWhere' /\ Unborn' /\ LineRecorded' /\ ChosenListed'
  BY <1>0, <1>1, <1>2, <1>3, NullAssumption DEF MaskedWhere, Unborn, LineRecorded, ChosenListed
<1>5. ASSUME NEW k \in Job \ astray' PROVE Tracked(k)'
  <2>1. /\ Tracked(k) /\ ~ Passed(k) /\ ~ Passed(k)'
        /\ (StopPending(k)' <=> StopPending(k)) /\ (ExitPending(k)' <=> ExitPending(k))
    BY <1>0, <1>1, <1>3, <1>5 DEF Passed, StopPending, ExitPending
  <2>2. CASE k = cur
    <3>1. ~ Listed(k) /\ Unheard(k) /\ ~ Launching(k)' /\ ~ Unheard(k)'
      BY <1>1, <2>1, <2>2, NullAssumption DEF Tracked, Launching, Unheard
    <3>2. Once(k)' /\ Listed(k)' /\ Marked(k, "running")'
      BY <1>0, <1>1, <1>5, <2>1, <2>2, <3>1, LinkedOwn DEF Tracked
    <3>3. proc[k] # "none"
      BY <1>0, <1>1, <2>2 DEF Unborn
    <3>. QED
      BY <1>0, <1>1, <2>1, <2>2, <3>1, <3>2, <3>3, NullAssumption DEF Tracked, Excused, TypeOK, Live
  <2>3. CASE k # cur
    <3>1. /\ Once(k) /\ Once(k)' /\ (Listed(k)' <=> Listed(k))
          /\ Marked(k, "running") => Marked(k, "running")'
          /\ Marked(k, "suspended") => Marked(k, "suspended")'
      BY <1>0, <1>1, <2>1, <2>3, LinkedOther DEF Tracked
    <3>2. /\ ~ Launching(k) /\ ~ Launching(k)' /\ ~ Unheard(k)' /\ ~ Excused(k) /\ cur' # k
      BY <1>1, <2>3, NullAssumption DEF Launching, Unheard, Excused
    <3>. QED
      BY <1>1, <2>1, <3>1, <3>2, TrackedFrame
  <2>. QED
    BY <2>2, <2>3
<1>. QED
  BY <1>4, <1>5 DEF ListIInv

\* main starts the walk at the first job of the line.
LEMMA EndLineList ==
  ASSUME IInv, ListIInv, EndLine
  PROVE  ListIInv'
<1>0. TypeOK /\ MaskedWhere /\ Unborn /\ LineRecorded /\ \A k \in Job \ astray : Tracked(k)
  BY DEF ListIInv, IInv
<1>1. /\ UNCHANGED <<held, proc, all_background_jobs, all_jobs, suspend_this_job, pending, masked, astray>>
      /\ pc = "next" /\ pc' = "suspend"
      /\ cur' = IF all_jobs = <<>> THEN NoJob ELSE all_jobs[1]
  BY DEF EndLine, children, lists, signals
<1>2. \A k : (Listed(k)' <=> Listed(k)) /\ (Recorded(k)' <=> Recorded(k))
  BY <1>1, ListKept DEF Recorded
<1>3. CASE all_jobs = <<>>
  <2>1. cur' = NoJob /\ suspend_this_job = {}
    BY <1>0, <1>1, <1>3 DEF LineRecorded, Recorded
  <2>2. MaskedWhere' /\ Unborn' /\ LineRecorded' /\ ChosenListed'
    BY <1>0, <1>1, <1>2, <2>1, NullAssumption DEF MaskedWhere, Unborn, LineRecorded, ChosenListed
  <2>3. ASSUME NEW k \in Job \ astray' PROVE Tracked(k)'
    <3>1. /\ Tracked(k)
          /\ (StopPending(k)' <=> StopPending(k)) /\ (ExitPending(k)' <=> ExitPending(k))
      BY <1>0, <1>1, <2>3 DEF StopPending, ExitPending
    <3>. QED
      BY <1>1, <2>1, <3>1, TrackedStep DEF Launching, Unheard, Excused
  <2>. QED
    BY <2>2, <2>3 DEF ListIInv
<1>4. CASE all_jobs # <<>>
  <2>1. /\ 1 \in DOMAIN all_jobs /\ all_jobs[1] \in Job /\ cur' = all_jobs[1]
        /\ \A i \in DOMAIN all_jobs : ~ (i < 1)
    BY <1>0, <1>1, <1>4 DEF TypeOK
  <2>2. Recorded(cur)'
    BY <1>1, <2>1 DEF Recorded
  <2>3. MaskedWhere' /\ Unborn' /\ LineRecorded' /\ ChosenListed'
    <3>1. LineRecorded'
      BY <1>0, <1>1, <1>2, <2>2 DEF LineRecorded
    <3>2. Unborn'
      <4>1. \A k \in Job : Recorded(k) <=> Recorded(k)'
        BY <1>2
      <4>2. PICK c \in Job : c = cur'
        BY <2>1
      <4>3. Recorded(c)
        BY <1>1, <2>1, <4>2 DEF Recorded
      <4>. QED
        BY <1>0, <1>1, <1>2, <4>2, <4>3 DEF Unborn
    <3>. QED
      BY <1>0, <1>1, <3>1, <3>2 DEF MaskedWhere, ChosenListed
  <2>4. ASSUME NEW k \in Job \ astray' PROVE Tracked(k)'
    <3>1. /\ Tracked(k)
          /\ (StopPending(k)' <=> StopPending(k)) /\ (ExitPending(k)' <=> ExitPending(k))
      BY <1>0, <1>1, <2>4 DEF StopPending, ExitPending
    <3>2. ~ Passed(k)
      BY <1>1 DEF Passed
    <3>3. ~ Passed(k)'
      <4> SUFFICES ASSUME NEW a \in DOMAIN all_jobs, NEW b \in DOMAIN all_jobs,
                          a < b, all_jobs[b] = all_jobs[1]
                   PROVE  FALSE
        BY <1>1, <2>1, NullAssumption DEF Passed
      <4>1. b = 1
        BY <1>0, <2>1 DEF LineRecorded
      <4>. QED
        BY <2>1, <4>1
    <3>. QED
      BY <1>1, <3>1, <3>2, <3>3, TrackedStep DEF Launching, Unheard, Excused
  <2>. QED
    BY <2>3, <2>4 DEF ListIInv
<1>. QED
  BY <1>3, <1>4

\* main passes over a job that is not flagged.
LEMMA PassOverList ==
  ASSUME IInv, ListIInv, PassOver
  PROVE  ListIInv'
<1>0. TypeOK /\ MaskedWhere /\ Unborn /\ LineRecorded /\ \A k \in Job \ astray : Tracked(k)
  BY DEF ListIInv, IInv
<1>1. /\ UNCHANGED <<held, proc, all_background_jobs, all_jobs, suspend_this_job, pending, masked, astray>>
      /\ pc = "suspend" /\ pc' = "suspend" /\ cur # NoJob /\ cur \notin suspend_this_job
      /\ cur' = NextJob(cur)
  BY DEF PassOver, children, lists, signals
<1>2. \A k : (Listed(k)' <=> Listed(k)) /\ (Recorded(k)' <=> Recorded(k))
  BY <1>1, ListKept DEF Recorded
<1>3. /\ cur' = NoJob \/ Recorded(cur)'
      /\ \A k : Recorded(k) => (Passed(k)' <=> (Passed(k) \/ k = cur))
  BY <1>0, <1>1, WalkStep
<1>4. MaskedWhere' /\ Unborn' /\ LineRecorded' /\ ChosenListed'
  <2>1. Unborn'
    BY <1>0, <1>1, <1>2, <1>3, NullAssumption DEF Unborn, Recorded
  <2>. QED
    BY <1>0, <1>1, <1>2, <1>3, <2>1 DEF MaskedWhere, LineRecorded, ChosenListed
<1>5. ASSUME NEW k \in Job \ astray' PROVE Tracked(k)'
  <2>1. /\ Tracked(k)
        /\ (StopPending(k)' <=> StopPending(k)) /\ (ExitPending(k)' <=> ExitPending(k))
    BY <1>0, <1>1, <1>5 DEF StopPending, ExitPending
  <2>2. k \in suspend_this_job => (Passed(k)' <=> Passed(k))
    BY <1>0, <1>1, <1>3 DEF LineRecorded
  <2>. QED
    BY <1>1, <2>1, <2>2, TrackedStep DEF Launching, Unheard, Excused
<1>. QED
  BY <1>4, <1>5 DEF ListIInv

\* main finds the tail for a flagged job.
LEMMA FindTailList ==
  ASSUME IInv, ListIInv, FindTail
  PROVE  ListIInv'
<1>0. TypeOK /\ MaskedWhere /\ Unborn /\ LineRecorded /\ \A k \in Job \ astray : Tracked(k)
  BY DEF ListIInv, IInv
<1>1. /\ UNCHANGED <<cur, proc, all_background_jobs, all_jobs, suspend_this_job, pending, masked, astray>>
      /\ pc = "suspend" /\ pc' = "addsuspended" /\ cur \in suspend_this_job
      /\ (held' = NoJob \/ Listed(held'))
  BY <1>0, LastListed DEF FindTail, children, lists, signals, TypeOK, Entry
<1>2. \A k : (Listed(k)' <=> Listed(k)) /\ (Recorded(k)' <=> Recorded(k))
  BY <1>1, ListKept DEF Recorded
<1>3. MaskedWhere' /\ Unborn' /\ LineRecorded' /\ ChosenListed'
  BY <1>0, <1>1, <1>2, NullAssumption DEF MaskedWhere, Unborn, LineRecorded, ChosenListed
<1>4. ASSUME NEW k \in Job \ astray' PROVE Tracked(k)'
  <2>1. /\ Tracked(k) /\ (Passed(k)' <=> Passed(k))
        /\ (StopPending(k)' <=> StopPending(k)) /\ (ExitPending(k)' <=> ExitPending(k))
    BY <1>0, <1>1, <1>4 DEF Passed, StopPending, ExitPending
  <2>. QED
    BY <1>1, <2>1, TrackedStep DEF Launching, Unheard, Excused
<1>. QED
  BY <1>3, <1>4 DEF ListIInv

\* A flagged job gets its entry when the walk gets past it.
LEMMA AddSuspendedList ==
  ASSUME IInv, ListIInv, AddSuspended
  PROVE  ListIInv'
<1>0. TypeOK /\ MaskedWhere /\ Unborn /\ LineRecorded /\ \A k \in Job \ astray : Tracked(k)
  BY DEF ListIInv, IInv
<1>1. /\ UNCHANGED <<proc, all_jobs, suspend_this_job, pending, masked>>
      /\ pc = "addsuspended" /\ pc' = "suspend" /\ cur' = NextJob(cur) /\ held' = NoJob
      /\ cur \in suspend_this_job /\ cur \in Job /\ cur # NoJob
      /\ "suspended" \in Status /\ Linked("suspended")
  BY <1>0, NullAssumption DEF AddSuspended, children, TypeOK, LineRecorded, Status
<1>2. \A k : Recorded(k)' <=> Recorded(k)
  BY <1>1 DEF Recorded
<1>3. /\ astray \subseteq astray' /\ astray' \subseteq astray \cup {cur}
      /\ \A k \in Job : Listed(k)' => k = cur \/ Listed(k)
  BY <1>0, <1>1, LinkedOnly
<1>4. /\ cur' = NoJob \/ Recorded(cur)'
      /\ ~ Passed(cur)
      /\ \A k : Recorded(k) => (Passed(k)' <=> (Passed(k) \/ k = cur))
  BY <1>0, <1>1, WalkStep
<1>5. MaskedWhere' /\ Unborn' /\ LineRecorded' /\ ChosenListed'
  <2>1. Unborn'
    BY <1>0, <1>1, <1>2, <1>3, <1>4, NullAssumption DEF Unborn, Recorded
  <2>. QED
    BY <1>0, <1>1, <1>2, <1>4, <2>1 DEF MaskedWhere, LineRecorded, ChosenListed
<1>6. ASSUME NEW k \in Job \ astray' PROVE Tracked(k)'
  <2>1. /\ Tracked(k)
        /\ (StopPending(k)' <=> StopPending(k)) /\ (ExitPending(k)' <=> ExitPending(k))
        /\ ~ Launching(k) /\ ~ Launching(k)' /\ ~ Unheard(k)' /\ ~ Excused(k) /\ ~ Excused(k)'
    BY <1>0, <1>1, <1>3, <1>6 DEF StopPending, ExitPending, Launching, Unheard, Excused
  <2>2. CASE k = cur
    <3>1. ~ Listed(k) /\ proc[k] = "stopped" /\ Passed(k)'
      BY <1>0, <1>1, <1>4, <2>1, <2>2 DEF Tracked, LineRecorded
    <3>2. Once(k)' /\ Listed(k)' /\ Marked(k, "suspended")'
      BY <1>0, <1>1, <1>6, <2>1, <2>2, <3>1, LinkedOwn DEF Tracked
    <3>. QED
      BY <1>1, <2>1, <2>2, <3>1, <3>2 DEF Tracked
  <2>3. CASE k # cur
    <3>1. /\ Once(k)' /\ (Listed(k)' <=> Listed(k))
          /\ Marked(k, "running") => Marked(k, "running")'
          /\ Marked(k, "suspended") => Marked(k, "suspended")'
      BY <1>0, <1>1, <2>1, <2>3, LinkedOther DEF Tracked
    <3>2. k \in suspend_this_job => (Passed(k)' <=> Passed(k))
      BY <1>0, <1>4, <2>3 DEF LineRecorded
    <3>. QED
      BY <1>1, <2>1, <3>1, <3>2, TrackedFrame
  <2>. QED
    BY <2>2, <2>3
<1>. QED
  BY <1>5, <1>6 DEF ListIInv

\* After the walk every flagged job has its entry, and the flags go.
LEMMA FinishLineList ==
  ASSUME IInv, ListIInv, FinishLine
  PROVE  ListIInv'
<1>0. TypeOK /\ MaskedWhere /\ Unborn /\ LineRecorded /\ \A k \in Job \ astray : Tracked(k)
  BY DEF ListIInv, IInv
<1>1. /\ UNCHANGED <<cur, held, proc, all_background_jobs, pending, masked, astray>>
      /\ pc = "suspend" /\ pc' \in {"exited", "prompt"} /\ cur = NoJob
      /\ all_jobs' = <<>> /\ suspend_this_job' = {}
  BY DEF FinishLine, children, signals
<1>2. \A k : (Listed(k)' <=> Listed(k)) /\ ~ Recorded(k)'
  BY <1>1, ListKept DEF Recorded
<1>3. MaskedWhere' /\ Unborn' /\ LineRecorded' /\ ChosenListed'
  BY <1>0, <1>1, <1>2 DEF MaskedWhere, Unborn, LineRecorded, ChosenListed
<1>4. ASSUME NEW k \in Job \ astray' PROVE Tracked(k)'
  <2>1. /\ Tracked(k) /\ Passed(k)
        /\ (StopPending(k)' <=> StopPending(k)) /\ (ExitPending(k)' <=> ExitPending(k))
        /\ ~ Launching(k) /\ ~ Launching(k)' /\ ~ Unheard(k)' /\ ~ Excused(k)
    BY <1>0, <1>1, <1>4 DEF StopPending, ExitPending, Launching, Unheard, Excused, Passed
  <2>. QED
    BY <1>1, <1>2, <2>1, ListKept DEF Tracked
<1>. QED
  BY <1>3, <1>4 DEF ListIInv

\* fg and bg: an entry is chosen.
LEMMA ChooseList ==
  ASSUME IInv, ListIInv, NEW stage \in {"fg", "bg"}, Choose(stage)
  PROVE  ListIInv'
<1>0. TypeOK /\ MaskedWhere /\ Unborn /\ LineRecorded /\ \A k \in Job \ astray : Tracked(k)
  BY DEF ListIInv, IInv
<1>1. /\ UNCHANGED <<held, proc, all_background_jobs, all_jobs, suspend_this_job, pending, masked, astray>>
      /\ pc \in Command /\ pc' \in {"fg", "bg"} /\ Listed(cur') /\ cur' \in Job /\ pending = NoSig
  BY <1>0, QuietPending, EntryFields
     DEF Choose, AtCommand, children, lists, signals, TypeOK, Entry, Listed, Command
<1>2. \A k : (Listed(k)' <=> Listed(k)) /\ (Recorded(k)' <=> Recorded(k))
  BY <1>1, ListKept DEF Recorded
<1>3. PICK c \in Job : c = cur' /\ Listed(c)
  BY <1>1
<1>4. MaskedWhere' /\ Unborn' /\ LineRecorded' /\ ChosenListed'
  BY <1>0, <1>1, <1>2, <1>3 DEF MaskedWhere, Unborn, LineRecorded, ChosenListed, Command
<1>5. ASSUME NEW k \in Job \ astray' PROVE Tracked(k)'
  <2>1. /\ Tracked(k) /\ ~ Passed(k) /\ ~ Passed(k)'
        /\ (StopPending(k)' <=> StopPending(k)) /\ (ExitPending(k)' <=> ExitPending(k))
    BY <1>0, <1>1, <1>5 DEF Passed, StopPending, ExitPending, Command
  <2>. QED
    BY <1>1, <2>1, TrackedStep DEF Launching, Unheard, Excused, Command
<1>. QED
  BY <1>4, <1>5 DEF ListIInv

\* foreground_helper hands over the terminal.
LEMMA FgTerminalList ==
  ASSUME IInv, ListIInv, FgTerminal
  PROVE  ListIInv'
<1>0. /\ TypeOK /\ MaskedWhere /\ Unborn /\ LineRecorded /\ ChosenListed
      /\ \A k \in Job \ astray : Tracked(k)
  BY DEF ListIInv, IInv
<1>1. /\ UNCHANGED <<cur, held, proc, all_background_jobs, all_jobs, suspend_this_job, pending, masked, astray>>
      /\ pc = "fg" /\ pc' = "fgcont"
  BY DEF FgTerminal, children, lists, signals
<1>2. \A k : (Listed(k)' <=> Listed(k)) /\ (Recorded(k)' <=> Recorded(k))
  BY <1>1, ListKept DEF Recorded
<1>3. MaskedWhere' /\ Unborn' /\ LineRecorded' /\ ChosenListed'
  BY <1>0, <1>1, <1>2 DEF MaskedWhere, Unborn, LineRecorded, ChosenListed
<1>4. ASSUME NEW k \in Job \ astray' PROVE Tracked(k)'
  <2>1. /\ Tracked(k) /\ ~ Passed(k) /\ ~ Passed(k)'
        /\ (StopPending(k)' <=> StopPending(k)) /\ (ExitPending(k)' <=> ExitPending(k))
    BY <1>0, <1>1, <1>4 DEF Passed, StopPending, ExitPending
  <2>. QED
    BY <1>1, <2>1, TrackedStep DEF Launching, Unheard, Excused
<1>. QED
  BY <1>3, <1>4 DEF ListIInv

\* A live job the shell works on outside launchJob and the end of the line is
\* listed and not flagged.
LEMMA ChosenLive ==
  ASSUME ChosenListed, NEW j \in Job \ astray, j = cur, Tracked(j), proc[j] \in Live,
         pc \in {"fg", "fgcont", "fgwait", "bg", "bgcont", "bgset", "kill", "walk"}
  PROVE  Listed(j) /\ j \notin suspend_this_job
<1>1. Listed(j)
  BY NullAssumption DEF ChosenListed, Live
<1>2. ~ Passed(j)
  BY DEF Passed
<1>. QED
  BY <1>1, <1>2 DEF Tracked

\* foreground_helper wakes the job: its entry is not marked, but the shell
\* waits for it.
LEMMA FgContinueList ==
  ASSUME IInv, ListIInv, FgContinue
  PROVE  ListIInv'
<1>0. /\ TypeOK /\ MaskedWhere /\ Unborn /\ LineRecorded /\ ChosenListed
      /\ \A k \in Job \ astray : Tracked(k)
  BY DEF ListIInv, IInv
<1>1. /\ UNCHANGED <<cur, held, all_background_jobs, all_jobs, suspend_this_job>>
      /\ pc = "fgcont" /\ pc' = "fgwait" /\ pending = NoSig /\ Continue(cur) /\ cur \in Job
  BY <1>0, QuietPending DEF FgContinue, lists, IInv, WorksOnJob, Command, Over, TypeOK
<1>2. /\ UNCHANGED <<masked, astray>>
      /\ \/ proc[cur] # "stopped" /\ proc' = proc /\ pending' = pending
         \/ /\ proc[cur] = "stopped" /\ proc' = [proc EXCEPT ![cur] = "running"]
            /\ pending' = [job |-> cur, code |-> "continued"]
  BY <1>1, SigAssumption DEF Continue, Post, children, signals, Code
<1>3. /\ \A k \in Job : proc'[k] = "none" <=> proc[k] = "none"
      /\ \A k \in Job \ {cur} : proc'[k] = proc[k]
      /\ proc'[cur] = IF proc[cur] = "stopped" THEN "running" ELSE proc[cur]
  BY <1>0, <1>1, <1>2 DEF TypeOK
<1>4. \A k : (Listed(k)' <=> Listed(k)) /\ (Recorded(k)' <=> Recorded(k))
  BY <1>1, ListKept DEF Recorded
<1>5. MaskedWhere' /\ LineRecorded'
  BY <1>0, <1>1, <1>2, <1>4 DEF MaskedWhere, LineRecorded
<1>6. Unborn'
  BY <1>0, <1>1, <1>2, <1>3, <1>4, SigAssumption DEF Unborn, Code
<1>7. ChosenListed'
  BY <1>0, <1>1, <1>2, <1>3, <1>4 DEF ChosenListed
<1>8. ASSUME NEW k \in Job \ astray' PROVE Tracked(k)'
  <2>1. /\ Tracked(k) /\ ~ Passed(k) /\ ~ Passed(k)'
        /\ ~ StopPending(k) /\ ~ ExitPending(k) /\ ~ StopPending(k)' /\ ~ ExitPending(k)'
    BY <1>0, <1>1, <1>2, <1>8, SigAssumption DEF Passed, StopPending, ExitPending, Code
  <2>2. CASE k = cur
    <3>1. proc[k] \in Live => Listed(k) /\ k \notin suspend_this_job
      BY <1>0, <1>1, <1>2, <1>8, <2>1, <2>2, ChosenLive
    <3>2. Once(k)' <=> Once(k)
      BY <1>1, ListKept
    <3>. QED
      BY <1>1, <1>3, <1>4, <2>1, <2>2, <3>1, <3>2 DEF Tracked, Launching, Unheard, Excused, Live
  <2>3. CASE k # cur
    BY <1>1, <1>3, <2>1, <2>3, TrackedStep DEF Launching, Unheard, Excused
  <2>. QED
    BY <2>2, <2>3
<1>. QED
  BY <1>5, <1>6, <1>7, <1>8 DEF ListIInv

\* foreground_helper collects the job, or finds it gone.
LEMMA FgWaitList ==
  ASSUME IInv, ListIInv, FgWait
  PROVE  ListIInv'
<1>0. /\ TypeOK /\ UnreportedStopped /\ MaskedWhere /\ Unborn /\ LineRecorded /\ ChosenListed
      /\ \A k \in Job \ astray : Tracked(k)
  BY DEF ListIInv, IInv
<1>1. /\ UNCHANGED <<held, all_background_jobs, all_jobs, suspend_this_job, pending, masked, astray>>
      /\ pc = "fgwait" /\ pc' = "next" /\ cur' = NoJob /\ cur \in Job /\ pending = NoSig
      /\ \/ proc' = IF proc[cur] = "zombie" THEN [proc EXCEPT ![cur] = "gone"] ELSE proc
         \/ proc' = proc
      /\ proc[cur] \in {"zombie", "stopped", "gone"} \/ ~ Listed(cur)
  BY <1>0, QuietPending DEF FgWait, Reportable, Collected, Freed, lists, signals, children,
     UnreportedStopped, IInv, TypeOK, WorksOnJob, Command, Over
<1>2. /\ \A k \in Job : proc'[k] = "none" <=> proc[k] = "none"
      /\ \A k \in Job \ {cur} : proc'[k] = proc[k]
      /\ proc'[cur] = proc[cur] \/ (proc[cur] = "zombie" /\ proc'[cur] = "gone")
  BY <1>0, <1>1 DEF TypeOK
<1>3. \A k : (Listed(k)' <=> Listed(k)) /\ (Recorded(k)' <=> Recorded(k))
  BY <1>1, ListKept DEF Recorded
<1>4. MaskedWhere' /\ Unborn' /\ LineRecorded' /\ ChosenListed'
  BY <1>0, <1>1, <1>2, <1>3, NullAssumption DEF MaskedWhere, Unborn, LineRecorded, ChosenListed
<1>5. ASSUME NEW k \in Job \ astray' PROVE Tracked(k)'
  <2>1. /\ Tracked(k) /\ ~ Passed(k) /\ ~ Passed(k)'
        /\ ~ StopPending(k) /\ ~ ExitPending(k) /\ ~ StopPending(k)' /\ ~ ExitPending(k)'
    BY <1>0, <1>1, <1>5, SigAssumption DEF Passed, StopPending, ExitPending, Code
  <2>2. CASE k = cur
    <3>1. proc[k] \in {"zombie", "stopped", "gone"}
      BY <1>0, <1>1, <1>5, <2>2, NullAssumption DEF ChosenListed
    <3>. QED
      BY <1>1, <1>2, <1>3, <2>1, <2>2, <3>1, ListKept, NullAssumption
         DEF Tracked, Launching, Unheard, Excused, Live
  <2>3. CASE k # cur
    BY <1>1, <1>2, <2>1, <2>3, TrackedStep, NullAssumption DEF Launching, Unheard, Excused
  <2>. QED
    BY <2>2, <2>3
<1>. QED
  BY <1>4, <1>5 DEF ListIInv

\* background_builtin blocks SIGCHLD.
LEMMA BgBlockList ==
  ASSUME IInv, ListIInv, BgBlock
  PROVE  ListIInv'
<1>0. /\ TypeOK /\ MaskedWhere /\ Unborn /\ LineRecorded /\ ChosenListed
      /\ \A k \in Job \ astray : Tracked(k)
  BY DEF ListIInv, IInv
<1>1. /\ UNCHANGED <<cur, held, proc, all_background_jobs, all_jobs, suspend_this_job, pending, astray>>
      /\ pc = "bg" /\ pc' = "bgcont" /\ masked'
  BY DEF BgBlock, children, lists
<1>2. \A k : (Listed(k)' <=> Listed(k)) /\ (Recorded(k)' <=> Recorded(k))
  BY <1>1, ListKept DEF Recorded
<1>3. MaskedWhere' /\ Unborn' /\ LineRecorded' /\ ChosenListed'
  BY <1>0, <1>1, <1>2 DEF MaskedWhere, Unborn, LineRecorded, ChosenListed
<1>4. ASSUME NEW k \in Job \ astray' PROVE Tracked(k)'
  <2>1. /\ Tracked(k) /\ ~ Passed(k) /\ ~ Passed(k)'
        /\ (StopPending(k)' <=> StopPending(k)) /\ (ExitPending(k)' <=> ExitPending(k))
    BY <1>0, <1>1, <1>4 DEF Passed, StopPending, ExitPending
  <2>. QED
    BY <1>1, <2>1, TrackedStep DEF Launching, Unheard, Excused
<1>. QED
  BY <1>3, <1>4 DEF ListIInv

\* background_built_in_helper wakes the job with SIGCHLD blocked.  From then on
\* a signal is pending, so a stop or an exit of the job before it is marked
\* running is lost, and the job astray.
LEMMA BgContinueList ==
  ASSUME IInv, ListIInv, BgContinue
  PROVE  ListIInv'
<1>0. /\ TypeOK /\ MaskedWhere /\ Unborn /\ LineRecorded /\ ChosenListed
      /\ \A k \in Job \ astray : Tracked(k)
  BY DEF ListIInv, IInv
<1>1. /\ UNCHANGED <<cur, held, all_background_jobs, all_jobs, suspend_this_job>>
      /\ pc = "bgcont" /\ pc' = "bgset" /\ Continue(cur) /\ cur \in Job
  BY <1>0 DEF BgContinue, lists, IInv, WorksOnJob, Command, Over, TypeOK
<1>2. PICK c \in Job : c = cur
  BY <1>1
<1>3. /\ UNCHANGED masked
      /\ \/ proc[c] # "stopped" /\ proc' = proc /\ UNCHANGED <<pending, astray>>
         \/ /\ proc[c] = "stopped" /\ proc' = [proc EXCEPT ![c] = "running"]
            /\ \/ /\ StopPending(c) /\ UNCHANGED pending /\ astray' = astray \cup {c}
               \/ /\ ~ StopPending(c) /\ UNCHANGED astray
                  /\ IF pending = NoSig THEN pending' = [job |-> c, code |-> "continued"]
                     ELSE UNCHANGED pending
  BY <1>1, <1>2 DEF Continue, Post, children, signals, StopPending
<1>4. /\ \A k \in Job : proc'[k] = "none" <=> proc[k] = "none"
      /\ \A k \in Job \ {c} : proc'[k] = proc[k]
      /\ proc'[c] = IF proc[c] = "stopped" THEN "running" ELSE proc[c]
      /\ astray \subseteq astray' /\ astray' \subseteq astray \cup {c}
  BY <1>0, <1>1, <1>3 DEF TypeOK
<1>5. \A k : (Listed(k)' <=> Listed(k)) /\ (Recorded(k)' <=> Recorded(k))
  BY <1>1, ListKept DEF Recorded
<1>6. MaskedWhere' /\ LineRecorded'
  BY <1>0, <1>1, <1>3, <1>5 DEF MaskedWhere, LineRecorded
<1>7. Unborn'
  BY <1>0, <1>1, <1>2, <1>3, <1>4, <1>5, SigAssumption DEF Unborn, Code
<1>8. ChosenListed'
  BY <1>0, <1>1, <1>2, <1>4, <1>5 DEF ChosenListed
<1>9. \A k \in Job : (StopPending(k)' <=> StopPending(k)) /\ (ExitPending(k)' <=> ExitPending(k))
  BY <1>3, SigAssumption DEF StopPending, ExitPending, Code
<1>10. proc[c] = "stopped" => pending' # NoSig
  BY <1>3, SigAssumption DEF StopPending, Code
<1>11. ASSUME NEW k \in Job \ astray' PROVE Tracked(k)'
  <2>1. /\ Tracked(k) /\ ~ Passed(k) /\ ~ Passed(k)'
        /\ (StopPending(k)' <=> StopPending(k)) /\ (ExitPending(k)' <=> ExitPending(k))
    BY <1>0, <1>1, <1>4, <1>9, <1>11 DEF Passed
  <2>2. CASE k = c
    <3>1. proc[k] \in Live => Listed(k) /\ k \notin suspend_this_job
      BY <1>0, <1>1, <1>2, <1>4, <1>11, <2>1, <2>2, ChosenLive
    <3>2. Once(k)' <=> Once(k)
      BY <1>1, ListKept
    <3>3. /\ ~ Launching(k)' /\ ~ Unheard(k)' /\ ~ Excused(k)
          /\ proc[k] = "stopped" => ~ StopPending(k) /\ ~ ExitPending(k) /\ Excused(k)'
      BY <1>1, <1>2, <1>3, <1>10, <1>11, <2>1, <2>2 DEF Tracked, Launching, Unheard, Excused
    <3>4. Marked(k, "running")' <=> Marked(k, "running")
      BY <1>1, ListKept
    <3>. QED
      BY <1>1, <1>4, <1>5, <2>1, <2>2, <3>1, <3>2, <3>3, <3>4 DEF Tracked, Live
  <2>3. CASE k # c
    BY <1>1, <1>2, <1>4, <2>1, <2>3, TrackedStep DEF Launching, Unheard, Excused
  <2>. QED
    BY <2>2, <2>3
<1>. QED
  BY <1>6, <1>7, <1>8, <1>11 DEF ListIInv

\* background_built_in_helper marks the job running and lets SIGCHLD in.
LEMMA BgRunningList ==
  ASSUME IInv, ListIInv, BgRunning
  PROVE  ListIInv'
<1>0. /\ TypeOK /\ MaskedWhere /\ Unborn /\ LineRecorded /\ ChosenListed
      /\ \A k \in Job \ astray : Tracked(k)
  BY DEF ListIInv, IInv
<1>1. /\ UNCHANGED <<cur, held, proc, all_jobs, suspend_this_job, pending, astray>>
      /\ pc = "bgset" /\ pc' = "bgscan" /\ ~ masked' /\ all_background_jobs' = MarkedRunning(cur)
      /\ cur \in Job
  BY DEF BgRunning, children, IInv, WorksOnJob, Command, Over, TypeOK
<1>2. PICK c \in Job : c = cur
  BY <1>1
<1>3. all_background_jobs \in Seq(Entry)
  BY <1>0 DEF TypeOK, Entry
<1>4. \A k : (Listed(k)' <=> Listed(k)) /\ (Recorded(k)' <=> Recorded(k))
  BY <1>1, <1>2, <1>3, ListMarked DEF Recorded
<1>5. MaskedWhere' /\ Unborn' /\ LineRecorded' /\ ChosenListed'
  BY <1>0, <1>1, <1>4 DEF MaskedWhere, Unborn, LineRecorded, ChosenListed
<1>6. ASSUME NEW k \in Job \ astray' PROVE Tracked(k)'
  <2>1. /\ Tracked(k) /\ ~ Passed(k) /\ ~ Passed(k)'
        /\ (StopPending(k)' <=> StopPending(k)) /\ (ExitPending(k)' <=> ExitPending(k))
        /\ ~ Launching(k) /\ ~ Launching(k)' /\ ~ Unheard(k) /\ ~ Unheard(k)'
    BY <1>0, <1>1, <1>6 DEF Passed, StopPending, ExitPending, Launching, Unheard
  <2>2. Once(k) => Once(k)'
    BY <1>1, <1>2, <1>3, ListMarked
  <2>3. CASE k = c
    <3>1. Marked(k, "running")'
      BY <1>1, <1>2, <1>3, <2>3, ListMarked
    <3>. QED
      BY <1>1, <1>2, <1>4, <2>1, <2>2, <2>3, <3>1 DEF Tracked
  <2>4. CASE k # c
    <3>1. /\ Marked(k, "running") => Marked(k, "running")'
          /\ Marked(k, "suspended") => Marked(k, "suspended")'
      BY <1>1, <1>2, <1>3, <2>4, ListMarked
    <3>2. ~ Excused(k)
      BY <1>2, <2>4 DEF Excused
    <3>. QED
      BY <1>1, <1>2, <1>4, <2>1, <2>2, <2>4, <3>1, <3>2 DEF Tracked
  <2>. QED
    BY <2>3, <2>4
<1>. QED
  BY <1>5, <1>6 DEF ListIInv

\* bg %n leaves the entry it continued.
LEMMA BgScanList ==
  ASSUME IInv, ListIInv, BgScan
  PROVE  ListIInv'
<1>0. /\ TypeOK /\ MaskedWhere /\ Unborn /\ LineRecorded /\ ChosenListed
      /\ \A k \in Job \ astray : Tracked(k)
  BY DEF ListIInv, IInv
<1>1. /\ UNCHANGED <<held, proc, all_background_jobs, all_jobs, suspend_this_job, pending, masked, astray>>
      /\ pc = "bgscan" /\ pc' \in {"next", "crashed"} /\ cur' = NoJob
  BY DEF BgScan, children, lists, signals
<1>2. \A k : (Listed(k)' <=> Listed(k)) /\ (Recorded(k)' <=> Recorded(k))
  BY <1>1, ListKept DEF Recorded
<1>3. MaskedWhere' /\ Unborn' /\ LineRecorded' /\ ChosenListed'
  BY <1>0, <1>1, <1>2, NullAssumption DEF MaskedWhere, Unborn, LineRecorded, ChosenListed
<1>4. ASSUME NEW k \in Job \ astray' PROVE Tracked(k)'
  <2>1. /\ Tracked(k) /\ ~ Passed(k) /\ ~ Passed(k)'
        /\ (StopPending(k)' <=> StopPending(k)) /\ (ExitPending(k)' <=> ExitPending(k))
    BY <1>0, <1>1, <1>4 DEF Passed, StopPending, ExitPending
  <2>. QED
    BY <1>1, <2>1, TrackedStep DEF Launching, Unheard, Excused
<1>. QED
  BY <1>3, <1>4 DEF ListIInv

\* SIGKILL leaves a listed or already reported job what Tracked says of it.
LEMMA KilledTracked ==
  ASSUME TypeOK, NEW j \in Job, Kill(j), NEW k \in Job, Tracked(k),
         UNCHANGED <<all_background_jobs, suspend_this_job, pending>>,
         pending = NoSig, ~ Passed(k), ~ Passed(k)', ~ Launching(k), ~ Launching(k)',
         ~ Unheard(k)', ~ Excused(k), pc' # "bgset",
         k = j /\ proc[k] \in Live => Listed(k) /\ k \notin suspend_this_job
  PROVE  Tracked(k)'
<1>1. /\ k # j => proc'[k] = proc[k]
      /\ proc'[j] = IF proc[j] \in Live THEN "dying" ELSE proc[j]
  BY DEF Kill, TypeOK
<1>2. ~ StopPending(k) /\ ~ ExitPending(k) /\ ~ StopPending(k)' /\ ~ ExitPending(k)'
  BY SigAssumption DEF StopPending, ExitPending, Code
<1>3. CASE k # j \/ proc[k] \notin Live
  <2>1. proc'[k] = proc[k]
    BY <1>1, <1>3
  <2>. QED
    BY <1>2, <2>1, TrackedStep
<1>4. CASE k = j /\ proc[k] \in Live
  <2>1. proc'[k] = "dying" /\ Listed(k) /\ k \notin suspend_this_job
    BY <1>1, <1>4
  <2>. QED
    BY <1>2, <2>1, ListKept DEF Tracked
<1>. QED
  BY <1>3, <1>4

\* kill -9 of a listed job.
LEMMA Kill9List ==
  ASSUME IInv, ListIInv, Kill9
  PROVE  ListIInv'
<1>0. /\ TypeOK /\ MaskedWhere /\ Unborn /\ LineRecorded /\ \A k \in Job \ astray : Tracked(k)
  BY DEF ListIInv, IInv
<1>1. /\ UNCHANGED <<cur, held, all_background_jobs, all_jobs, suspend_this_job, pending, masked, astray>>
      /\ pc \in Command /\ pc' = "next" /\ pending = NoSig
  BY <1>0, QuietPending DEF Kill9, AtCommand, lists, signals, Command
<1>2. PICK j \in Job : Listed(j) /\ Kill(j)
  <2>1. PICK i \in DOMAIN all_background_jobs : Kill(all_background_jobs[i].pgid)
    BY DEF Kill9
  <2>2. all_background_jobs[i].pgid \in Job /\ Listed(all_background_jobs[i].pgid)
    BY <1>0, EntryFields DEF Listed, TypeOK, Entry
  <2>. QED
    BY <2>1, <2>2
<1>3. \A k \in Job : proc'[k] = "none" <=> proc[k] = "none"
  BY <1>0, <1>2 DEF Kill, TypeOK, Live
<1>4. \A k : (Listed(k)' <=> Listed(k)) /\ (Recorded(k)' <=> Recorded(k))
  BY <1>1, ListKept DEF Recorded
<1>5. MaskedWhere' /\ Unborn' /\ LineRecorded' /\ ChosenListed'
  BY <1>0, <1>1, <1>3, <1>4 DEF MaskedWhere, Unborn, LineRecorded, ChosenListed, Command
<1>6. ASSUME NEW k \in Job \ astray' PROVE Tracked(k)'
  <2>1. /\ Tracked(k) /\ ~ Passed(k) /\ ~ Passed(k)' /\ ~ Launching(k) /\ ~ Launching(k)'
        /\ ~ Unheard(k)' /\ ~ Excused(k)
    BY <1>0, <1>1, <1>6 DEF Passed, Launching, Unheard, Excused, Command
  <2>2. k = j => k \notin suspend_this_job
    BY <1>2, <2>1 DEF Tracked
  <2>. QED
    BY <1>0, <1>1, <1>2, <2>1, <2>2, KilledTracked
<1>. QED
  BY <1>5, <1>6 DEF ListIInv

\* exit starts at the head of the list.
LEMMA ExitBuiltinList ==
  ASSUME IInv, ListIInv, ExitBuiltin
  PROVE  ListIInv'
<1>0. /\ TypeOK /\ MaskedWhere /\ Unborn /\ LineRecorded /\ \A k \in Job \ astray : Tracked(k)
  BY DEF ListIInv, IInv
<1>1. /\ UNCHANGED <<held, proc, all_background_jobs, all_jobs, suspend_this_job, pending, masked, astray>>
      /\ pc \in Command /\ pc' = "kill" /\ pending = NoSig
      /\ cur' = IF all_background_jobs = <<>> THEN NoJob ELSE all_background_jobs[1].pgid
  BY <1>0, QuietPending DEF ExitBuiltin, AtCommand, children, lists, signals, Command
<1>2. \A k : (Listed(k)' <=> Listed(k)) /\ (Recorded(k)' <=> Recorded(k))
  BY <1>1, ListKept DEF Recorded
<1>3. cur' = NoJob \/ (cur' \in Job /\ Listed(cur'))
  <2>1. CASE all_background_jobs # <<>>
    <3>1. 1 \in DOMAIN all_background_jobs /\ all_background_jobs \in Seq(Entry)
      BY <1>0, <2>1 DEF TypeOK, Entry
    <3>. QED
      BY <1>1, <2>1, <3>1, EntryFields DEF Listed
  <2>. QED
    BY <1>1, <2>1
<1>4. MaskedWhere' /\ Unborn' /\ LineRecorded' /\ ChosenListed'
  BY <1>0, <1>1, <1>2, <1>3, NullAssumption DEF MaskedWhere, Unborn, LineRecorded, ChosenListed, Command
<1>5. ASSUME NEW k \in Job \ astray' PROVE Tracked(k)'
  <2>1. /\ Tracked(k) /\ ~ Passed(k) /\ ~ Passed(k)'
        /\ (StopPending(k)' <=> StopPending(k)) /\ (ExitPending(k)' <=> ExitPending(k))
    BY <1>0, <1>1, <1>5 DEF Passed, StopPending, ExitPending, Command
  <2>. QED
    BY <1>1, <2>1, TrackedStep DEF Launching, Unheard, Excused, Command
<1>. QED
  BY <1>4, <1>5 DEF ListIInv

\* The entry that follows another is an entry.
LEMMA SuccessorListed ==
  ASSUME NEW j
  PROVE  Successor(j) = NoJob \/ Listed(Successor(j))
BY DEF Successor, Listed

\* exit kills the job of an entry and keeps the next one.
LEMMA ExitKillList ==
  ASSUME IInv, ListIInv, ExitKill
  PROVE  ListIInv'
<1>0. /\ TypeOK /\ MaskedWhere /\ Unborn /\ LineRecorded /\ ChosenListed
      /\ \A k \in Job \ astray : Tracked(k)
  BY DEF ListIInv, IInv
<1>1. /\ UNCHANGED <<cur, all_background_jobs, all_jobs, suspend_this_job, pending, masked, astray>>
      /\ pc = "kill" /\ pending = NoSig
  BY <1>0, QuietPending DEF ExitKill, lists, signals
<1>2. \A k : (Listed(k)' <=> Listed(k)) /\ (Recorded(k)' <=> Recorded(k))
  BY <1>1, ListKept DEF Recorded
<1>3. CASE cur = NoJob
  <2>1. UNCHANGED <<held, proc>> /\ pc' = "next"
    BY <1>3 DEF ExitKill, children
  <2>2. MaskedWhere' /\ Unborn' /\ LineRecorded' /\ ChosenListed'
    BY <1>0, <1>1, <1>2, <2>1 DEF MaskedWhere, Unborn, LineRecorded, ChosenListed
  <2>3. ASSUME NEW k \in Job \ astray' PROVE Tracked(k)'
    <3>1. /\ Tracked(k) /\ ~ Passed(k) /\ ~ Passed(k)'
          /\ (StopPending(k)' <=> StopPending(k)) /\ (ExitPending(k)' <=> ExitPending(k))
      BY <1>0, <1>1, <2>1, <2>3 DEF Passed, StopPending, ExitPending
    <3>. QED
      BY <1>1, <2>1, <3>1, TrackedStep DEF Launching, Unheard, Excused
  <2>. QED
    BY <2>2, <2>3 DEF ListIInv
<1>4. CASE cur # NoJob
  <2>1. PICK j \in Job : j = cur
    BY <1>0, <1>4 DEF TypeOK
  <2>2. Kill(j) /\ held' = Successor(j) /\ pc' = "walk"
    BY <1>4, <2>1 DEF ExitKill
  <2>3. /\ \A k \in Job : proc'[k] = "none" <=> proc[k] = "none"
        /\ \A k \in Job : proc[k] \in {"zombie", "gone"} <=> proc'[k] \in {"zombie", "gone"}
    BY <1>0, <2>2 DEF Kill, TypeOK, Live
  <2>4. held' = NoJob \/ Listed(held')
    BY <2>2, SuccessorListed
  <2>5. MaskedWhere' /\ LineRecorded'
    BY <1>0, <1>1, <1>2, <2>2 DEF MaskedWhere, LineRecorded
  <2>6. Unborn'
    BY <1>0, <1>1, <1>2, <2>3, <2>4, NullAssumption DEF Unborn
  <2>7. ChosenListed'
    <3>1. \A k \in {cur} \ (astray \cup {NoJob}) : Listed(k)' \/ proc'[k] \in {"zombie", "gone"}
      BY <1>0, <1>1, <1>2, <2>1, <2>3 DEF ChosenListed
    <3>2. \A k \in {held'} \ {NoJob} : Listed(k)'
      BY <1>2, <2>4
    <3>. QED
      BY <1>1, <2>2, <3>1, <3>2 DEF ChosenListed
  <2>8. ASSUME NEW k \in Job \ astray' PROVE Tracked(k)'
    <3>1. /\ Tracked(k) /\ ~ Passed(k) /\ ~ Passed(k)' /\ ~ Launching(k) /\ ~ Launching(k)'
          /\ ~ Unheard(k)' /\ ~ Excused(k)
      BY <1>0, <1>1, <2>2, <2>8 DEF Passed, Launching, Unheard, Excused
    <3>2. k = j /\ proc[k] \in Live => Listed(k) /\ k \notin suspend_this_job
      BY <1>0, <1>1, <2>1, <2>8, <3>1, ChosenLive
    <3>. QED
      BY <1>0, <1>1, <2>2, <3>1, <3>2, KilledTracked
  <2>. QED
    BY <2>5, <2>6, <2>7, <2>8 DEF ListIInv
<1>. QED
  BY <1>3, <1>4

\* exit steps to the next entry, or reads a freed one.
LEMMA ExitWalkList ==
  ASSUME IInv, ListIInv, ExitWalk
  PROVE  ListIInv'
<1>0. /\ TypeOK /\ MaskedWhere /\ Unborn /\ LineRecorded /\ ChosenListed
      /\ \A k \in Job \ astray : Tracked(k)
  BY DEF ListIInv, IInv
<1>1. /\ UNCHANGED <<proc, all_background_jobs, all_jobs, suspend_this_job, pending, masked, astray>>
      /\ pc = "walk" /\ pc' \in {"kill", "crashed"} /\ held' = NoJob
      /\ cur' = NoJob \/ Listed(cur') \/ cur' = held
  BY SuccessorListed DEF ExitWalk, children, lists, signals
<1>2. \A k : (Listed(k)' <=> Listed(k)) /\ (Recorded(k)' <=> Recorded(k))
  BY <1>1, ListKept DEF Recorded
<1>3. MaskedWhere' /\ Unborn' /\ LineRecorded' /\ ChosenListed'
  BY <1>0, <1>1, <1>2, NullAssumption DEF MaskedWhere, Unborn, LineRecorded, ChosenListed
<1>4. ASSUME NEW k \in Job \ astray' PROVE Tracked(k)'
  <2>1. /\ Tracked(k) /\ ~ Passed(k) /\ ~ Passed(k)'
        /\ (StopPending(k)' <=> StopPending(k)) /\ (ExitPending(k)' <=> ExitPending(k))
    BY <1>0, <1>1, <1>4 DEF Passed, StopPending, ExitPending
  <2>. QED
    BY <1>1, <2>1, TrackedStep DEF Launching, Unheard, Excused
<1>. QED
  BY <1>3, <1>4 DEF ListIInv

\* A child that starts, ends or is stopped.  Its report is pending, or it is lost
\* and the job astray.
LEMMA ChildList ==
  ASSUME IInv, ListIInv, NEW j \in Job, Start(j) \/ Exit(j) \/ Stop(j)
  PROVE  ListIInv'
<1>0. /\ TypeOK /\ MaskedWhere /\ Unborn /\ LineRecorded /\ ChosenListed
      /\ \A k \in Job \ astray : Tracked(k)
  BY DEF ListIInv, IInv
<1>1. /\ UNCHANGED <<pc, cur, held, all_background_jobs, all_jobs, suspend_this_job, masked>>
      /\ proc[j] \in {"forked", "running", "dying"}
      /\ \/ /\ proc[j] = "forked" /\ proc' = [proc EXCEPT ![j] = "running"]
            /\ UNCHANGED <<pending, astray>>
         \/ /\ proc' = [proc EXCEPT ![j] = "zombie"] /\ proc[j] \in {"running", "dying"}
            /\ \/ pending = NoSig /\ pending' = [job |-> j, code |-> "exited"] /\ astray' = astray
               \/ pending # NoSig /\ pending' = pending /\ astray' = astray \cup {j}
         \/ /\ proc' = [proc EXCEPT ![j] = "stopped"] /\ proc[j] = "running"
            /\ \/ pending = NoSig /\ pending' = [job |-> j, code |-> "stopped"] /\ astray' = astray
               \/ pending # NoSig /\ pending' = pending /\ astray' = astray \cup {j}
  BY DEF Start, Exit, Stop, Post, shell, lists, signals
<1>2. /\ \A k \in Job \ {j} : proc'[k] = proc[k]
      /\ \A k \in Job : proc'[k] = "none" <=> proc[k] = "none"
      /\ \A k \in Job : proc[k] \in {"zombie", "gone"} => proc'[k] \in {"zombie", "gone"}
      /\ astray \subseteq astray' /\ astray' \subseteq astray \cup {j}
      /\ pending' = pending \/ (pending = NoSig /\ pending'.job = j /\ pending' # NoSig)
  BY <1>0, <1>1, SigAssumption DEF TypeOK, Code
<1>3. \A k : (Listed(k)' <=> Listed(k)) /\ (Recorded(k)' <=> Recorded(k))
  BY <1>1, ListKept DEF Recorded
<1>4. MaskedWhere' /\ LineRecorded'
  BY <1>0, <1>1, <1>3 DEF MaskedWhere, LineRecorded
<1>5. Unborn'
  BY <1>0, <1>1, <1>2, <1>3 DEF Unborn
<1>6. ChosenListed'
  <2>1. cur \in Job \cup {NoJob} /\ held \in Job \cup {NoJob}
    BY <1>0 DEF TypeOK
  <2>2. \A k \in Job \ astray' : Listed(k) \/ proc[k] \in {"zombie", "gone"} =>
                               Listed(k)' \/ proc'[k] \in {"zombie", "gone"}
    BY <1>2, <1>3
  <2>. QED
    BY <1>0, <1>1, <1>2, <2>1, <2>2 DEF ChosenListed
<1>7. ASSUME NEW k \in Job \ astray' PROVE Tracked(k)'
  <2>1. /\ Tracked(k) /\ (Passed(k)' <=> Passed(k))
        /\ (Launching(k)' <=> Launching(k)) /\ (Unheard(k)' <=> Unheard(k))
        /\ Excused(k) => Excused(k)'
    BY <1>0, <1>1, <1>2, <1>7 DEF Passed, Launching, Unheard, Excused
  <2>2. CASE k # j
    <3>1. (StopPending(k)' <=> StopPending(k)) /\ (ExitPending(k)' <=> ExitPending(k))
      BY <1>1, <2>2, SigAssumption DEF StopPending, ExitPending, Code
    <3>. QED
      BY <1>1, <1>2, <2>1, <2>2, <3>1, TrackedStep
  <2>3. CASE k = j
    <3>1. k \notin suspend_this_job /\ k \notin suspend_this_job'
      BY <1>1, <2>1, <2>3 DEF Tracked
    <3>2. (~ StopPending(k) /\ ~ ExitPending(k)) \/ (proc[k] \in {"stopped", "zombie"})
      BY <2>1 DEF Tracked
    <3>3. \/ proc'[k] = "running" /\ proc[k] = "forked" /\ ~ StopPending(k)' /\ ~ ExitPending(k)'
          \/ proc'[k] = "zombie" /\ ~ StopPending(k)' /\ ExitPending(k)'
          \/ proc'[k] = "stopped" /\ proc[k] = "running" /\ StopPending(k)' /\ ~ ExitPending(k)'
      BY <1>0, <1>1, <1>7, <2>3, <3>2 DEF StopPending, ExitPending, TypeOK
    <3>4. (Once(k)' <=> Once(k)) /\ (Marked(k, "running")' <=> Marked(k, "running"))
      BY <1>1, ListKept
    <3>5. proc[k] \in Live
      BY <1>1, <2>3 DEF Live
    <3>. QED
      BY <1>3, <2>1, <3>1, <3>3, <3>4, <3>5 DEF Tracked, Live
  <2>. QED
    BY <2>2, <2>3
<1>. QED
  BY <1>4, <1>5, <1>6, <1>7 DEF ListIInv

\* The handler has the signal of j, whose process is as the signal says; the
\* entry or the flag follows.
LEMMA HandlerList ==
  ASSUME IInv, ListIInv, ChildReturning
  PROVE  ListIInv'
<1>0. /\ TypeOK /\ MaskedWhere /\ Unborn /\ LineRecorded /\ ChosenListed
      /\ \A k \in Job \ astray : Tracked(k)
      /\ all_background_jobs \in Seq(Entry)
  BY DEF ListIInv, IInv, TypeOK, Entry
<1>1. PICK j \in Job, code \in Code : pending = [job |-> j, code |-> code]
  BY <1>0 DEF ChildReturning, TypeOK
<1>2. /\ UNCHANGED <<pc, cur, held, proc, all_jobs, masked>> /\ ~ masked /\ pending' = NoSig
      /\ astray' = IF Overlooked(j) /\ code # "continued" THEN astray \cup {j} ELSE astray
      /\ \/ /\ code = "exited"
            /\ all_background_jobs' = Trimmed(j) /\ suspend_this_job' = suspend_this_job
         \/ /\ code = "stopped" /\ Listed(j) /\ suspend_this_job' = suspend_this_job
            /\ all_background_jobs' = [all_background_jobs EXCEPT ![Position(j)].status = "suspended"]
         \/ /\ code = "stopped" /\ ~ Listed(j) /\ all_background_jobs' = all_background_jobs
            /\ suspend_this_job' = IF Recorded(j) THEN suspend_this_job \cup {j} ELSE suspend_this_job
         \/ /\ code = "continued"
            /\ all_background_jobs' = all_background_jobs /\ suspend_this_job' = suspend_this_job
  BY <1>1 DEF ChildReturning, Reported, Suspended, shell, children
<1>3. pc \notin {"traverse", "link", "bgcont", "bgset"}
  BY <1>0, <1>2 DEF MaskedWhere
<1>4. /\ \A k : Listed(k)' => Listed(k)
      /\ \A k : k # j => (Listed(k) => Listed(k)')
      /\ code # "exited" => (Listed(j) => Listed(j)')
  BY <1>0, <1>2, ListTrimmed, ListSuspended, ListKept
<1>5. \A k : Recorded(k)' <=> Recorded(k)
  BY <1>2 DEF Recorded
<1>6. MaskedWhere'
  BY <1>0, <1>2 DEF MaskedWhere
<1>7. proc[j] # "none"
  BY <1>0, <1>1, SigAssumption DEF Unborn
<1>8. Unborn'
  BY <1>0, <1>2, <1>4, <1>5, <1>7 DEF Unborn
<1>9. LineRecorded'
  BY <1>0, <1>2, <1>5 DEF LineRecorded
<1>10. ASSUME NEW k \in Job \ astray' PROVE Tracked(k)
  BY <1>0, <1>2, <1>10
<1>11. ChosenListed'
  <2>1. cur \in Job \cup {NoJob} /\ held \in Job \cup {NoJob} /\ astray \subseteq astray'
    BY <1>0, <1>2 DEF TypeOK
  <2>2. ASSUME NEW k \in Job \ astray', Listed(k) \/ proc[k] \in {"zombie", "gone"}
        PROVE  Listed(k)' \/ proc'[k] \in {"zombie", "gone"}
    <3>1. k = j /\ code = "exited" => proc[k] = "zombie"
      BY <1>1, <1>10, <2>2 DEF Tracked, ExitPending
    <3>. QED
      BY <1>2, <1>4, <2>2, <3>1
  <2>. QED
    BY <1>0, <1>2, <2>1, <2>2 DEF ChosenListed
<1>12. ASSUME NEW k \in Job \ astray' PROVE Tracked(k)'
  <2>1. /\ Tracked(k) /\ (Passed(k)' <=> Passed(k))
        /\ (Launching(k)' <=> Launching(k)) /\ (Unheard(k)' <=> Unheard(k))
        /\ (Excused(k)' <=> Excused(k))
        /\ ~ StopPending(k)' /\ ~ ExitPending(k)'
    BY <1>2, <1>3, <1>10, <1>12, SigAssumption
       DEF Passed, Launching, Unheard, Excused, StopPending, ExitPending, Code
  <2>2. Once(k)'
    BY <1>0, <1>2, <2>1, ListTrimmed, ListSuspended, ListKept DEF Tracked
  <2>3. CASE k # j
    <3>1. ~ StopPending(k) /\ ~ ExitPending(k)
      BY <1>1, <2>3 DEF StopPending, ExitPending
    <3>2. /\ Marked(k, "running") => Marked(k, "running")'
          /\ Marked(k, "suspended") => Marked(k, "suspended")'
      BY <1>0, <1>2, <2>3, ListTrimmed, ListSuspended, ListKept
    <3>3. k \in suspend_this_job' <=> k \in suspend_this_job
      BY <1>2, <2>3
    <3>4. proc'[k] = proc[k] /\ (Listed(k)' <=> Listed(k))
      BY <1>2, <1>4, <2>3
    <3>5. (cur' = k /\ pc' = "bgset") => (cur = k /\ pc = "bgset")
      BY <1>2
    <3>. QED
      BY <2>1, <2>2, <3>1, <3>2, <3>3, <3>4, <3>5, TrackedFrame
  <2>4. CASE k = j /\ code = "exited"
    <3>1. proc'[k] = "zombie" /\ k \notin suspend_this_job /\ k \notin suspend_this_job'
      BY <1>1, <1>2, <2>1, <2>4 DEF Tracked, ExitPending
    <3>2. ~ Listed(k)'
      BY <1>0, <1>2, <2>1, <2>4, ListTrimmed DEF Tracked
    <3>3. ~ Unheard(k)'
      BY <1>2, <1>3, <1>12, <2>1, <2>4 DEF Overlooked, Unheard
    <3>. QED
      BY <2>1, <2>2, <3>1, <3>2, <3>3 DEF Tracked, Live
  <2>5. CASE k = j /\ code = "stopped"
    <3>1. proc[k] = "stopped" /\ proc'[k] = "stopped" /\ k \notin suspend_this_job
      BY <1>1, <1>2, <2>1, <2>5 DEF Tracked, StopPending
    <3>2. ~ Unheard(k) /\ ~ Unheard(k)' /\ ~ (cur' = k /\ pc' = "bgset")
      BY <1>2, <1>3, <1>12, <2>1, <2>5 DEF Overlooked, Unheard
    <3>3. CASE Listed(k)
      <4>1. Listed(k)' /\ Marked(k, "suspended")' /\ k \notin suspend_this_job'
        BY <1>0, <1>2, <2>1, <2>5, <3>1, <3>3, ListSuspended DEF Tracked
      <4>. QED
        BY <2>1, <2>2, <3>1, <3>2, <3>3, <4>1 DEF Tracked
    <3>4. CASE ~ Listed(k)
      <4>1. Launching(k)
        BY <2>1, <3>1, <3>4 DEF Tracked, Live
      <4>2. pc \in {"give", "wait"} /\ Recorded(k) /\ ~ Passed(k)
        BY <1>0, <3>2, <4>1 DEF Launching, Unheard, LineRecorded, Passed
      <4>3. k \in suspend_this_job' /\ ~ Listed(k)'
        BY <1>2, <1>4, <2>5, <3>4, <4>2
      <4>. QED
        BY <2>1, <2>2, <3>1, <3>2, <4>2, <4>3 DEF Tracked
    <3>. QED
      BY <3>3, <3>4
  <2>6. CASE code = "continued"
    <3>1. ~ StopPending(k) /\ ~ ExitPending(k)
      BY <1>1, <2>6 DEF StopPending, ExitPending
    <3>. QED
      BY <1>2, <2>1, <2>6, <3>1, TrackedStep
  <2>. QED
    BY <2>3, <2>4, <2>5, <2>6 DEF Code
<1>. QED
  BY <1>6, <1>8, <1>9, <1>11, <1>12 DEF ListIInv

\* No job is launched at first.
LEMMA InitList == Init => ListIInv
<1> SUFFICES ASSUME Init PROVE ListIInv
  OBVIOUS
<1>1. \A k : ~ Listed(k) /\ ~ Recorded(k)
  BY DEF Init, Listed, Recorded
<1>2. MaskedWhere /\ Unborn /\ LineRecorded /\ ChosenListed
  BY <1>1, NullAssumption DEF Init, MaskedWhere, Unborn, LineRecorded, ChosenListed
<1>3. ASSUME NEW k \in Job PROVE Tracked(k)
  <2>1. /\ proc[k] = "none" /\ k \notin suspend_this_job
        /\ ~ Launching(k) /\ ~ StopPending(k) /\ ~ ExitPending(k)
    BY SigAssumption DEF Init, Launching, StopPending, ExitPending, Code
  <2>. QED
    BY <1>1, <2>1, Unlisted DEF Tracked, Live
<1>. QED
  BY <1>2, <1>3 DEF ListIInv

\* Every step of the shell, of its handler and of the children.
LEMMA StepList == IInv /\ ListIInv /\ [Next]_vars => ListIInv'
<1> SUFFICES ASSUME IInv, ListIInv, [Next]_vars PROVE ListIInv'
  OBVIOUS
<1>1. CASE LaunchJob
  BY <1>1, LaunchList, RecordList, GiveTerminalList, WaitList, BlockList, TraverseList, LinkList
     DEF LaunchJob
<1>2. CASE MainLoop
  BY <1>2, EndLineList, PassOverList, FindTailList, AddSuspendedList, FinishLineList DEF MainLoop
<1>3. CASE Builtin
  BY <1>3, ChooseList, FgTerminalList, FgContinueList, FgWaitList, BgBlockList, BgContinueList,
     BgRunningList, BgScanList, Kill9List, ExitBuiltinList, ExitKillList, ExitWalkList
     DEF Builtin, Fg, Bg
<1>4. CASE Children
  BY <1>4, ChildList DEF Children
<1>5. CASE ChildReturning
  BY <1>5, HandlerList
<1>6. CASE UNCHANGED vars
  <2>1. UNCHANGED <<pc, cur, held, proc, all_background_jobs, all_jobs, suspend_this_job,
                    pending, masked, astray>>
    BY <1>6 DEF vars, shell, children, lists, signals
  <2>2. /\ MaskedWhere /\ Unborn /\ LineRecorded /\ ChosenListed
        /\ \A k \in Job \ astray : Tracked(k)
    BY DEF ListIInv
  <2>3. \A k : (Listed(k)' <=> Listed(k)) /\ (Recorded(k)' <=> Recorded(k))
    BY <2>1, ListKept DEF Recorded
  <2>4. MaskedWhere' /\ Unborn' /\ LineRecorded' /\ ChosenListed'
    BY <2>1, <2>2, <2>3 DEF MaskedWhere, Unborn, LineRecorded, ChosenListed
  <2>5. ASSUME NEW k \in Job \ astray' PROVE Tracked(k)'
    BY <2>1, <2>2, <2>5, TrackedStep DEF Launching, Unheard, Excused, Passed, StopPending, ExitPending
  <2>. QED
    BY <2>4, <2>5 DEF ListIInv
<1>. QED
  BY <1>1, <1>2, <1>3, <1>4, <1>5, <1>6 DEF Next

-----------------------------------------------------------------------------
\* Launches, stops, bg, fg, kills and exits of any number of jobs, and their
\* SIGCHLDs, keep entries, flags, processes and the pending signal in step.
THEOREM ListInvariant == Spec => []ListIInv
BY InitList, InitInvariant, StepInvariant, StepList, PTL DEF Spec

\* At the prompt, no job is flagged and no signal pending, so the entry of a
\* job alone says how it is.
LEMMA ListIInvAccurate == IInv /\ ListIInv => ListAccurate
<1> SUFFICES ASSUME IInv, ListIInv, pc = "prompt", pending = NoSig, NEW j \in Job \ astray
             PROVE  ListedRight(j)
  BY DEF ListAccurate
<1>1. Tracked(j) /\ LineRecorded /\ Unborn /\ TypeOK
  BY DEF ListIInv, IInv
<1>2. j \notin suspend_this_job
  BY <1>1 DEF LineRecorded, Recorded
<1>3. ~ Launching(j) /\ ~ Excused(j) /\ ~ StopPending(j) /\ ~ ExitPending(j)
  BY SigAssumption DEF Launching, Excused, StopPending, ExitPending, Code
<1>4. Listed(j) <=> Entries(j) # {}
  BY DEF Listed, Entries
<1>5. CASE proc[j] \in Live
  <2>1. Listed(j) /\ Once(j)
    BY <1>1, <1>2, <1>3, <1>5 DEF Tracked
  <2>2. PICK i \in Entries(j) : Entries(j) = {i}
    BY <1>4, <2>1 DEF Once
  <2>3. CASE proc[j] = "stopped"
    <3>1. all_background_jobs[i].status = "suspended"
      BY <1>1, <1>3, <2>1, <2>3 DEF Tracked, Marked
    <3>. QED
      BY <1>5, <2>2, <2>3, <3>1 DEF ListedRight
  <2>4. CASE proc[j] \in {"forked", "running"}
    <3>1. all_background_jobs[i].status = "running"
      BY <1>1, <1>3, <2>4 DEF Tracked, Marked
    <3>. QED
      BY <1>5, <2>2, <2>4, <3>1 DEF ListedRight
  <2>5. CASE proc[j] = "dying"
    BY <1>5, <2>2, <2>5 DEF ListedRight
  <2>. QED
    BY <1>5, <2>3, <2>4, <2>5 DEF Live
<1>6. CASE proc[j] \notin Live
  <2>1. proc[j] \in {"none", "zombie", "gone"}
    BY <1>1, <1>6 DEF TypeOK
  <2>2. ~ Listed(j)
    BY <1>1, <1>3, <2>1 DEF Tracked, Unborn
  <2>. QED
    BY <1>4, <1>6, <2>2 DEF ListedRight
<1>. QED
  BY <1>5, <1>6

\* jobs, fg and bg at the prompt see a list that is right about every job whose
\* reports all came in time.
THEOREM ListStaysAccurate == Spec => []ListAccurate
BY ListInvariant, JobInvariant, ListIInvAccurate, PTL
=============================================================================
