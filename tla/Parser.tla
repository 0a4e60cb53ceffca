---------------------------------- MODULE Parser ----------------------------------
(***************************************************************************)
(* From the line typed to the commands run: perform_parse and the body of  *)
(* main's loop.                                                            *)
(*                                                                         *)
(* A line is a sequence of lexemes: words, blanks and the delimiters.  The *)
(* tokenizer cuts it behind each delimiter, every piece becomes a job, and *)
(* the redirection found in the line is that of all of them.  main then    *)
(* runs the jobs in turn; with a redirection it runs the first one, and    *)
(* takes the others for the names of files.                                *)
(*                                                                         *)
(* launchJob itself is JobControl's, the file written ShellNav's (the      *)
(* command "redirect") and FileData's.                                     *)
(***************************************************************************)
EXTENDS Integers, Sequences, FiniteSets

SX == INSTANCE SequencesExt

CONSTANTS
  Word,      \* the words of a line
  MaxLine    \* bound on the lexemes of a line

Deliminators == {"&", ";", ">", "<"}
Lexeme == Word \cup Deliminators \cup {" "}

ASSUME LexemesAssumption ==
  /\ Word \cap (Deliminators \cup {" ", "NULL"}) = {}
  /\ MaxLine \in Nat \ {0}

\* Two words in a row would be one.
Lines == {s \in UNION {[1 .. n -> Lexeme] : n \in 0 .. MaxLine} :
            \A i \in 1 .. Len(s) - 1 : {s[i], s[i + 1]} \cap Word # {s[i], s[i + 1]}}

VARIABLES
  pc,
  line,      \* the line read
  pos,       \* t->pos
  all_jobs,  \* the list of jobs
  at,        \* the job worked on: temp_job, then currentJob
  ran,       \* history: <<arguments, in background>> of each job launched for this line
  wrote      \* history: <<file, access>> its output went to

vars == <<pc, line, pos, all_jobs, at, ran, wrote>>

Init ==
  /\ pc = "prompt" /\ line = <<>> /\ pos = 1 /\ all_jobs = <<>> /\ at = 1
  /\ ran = <<>> /\ wrote = <<>>

--------------------------------------------------------------------------------
\* perform_parse

\* get_next_token: up to the next delimiter, which is part of the token, or up to
\* the end of the line.
TokenEnd ==
  CHOOSE k \in pos .. Len(line) :
    /\ line[k] \in Deliminators \/ k = Len(line)
    /\ \A i \in pos .. k - 1 : line[i] \notin Deliminators

\* which_is_contained, asked of the whole line: the first sign decides.
Redirection(s) ==
  LET signs == {i \in 1 .. Len(s) : s[i] \in {"<", ">"}}
      i     == CHOOSE k \in signs : \A j \in signs : k <= j
  IN  CASE signs = {} -> "NONE"
        [] signs # {} /\ s[i] = "<" -> "INPUT"
        [] signs # {} /\ s[i] = ">" -> IF i < Len(s) /\ s[i + 1] = ">" THEN "APND" ELSE "OVERWRITE"

\* A final &, ; or > is taken off; < goes when the words are split.
Stripped(token) == IF SX!Last(token) \in {"&", ";", ">"} THEN SX!Front(token) ELSE token

\* Mutant of MakeJob: a job is in the background when the line has an ampersand.
MakeJobLineBackground(token) ==
  [job_string |-> Stripped(token), pass |-> SX!ToSet(token) \cap Word = {},
   run_in_background |-> \E i \in DOMAIN line : line[i] = "&", args |-> <<>>]

MakeJob(token) ==
  [job_string        |-> Stripped(token),
   pass              |-> SX!ToSet(token) \cap Word = {},
   run_in_background |-> SX!Last(token) = "&",
   args              |-> <<>>]

\* An empty line makes no jobs.
Read ==
  /\ pc = "prompt"
  /\ line' \in Lines
  /\ pc' = IF line' = <<>> THEN "prompt" ELSE "token"
  /\ UNCHANGED <<pos, all_jobs, at, ran, wrote>>

\* One token, one job; a ">" that is a token by itself is the second of ">>", or
\* the line begins with it, or follows another delimiter.
NextToken ==
  LET token == SubSeq(line, pos, TokenEnd)
  IN
  /\ pc = "token"
  /\ \/ /\ pos <= Len(line)
        /\ all_jobs' = IF token = <<">">> THEN all_jobs ELSE Append(all_jobs, MakeJob(token))
        /\ pos' = TokenEnd + 1
        /\ UNCHANGED pc
     \/ /\ pos > Len(line)
        /\ pc' = IF all_jobs = <<>> THEN "fault" ELSE "split"    \* next_job->next_job of NULL
        /\ UNCHANGED <<all_jobs, pos>>
  /\ UNCHANGED <<line, at, ran, wrote>>

\* split_white_space, job by job.
Split ==
  LET Args(text) == SelectSeq(text, LAMBDA c : c \notin {" ", "<"})
  IN
  /\ pc = "split"
  /\ all_jobs' = [all_jobs EXCEPT ![at].args = Args(all_jobs[at].job_string)]
  /\ IF at = Len(all_jobs) THEN pc' = "run" /\ at' = 1 ELSE at' = at + 1 /\ UNCHANGED pc
  /\ UNCHANGED <<line, pos, ran, wrote>>

--------------------------------------------------------------------------------
\* main

\* args[0], NULL for a job without words.
FirstArg(job) == IF job.args = <<>> THEN "NULL" ELSE Head(job.args)

\* What execvp sees of an array of arguments.
UpToNull(array) ==
  SubSeq(array, 1, CHOOSE n \in 0 .. Len(array) :
                     /\ \A i \in 1 .. n : array[i] # "NULL"
                     /\ n = Len(array) \/ array[n + 1] = "NULL")

Launched(job) == IF job.pass THEN ran ELSE Append(ran, <<job.args, job.run_in_background>>)

\* No redirection: the jobs one after the other.
RunNext ==
  /\ pc = "run" /\ Redirection(line) = "NONE"
  /\ ran' = Launched(all_jobs[at])
  /\ IF at = Len(all_jobs) THEN pc' = "free" /\ UNCHANGED at ELSE at' = at + 1 /\ UNCHANGED pc
  /\ UNCHANGED <<line, pos, all_jobs, wrote>>

\* "<": the first word of job i becomes argument i of the first job, whatever was
\* there, and the first job is run.
RunInput ==
  LET first == all_jobs[1]
      n     == Len(all_jobs)
      array == [i \in 1 .. IF Len(first.args) > n THEN Len(first.args) ELSE n |->
                  IF i <= n THEN FirstArg(all_jobs[i]) ELSE first.args[i]]
  IN
  /\ pc = "run" /\ Redirection(line) = "INPUT"
  /\ all_jobs' = [all_jobs EXCEPT ![1].args = UpToNull(array)]
  /\ ran' = Launched(all_jobs'[1])
  /\ pc' = "free"
  /\ UNCHANGED <<line, pos, at, wrote>>

\* ">" and ">>": the first job is run into output.txt.
RunOutput ==
  /\ pc = "run" /\ Redirection(line) \in {"APND", "OVERWRITE"}
  /\ ran' = Launched(all_jobs[1])
  /\ pc' = "copy"
  /\ UNCHANGED <<line, pos, all_jobs, at, wrote>>

\* Mutant of Output: the second job names the file.
OutputSecond == IF Len(all_jobs) > 1 THEN FirstArg(all_jobs[2]) ELSE FirstArg(all_jobs[1])

\* The last job names the file.
Output == FirstArg(SX!Last(all_jobs))

\* output.txt is copied into it; strlen(NULL) ends the program.
CopyOutput ==
  /\ pc = "copy"
  /\ \/ /\ Output = "NULL"
        /\ pc' = "fault"
        /\ UNCHANGED wrote
     \/ /\ Output # "NULL"
        /\ wrote' = <<Output, IF Redirection(line) = "APND" THEN "APPEND" ELSE "WRITE">>
        /\ pc' = "free"
  /\ UNCHANGED <<line, pos, all_jobs, at, ran>>

\* free_all_jobs; nothing of a line is left for the next one.
FreeAllJobs ==
  /\ pc = "free"
  /\ pc' = "prompt" /\ line' = <<>> /\ pos' = 1 /\ all_jobs' = <<>> /\ at' = 1
  /\ ran' = <<>> /\ wrote' = <<>>

Next == Read \/ NextToken \/ Split \/ RunNext \/ RunInput \/ RunOutput \/ CopyOutput \/ FreeAllJobs

Spec == Init /\ [][Next]_vars

--------------------------------------------------------------------------------
(* Properties: what a line means, read off the places of its delimiters *)

Among(i, j) == SelectSeq(SubSeq(line, i, j), LAMBDA c : c \in Word)
Cuts == {i \in 1 .. Len(line) : line[i] \in Deliminators}
PieceStart(k) == 1 + SX!Max({0} \cup {i \in Cuts : i < k})

\* Without a redirection: the commands between the delimiters, each once and in
\* order, in the background if an ampersand follows.
Commands ==
  LET ends == {k \in Cuts \cup {Len(line)} : Among(PieceStart(k), k) # <<>>}
  IN  [k \in 1 .. Cardinality(ends) |->
         LET e == SX!SetToSortSeq(ends, LAMBDA a, b : a < b)[k]
         IN  <<Among(PieceStart(e), e), line[e] = "&">>]

\* A command, one sign of redirection (">>" counts as one) and one word.
Sign == IF Redirection(line) = "APND" THEN 2 ELSE 1
Redirected ==
  \E k \in Cuts :
    /\ line[k] \in {"<", ">"} /\ Cuts = k .. k + Sign - 1
    /\ Among(1, k) # <<>> /\ Len(Among(k, Len(line))) = 1

\* A line of commands runs them as Commands says and writes no file.  A command
\* with one redirection is run alone, in the foreground: its output goes to the
\* file named, to the end of it for ">>"; a file given with "<" becomes its first
\* argument, in place of the one typed.
LineMeans ==
  pc = "free" =>
    /\ Cuts \subseteq {i \in Cuts : line[i] \in {"&", ";"}} => ran = Commands /\ wrote = <<>>
    /\ Redirected =>
         LET k    == SX!Min(Cuts)
             file == Among(k, Len(line))[1]
         IN  IF line[k] = "<"
             THEN /\ ran = <<<<[i \in 1 .. SX!Max({2, Len(Among(1, k))}) |->
                                  IF i = 2 THEN file ELSE Among(1, k)[i]], FALSE>>>>
                  /\ wrote = <<>>
             ELSE /\ ran = <<<<Among(1, k), FALSE>>>>
                  /\ wrote = <<file, IF Sign = 2 THEN "APPEND" ELSE "WRITE">>

\* The shell ends itself on two kinds of lines only: there is nothing but ">", or
\* output is redirected and the line ends in a blank or a delimiter.
ParserFaults ==
  pc = "fault" =>
    \/ SX!ToSet(line) = {">"}
    \/ /\ Redirection(line) \in {"APND", "OVERWRITE"}
       /\ SX!Last(line) \notin Word
================================================================================
