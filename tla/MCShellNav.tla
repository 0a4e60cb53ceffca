------------------------------- MODULE MCShellNav -------------------------------
\* TLC instance of ShellNav: what the user types.
EXTENDS ShellNav

Type(op, paths)    == {[op |-> op, abs |-> FALSE, path |-> p] : p \in paths}
TypeAbs(op, paths) == {[op |-> op, abs |-> TRUE, path |-> p] : p \in paths}

\* Directories are made below each other and beside each other; a file is written
\* in the working directory, removed and read where the path leads.
NavCommands ==
  Type("cd", {<<"d">>, <<"..">>}) \cup TypeAbs("cd", {<<"d", "d", "d">>})
    \cup Type("mkdir", {<<"d">>, <<"..", "d">>})
    \cup Type("pwd", {<<>>}) \cup Type("ls", {<<>>}) \cup Type("exit", {<<>>})
    \cup Type("redirect", {<<"f">>}) \cup Type("cat", {<<"d", "d", "f">>})
    \cup Type("rm", {<<"d", "d", "f">>}) \cup TypeAbs("rmdir", {<<"d", "d">>})
NoCalls == {}
================================================================================
