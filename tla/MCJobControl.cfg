\* The shell ends with exit: no step is left then.
CHECK_DEADLOCK FALSE
SPECIFICATION FairSpec
CONSTANTS
  Job = {a, c}
  Cat = {c}
  Shell = Shell
  NoJob = NoJob
  NoSig = NoSig
INVARIANTS TypeOK ShellHasTerminal ListAccurate IInv ListIInv
PROPERTY ShellReturns
