\* The shell ends with exit: no step is left then.
CHECK_DEADLOCK FALSE
SPECIFICATION Spec
CONSTANTS
  Job = {a, c}
  Cat = {c}
  Shell = Shell
  NoJob = NoJob
  NoSig = NoSig
INVARIANT FinishedJobsLeave
