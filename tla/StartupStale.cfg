\* sparc, two processes, two runs.
CONSTANTS
  N = 2
  Arch = "sparc"
  MaxRuns = 2
  MaxSent = 1
SPECIFICATION Spec
INVARIANT NothingErased
\* The last run ends.
CHECK_DEADLOCK FALSE
