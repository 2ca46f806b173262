SPECIFICATION Spec
CONSTANTS
  Procs = {1, 2}
  Inums = {1, 2, 3, 4}
  Names = {"a", "b", "s1", "s2"}
  SwapName <- MCSwapName
  DirName = "a"
  FileName = "b"
  Calls <- MCCalls
  MaxCalls = 3
INVARIANT UnlinkedIsFreed
CHECK_DEADLOCK FALSE
