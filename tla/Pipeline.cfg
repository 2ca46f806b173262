SPECIFICATION FairSpec
CONSTANTS
  Procs = {1, 2, 3, 4, 5}
  NFILE = 4
  NOFILE = 5
  Pipes = {1, 2}
  PIPESIZE = 2
  UintRange = 4
  Commands <- MCCommands
  MaxKills = 1
INVARIANT FilesCounted
PROPERTIES EofIsFinal PipeIsStream BackAtPrompt
CHECK_DEADLOCK FALSE
