SPECIFICATION FairSpec
PROPERTIES ShellRestarted SleepReturns SleeperWakes AllSent
CHECK_DEADLOCK FALSE
