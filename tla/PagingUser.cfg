SPECIFICATION UserSpec
CONSTANTS
  MAX_TOTAL_PAGES = 4
  Procs = {1, 2, 3}
  Frames = {f1, f2, f3, f4, f5, f6, f7}
  NoFrame = NoFrame
  MAX_PSYC_PAGES = 1
  SELECTION = "SCFIFO"
  FirstCandidate = 0
  TopBit = 1
  ShPages = 1
  Images = {1}
  MaxGrow = 2
  Versions = {1, 2}
  Calls <- LoadCalls
INVARIANTS Transparent OnlyNfuaPanics
PROPERTY FaultsServed
