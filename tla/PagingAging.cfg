SPECIFICATION Spec
CONSTANTS
  MAX_TOTAL_PAGES = 4
  Procs = {1, 2, 3}
  Frames = {f1, f2, f3, f4, f5, f6, f7}
  NoFrame = NoFrame
  MAX_PSYC_PAGES = 2
  SELECTION = "LAPA"
  FirstCandidate = 1
  TopBit = 2
  ShPages = 1
  Images = {1}
  MaxGrow = 1
  Versions = {1}
  Calls <- LoadCalls
VIEW ShapeAndContents
INVARIANTS Transparent NoPanic
