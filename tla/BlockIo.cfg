SPECIFICATION FairSpec
CONSTANTS
  NCALLS = 3
  BlockNos = {1, 2, 3, 4, 5, 6}
  Held <- MCHeld
  NBUF = 3
  NUM = 7
  IdxRange = 14
  StartIdx = {13}
  Calls <- MCCalls
INVARIANTS
  CacheCoherent
  DescriptorsSound
PROPERTIES
  CallsReturn
CHECK_DEADLOCK FALSE
