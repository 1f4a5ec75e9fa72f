SPECIFICATION FairSpec
CONSTANTS
  Workers = {w1, w2, w3}
  Items <- MCItems
  Keys <- MCKeys
  KeyOf <- MCKeyOf
  Start <- MCStart
  NoItem = NoItem
INVARIANTS
  NoLostWakeup
PROPERTIES
  ImplementsFrontier
CHECK_DEADLOCK FALSE
