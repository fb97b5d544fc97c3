SPECIFICATION FairSpec
CONSTANTS
  Slots = {s1, s2, s3}
  Writers = {w1}
  Counters = {c1}
  Lockers = {l1, l2}
  Addresses = {a1, a2}
  Nobody = Nobody
INVARIANTS
  TypeOK
  HoldsAsOpen
  NeverAllWaiting
PROPERTIES
  CallsEnd
  CloseEnds
