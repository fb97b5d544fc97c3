\* As many scrapes of locked tokens as slots: the calls do stop for good here.
SPECIFICATION FairSpec
CONSTANTS
  Slots = {s1, s2}
  Writers = {w1}
  Counters = {c1}
  Lockers = {l1, l2}
  Addresses = {a1}
  Nobody = Nobody
PROPERTY CallsEnd
CHECK_DEADLOCK FALSE
