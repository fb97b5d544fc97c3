SPECIFICATION FairSpec
CONSTANTS
  a = a
  b = b
  c = c
  s1 = s1
  s2 = s2
  Files <- MCFiles
  Services = {s1, s2}
  FileOf <- MCFileOf
  Nodes <- MCNodes
  Invalid = {c}
  MaxAttempts = 3
INVARIANTS
  TypeOK
  SortedByImports
  RecursionBounded
PROPERTIES
  AllOrNothing
  StartupEnds
