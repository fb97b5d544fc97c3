SPECIFICATION FairSpec
CONSTANTS
  g1 = g1
  g2 = g2
  NoOne = NoOne
  Goroutines <- MCGoroutines
  Files <- MCFiles
  Symbols <- MCSymbols
  FileOf <- MCFileOf
  Deps <- MCDeps
  Answers <- MCAnswers
  Wants <- MCWants
  Reliable = FALSE
INVARIANTS
  TypeOK
  LockHeldInside
  ImportsRegistered
  MarkHasReason
  ConflictNeedsAnother
PROPERTIES
  LookupEnds
