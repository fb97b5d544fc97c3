SPECIFICATION Spec
CONSTANTS
  g1 = g1
  g2 = g2
  NoOne = NoOne
  Goroutines <- MCGoroutines
  Files <- MCFiles
  Symbols <- MCSymbols
  FileOf <- MCFileOf
  Deps <- MCDeps
  Answers <- MCAnswers
  Wants <- MCOwnWants
  Reliable = TRUE
INVARIANTS
  MissIsFetched
