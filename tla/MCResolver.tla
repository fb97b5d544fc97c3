------------------------------ MODULE MCResolver ------------------------------
\* Two files that import a third, which imports a fourth: the recursion is two
\* deep, and two goroutines with different types meet in the files below.  A
\* node may answer with the file alone or with everything it imports.
EXTENDS Resolver

CONSTANTS g1, g2

MCGoroutines == {g1, g2}
MCFiles == {"x", "y", "common", "base"}
MCSymbols == {"X", "Y"}
MCFileOf == [s \in MCSymbols |-> IF s = "X" THEN "x" ELSE "y"]
MCDeps == [f \in MCFiles |->
  CASE f \in {"x", "y"} -> {"common"}
    [] f = "common" -> {"base"}
    [] f = "base" -> {}]
MCAnswers == [f \in MCFiles |->
  CASE f \in {"x", "y"} -> {<<f>>, <<f, "common", "base">>}
    [] f = "common" -> {<<f>>, <<f, "base">>}
    [] f = "base" -> {<<f>>}]

ASSUME NodeAssumption == NoCircle /\ ImportsOnly

MCWants == [g \in MCGoroutines |-> MCSymbols]
\* No type is looked up by both.
MCOwnWants == [g \in MCGoroutines |-> IF g = g1 THEN {"X"} ELSE {"Y"}]
=============================================================================
