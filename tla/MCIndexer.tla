------------------------------ MODULE MCIndexer ------------------------------
\* A chain of up to five blocks, two failures: the first leaves a hole, the
\* second interrupts its repair.
EXTENDS Indexer

MCConfigs == {
  AutoLive,
  [start |-> 0, stop |-> 0, live |-> FALSE, reindex |-> FALSE],
  [start |-> 2, stop |-> 0, live |-> TRUE,  reindex |-> FALSE],
  [start |-> 1, stop |-> 2, live |-> FALSE, reindex |-> FALSE],
  [start |-> 0, stop |-> 0, live |-> FALSE, reindex |-> TRUE]}

MCAutoLive == {AutoLive}
=============================================================================
