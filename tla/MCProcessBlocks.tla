--------------------------- MODULE MCProcessBlocks ---------------------------
\* Three blocks, two goroutines at a time: the dispatcher blocks on the full
\* channel, and an error can come before, while and after it does.  The
\* transaction t1 is in two blocks, as a transaction that was resubmitted is.
EXTENDS ProcessBlocks

CONSTANTS t1, t2

MCTx == {t1, t2}
MCTxsOf == [h \in Heights |-> IF h = Start THEN {t1, t2}
                              ELSE IF h = Start + 1 THEN {t1} ELSE {}]
=============================================================================
