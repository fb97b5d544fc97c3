--------------------------- MODULE MCEarliestProbe ---------------------------
\* An archive node and two pruned ones; no attempt, one, and several.
EXTENDS EarliestProbe
MCErrors == {"pruned", "transient"}
MCLimits == 0..3
=============================================================================
