-------------------------------- MODULE MCDbPool --------------------------------
\* Users and slots are model values; the cfg says how many scrapes of locked
\* tokens there are for how many slots.
EXTENDS DbPool
=============================================================================
