------------------------------ MODULE MCBlockJob ------------------------------
\* Up to three entries per block in every order, and up to three attempts per call:
\* a cancellation can come before, between and after the attempts of the call
\* of the block, of the first and of any later transaction.
EXTENDS BlockJob
MCErrors == {"rpc"}
MCLimits == 0..3
MCDefaultLimits == {3}     \* the default of --max-retries
=============================================================================
