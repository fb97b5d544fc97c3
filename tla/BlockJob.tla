------------------------------- MODULE BlockJob -------------------------------
(***************************************************************************)
(* processSingleBlockWithRetry (internal/extractor/block.go) with          *)
(* extractTransactions (transaction.go): one goroutine of processBlocks,   *)
(* or one repair of a missing block, down to the attempts and sleeps of    *)
(* its gRPC calls.  The calls are made one after the other: the block,     *)
(* then each of its transactions, then the write.                          *)
(*                                                                         *)
(* The goroutine of ProcessBlocks is an abstraction of this one: the       *)
(* attempts of a call and of a request for a type, and the order of the    *)
(* transactions, are left open there.                                      *)
(***************************************************************************)
EXTENDS LookupCall, FiniteSets

CONSTANTS
  Limits,     \* the values of --max-retries
  MaxTxs,     \* bound of the model: entries of block.data.txs
  TimeoutStop \* TimeoutStopSec of scripts/yaci-indexer.service

ASSUME LimitsAssumption == Limits \subseteq Nat
ASSUME MaxTxsAssumption == MaxTxs \in Nat
ASSUME ErrorsAssumption == Errors = {"rpc"}

VARIABLES
  retries,   \* the configured --max-retries
  job,       \* where the function is
  txs,       \* the entries of the block, seen when it is answered: a transaction
             \* in base64, a string that is not base64, something not a string
  next,      \* index of the entry the loop is at
  rows,      \* the row appended for each entry, "none" when there is none
  written    \* the block and its rows are in the database

vars == <<callVars, lookupVars, retries, job, txs, next, rows, written>>

Entries == {"tx", "undecodable", "notString"}
Blocks == UNION {[1..n -> Entries] : n \in 0..MaxTxs}
N == Cardinality(DOMAIN txs)
JobEnded == job \in {"done", "failed"}

jobVars == <<retries, job, txs, next, rows, written>>

FetchBlock ==
  /\ job = "start"
  /\ BeginCall(retries)
  /\ job' = "block"
  /\ UNCHANGED <<stopped, groupErr, lag, lookupVars, retries, txs, next, rows, written>>

\* The response is unmarshalled; one without block, data or txs has no entries.
BlockAnswered ==
  /\ job = "block" /\ phase = "answered"
  /\ job' = "txs"
  /\ UNCHANGED <<callVars, lookupVars, retries, txs, next, rows, written>>

\* The empty response of zero attempts is not JSON.
BlockFailed ==
  /\ job = "block" /\ phase \in {"failed", "empty"}
  /\ job' = "failed"
  /\ UNCHANGED <<callVars, lookupVars, retries, txs, next, rows, written>>

SkipEntry ==
  /\ job = "txs" /\ next <= N /\ txs[next] = "notString"
  /\ next' = next + 1
  /\ UNCHANGED <<callVars, lookupVars, retries, job, txs, rows, written>>

DecodeFails ==
  /\ job = "txs" /\ next <= N /\ txs[next] = "undecodable"
  /\ job' = "failed"
  /\ UNCHANGED <<callVars, lookupVars, retries, txs, next, rows, written>>

FetchTx ==
  /\ job = "txs" /\ next <= N /\ txs[next] = "tx"
  /\ BeginCall(retries)
  /\ job' = "tx"
  /\ UNCHANGED <<stopped, groupErr, lag, lookupVars, retries, txs, next, rows, written>>

\* Mutant: the error takes the place of the document that reports it.
RowOfCallRaw == IF phase = "answered" THEN "full" ELSE err

\* The row of a transaction whose GetTx has ended.
RowOfCall ==
  CASE phase = "answered" -> "full"
    [] phase = "failed" -> IF err = "ctx" THEN "ctxError" ELSE "rpcError"

\* Mutant: a transaction that could not be fetched is left out.
TxEndedDropped ==
  /\ job = "tx" /\ phase \in {"answered", "failed"}
  /\ rows' = IF phase = "answered" THEN [rows EXCEPT ![next] = RowOfCall] ELSE rows
  /\ job' = "txs" /\ next' = next + 1
  /\ UNCHANGED <<callVars, lookupVars, retries, txs, written>>

TxEnded ==
  /\ job = "tx" /\ phase \in {"answered", "failed"}
  /\ rows' = [rows EXCEPT ![next] = RowOfCall]
  /\ job' = "txs" /\ next' = next + 1
  /\ UNCHANGED <<callVars, lookupVars, retries, txs, written>>

WriteStep(to) == job' = to /\ UNCHANGED <<callVars, lookupVars, retries, txs, next, rows>>

\* Mutant: the write does not use the context of the call.
BeginWriteDetached ==
  /\ job = "txs" /\ next > N
  /\ WriteStep("commit") /\ UNCHANGED written

\* WriteBlockWithTransactions up to its COMMIT; refused with a cancelled context.
BeginWrite ==
  /\ job = "txs" /\ next > N
  /\ ~CtxDone
  /\ WriteStep("commit") /\ UNCHANGED written

\* Mutant: a write that failed is tried again until it succeeds.
WriteUntilDone ==
  /\ job = "txs" /\ next > N
  /\ WriteStep("txs") /\ UNCHANGED written

WriteFails ==
  /\ job = "txs" /\ next > N
  /\ WriteStep("failed") /\ UNCHANGED written

Commit ==
  /\ job = "commit"
  /\ WriteStep("done") /\ written' = TRUE

\* The server commits; the connection or the context dies before the answer.
CommitLost ==
  /\ job = "commit"
  /\ WriteStep("failed") /\ written' = TRUE

CommitFails ==
  /\ job = "commit"
  /\ WriteStep("failed") /\ UNCHANGED written

JobStep ==
  \/ FetchBlock \/ BlockAnswered \/ BlockFailed
  \/ SkipEntry \/ DecodeFails \/ FetchTx \/ TxEnded
  \/ BeginWrite \/ WriteFails \/ Commit \/ CommitLost \/ CommitFails

CallRuns == job \in {"block", "tx"} /\ AnyCallStep /\ UNCHANGED jobVars

Interrupted == Stop /\ ~JobEnded /\ UNCHANGED <<lookupVars, jobVars>>

\* Another goroutine of the batch has failed: its errgroup cancels the context.
AnotherFails ==
  /\ ~groupErr /\ ~JobEnded
  /\ groupErr' = TRUE
  /\ UNCHANGED <<maxRetries, attempt, phase, err, stopped, lag, lookupVars, jobVars>>

Returned == JobEnded /\ UNCHANGED vars

Init ==
  /\ retries \in Limits
  /\ maxRetries = 0 /\ attempt = 1 /\ phase = "idle" /\ err = "nil"
  /\ stopped = FALSE /\ groupErr = FALSE /\ lag = 0
  /\ tries = 1 /\ lookupLag = 0
  /\ job = "start" /\ next = 1 /\ written = FALSE
  /\ txs \in Blocks /\ rows = [k \in DOMAIN txs |-> "none"]

Next == JobStep \/ CallRuns \/ Interrupted \/ AnotherFails \/ Returned

Spec == Init /\ [][Next]_vars

Writing == job = "commit" \/ (job = "txs" /\ next > N)

\* The goroutine runs and its sleeps end.  Invoke and pgx return when the context
\* of the call is done, a request of the resolver when the root context is.  Until
\* then they may take forever: none has a deadline.
Fairness ==
  /\ WF_vars((CtxDone \/ ~Writing) /\ JobStep)
  /\ WF_vars(/\ phase = "call" => CtxDone \/ attempt > maxRetries
             /\ phase = "request" => stopped
             /\ CallRuns)

FairSpec == Spec /\ Fairness
-----------------------------------------------------------------------------
TypeOK ==
  /\ CallTypeOK /\ LookupTypeOK
  /\ retries \in Limits
  /\ job \in {"start", "block", "txs", "tx", "commit", "done", "failed"}
  /\ written \in BOOLEAN
  /\ txs \in Blocks
  /\ next \in 1..(N + 1)
  /\ rows \in [DOMAIN txs -> {"none", "full", "rpcError", "ctxError"}]

\* After the signal the goroutine sleeps on through the attempts of one request of
\* the resolver, of the call that made it, and of every later transaction of the
\* block, and no longer: this is what a shutdown waits for.  A call of the block
\* itself that fails never gets to the transactions, and no new request is made.
StopBound ==
  lag + lookupLag <=
    WorstSleep(LookupAttempts) + (IF N = 0 THEN 1 ELSE N) * WorstSleep(retries)

\* Graceful degradation loses no transaction: a block that is written has one
\* row for each of its transactions, and none for what is not a string.
OneRowPerTx ==
  written =>
    \A k \in 1..N : IF txs[k] = "tx" THEN rows[k] # "none"
                   ELSE txs[k] = "notString" /\ rows[k] = "none"

\* A block is never written with an error row that the shutdown has caused: what
\* ProcessBlocks says of the table, said of the rows of one block.
NoCancelledRow == written => \A k \in 1..N : rows[k] # "ctxError"

\* A call fails only after every attempt it was allowed, so a transaction is
\* degraded to an error row only then.
EveryAttemptMade ==
  phase = "failed" => err = "resolve" \/ attempt = maxRetries + 1

\* After the signal the goroutine ends, whatever the node does.  (After the error
\* of another one it need not: a request of the resolver goes on.)
StopEndsJob == stopped ~> JobEnded

\* The entries that are strings: the transactions of the block.
TxEntries == {k \in DOMAIN txs : txs[k] # "notString"}

\* What the goroutine holds for entry k, from the moment the node has answered.
Held(k) ==
  IF job = "tx" /\ k = next /\ phase = "answered" THEN "full"
  ELSE IF k \in DOMAIN txs THEN rows[k] ELSE "none"

\* Where ProcessBlocks has it.
Stage ==
  CASE job = "start" -> "block"
    [] job = "block" -> CASE phase = "answered" -> "txs"
                          [] phase \in Looking -> "blockLookup"
                          [] OTHER -> "block"
    [] job = "txs" -> "txs"
    [] job = "tx" -> IF phase \in Looking THEN "txLookup" ELSE "txs"
    [] OTHER -> job

\* The goroutine of ProcessBlocks for a block with the transactions T at height 1,
\* and one at height 2 that may fail, their dispatcher waiting for them.
Goroutine(T) == INSTANCE ProcessBlocks WITH
  Start <- 1, Stop <- 2, MaxConcurrency <- 2,
  Tx <- 1..MaxTxs, TxsOf <- [h \in {1, 2} |-> IF h = 1 THEN T ELSE {}],
  height <- 3, disp <- "wait", result <- "none",
  sem <- IF Stage \in {"done", "failed"} THEN 0 ELSE 1,
  wk <- [h \in {1, 2} |-> IF h = 1 THEN Stage
                          ELSE IF groupErr THEN "reported" ELSE "failed"],
  fetched <- [h \in {1, 2} |-> [k \in 1..MaxTxs |-> IF h = 1 THEN Held(k) ELSE "none"]],
  blocksRaw <- IF written THEN {1} ELSE {},
  txRaw <- [k \in 1..MaxTxs |-> IF written /\ k \in T THEN Held(k) ELSE "none"],
  interrupted <- stopped, groupErr <- groupErr

Begun == Stage = "block" /\ ~written /\ \A k \in 1..MaxTxs : Held(k) = "none"

\* Each step of the function, its calls and their attempts is one that the
\* goroutine of its height may take in ProcessBlocks, or none: what is shown of a
\* batch, of an indexer over batches and so of the tables, is shown of these calls.
\* (The transactions of a block are a constant of ProcessBlocks, and no step here
\* changes them: T is their value.)
RunsAsGoroutine ==
  /\ Begun
  /\ [][\A T \in SUBSET (1..MaxTxs) :
          T = TxEntries => \/ Goroutine(T)!Worker(1) \/ Goroutine(T)!Report(2)
                           \/ Goroutine(T)!Interrupt
                           \/ UNCHANGED Goroutine(T)!vars]_vars

\* "Graceful shutdown": what runs when the signal comes ends before systemd
\* kills the process.
StopsInTime == lag + lookupLag <= TimeoutStop
=============================================================================
