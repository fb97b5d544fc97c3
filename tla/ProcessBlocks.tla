---------------------------- MODULE ProcessBlocks ----------------------------
(***************************************************************************)
(* One call of processBlocks (internal/extractor/block.go): a dispatcher   *)
(* loop starts one goroutine per height, at most MaxConcurrency of them at *)
(* a time (the channel sem), under an errgroup whose context is cancelled  *)
(* by the first error or by the parent context (SIGINT, SIGTERM).  Every   *)
(* goroutine runs processSingleBlockWithRetry: fetch the block, fetch its  *)
(* transactions, write both in one database transaction.                   *)
(*                                                                         *)
(* A call with its retries is one step here, unless its answer holds a     *)
(* type that is not registered: the answer is then being turned into JSON, *)
(* while the resolver asks the node for the type under the parent context, *)
(* and the call may be tried again.  BlockJob has the attempts.            *)
(* Transactions of a block are fetched in any order: nothing depends on    *)
(* the order in which the code ranges over them.                           *)
(***************************************************************************)
EXTENDS Integers, FiniteSets

CONSTANTS
  Start, Stop,      \* the range of the call
  MaxConcurrency,   \* capacity of the channel sem
  Tx,               \* transaction hashes
  TxsOf             \* TxsOf[h]: the transactions of block h

Heights == Start..Stop

ASSUME RangeAssumption == Start \in Nat \ {0} /\ Stop \in Nat
ASSUME ConcurrencyAssumption == MaxConcurrency \in Nat
ASSUME TxAssumption == TxsOf \in [Heights -> SUBSET Tx]

VARIABLES
  height,       \* the loop variable
  disp,         \* program counter of the dispatcher
  sem,          \* tokens in the channel sem
  wk,           \* wk[h]: program counter of the goroutine of height h
  fetched,      \* fetched[h][t]: what goroutine h holds for transaction t
  blocksRaw,    \* api.blocks_raw: the heights that have a row
  txRaw,        \* api.transactions_raw: the kind of row of each hash
  interrupted,  \* the parent context is cancelled
  groupErr,     \* the errgroup has recorded an error and cancelled its context
  result        \* what processBlocks returned

db == <<blocksRaw, txRaw>>
vars == <<height, disp, sem, wk, fetched, blocksRaw, txRaw,
          interrupted, groupErr, result>>

\* No row; full data; the error document, written because the node failed
\* or because the context was cancelled (its "reason" field tells them apart).
Rows == {"none", "full", "rpcError", "ctxError"}

\* In a call that has its answer, for a type that is not registered.
Lookups == {"blockLookup", "txLookup"}

\* At work: fetching the block; fetching its transactions; waiting for the answer
\* to COMMIT.
Work == {"block", "txs", "commit"} \union Lookups

\* No goroutine yet; ended well; returned an error; error recorded.
Stages == Work \union {"idle", "done", "failed", "reported"}

\* Goroutines that hold a token of sem.
Running == {h \in Heights : wk[h] \in Work}
\* Goroutines the errgroup still waits for.
Active == {h \in Heights : wk[h] \in Work \union {"failed"}}

\* ctx.Err() # nil for the context that errgroup.WithContext derived.
CtxDone == interrupted \/ groupErr

-----------------------------------------------------------------------------
\* The dispatcher.

\* The loop condition and the context are checked before sem is acquired ...
CheckContext ==
  /\ disp = "loop" /\ height <= Stop
  /\ ~CtxDone
  /\ disp' = "acquire"
  /\ UNCHANGED <<height, sem, wk, fetched, db, interrupted, groupErr, result>>

\* ... and a cancelled context returns at once, without eg.Wait().
ReturnCtxErr ==
  /\ disp = "loop" /\ height <= Stop
  /\ CtxDone
  /\ disp' = "returned" /\ result' = "ctx"
  /\ UNCHANGED <<height, sem, wk, fetched, db, interrupted, groupErr>>

\* sem <- struct{}{} blocks without looking at the context, then eg.Go.
Spawn ==
  /\ disp = "acquire"
  /\ sem < MaxConcurrency
  /\ sem' = sem + 1
  /\ wk' = [wk EXCEPT ![height] = "block"]
  /\ height' = height + 1
  /\ disp' = "loop"
  /\ UNCHANGED <<fetched, db, interrupted, groupErr, result>>

EndLoop ==
  /\ disp = "loop" /\ height > Stop
  /\ disp' = "wait"
  /\ UNCHANGED <<height, sem, wk, fetched, db, interrupted, groupErr, result>>

\* Mutant: the call returns the error of the group without waiting for it.
WaitForNobody ==
  /\ disp = "wait"
  /\ disp' = "returned"
  /\ result' = IF groupErr THEN "err" ELSE "ok"
  /\ UNCHANGED <<height, sem, wk, fetched, db, interrupted, groupErr>>

\* eg.Wait() returns when every goroutine has ended, with the first error.
Wait ==
  /\ disp = "wait"
  /\ Active = {}
  /\ disp' = "returned"
  /\ result' = IF groupErr THEN "err" ELSE "ok"
  /\ UNCHANGED <<height, sem, wk, fetched, db, interrupted, groupErr>>

Dispatcher == CheckContext \/ ReturnCtxErr \/ Spawn \/ EndLoop \/ Wait

-----------------------------------------------------------------------------
\* The goroutine of height h.

Goto(h, from, to) ==
  /\ wk[h] = from
  /\ wk' = [wk EXCEPT ![h] = to]

\* Mutant: the token is released only on the path that succeeds.
FailKeepsToken(h, from) ==
  /\ Goto(h, from, "failed")
  /\ UNCHANGED <<height, disp, sem, fetched, interrupted, groupErr, result>>

\* The function returns an error: its deferred receive has given the token
\* back, the errgroup does not know of the error yet.
Fail(h, from) ==
  /\ Goto(h, from, "failed")
  /\ sem' = sem - 1
  /\ UNCHANGED <<height, disp, fetched, interrupted, groupErr, result>>

\* Transactions of block h whose GetTx has not returned.
ToFetch(h) == {t \in TxsOf[h] : fetched[h][t] = "none"}

\* Invoke has the answer, with a type in it that is not registered.
LookupBegins(h) ==
  /\ ~CtxDone
  /\ \/ Goto(h, "block", "blockLookup")
     \/ ToFetch(h) # {} /\ Goto(h, "txs", "txLookup")
  /\ UNCHANGED <<height, disp, sem, fetched, db, interrupted, groupErr, result>>

\* This attempt of the call has failed.
LookupFails(h) ==
  /\ Goto(h, "blockLookup", "block") \/ Goto(h, "txLookup", "txs")
  /\ UNCHANGED <<height, disp, sem, fetched, db, interrupted, groupErr, result>>

\* A call of goroutine h that is at stage plain, or at stage lookup for a type, is
\* answered in full: Invoke needs the group's context, the resolver the parent's.
Answers(h, plain, lookup) ==
  \/ wk[h] = plain /\ ~CtxDone
  \/ wk[h] = lookup /\ ~interrupted

FetchBlock(h) ==
  /\ Answers(h, "block", "blockLookup")
  /\ wk' = [wk EXCEPT ![h] = "txs"]
  /\ UNCHANGED <<height, disp, sem, fetched, db, interrupted, groupErr, result>>

FetchBlockFails(h) == Fail(h, "block") /\ UNCHANGED db

FetchTx(h) ==
  /\ Answers(h, "txs", "txLookup")
  /\ wk' = [wk EXCEPT ![h] = "txs"]
  /\ \E t \in ToFetch(h) : fetched' = [fetched EXCEPT ![h][t] = "full"]
  /\ UNCHANGED <<height, disp, sem, db, interrupted, groupErr, result>>

\* A failed GetTx does not fail the block: an error document takes its place.
FetchTxFails(h) ==
  /\ wk[h] = "txs"
  /\ \E t \in ToFetch(h) :
       \E row \in {"rpcError"} \union (IF CtxDone THEN {"ctxError"} ELSE {}) :
         fetched' = [fetched EXCEPT ![h][t] = row]
  /\ UNCHANGED <<height, disp, sem, wk, db, interrupted, groupErr, result>>

\* A transaction that is not base64 fails the block.
DecodeTxFails(h) ==
  /\ ToFetch(h) # {}
  /\ Fail(h, "txs") /\ UNCHANGED db

\* Mutant: the write runs under a context of its own.
BeginWriteDetached(h) ==
  /\ ToFetch(h) = {}
  /\ Goto(h, "txs", "commit")
  /\ UNCHANGED <<height, disp, sem, fetched, db, interrupted, groupErr, result>>

\* WriteBlockWithTransactions up to the COMMIT it sends: pool.Begin refuses a
\* cancelled context, and the rows of an open transaction are not visible.
BeginWrite(h) ==
  /\ ToFetch(h) = {}
  /\ ~CtxDone
  /\ Goto(h, "txs", "commit")
  /\ UNCHANGED <<height, disp, sem, fetched, db, interrupted, groupErr, result>>

WriteFails(h) ==
  /\ ToFetch(h) = {}
  /\ Fail(h, "txs") /\ UNCHANGED db

\* Mutant: the goroutine uses the loop variable in place of its copy.
ApplyLoopVariable(h) ==
  /\ blocksRaw' = blocksRaw \union {height}
  /\ txRaw' = [t \in Tx |-> IF t \in TxsOf[h] THEN fetched[h][t] ELSE txRaw[t]]

\* The upserts of the block row and of its transaction rows, all or none.
Apply(h) ==
  /\ blocksRaw' = blocksRaw \union {h}
  /\ txRaw' = [t \in Tx |-> IF t \in TxsOf[h] THEN fetched[h][t] ELSE txRaw[t]]

Commit(h) ==
  /\ Goto(h, "commit", "done")
  /\ Apply(h)
  /\ sem' = sem - 1
  /\ UNCHANGED <<height, disp, fetched, interrupted, groupErr, result>>

\* The server commits; the connection or the context dies before the answer.
CommitLost(h) == Fail(h, "commit") /\ Apply(h)

\* Mutant: without a transaction the block row survives the failure.
CommitFailsHalfway(h) ==
  /\ Fail(h, "commit")
  /\ blocksRaw' = blocksRaw \union {h} /\ txRaw' = txRaw

CommitFails(h) == Fail(h, "commit") /\ UNCHANGED db

\* Mutant: the goroutine logs the error and returns nil.
ReportSwallowed(h) ==
  /\ Goto(h, "failed", "reported")
  /\ UNCHANGED <<height, disp, sem, fetched, db, interrupted, groupErr, result>>

\* errgroup.Go: the first error is kept and cancels the derived context.
Report(h) ==
  /\ Goto(h, "failed", "reported")
  /\ groupErr' = TRUE
  /\ UNCHANGED <<height, disp, sem, fetched, db, interrupted, result>>

\* A call ends, with its last attempt.
CallEnds(h) == FetchBlock(h) \/ FetchBlockFails(h) \/ FetchTx(h) \/ FetchTxFails(h)

Worker(h) ==
  \/ CallEnds(h) \/ LookupBegins(h) \/ LookupFails(h)
  \/ DecodeTxFails(h) \/ BeginWrite(h) \/ WriteFails(h)
  \/ Commit(h) \/ CommitLost(h) \/ CommitFails(h)
  \/ Report(h)

-----------------------------------------------------------------------------
\* handleInterrupt cancels the parent context once.
Interrupt ==
  /\ ~interrupted
  /\ interrupted' = TRUE
  /\ UNCHANGED <<height, disp, sem, wk, fetched, db, groupErr, result>>

\* The call has returned and no goroutine is left: nothing more happens.
Terminated ==
  /\ disp = "returned" /\ Active = {} /\ interrupted
  /\ UNCHANGED vars

\* The table may hold blocks of earlier runs, each with a row per transaction.
Init ==
  /\ height = Start /\ disp = "loop" /\ sem = 0
  /\ wk = [h \in Heights |-> "idle"]
  /\ fetched = [h \in Heights |-> [t \in Tx |-> "none"]]
  /\ blocksRaw \in SUBSET Heights
  /\ txRaw = [t \in Tx |-> IF \E h \in blocksRaw : t \in TxsOf[h] THEN "full" ELSE "none"]
  /\ interrupted = FALSE /\ groupErr = FALSE
  /\ result = "none"

Next ==
  \/ Dispatcher
  \/ \E h \in Heights : Worker(h)
  \/ Interrupt
  \/ Terminated

Spec == Init /\ [][Next]_vars

\* The Go scheduler runs a runnable dispatcher.  A goroutine is sure to move
\* only once the context it waits under is done: that of the group for Invoke and
\* pgx, the parent context for the requests of the resolver.  Before that it may
\* wait forever for a node that never answers, because no call has a deadline.
\* Recording the error of a returned function needs nobody else.
Fairness ==
  /\ WF_vars(Dispatcher)
  /\ \A h \in Heights : /\ WF_vars(CtxDone /\ wk[h] \notin Lookups /\ Worker(h))
                        /\ WF_vars(interrupted /\ Worker(h))
                        /\ WF_vars(Report(h))

FairSpec == Spec /\ Fairness

\* The node answers what the resolver asks it, whatever the answer.
EveryLookupAnswers == \A h \in Heights : WF_vars(wk[h] \in Lookups /\ Worker(h))

\* The node and the database answer everything, whatever the answer, and no call
\* is tried over and over: its attempts are limited.
EveryCallAnswers == \A h \in Heights : WF_vars(Worker(h)) /\ WF_vars(CallEnds(h))
-----------------------------------------------------------------------------
TypeOK ==
  /\ height \in Nat /\ Start <= height
  /\ disp \in {"loop", "acquire", "wait", "returned"}
  /\ sem \in Int   \* SemCountsRunners gives its range
  /\ wk \in [Heights -> Stages]
  /\ fetched \in [Heights -> [Tx -> Rows]]
  /\ blocksRaw \in SUBSET Heights
  /\ txRaw \in [Tx -> Rows]
  /\ interrupted \in BOOLEAN /\ groupErr \in BOOLEAN
  /\ result \in {"none", "ok", "ctx", "err"}

\* The channel holds one token for each goroutine at work and for no other, on
\* every path a goroutine can leave by: the limit of --max-concurrency is kept
\* and no token is lost, so the dispatcher never waits for a token nobody holds.
SemCountsRunners == sem = Cardinality(Running) /\ sem <= MaxConcurrency

\* A call that returns nil has written every height of its range, each with a
\* row for every transaction, whatever failed, was retried or was cancelled.
OkMeansAllStored ==
  result = "ok" =>
    \A h \in Heights :
      /\ wk[h] = "done" /\ h \in blocksRaw
      /\ \A t \in TxsOf[h] : txRaw[t] # "none"

\* At every moment, and so after any crash: a block row comes with the rows of
\* its transactions.  The scan for missing blocks looks at block rows only, so
\* nothing would ever repair a block without its transactions.
BlockWithItsTxs == \A h \in blocksRaw : \A t \in TxsOf[h] : txRaw[t] # "none"

\* The graceful degradation of extractTransactions turns a cancelled GetTx into
\* an error document like any other; none is ever stored, because the write of
\* its block starts after the cancellation and is refused.  Otherwise every
\* interrupt would leave permanent error rows for healthy transactions.
NoCancelledRow == \A t \in Tx : txRaw[t] # "ctxError"

\* After nil is returned no goroutine of the call writes any more: the caller
\* may advance its cursor, and the pool may be closed.  (After an error the
\* early return leaves goroutines behind, whose commits may still land.)
NothingAfterOk == [][result = "ok" => UNCHANGED db]_vars

\* The call keeps the promise its callers rely on.
Promise == INSTANCE Batch WITH
  lo <- Start, hi <- Stop, stored <- blocksRaw,
  acked <- {h \in Heights : wk[h] = "done"},
  outcome <- CASE result = "none" -> "running"
               [] result = "ok" -> "ok"
               [] OTHER -> "failed"
KeepsPromise == Promise!Spec

\* The call has returned and all its goroutines have ended.
Over == result # "none" /\ Active = {}

\* An interrupt ends the call and all its goroutines, whatever the node does.  So
\* does one goroutine that fails while the others hang on a node that never
\* answers, provided none of them hangs in the resolver: the error cancels the
\* group, the cancelled calls return and give their tokens back, and the
\* dispatcher blocked on the full channel goes on.
TroubleEndsCall ==
  /\ interrupted ~> Over
  /\ EveryLookupAnswers => ((\E h \in Heights : wk[h] = "failed") ~> Over)

\* If every call is answered, processBlocks returns.
Returns == EveryCallAnswers => <>(result # "none")
=============================================================================
