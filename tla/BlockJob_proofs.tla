--------------------------- MODULE BlockJob_proofs ---------------------------
(***************************************************************************)
(* A goroutine that extracts one block delays a shutdown by no more than   *)
(* the sleeps of its calls, and writes a block only with a row for every   *)
(* transaction, none of them spoilt by the shutdown: for every             *)
(* --max-retries and any number of transactions.                           *)
(***************************************************************************)
EXTENDS BlockJob, RetryCall_proofs, FiniteSetTheorems

\* The sleeps of n calls that fail in all of r attempts.
SleepOf(n, r) == n * WorstSleep(r)

\* One call for each transaction, or the call of the block.
CallsBound == lag <= (IF N = 0 THEN 1 ELSE N) * WorstSleep(retries)

\* What has been slept, and what is left of the call that runs.
Delays ==
  /\ job = "start" => lag = 0
  /\ job = "block" => maxRetries = retries /\ lag + SleepLeft <= SleepOf(1, retries)
  /\ job = "txs" => lag <= SleepOf(next - 1, retries)
  /\ job = "tx" => maxRetries = retries /\ next <= N /\ lag + SleepLeft <= SleepOf(next, retries)
  /\ job = "commit" \/ JobEnded => CallsBound

\* The resolver sleeps for the attempts of the one request that the signal met:
\* no request is begun after it, and none is answered.
LookupInv ==
  /\ LookupTypeOK
  /\ phase \in Looking => tries \in 1..LookupAttempts /\ lookupLag <= WorstSleep(tries - 1)
  /\ lookupLag <= WorstSleep(LookupAttempts)
  /\ ~stopped => lookupLag = 0

\* The entries before next have been seen to, the others not yet.
Rows ==
  /\ \A k \in DOMAIN txs : k < next => IF txs[k] = "tx" THEN rows[k] # "none"
                                       ELSE txs[k] = "notString" /\ rows[k] = "none"
  /\ \A k \in DOMAIN txs : k >= next => rows[k] = "none"
  /\ job = "tx" => next <= N /\ txs[next] = "tx"
  /\ job \in {"start", "block"} => next = 1
  /\ job = "commit" \/ written => next > N

\* Only a context that is done makes a call fail for it, and it stays done.
Shutdown ==
  /\ err = "ctx" => CtxDone
  /\ \A k \in DOMAIN txs : rows[k] = "ctxError" => CtxDone
  /\ job = "commit" \/ written => \A k \in DOMAIN txs : rows[k] # "ctxError"

\* Only the COMMIT writes, and the function returns after it.
Committed == (job = "done" => written) /\ (written => JobEnded)

Inv == TypeOK /\ CallInv /\ LookupInv /\ Delays /\ Rows /\ Shutdown /\ Committed

-----------------------------------------------------------------------------
\* The entries of a block are numbered from 1 to N.
LEMMA BlockSize ==
  ASSUME NEW b \in Blocks
  PROVE  /\ Cardinality(DOMAIN b) \in Nat
         /\ DOMAIN b = 1..Cardinality(DOMAIN b)
         /\ b \in [DOMAIN b -> Entries]
<1>1. PICK n \in 0..MaxTxs : b \in [1..n -> Entries]
  BY DEF Blocks
<1>2. n \in Nat /\ DOMAIN b = 1..n
  BY <1>1, MaxTxsAssumption
<1>3. Cardinality(1..n) = n
  BY <1>2, FS_Interval
<1> QED
  BY <1>1, <1>2, <1>3

\* More calls sleep longer, each as long as one.
LEMMA SleepOfOne ==
  ASSUME NEW n \in Nat, NEW r \in Nat
  PROVE  /\ SleepOf(n, r) \in Nat
         /\ SleepOf(n + 1, r) = SleepOf(n, r) + WorstSleep(r)
         /\ SleepOf(0, r) = 0 /\ SleepOf(1, r) = WorstSleep(r)
<1>1. WorstSleep(r) \in Nat
  BY SleepGrows
<1>2. ASSUME NEW s \in Nat
      PROVE  n * s \in Nat /\ (n + 1) * s = n * s + s /\ 0 * s = 0 /\ 1 * s = s
  OBVIOUS
<1> QED
  BY <1>1, <1>2 DEF SleepOf

LEMMA SleepOfMore ==
  ASSUME NEW n \in Nat, NEW m \in Nat, NEW r \in Nat, n <= m
  PROVE  SleepOf(n, r) <= SleepOf(m, r)
<1>1. WorstSleep(r) \in Nat
  BY SleepGrows
<1>2. ASSUME NEW s \in Nat
      PROVE  n * s <= m * s
  OBVIOUS
<1> QED
  BY <1>1, <1>2 DEF SleepOf

\* The numbers the steps are about.
LEMMA Numbers ==
  ASSUME Inv
  PROVE  /\ retries \in Nat /\ lag \in Nat /\ SleepLeft \in Nat
         /\ N \in Nat /\ DOMAIN txs = 1..N /\ next \in 1..(N + 1)
         /\ rows \in [1..N -> {"none", "full", "rpcError", "ctxError"}]
<1>1. retries \in Nat /\ lag \in Nat
  BY LimitsAssumption DEF Inv, TypeOK, CallTypeOK
<1>2. SleepLeft \in Nat
  <2>1. WorstSleep(attempt - 1) \in Nat /\ WorstSleep(maxRetries) \in Nat
        /\ WorstSleep(attempt - 1) <= WorstSleep(maxRetries)
    BY SleepGrows DEF Inv, TypeOK, CallTypeOK
  <2> QED
    BY <2>1 DEF SleepLeft
<1>3. N \in Nat /\ DOMAIN txs = 1..N
  BY BlockSize DEF Inv, TypeOK, N
<1> QED
  BY <1>1, <1>2, <1>3 DEF Inv, TypeOK

LEMMA WithinBound ==
  ASSUME Inv, NEW n \in 0..N \union {1}, lag <= SleepOf(n, retries)
  PROVE  CallsBound
<1> DEFINE most == IF N = 0 THEN 1 ELSE N
<1>1. most \in Nat /\ n \in Nat /\ n <= most /\ retries \in Nat /\ lag \in Nat
  BY Numbers
<1>2. SleepOf(n, retries) \in Nat /\ SleepOf(n, retries) <= SleepOf(most, retries)
  BY <1>1, SleepOfOne, SleepOfMore
<1>3. SleepOf(most, retries) \in Nat
  BY <1>1, SleepOfOne
<1>4. CallsBound <=> lag <= SleepOf(most, retries)
  BY DEF CallsBound, SleepOf
<1> HIDE DEF most
<1> QED
  BY <1>1, <1>2, <1>3, <1>4

LEMMA InvInit == Init => Inv
<1> SUFFICES ASSUME Init PROVE Inv
  OBVIOUS
<1>1. N \in Nat /\ DOMAIN txs = 1..N /\ txs \in Blocks
  BY BlockSize DEF Init, N
<1>2. next \in 1..(N + 1) /\ next = 1
  <2>1. ASSUME NEW n \in Nat PROVE 1 \in 1..(n + 1)
    OBVIOUS
  <2> QED
    BY <1>1, <2>1, Zenon DEF Init
<1>3. CallTypeOK
  <2>1. maxRetries \in Nat /\ attempt \in Nat \ {0} /\ attempt <= maxRetries + 1 /\ lag \in Nat
    BY DEF Init
  <2> QED
    BY <2>1 DEF Init, CallTypeOK, Looking
<1>4. CallInv /\ LookupInv
  BY <1>3 DEF Init, CallInv, LookupInv, LookupTypeOK, LookupAttempts, WorstSleep, Looking
<1>5. TypeOK
  BY <1>1, <1>2, <1>3, <1>4 DEF Init, TypeOK, LookupInv
<1>6. Delays /\ Committed
  BY DEF Init, Delays, JobEnded, Committed
<1>7. Rows /\ Shutdown
  BY <1>1, <1>2 DEF Init, Rows, Shutdown
<1> QED
  BY <1>4, <1>5, <1>6, <1>7 DEF Inv

-----------------------------------------------------------------------------
\* The resolver does not take part in a step.
LEMMA LookupRests ==
  ASSUME LookupInv, UNCHANGED lookupVars, stopped => stopped',
         phase' \in Looking => phase \in Looking
  PROVE  LookupInv'
BY DEF LookupInv, LookupTypeOK, lookupVars, WorstSleep

\* A step of a lookup: it sleeps only in its backoff, at most through its attempts.
LEMMA LookupStepKeeps ==
  ASSUME CallInv, LookupInv, LookupStep
  PROVE  CallInv' /\ LookupInv'
<1> USE DEF CallInv, CallTypeOK, LookupInv, LookupTypeOK, Looking, Ended
<1>1. CASE LookupBegins
  BY <1>1 DEF LookupBegins, CtxDone, LookupAttempts, WorstSleep
<1>2. CASE LookupAnswered
  BY <1>2 DEF LookupAnswered, LookupAttempts, WorstSleep
<1>3. CASE LookupRefused
  BY <1>3, CallErrorsAssumption DEF LookupRefused, lookupVars
<1>4. CASE RequestFails
  BY <1>4 DEF RequestFails, lookupVars, WorstSleep
<1>5. ASSUME Backoff
      PROVE  /\ tries \in {1, 2, 3} /\ tries' = tries + 1 /\ lookupLag' \in Nat
             /\ lookupLag' <= WorstSleep(tries) /\ WorstSleep(tries) <= WorstSleep(LookupAttempts)
             /\ ~stopped => lookupLag' = 0
  <2>1. tries \in {1, 2, 3} /\ tries' = tries + 1 /\ lookupLag \in Nat
        /\ lookupLag <= WorstSleep(tries - 1)
    BY <1>5 DEF Backoff, LookupAttempts
  <2>2. /\ WorstSleep(0) = 0 /\ WorstSleep(1) = 2 /\ WorstSleep(2) = 6 /\ WorstSleep(3) = 12
    BY DEF WorstSleep
  <2>3. lookupLag' = IF stopped THEN lookupLag + 2 * tries ELSE lookupLag
    BY <1>5 DEF Backoff
  <2> HIDE DEF CallInv, CallTypeOK
  <2> QED
    BY <2>1, <2>2, <2>3 DEF LookupAttempts
<1>6. CASE RequestAgain
  <2>1. Backoff /\ tries < 3 /\ phase' = "request" /\ UNCHANGED <<err, stopped>>
    BY <1>6 DEF RequestAgain, Backoff, LookupAttempts
  <2>2. LookupInv'
    BY <1>5, <2>1 DEF LookupAttempts, WorstSleep
  <2>3. CallInv'
    BY <2>1 DEF Backoff
  <2> QED
    BY <2>2, <2>3
<1>7. ASSUME NEW e \in Errors \union {"ctx"}, LookupFails(e) PROVE CallInv' /\ LookupInv'
  <2>1. Backoff /\ phase' = "sleep" /\ err' = e /\ stopped' = stopped
    BY <1>7 DEF LookupFails, Backoff
  <2>2. LookupInv'
    BY <1>5, <2>1 DEF LookupAttempts, WorstSleep
  <2>3. CallInv'
    BY <2>1, CallErrorsAssumption DEF Backoff
  <2> QED
    BY <2>2, <2>3
<1> QED
  BY <1>1, <1>2, <1>3, <1>4, <1>6, <1>7 DEF LookupStep

\* What a call does not sleep itself does not count towards its attempts.
LEMMA LookupSleepsApart ==
  ASSUME CallInv, LookupStep
  PROVE  /\ lag' = lag /\ UNCHANGED <<maxRetries, stopped, groupErr>>
         /\ SleepLeft \in Nat /\ (SleepLeft' = SleepLeft \/ SleepLeft' = 0)
<1>1. lag' = lag /\ UNCHANGED <<maxRetries, attempt, stopped, groupErr>>
  BY DEF LookupStep, LookupBegins, LookupAnswered, LookupRefused, RequestFails, RequestAgain,
         LookupFails, Backoff
<1>2. phase \notin Ended \union {"idle"}
  BY DEF LookupStep, LookupBegins, LookupAnswered, LookupRefused, RequestFails, RequestAgain,
         LookupFails, Backoff, Ended
<1>3. WorstSleep(attempt - 1) \in Nat /\ WorstSleep(maxRetries) \in Nat
      /\ WorstSleep(attempt - 1) <= WorstSleep(maxRetries)
  BY SleepGrows DEF CallInv, CallTypeOK
<1>4. SleepLeft \in Nat
  BY <1>3 DEF SleepLeft
<1>5. SleepLeft' = SleepLeft \/ SleepLeft' = 0
  BY <1>1, <1>2 DEF SleepLeft, WorstSleep
<1> QED
  BY <1>1, <1>4, <1>5

\* The fetch of the block begins.
LEMMA FetchBlockKeeps == ASSUME Inv, FetchBlock PROVE Inv'
<1>1. CallInv' /\ SleepLeft' = WorstSleep(retries)
  BY Numbers, CallBegins DEF FetchBlock, Inv
<1>2. LookupInv' /\ TypeOK' /\ N' = N
  <2>1. LookupInv'
    BY LookupRests DEF Inv, FetchBlock, BeginCall, lookupVars, Looking
  <2> QED
    BY <1>1, <2>1 DEF Inv, TypeOK, CallInv, LookupInv, FetchBlock, N
<1>3. Delays'
  <2>1. lag = 0 /\ lag' = lag /\ job' = "block" /\ retries' = retries /\ maxRetries' = retries
    BY DEF Inv, Delays, FetchBlock, BeginCall
  <2>2. WorstSleep(retries) \in Nat /\ SleepOf(1, retries) = WorstSleep(retries)
    BY Numbers, SleepOfOne, SleepGrows
  <2>3. 0 + WorstSleep(retries) <= WorstSleep(retries)
    BY <2>2
  <2>4. lag' + SleepLeft' <= SleepOf(1, retries')
    BY <1>1, <2>1, <2>2, <2>3, Zenon
  <2> QED
    BY <1>2, <2>1, <2>4 DEF Delays, JobEnded
<1>4. Rows' /\ Shutdown' /\ Committed'
  BY DEF Inv, Rows, Shutdown, Committed, JobEnded, FetchBlock, BeginCall, N, CtxDone
<1> QED
  BY <1>1, <1>2, <1>3, <1>4 DEF Inv

\* The block has come: nothing was slept.
LEMMA BlockAnsweredKeeps == ASSUME Inv, BlockAnswered PROVE Inv'
<1>1. CallInv' /\ lag' = 0
  BY CallRests DEF BlockAnswered, Inv, CallInv, CallTypeOK, callVars
<1>2. LookupInv' /\ TypeOK' /\ N' = N
  <2>1. LookupInv'
    BY LookupRests DEF Inv, BlockAnswered, callVars
  <2> QED
    BY <1>1, <2>1 DEF Inv, TypeOK, CallInv, LookupInv, BlockAnswered, N
<1>3. Delays'
  <2>1. job' = "txs" /\ next' - 1 = 0 /\ retries' = retries
    BY DEF BlockAnswered, Inv, Rows
  <2>2. SleepOf(0, retries) = 0
    BY Numbers, SleepOfOne
  <2> QED
    BY <1>1, <2>1, <2>2 DEF Delays, JobEnded
<1>4. Rows' /\ Shutdown' /\ Committed'
  BY <1>2 DEF Inv, Rows, Shutdown, Committed, JobEnded, BlockAnswered, callVars, CtxDone
<1> QED
  BY <1>1, <1>2, <1>3, <1>4 DEF Inv

\* The loop passes an entry: its row stands, and one call more may be slept.
LEMMA LoopAdvances ==
  ASSUME Inv, job \in {"txs", "tx"}, next <= N, UNCHANGED <<callVars, lookupVars, retries, txs, written>>,
         job' = "txs", next' = next + 1,
         NEW row \in {"none", "full", "rpcError", "ctxError"}, rows' = [rows EXCEPT ![next] = row],
         IF txs[next] = "tx" THEN row # "none" ELSE txs[next] = "notString" /\ row = "none",
         row = "ctxError" => CtxDone,
         lag <= SleepOf(next, retries)
  PROVE  Inv'
<1>0. /\ N \in Nat /\ DOMAIN txs = 1..N /\ next \in 1..(N + 1)
      /\ rows \in [1..N -> {"none", "full", "rpcError", "ctxError"}]
  BY Numbers
<1>1. CallInv' /\ LookupInv' /\ lag' = lag /\ err' = err /\ CtxDone' = CtxDone
  BY CallRests, LookupRests DEF Inv, CallInv, CallTypeOK, callVars, CtxDone
<1>2. N' = N
  BY DEF N
<1>3. TypeOK'
  <2>1. next' \in 1..(N' + 1)
    BY <1>0, <1>2
  <2>2. rows' \in [DOMAIN txs' -> {"none", "full", "rpcError", "ctxError"}]
    BY <1>0
  <2> QED
    BY <1>1, <2>1, <2>2 DEF Inv, TypeOK, CallInv, LookupInv
<1>4. Delays'
  <2>1. next' - 1 = next
    BY <1>0
  <2> QED
    BY <1>1, <2>1 DEF Delays, JobEnded
<1>5. ~written /\ Committed'
  BY DEF Inv, Committed, JobEnded
<1>6. Rows'
  BY <1>0, <1>2, <1>5 DEF Inv, Rows
<1>7. Shutdown'
  BY <1>0, <1>1, <1>5 DEF Inv, Shutdown
<1> QED
  BY <1>1, <1>3, <1>4, <1>5, <1>6, <1>7 DEF Inv

\* The function returns, or its write comes to the COMMIT.
Leaves ==
  /\ UNCHANGED <<callVars, lookupVars, retries, txs, next, rows>>
  /\ job' \in {"commit", "done", "failed"} /\ written' \in BOOLEAN
  /\ job' = "done" => written'
  /\ written' => job' # "commit"
  /\ job' = "commit" \/ written' => next > N /\ \A k \in DOMAIN txs : rows[k] # "ctxError"

LEMMA ReturnKeeps ==
  ASSUME Inv, CallsBound, Leaves
  PROVE  Inv'
<1> USE DEF Leaves
<1>1. CallInv' /\ LookupInv' /\ UNCHANGED <<err, lag>> /\ CtxDone' = CtxDone
  BY CallRests, LookupRests DEF Inv, CallInv, CallTypeOK, callVars, CtxDone
<1>2. N' = N
  BY DEF N
<1>3. TypeOK'
  BY <1>1, <1>2 DEF Inv, TypeOK, CallInv, LookupInv
<1>4. CallsBound'
  BY <1>1, <1>2 DEF CallsBound, WorstSleep
<1>5. Delays'
  BY <1>4 DEF Delays
<1>6. Rows' /\ Shutdown'
  BY <1>1, <1>2 DEF Inv, Rows, Shutdown
<1>7. Committed'
  BY DEF Committed, JobEnded
<1> QED
  BY <1>1, <1>3, <1>5, <1>6, <1>7 DEF Inv

LEMMA JobStepKeeps == ASSUME Inv, JobStep PROVE Inv'
<1>0. /\ retries \in Nat /\ lag \in Nat /\ SleepLeft \in Nat
      /\ N \in Nat /\ DOMAIN txs = 1..N /\ next \in 1..(N + 1)
      /\ rows \in [1..N -> {"none", "full", "rpcError", "ctxError"}]
  BY Numbers
<1>1. CASE FetchBlock
  BY <1>1, FetchBlockKeeps
<1>2. CASE BlockAnswered
  BY <1>2, BlockAnsweredKeeps
<1>3. CASE BlockFailed
  <2>1. SleepLeft = 0 /\ lag + SleepLeft <= SleepOf(1, retries) /\ 1 \in 0..N \union {1}
    BY <1>3 DEF BlockFailed, Inv, Delays, SleepLeft, Ended
  <2>2. lag <= SleepOf(1, retries)
    BY <1>0, <2>1
  <2>3. CallsBound
    BY <2>1, <2>2, WithinBound, Zenon
  <2>4. Leaves
    BY <1>3 DEF BlockFailed, Leaves, Inv, TypeOK, Committed, JobEnded
  <2> QED
    BY <2>3, <2>4, ReturnKeeps
<1>4. CASE SkipEntry
  <2>1. rows[next] = "none" /\ rows' = [rows EXCEPT ![next] = "none"]
    BY <1>0, <1>4 DEF SkipEntry, Inv, Rows
  <2>2. lag <= SleepOf(next, retries)
    <3>1. PICK n \in Nat : n = next - 1 /\ n <= next
      BY <1>0
    <3>2. lag <= SleepOf(n, retries)
      BY <1>4, <3>1 DEF SkipEntry, Inv, Delays
    <3>3. next \in Nat
      BY <1>0
    <3>4. SleepOf(n, retries) \in Nat /\ SleepOf(next, retries) \in Nat
      BY <1>0, <3>3, SleepOfOne
    <3>5. SleepOf(n, retries) <= SleepOf(next, retries)
      BY <1>0, <3>1, <3>3, SleepOfMore
    <3> QED
      BY <1>0, <3>2, <3>4, <3>5
  <2> QED
    BY <1>4, <2>1, <2>2, LoopAdvances DEF SkipEntry
<1>5. CASE DecodeFails
  <2>1. PICK n \in 0..N \union {1} : n = next - 1
    BY <1>0
  <2>2. lag <= SleepOf(n, retries)
    BY <1>5, <2>1 DEF DecodeFails, Inv, Delays
  <2>3. CallsBound
    BY <2>1, <2>2, WithinBound, Zenon
  <2>4. Leaves
    BY <1>5 DEF DecodeFails, Leaves, Inv, TypeOK, Committed, JobEnded
  <2> QED
    BY <2>3, <2>4, ReturnKeeps
<1>6. CASE FetchTx
  <2>0. LookupInv'
    BY <1>6, LookupRests DEF Inv, FetchTx, BeginCall, lookupVars, Looking
  <2>1. CallInv' /\ SleepLeft' = WorstSleep(retries)
    BY <1>0, <1>6, CallBegins DEF FetchTx, Inv
  <2>2. N' = N
    BY <1>6 DEF FetchTx, N
  <2>3. TypeOK'
    BY <1>6, <2>0, <2>1, <2>2 DEF Inv, TypeOK, CallInv, LookupInv, FetchTx
  <2>4. Delays'
    <3>1. /\ job' = "tx" /\ next' = next /\ retries' = retries /\ maxRetries' = retries /\ lag' = lag
          /\ next <= N /\ next - 1 \in Nat /\ lag <= SleepOf(next - 1, retries)
      BY <1>0, <1>6 DEF FetchTx, BeginCall, Inv, Delays
    <3>2. SleepOf(next - 1, retries) \in Nat /\ WorstSleep(retries) \in Nat
          /\ SleepOf((next - 1) + 1, retries) = SleepOf(next - 1, retries) + WorstSleep(retries)
      BY <1>0, <3>1, SleepOfOne, SleepGrows
    <3>3. (next - 1) + 1 = next
      BY <1>0
    <3>4. lag + WorstSleep(retries) <= SleepOf(next - 1, retries) + WorstSleep(retries)
      BY <1>0, <3>1, <3>2
    <3>5. lag' + SleepLeft' <= SleepOf(next', retries')
      BY <2>1, <3>1, <3>2, <3>3, <3>4, Zenon
    <3> QED
      BY <2>2, <3>1, <3>5 DEF Delays, JobEnded
  <2>5. Rows' /\ Shutdown' /\ Committed'
    BY <1>6, <2>2 DEF Inv, Rows, Shutdown, Committed, JobEnded, FetchTx, BeginCall, CtxDone
  <2> QED
    BY <2>0, <2>1, <2>3, <2>4, <2>5 DEF Inv
<1>7. CASE TxEnded
  <2>1. SleepLeft = 0 /\ lag + SleepLeft <= SleepOf(next, retries) /\ next <= N
    BY <1>7 DEF TxEnded, Inv, Delays, SleepLeft, Ended
  <2>2. lag <= SleepOf(next, retries)
    BY <1>0, <2>1
  <2>3. RowOfCall \in {"full", "rpcError", "ctxError"}
    BY <1>7 DEF TxEnded, RowOfCall
  <2>4. RowOfCall = "ctxError" => CtxDone
    BY <1>7 DEF TxEnded, RowOfCall, Inv, Shutdown
  <2>5. txs[next] = "tx"
    BY <1>7 DEF TxEnded, Inv, Rows
  <2> HIDE DEF RowOfCall
  <2> QED
    BY <1>7, <2>1, <2>2, <2>3, <2>4, <2>5, LoopAdvances DEF TxEnded
<1>8. CASE BeginWrite \/ WriteFails
  <2>1. PICK n \in 0..N \union {1} : n = next - 1
    BY <1>0, <1>8 DEF BeginWrite, WriteFails
  <2>2. lag <= SleepOf(n, retries)
    BY <1>8, <2>1 DEF BeginWrite, WriteFails, Inv, Delays
  <2>3. CallsBound
    BY <2>1, <2>2, WithinBound, Zenon
  <2>4. ~written
    BY <1>8 DEF BeginWrite, WriteFails, Inv, Committed, JobEnded
  <2>5. BeginWrite => \A k \in DOMAIN txs : rows[k] # "ctxError"
    BY DEF BeginWrite, Inv, Shutdown
  <2>6. Leaves
    BY <1>8, <2>4, <2>5 DEF BeginWrite, WriteFails, WriteStep, Leaves, Inv, TypeOK
  <2> QED
    BY <2>3, <2>6, ReturnKeeps
<1>9. CASE Commit \/ CommitLost \/ CommitFails
  <2>1. CallsBound /\ next > N /\ \A k \in DOMAIN txs : rows[k] # "ctxError"
    BY <1>9 DEF Commit, CommitLost, CommitFails, Inv, Delays, Rows, Shutdown
  <2>2. ~written
    BY <1>9 DEF Commit, CommitLost, CommitFails, Inv, Committed, JobEnded
  <2>3. Leaves
    BY <1>9, <2>1, <2>2 DEF Commit, CommitLost, CommitFails, WriteStep, Leaves, Inv, TypeOK
  <2> QED
    BY <2>1, <2>3, ReturnKeeps
<1> QED
  BY <1>1, <1>2, <1>3, <1>4, <1>5, <1>6, <1>7, <1>8, <1>9 DEF JobStep

\* The call of the block or of a transaction takes a step.
LEMMA CallRunsKeeps == ASSUME Inv, CallRuns PROVE Inv'
<1>1. CallInv' /\ LookupInv'
  <2>1. CASE CallStep /\ UNCHANGED lookupVars
    <3>1. phase' \notin Looking /\ stopped' = stopped
      BY <2>1 DEF CallStep, Resolve, CallAnswered, CallFails, Sleep, GiveUp, Looking
    <3> QED
      BY <2>1, <3>1, CallStepKeeps, LookupRests DEF Inv
  <2>2. CASE LookupStep
    BY <2>2, LookupStepKeeps DEF Inv
  <2> QED
    BY <2>1, <2>2 DEF CallRuns, AnyCallStep
<1>2. /\ UNCHANGED <<retries, job, txs, next, rows, written, maxRetries>> /\ job \in {"block", "tx"}
      /\ CtxDone' = CtxDone /\ (err' = "ctx" => err = "ctx" \/ CtxDone)
  BY ErrorsAssumption
  DEF CallRuns, AnyCallStep, jobVars, CallStep, Resolve, CallAnswered, CallFails, Sleep, GiveUp,
      LookupStep, LookupBegins, LookupAnswered, LookupRefused, RequestFails, RequestAgain,
      LookupFails, Backoff, CtxDone
<1>3. N' = N
  BY <1>2 DEF N
<1>4. TypeOK'
  BY <1>1, <1>2, <1>3 DEF Inv, TypeOK, CallInv, LookupInv
<1>5. ASSUME NEW n \in Nat, lag + SleepLeft <= SleepOf(n, retries)
      PROVE  lag' + SleepLeft' <= SleepOf(n, retries)
  <2>1. SleepOf(n, retries) \in Nat
    <3>1. retries \in Nat
      BY Numbers
    <3> QED
      BY <3>1, SleepOfOne
  <2>2. CASE CallStep
    BY <1>5, <2>1, <2>2, SleepStaysWithin DEF Inv
  <2>3. CASE LookupStep
    <3>1. lag' = lag /\ SleepLeft \in Nat /\ (SleepLeft' = SleepLeft \/ SleepLeft' = 0)
      BY <2>3, LookupSleepsApart DEF Inv
    <3>2. lag \in Nat
      BY Numbers
    <3> QED
      BY <1>5, <2>1, <3>1, <3>2
  <2> QED
    BY <2>2, <2>3 DEF CallRuns, AnyCallStep
<1>6. Delays'
  <2>1. CASE job = "block"
    <3>1. maxRetries = retries /\ lag + SleepLeft <= SleepOf(1, retries)
      BY <2>1 DEF Inv, Delays
    <3>2. lag' + SleepLeft' <= SleepOf(1, retries)
      BY <1>5, <3>1
    <3> QED
      BY <1>2, <1>3, <2>1, <3>1, <3>2 DEF Delays, JobEnded
  <2>2. CASE job = "tx"
    <3>1. maxRetries = retries /\ next <= N /\ next \in Nat /\ lag + SleepLeft <= SleepOf(next, retries)
      BY <2>2, Numbers DEF Inv, Delays
    <3>2. lag' + SleepLeft' <= SleepOf(next, retries)
      BY <1>5, <3>1
    <3> QED
      BY <1>2, <1>3, <2>2, <3>1, <3>2 DEF Delays, JobEnded
  <2> QED
    BY <1>2, <2>1, <2>2
<1>7. Rows' /\ Shutdown' /\ Committed'
  BY <1>2, <1>3 DEF Inv, Rows, Shutdown, Committed, JobEnded
<1> QED
  BY <1>1, <1>4, <1>6, <1>7 DEF Inv

\* The signal or the error of another goroutine comes, or nothing happens.
LEMMA RestKeeps == ASSUME Inv, Interrupted \/ AnotherFails \/ UNCHANGED vars PROVE Inv'
<1>0. /\ UNCHANGED <<retries, job, txs, next, rows, written, maxRetries, attempt, phase, err, lag>>
      /\ UNCHANGED lookupVars
      /\ stopped => stopped'
      /\ Stop \/ (stopped' = stopped /\ groupErr' \in BOOLEAN)
      /\ CtxDone => CtxDone'
  BY DEF Interrupted, AnotherFails, Stop, vars, callVars, jobVars, lookupVars, CtxDone,
         Inv, CallInv, CallTypeOK
<1>1. CallInv' /\ LookupInv' /\ SleepLeft' = SleepLeft /\ lag' = lag
  BY <1>0, CallRests, LookupRests DEF Inv
<1>2. /\ UNCHANGED <<retries, job, txs, next, rows, written, maxRetries, err>>
      /\ CtxDone => CtxDone'
  BY <1>0
<1>3. N' = N
  BY <1>2 DEF N
<1>4. TypeOK'
  BY <1>1, <1>2, <1>3 DEF Inv, TypeOK, CallInv, LookupInv
<1>5. CallsBound => CallsBound'
  BY <1>1, <1>2, <1>3 DEF CallsBound, WorstSleep
<1>6. Delays'
  BY <1>1, <1>2, <1>3, <1>5 DEF Inv, Delays, JobEnded
<1>7. Rows' /\ Shutdown' /\ Committed'
  BY <1>2, <1>3 DEF Inv, Rows, Shutdown, Committed, JobEnded
<1> QED
  BY <1>1, <1>4, <1>6, <1>7 DEF Inv

LEMMA Invariance == Spec => []Inv
<1>1. Inv /\ [Next]_vars => Inv'
  BY JobStepKeeps, CallRunsKeeps, RestKeeps DEF Next, Returned
<1> QED
  BY <1>1, InvInit, PTL DEF Spec

-----------------------------------------------------------------------------
\* The variables keep their types.
THEOREM Typing == Spec => []TypeOK
<1>1. Inv => TypeOK
  BY DEF Inv
<1> QED
  BY <1>1, Invariance, PTL

\* After the signal the goroutine sleeps at most through the attempts of one
\* request of the resolver and of one call for each transaction of its block.
THEOREM StopDelay == Spec => []StopBound
<1>1. Inv => CallsBound
  <2> SUFFICES ASSUME Inv PROVE CallsBound
    OBVIOUS
  <2>1. /\ retries \in Nat /\ lag \in Nat /\ SleepLeft \in Nat
        /\ N \in Nat /\ next \in 1..(N + 1)
    BY Numbers
  <2>2. job \in {"start", "block", "txs", "tx", "commit"} \/ JobEnded
    BY DEF Inv, TypeOK, JobEnded
  <2>3. CASE job = "commit" \/ JobEnded
    BY <2>3 DEF Inv, Delays
  <2>4. CASE job = "start"
    <3>1. 0 \in 0..N \union {1} /\ SleepOf(0, retries) = 0 /\ lag = 0
      BY <2>1, <2>4, SleepOfOne DEF Inv, Delays
    <3>2. lag <= SleepOf(0, retries)
      BY <3>1
    <3> QED
      BY <3>1, <3>2, WithinBound, Zenon
  <2>5. CASE job = "block"
    <3>1. 1 \in 0..N \union {1} /\ lag + SleepLeft <= SleepOf(1, retries) /\ SleepOf(1, retries) \in Nat
      BY <2>1, <2>5, SleepOfOne DEF Inv, Delays
    <3>2. lag <= SleepOf(1, retries)
      BY <2>1, <3>1
    <3> QED
      BY <3>1, <3>2, WithinBound, Zenon
  <2>6. CASE job = "txs"
    <3>1. PICK n \in 0..N \union {1} : n = next - 1
      BY <2>1
    <3>2. lag <= SleepOf(n, retries)
      BY <2>6, <3>1 DEF Inv, Delays
    <3> QED
      BY <3>1, <3>2, WithinBound, Zenon
  <2>7. CASE job = "tx"
    <3>1. next \in Nat /\ next \in 0..N \union {1} /\ lag + SleepLeft <= SleepOf(next, retries)
      BY <2>1, <2>7 DEF Inv, Delays
    <3>2. SleepOf(next, retries) \in Nat
      BY <2>1, <3>1, SleepOfOne
    <3>3. lag <= SleepOf(next, retries)
      BY <2>1, <3>1, <3>2
    <3> QED
      BY <3>1, <3>3, WithinBound, Zenon
  <2> QED
    BY <2>2, <2>3, <2>4, <2>5, <2>6, <2>7
<1>2. Inv => StopBound
  <2> SUFFICES ASSUME Inv PROVE StopBound
    OBVIOUS
  <2> DEFINE most == (IF N = 0 THEN 1 ELSE N) * WorstSleep(retries)
  <2>1. most \in Nat
    <3>1. retries \in Nat /\ (IF N = 0 THEN 1 ELSE N) \in Nat
      BY Numbers
    <3> QED
      BY <3>1, SleepOfOne DEF SleepOf
  <2>2. lag \in Nat /\ lag <= most
    BY <1>1, Numbers DEF CallsBound
  <2>3. lookupLag \in Nat /\ WorstSleep(LookupAttempts) \in Nat
        /\ lookupLag <= WorstSleep(LookupAttempts)
    BY SleepGrows DEF Inv, LookupInv, LookupTypeOK, LookupAttempts
  <2>4. StopBound <=> lag + lookupLag <= WorstSleep(LookupAttempts) + most
    BY DEF StopBound
  <2> HIDE DEF most
  <2> QED
    BY <2>1, <2>2, <2>3, <2>4
<1> QED
  BY <1>2, Invariance, PTL

\* A block that is written has exactly one row for each of its transactions.
THEOREM NoTxIsLost == Spec => []OneRowPerTx
<1>1. Inv => OneRowPerTx
  BY Numbers DEF Inv, Rows, OneRowPerTx
<1> QED
  BY <1>1, Invariance, PTL

\* No block is written with the error row of a call that the shutdown ended.
THEOREM ShutdownSpoilsNoRow == Spec => []NoCancelledRow
<1>1. Inv => NoCancelledRow
  BY Numbers DEF Inv, Shutdown, NoCancelledRow
<1> QED
  BY <1>1, Invariance, PTL

\* A call is given up only when its attempts are used up.
THEOREM Persistence == Spec => []EveryAttemptMade
<1>1. Inv => EveryAttemptMade
  BY DEF Inv, CallInv, EveryAttemptMade
<1> QED
  BY <1>1, Invariance, PTL

-----------------------------------------------------------------------------
\* What the goroutine of ProcessBlocks sees of a step.
Moves(from, to) == Stage = from /\ Stage' = to
HoldsOn == \A k \in 1..MaxTxs : Held(k)' = Held(k)

\* The contexts and the tables stay as they are.
Apart == UNCHANGED <<written, stopped, groupErr>>

\* A step of its batch, or none, with the transactions T.
Conforms(T) ==
  \/ Goroutine(T)!Worker(1) \/ Goroutine(T)!Report(2) \/ Goroutine(T)!Interrupt
  \/ UNCHANGED Goroutine(T)!vars

Txs == SUBSET (1..MaxTxs)

LEMMA Still ==
  ASSUME NEW T \in Txs, Stage' = Stage, HoldsOn, Apart
  PROVE  Conforms(T)
BY DEF Conforms, Apart, HoldsOn, Goroutine!vars, Goroutine!db

LEMMA Goes ==
  ASSUME NEW T \in Txs, NEW from, NEW to, Moves(from, to), groupErr' = groupErr
  PROVE  Goroutine(T)!Goto(1, from, to)
BY DEF Moves, Goroutine!Goto

\* The call is answered, in Invoke or after a lookup.
LEMMA CallIsAnswered ==
  ASSUME NEW T \in Txs, NEW plain, NEW lookup,
         (Stage = plain /\ ~CtxDone) \/ (Stage = lookup /\ ~stopped)
  PROVE  Goroutine(T)!Answers(1, plain, lookup)
BY DEF Goroutine!Answers, Goroutine!CtxDone, CtxDone

LEMMA FetchesBlock ==
  ASSUME NEW T \in Txs, Stage' = "txs", HoldsOn, Apart,
         (Stage = "block" /\ ~CtxDone) \/ (Stage = "blockLookup" /\ ~stopped)
  PROVE  Conforms(T)
<1>1. Goroutine(T)!Answers(1, "block", "blockLookup")
  BY CallIsAnswered
<1>2. Goroutine(T)!FetchBlock(1)
  BY <1>1 DEF Apart, HoldsOn, Goroutine!FetchBlock, Goroutine!db
<1> QED
  BY <1>2 DEF Conforms, Goroutine!Worker, Goroutine!CallEnds

\* The answer holds a type that is not registered; or the lookup has failed.
LEMMA BeginsLookup ==
  ASSUME NEW T \in Txs, HoldsOn, Apart, ~CtxDone,
         \/ Moves("block", "blockLookup")
         \/ Moves("txs", "txLookup") /\ \E t \in T : Held(t) = "none"
  PROVE  Conforms(T)
<1>1. \/ Goroutine(T)!Goto(1, "block", "blockLookup")
      \/ Goroutine(T)!Goto(1, "txs", "txLookup")
  BY Goes DEF Apart
<1>2. Moves("txs", "txLookup") => Goroutine(T)!ToFetch(1) # {}
  BY DEF Moves, Goroutine!ToFetch, Txs
<1>3. Goroutine(T)!LookupBegins(1)
  BY <1>1, <1>2 DEF Moves, Apart, HoldsOn, CtxDone, Goroutine!LookupBegins, Goroutine!CtxDone,
                    Goroutine!Goto, Goroutine!db
<1> QED
  BY <1>3 DEF Conforms, Goroutine!Worker

LEMMA LosesLookup ==
  ASSUME NEW T \in Txs, HoldsOn, Apart,
         Moves("blockLookup", "block") \/ Moves("txLookup", "txs")
  PROVE  Conforms(T)
<1>1. \/ Goroutine(T)!Goto(1, "blockLookup", "block")
      \/ Goroutine(T)!Goto(1, "txLookup", "txs")
  BY Goes DEF Apart
<1>2. Goroutine(T)!LookupFails(1)
  BY <1>1 DEF Moves, Apart, HoldsOn, Goroutine!LookupFails, Goroutine!db
<1> QED
  BY <1>2 DEF Conforms, Goroutine!Worker

\* The answer of GetTx, or its last error, is there.
LEMMA FetchesTx ==
  ASSUME NEW T \in Txs, NEW t \in T, Stage' = "txs", Apart,
         ~written, Held(t) = "none", NEW row, Held(t)' = row,
         \A k \in (1..MaxTxs) \ {t} : Held(k)' = Held(k),
         \/ row = "full" /\ ((Stage = "txs" /\ ~CtxDone) \/ (Stage = "txLookup" /\ ~stopped))
         \/ row = "rpcError" /\ Stage = "txs"
         \/ row = "ctxError" /\ Stage = "txs" /\ CtxDone
  PROVE  Conforms(T)
<1> DEFINE holds == [h \in {1, 2} |-> [k \in 1..MaxTxs |-> IF h = 1 THEN Held(k) ELSE "none"]]
           at == [h \in {1, 2} |-> IF h = 1 THEN Stage
                                   ELSE IF groupErr THEN "reported" ELSE "failed"]
<1>1. holds' = [holds EXCEPT ![1][t] = row]
  OBVIOUS
<1>2. t \in Goroutine(T)!ToFetch(1)
  BY DEF Goroutine!ToFetch, Txs
<1>3. [k \in 1..MaxTxs |-> IF written /\ k \in T THEN Held(k) ELSE "none"]'
        = [k \in 1..MaxTxs |-> IF written /\ k \in T THEN Held(k) ELSE "none"]
  BY DEF Apart
<1>4. at' = [at EXCEPT ![1] = "txs"] /\ (Stage = "txs" => at' = at)
  BY DEF Apart
<1>5. CASE row = "full"
  <2>1. Goroutine(T)!Answers(1, "txs", "txLookup")
    BY <1>5, CallIsAnswered
  <2>2. Goroutine(T)!FetchTx(1)
    BY <1>1, <1>2, <1>3, <1>4, <1>5, <2>1 DEF Apart, Goroutine!FetchTx, Goroutine!db
  <2> QED
    BY <2>2 DEF Conforms, Goroutine!Worker, Goroutine!CallEnds
<1>6. CASE row # "full"
  <2>1. at[1] = "txs" /\ at' = at
    BY <1>4, <1>6
  <2>2. row \in {"rpcError"} \union (IF stopped \/ groupErr THEN {"ctxError"} ELSE {})
    BY <1>6 DEF CtxDone
  <2>3. Stage = "txs" /\ UNCHANGED <<Stage, written, stopped, groupErr>>
    BY <1>6 DEF Apart
  <2>4. UNCHANGED Goroutine(T)!db
    BY <1>3, <2>3 DEF Goroutine!db
  <2>5. Goroutine(T)!FetchTxFails(1)
    BY <1>1, <1>2, <2>1, <2>2, <2>3, <2>4 DEF Goroutine!FetchTxFails, Goroutine!CtxDone
  <2> QED
    BY <2>5 DEF Conforms, Goroutine!Worker, Goroutine!CallEnds
<1> QED
  BY <1>5, <1>6

\* The function returns an error with nothing written.
LEMMA FailsAs ==
  ASSUME NEW T \in Txs, NEW from \in {"block", "txs", "commit"}, Moves(from, "failed"),
         HoldsOn, Apart
  PROVE  /\ Goroutine(T)!Fail(1, from)
         /\ UNCHANGED Goroutine(T)!db
<1>1. Goroutine(T)!Goto(1, from, "failed")
  BY Goes DEF Apart
<1>2. UNCHANGED Goroutine(T)!db
  BY DEF Apart, HoldsOn, Goroutine!db
<1> QED
  BY <1>1, <1>2 DEF Moves, Apart, HoldsOn, Goroutine!Fail

LEMMA FailsAtBlock ==
  ASSUME NEW T \in Txs, Moves("block", "failed"), HoldsOn, Apart
  PROVE  Conforms(T)
BY FailsAs DEF Conforms, Goroutine!Worker, Goroutine!CallEnds, Goroutine!FetchBlockFails

LEMMA FailsAtDecode ==
  ASSUME NEW T \in Txs, NEW t \in T, Held(t) = "none",
         Moves("txs", "failed"), HoldsOn, Apart
  PROVE  Conforms(T)
<1>1. Goroutine(T)!ToFetch(1) # {}
  BY DEF Goroutine!ToFetch, Txs
<1> QED
  BY <1>1, FailsAs DEF Conforms, Goroutine!Worker, Goroutine!DecodeTxFails

LEMMA FailsAtWrite ==
  ASSUME NEW T \in Txs, \A t \in T : Held(t) # "none",
         Moves("txs", "failed"), HoldsOn, Apart
  PROVE  Conforms(T)
<1>1. Goroutine(T)!ToFetch(1) = {}
  BY DEF Goroutine!ToFetch, Txs
<1> QED
  BY <1>1, FailsAs DEF Conforms, Goroutine!Worker, Goroutine!WriteFails

LEMMA FailsAtCommit ==
  ASSUME NEW T \in Txs, Moves("commit", "failed"), HoldsOn, Apart
  PROVE  Conforms(T)
BY FailsAs DEF Conforms, Goroutine!Worker, Goroutine!CommitFails

LEMMA BeginsWrite ==
  ASSUME NEW T \in Txs, \A t \in T : Held(t) # "none", ~CtxDone,
         Moves("txs", "commit"), HoldsOn, Apart
  PROVE  Conforms(T)
<1>1. Goroutine(T)!ToFetch(1) = {}
  BY DEF Goroutine!ToFetch, Txs
<1>2. Goroutine(T)!Goto(1, "txs", "commit")
  BY Goes DEF Apart
<1>3. Goroutine(T)!BeginWrite(1)
  BY <1>1, <1>2
  DEF Moves, Apart, HoldsOn, CtxDone, Goroutine!BeginWrite, Goroutine!CtxDone, Goroutine!db
<1> QED
  BY <1>3 DEF Conforms, Goroutine!Worker

\* The rows get into the tables, whatever the goroutine is told.
LEMMA Commits ==
  ASSUME NEW T \in Txs, NEW to \in {"done", "failed"}, Moves("commit", to), HoldsOn,
         UNCHANGED <<stopped, groupErr>>, ~written, written'
  PROVE  Conforms(T)
<1>1. Goroutine(T)!Goto(1, "commit", to)
  BY Goes
<1>2. Goroutine(T)!Apply(1)
  BY DEF HoldsOn, Goroutine!Apply
<1>3. CASE to = "done"
  <2>1. Goroutine(T)!Commit(1)
    BY <1>1, <1>2, <1>3 DEF Moves, HoldsOn, Goroutine!Commit
  <2> QED
    BY <2>1 DEF Conforms, Goroutine!Worker
<1>4. CASE to = "failed"
  <2>1. Goroutine(T)!Fail(1, "commit")
    BY <1>1, <1>4 DEF Moves, HoldsOn, Goroutine!Fail
  <2> QED
    BY <1>2, <2>1 DEF Conforms, Goroutine!Worker, Goroutine!CommitLost
<1> QED
  BY <1>3, <1>4

LEMMA IsInterrupted ==
  ASSUME NEW T \in Txs, Stage' = Stage, HoldsOn, UNCHANGED <<written, groupErr>>,
         ~stopped, stopped' = TRUE
  PROVE  Conforms(T)
<1>1. Goroutine(T)!Interrupt
  BY DEF HoldsOn, Goroutine!Interrupt, Goroutine!db
<1> QED
  BY <1>1 DEF Conforms

LEMMA GroupFails ==
  ASSUME NEW T \in Txs, Stage' = Stage, HoldsOn, UNCHANGED <<written, stopped>>,
         ~groupErr, groupErr' = TRUE
  PROVE  Conforms(T)
<1> DEFINE at == [h \in {1, 2} |-> IF h = 1 THEN Stage
                                   ELSE IF groupErr THEN "reported" ELSE "failed"]
<1>1. at[2] = "failed" /\ at' = [at EXCEPT ![2] = "reported"]
  <2>1. at = [h \in {1, 2} |-> IF h = 1 THEN Stage ELSE "failed"]
    OBVIOUS
  <2>2. at' = [h \in {1, 2} |-> IF h = 1 THEN Stage ELSE "reported"]
    OBVIOUS
  <2> HIDE DEF at
  <2>3. at[2] = "failed"
    BY <2>1
  <2>4. [at EXCEPT ![2] = "reported"] = [h \in {1, 2} |-> IF h = 1 THEN Stage ELSE "reported"]
    BY <2>1
  <2> QED
    BY <2>2, <2>3, <2>4
<1>2. Goroutine(T)!Goto(2, "failed", "reported")
  BY <1>1 DEF Goroutine!Goto
<1>3. [h \in {1, 2} |-> [k \in 1..MaxTxs |-> IF h = 1 THEN Held(k) ELSE "none"]]'
        = [h \in {1, 2} |-> [k \in 1..MaxTxs |-> IF h = 1 THEN Held(k) ELSE "none"]]
  BY DEF HoldsOn
<1>4. UNCHANGED Goroutine(T)!db
  BY DEF HoldsOn, Goroutine!db
<1>5. Goroutine(T)!Report(2)
  BY <1>2, <1>3, <1>4 DEF Goroutine!Report
<1> QED
  BY <1>5 DEF Conforms

LEMMA BegunInit == Init => Begun
<1> SUFFICES ASSUME Init PROVE Begun
  OBVIOUS
<1>1. job = "start" /\ written = FALSE /\ rows = [k \in DOMAIN txs |-> "none"]
  BY DEF Init
<1>2. Stage = "block"
  BY <1>1 DEF Stage
<1>3. \A k \in 1..MaxTxs : Held(k) = "none"
  BY <1>1 DEF Held
<1> QED
  BY <1>1, <1>2, <1>3 DEF Begun

\* The entries before next are held, the others not yet.
LEMMA HeldRows ==
  ASSUME Inv, job \in {"txs", "tx"}
  PROVE  /\ TxEntries \in Txs
         /\ next <= N => next \in DOMAIN txs /\ rows[next] = "none"
         /\ next > N => \A t \in TxEntries : rows[t] # "none"
         /\ ~written
<1>1. N \in Nat /\ DOMAIN txs = 1..N /\ next \in 1..(N + 1)
  BY Numbers
<1>2. TxEntries \in Txs
  <2>1. PICK n \in 0..MaxTxs : txs \in [1..n -> Entries]
    BY DEF Inv, TypeOK, Blocks
  <2>2. DOMAIN txs \subseteq 1..MaxTxs
    BY <2>1, MaxTxsAssumption
  <2> QED
    BY <2>2 DEF TxEntries, Txs
<1>3. next <= N => next \in DOMAIN txs /\ rows[next] = "none"
  BY <1>1 DEF Inv, Rows
<1>4. next > N => \A t \in TxEntries : rows[t] # "none"
  BY <1>1 DEF Inv, Rows, TxEntries
<1>5. ~written
  BY DEF Inv, Committed, JobEnded
<1> QED
  BY <1>2, <1>3, <1>4, <1>5

LEMMA JobStepConforms ==
  ASSUME Inv, JobStep, NEW T \in Txs, T = TxEntries
  PROVE  Conforms(T)
<1>1. CASE FetchBlock \/ BlockAnswered
  <2>1. Stage' = Stage /\ Apart
    BY <1>1 DEF FetchBlock, BlockAnswered, BeginCall, Stage, Looking, callVars, Apart
  <2>2. HoldsOn
    BY <1>1 DEF FetchBlock, BlockAnswered, BeginCall, HoldsOn, Held
  <2> QED
    BY <2>1, <2>2, Still
<1>2. CASE BlockFailed
  <2>1. Moves("block", "failed") /\ Apart
    BY <1>2 DEF BlockFailed, Moves, Stage, Looking, callVars, Apart
  <2>2. HoldsOn
    BY <1>2 DEF BlockFailed, HoldsOn, Held
  <2> QED
    BY <2>1, <2>2, FailsAtBlock
<1>3. CASE SkipEntry
  <2>1. Stage' = Stage /\ Apart
    BY <1>3 DEF SkipEntry, Stage, callVars, Apart
  <2>2. HoldsOn
    BY <1>3 DEF SkipEntry, HoldsOn, Held
  <2> QED
    BY <2>1, <2>2, Still
<1>4. CASE DecodeFails
  <2>1. Moves("txs", "failed") /\ Apart
    BY <1>4 DEF DecodeFails, Moves, Stage, callVars, Apart
  <2>2. HoldsOn
    BY <1>4 DEF DecodeFails, HoldsOn, Held
  <2>3. next \in T /\ Held(next) = "none"
    BY <1>4, HeldRows DEF DecodeFails, TxEntries, Held
  <2> QED
    BY <2>1, <2>2, <2>3, FailsAtDecode
<1>5. CASE FetchTx
  <2>1. Stage' = Stage /\ Apart
    BY <1>5 DEF FetchTx, BeginCall, Stage, Looking, Apart
  <2>2. HoldsOn
    BY <1>5 DEF FetchTx, BeginCall, HoldsOn, Held
  <2> QED
    BY <2>1, <2>2, Still
<1>6. CASE TxEnded
  <2>1. Stage = "txs" /\ Stage' = "txs" /\ Apart
    BY <1>6 DEF TxEnded, Stage, Looking, callVars, Apart
  <2>2. PICK t \in T : t = next /\ t \in DOMAIN txs /\ rows[t] = "none" /\ ~written
    <3>1. next <= N /\ txs[next] = "tx"
      BY <1>6 DEF TxEnded, Inv, Rows
    <3> QED
      BY <1>6, <3>1, HeldRows DEF TxEnded, TxEntries
  <2>3. rows' = [rows EXCEPT ![t] = RowOfCall] /\ DOMAIN rows = DOMAIN txs /\ txs' = txs
    BY <1>6, <2>2 DEF TxEnded, Inv, TypeOK
  <2>4. \A k \in (1..MaxTxs) \ {t} : Held(k)' = Held(k)
    BY <1>6, <2>2, <2>3 DEF TxEnded, Held
  <2>5. Held(t)' = RowOfCall
    BY <1>6, <2>2, <2>3 DEF TxEnded, Held
  <2>6. CASE phase = "answered"
    <3>1. Held(t) = "full" /\ RowOfCall = "full"
      BY <1>6, <2>2, <2>6 DEF TxEnded, Held, RowOfCall
    <3>2. HoldsOn
      BY <2>4, <2>5, <3>1 DEF HoldsOn
    <3> QED
      BY <2>1, <3>2, Still
  <2>7. CASE phase = "failed"
    <3>1. Held(t) = "none"
      BY <2>2, <2>7 DEF Held
    <3>2. RowOfCall = "rpcError" \/ (RowOfCall = "ctxError" /\ CtxDone)
      BY <2>7 DEF RowOfCall, Inv, Shutdown
    <3> QED
      BY <2>1, <2>2, <2>4, <2>5, <3>1, <3>2, FetchesTx
  <2> QED
    BY <1>6, <2>6, <2>7 DEF TxEnded
<1>7. CASE BeginWrite \/ WriteFails
  <2>1. job = "txs" /\ next > N /\ HoldsOn /\ Apart
    BY <1>7 DEF BeginWrite, WriteFails, WriteStep, HoldsOn, Held, callVars, Apart
  <2>2. \A t \in T : Held(t) # "none"
    BY <2>1, HeldRows DEF Held, TxEntries
  <2>3. CASE BeginWrite
    <3>1. Moves("txs", "commit") /\ ~CtxDone
      BY <2>3 DEF BeginWrite, WriteStep, Moves, Stage
    <3> QED
      BY <2>1, <2>2, <3>1, BeginsWrite
  <2>4. CASE WriteFails
    <3>1. Moves("txs", "failed")
      BY <2>4 DEF WriteFails, WriteStep, Moves, Stage
    <3> QED
      BY <2>1, <2>2, <3>1, FailsAtWrite
  <2> QED
    BY <1>7, <2>3, <2>4
<1>8. CASE Commit \/ CommitLost \/ CommitFails
  <2>1. job = "commit" /\ HoldsOn /\ UNCHANGED <<stopped, groupErr>>
    BY <1>8 DEF Commit, CommitLost, CommitFails, WriteStep, HoldsOn, Held, callVars
  <2>2. ~written
    BY <2>1 DEF Inv, Committed, JobEnded
  <2>3. CASE Commit
    <3>1. Moves("commit", "done") /\ written'
      BY <2>3 DEF Commit, WriteStep, Moves, Stage
    <3> QED
      BY <2>1, <2>2, <3>1, Commits
  <2>4. CASE CommitLost
    <3>1. Moves("commit", "failed") /\ written'
      BY <2>4 DEF CommitLost, WriteStep, Moves, Stage
    <3> QED
      BY <2>1, <2>2, <3>1, Commits
  <2>5. CASE CommitFails
    <3>1. Moves("commit", "failed") /\ written' = written
      BY <2>5 DEF CommitFails, WriteStep, Moves, Stage
    <3> QED
      BY <2>1, <3>1, FailsAtCommit DEF Apart
  <2> QED
    BY <1>8, <2>3, <2>4, <2>5
<1> QED
  BY <1>1, <1>2, <1>3, <1>4, <1>5, <1>6, <1>7, <1>8 DEF JobStep

\* The transaction of the call that runs.
LEMMA TxOfCall ==
  ASSUME Inv, job = "tx", phase # "answered", NEW T \in Txs, T = TxEntries,
         UNCHANGED <<job, txs, next, rows>>
  PROVE  /\ next \in T /\ Held(next) = "none" /\ ~written
         /\ phase' = "answered" => Held(next)' = "full"
         /\ \A k \in (1..MaxTxs) \ {next} : Held(k)' = Held(k)
<1>1. next \in DOMAIN txs /\ txs[next] = "tx" /\ rows[next] = "none" /\ ~written
  BY HeldRows DEF Inv, Rows
<1> QED
  BY <1>1 DEF TxEntries, Held

\* The call of the goroutine is answered in full.
LEMMA AnswerConforms ==
  ASSUME Inv, job \in {"block", "tx"}, UNCHANGED <<job, txs, next, rows>>, Apart,
         phase # "answered", phase' = "answered", NEW T \in Txs, T = TxEntries,
         (phase \notin Looking /\ ~CtxDone) \/ (phase \in Looking /\ ~stopped)
  PROVE  Conforms(T)
<1>1. CASE job = "block"
  <2>1. Stage' = "txs" /\ ((Stage = "block" /\ ~CtxDone) \/ (Stage = "blockLookup" /\ ~stopped))
    BY <1>1 DEF Stage, Looking
  <2>2. HoldsOn
    BY <1>1 DEF HoldsOn, Held
  <2> QED
    BY <2>1, <2>2, FetchesBlock
<1>2. CASE job = "tx"
  <2>1. Stage' = "txs" /\ ((Stage = "txs" /\ ~CtxDone) \/ (Stage = "txLookup" /\ ~stopped))
    BY <1>2 DEF Stage, Looking
  <2>2. next \in T /\ ~written /\ Held(next) = "none" /\ Held(next)' = "full"
        /\ \A k \in (1..MaxTxs) \ {next} : Held(k)' = Held(k)
    BY <1>2, TxOfCall
  <2>3. PICK t \in T : t = next
    BY <2>2
  <2>4. Held(t) = "none" /\ Held(t)' = "full"
    <3>1. t' = t /\ next' = next
      BY <2>3
    <3> QED
      BY <2>2, <2>3, <3>1
  <2> QED
    BY <2>1, <2>2, <2>3, <2>4, FetchesTx
<1> QED
  BY <1>1, <1>2

\* Of a call, the answer shows and the lookups do.
LEMMA CallRunsConforms ==
  ASSUME Inv, CallRuns, NEW T \in Txs, T = TxEntries
  PROVE  Conforms(T)
<1>1. UNCHANGED <<job, txs, next, rows>> /\ Apart /\ job \in {"block", "tx"} /\ phase # "answered"
  BY DEF CallRuns, AnyCallStep, jobVars, CallStep, Resolve, CallAnswered, CallFails, Sleep, GiveUp,
         LookupStep, LookupBegins, LookupAnswered, LookupRefused, RequestFails, RequestAgain,
         LookupFails, Backoff, Apart
<1>2. CASE phase' = "answered"
  <2>1. (phase \notin Looking /\ ~CtxDone) \/ (phase \in Looking /\ ~stopped)
    BY <1>2 DEF CallRuns, AnyCallStep, CallStep, Resolve, CallAnswered, CallFails, Sleep, GiveUp,
         LookupStep, LookupBegins, LookupAnswered, LookupRefused, RequestFails, RequestAgain,
         LookupFails, Backoff, Looking
  <2> QED
    BY <1>1, <1>2, <2>1, AnswerConforms
<1>3. CASE phase' # "answered"
  <2>1. HoldsOn
    BY <1>1, <1>3 DEF HoldsOn, Held
  <2>2. CASE phase \in Looking <=> phase' \in Looking
    <3>1. Stage' = Stage
      BY <1>1, <1>3, <2>2 DEF Stage
    <3> QED
      BY <1>1, <2>1, <3>1, Still
  <2>3. CASE phase \notin Looking /\ phase' \in Looking
    <3>1. ~CtxDone
      BY <2>3 DEF CallRuns, AnyCallStep, CallStep, Resolve, CallAnswered, CallFails, Sleep, GiveUp,
         LookupStep, LookupBegins, LookupAnswered, LookupRefused, RequestFails, RequestAgain,
         LookupFails, Backoff, Looking
    <3>2. Moves("block", "blockLookup") \/ (Moves("txs", "txLookup") /\ job = "tx")
      BY <1>1, <1>3, <2>3 DEF Moves, Stage
    <3>3. job = "tx" => \E t \in T : Held(t) = "none"
      BY <1>1, TxOfCall
    <3> QED
      BY <1>1, <2>1, <3>1, <3>2, <3>3, BeginsLookup
  <2>4. CASE phase \in Looking /\ phase' \notin Looking
    <3>1. Moves("blockLookup", "block") \/ Moves("txLookup", "txs")
      BY <1>1, <1>3, <2>4 DEF Moves, Stage
    <3> QED
      BY <1>1, <2>1, <3>1, LosesLookup
  <2> QED
    BY <2>2, <2>3, <2>4
<1> QED
  BY <1>2, <1>3

LEMMA RestConforms ==
  ASSUME Interrupted \/ AnotherFails \/ UNCHANGED vars, NEW T \in Txs
  PROVE  Conforms(T)
<1>1. Stage' = Stage /\ HoldsOn /\ written' = written
  BY DEF Interrupted, AnotherFails, Stop, jobVars, vars, callVars, Stage, HoldsOn, Held
<1>2. CASE Interrupted
  BY <1>1, <1>2, IsInterrupted DEF Interrupted, Stop
<1>3. CASE AnotherFails
  BY <1>1, <1>3, GroupFails DEF AnotherFails
<1>4. CASE UNCHANGED vars
  BY <1>1, <1>4, Still DEF vars, callVars, Apart
<1> QED
  BY <1>2, <1>3, <1>4

\* A block and its calls, attempt by attempt, do nothing that a goroutine of
\* ProcessBlocks does not: the one step in which it takes a call there is enough.
THEOREM Conformance == Spec => RunsAsGoroutine
<1> DEFINE Conforming == \A T \in SUBSET (1..MaxTxs) :
             T = TxEntries => \/ Goroutine(T)!Worker(1) \/ Goroutine(T)!Report(2)
                              \/ Goroutine(T)!Interrupt
                              \/ UNCHANGED Goroutine(T)!vars
<1>1. Inv /\ [Next]_vars => Conforming
  <2> SUFFICES ASSUME Inv, [Next]_vars, NEW T \in Txs, T = TxEntries PROVE Conforms(T)
    BY DEF Conforms, Txs
  <2> QED
    BY JobStepConforms, CallRunsConforms, RestConforms DEF Next, Returned
<1>2. Inv /\ [Next]_vars => [Conforming]_vars
  BY <1>1
<1> QED
  BY <1>2, BegunInit, Invariance, PTL DEF Spec, RunsAsGoroutine
=============================================================================
