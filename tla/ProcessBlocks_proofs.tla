------------------------ MODULE ProcessBlocks_proofs ------------------------
(***************************************************************************)
(* Proofs about one call of processBlocks, for every range, every limit of *)
(* concurrency and every assignment of transactions to blocks.             *)
(*                                                                         *)
(* Two strengthenings carry them: Control relates the program counters of  *)
(* the dispatcher and the goroutines to the result, Data says what a       *)
(* goroutine holds when its COMMIT is sent and what the tables hold.       *)
(***************************************************************************)
EXTENDS ProcessBlocks, FiniteSetTheorems, TLAPS

\* A height below the loop variable has a goroutine, one above has none; what
\* a result and an ended goroutine imply.
Control ==
  /\ \A h \in Heights : wk[h] # "idle" <=> h < height
  /\ disp = "acquire" => height <= Stop
  /\ disp = "wait" => height > Stop
  /\ result = "none" <=> disp # "returned"
  /\ \A h \in Heights : wk[h] = "reported" => groupErr
  /\ \A h \in Heights : wk[h] = "done" => h \in blocksRaw
  /\ result = "ok" => \A h \in Heights : wk[h] = "done"

\* A live context has cancelled no call; a COMMIT carries a row, and not that
\* of a cancelled call, for every transaction of its block.
Data ==
  /\ ~CtxDone => \A h \in Heights, t \in Tx : fetched[h][t] # "ctxError"
  /\ \A h \in Heights : wk[h] = "commit" =>
       \A t \in TxsOf[h] : fetched[h][t] \in {"full", "rpcError"}
  /\ NoCancelledRow
  /\ BlockWithItsTxs

-----------------------------------------------------------------------------
\* Every variable keeps its type: the state of the dispatcher, of every
\* goroutine and of the tables stays among the values the model names.
THEOREM Typing == Spec => []TypeOK
<1>1. Init => TypeOK
  <2> SUFFICES ASSUME Init PROVE TypeOK
    OBVIOUS
  <2>1. wk \in [Heights -> Stages] /\ fetched \in [Heights -> [Tx -> Rows]]
    BY DEF Init, Stages, Rows
  <2>2. blocksRaw \in SUBSET Heights /\ txRaw \in [Tx -> Rows]
    BY DEF Init, Rows
  <2>3. interrupted \in BOOLEAN /\ groupErr \in BOOLEAN
    BY DEF Init
  <2> QED
    BY <2>1, <2>2, <2>3, RangeAssumption DEF Init, TypeOK
<1>2. TypeOK /\ [Next]_vars => TypeOK'
  <2> SUFFICES ASSUME TypeOK, [Next]_vars PROVE TypeOK'
    OBVIOUS
  <2> USE DEF TypeOK, db
  <2>1. CASE Spawn
    <3>1. wk' \in [Heights -> Stages]
      BY <2>1 DEF Spawn, Stages, Work
    <3> QED
      BY <2>1, <3>1, RangeAssumption DEF Spawn
  <2>2. CASE CheckContext \/ ReturnCtxErr \/ EndLoop \/ Wait
    BY <2>2 DEF CheckContext, ReturnCtxErr, EndLoop, Wait
  <2>3. ASSUME NEW h \in Heights, Worker(h) PROVE TypeOK'
    <3>1. wk' \in [Heights -> Stages]
      BY <2>3 DEF Worker, CallEnds, LookupBegins, LookupFails, Answers, FetchBlock, FetchBlockFails,
                  FetchTx, FetchTxFails, DecodeTxFails,
                  BeginWrite, WriteFails, Commit, CommitLost, CommitFails, Report, Fail, Goto,
                  Stages, Work, Lookups
    <3>2. fetched' \in [Heights -> [Tx -> Rows]]
      <4>1. CASE FetchTx(h)
        <5>1. PICK t \in Tx : fetched' = [fetched EXCEPT ![h][t] = "full"]
          BY <4>1, TxAssumption DEF FetchTx, ToFetch
        <5> QED
          BY <5>1 DEF Rows
      <4>2. CASE FetchTxFails(h)
        <5>1. PICK t \in Tx, row \in {"rpcError", "ctxError"} :
                fetched' = [fetched EXCEPT ![h][t] = row]
          BY <4>2, TxAssumption DEF FetchTxFails, ToFetch
        <5> QED
          BY <5>1 DEF Rows
      <4>3. CASE ~FetchTx(h) /\ ~FetchTxFails(h)
        BY <2>3, <4>3 DEF Worker, CallEnds, LookupBegins, LookupFails, FetchBlock, FetchBlockFails,
                          DecodeTxFails, BeginWrite,
                          WriteFails, Commit, CommitLost, CommitFails, Report, Fail
      <4> QED
        BY <4>1, <4>2, <4>3
    <3>3. blocksRaw' \in SUBSET Heights /\ txRaw' \in [Tx -> Rows]
      <4>1. CASE Apply(h)
        <5>1. txRaw' \in [Tx -> Rows]
          BY <4>1 DEF Apply
        <5> QED
          BY <4>1, <5>1 DEF Apply
      <4>2. CASE UNCHANGED db
        BY <4>2
      <4> QED
        BY <2>3, <4>1, <4>2
           DEF Worker, CallEnds, LookupBegins, LookupFails, Answers, FetchBlock, FetchBlockFails,
                  FetchTx, FetchTxFails, DecodeTxFails,
               BeginWrite, WriteFails, Commit, CommitLost, CommitFails, Report, Fail, Goto
    <3>4. sem' \in Int /\ (groupErr' = TRUE \/ groupErr' = groupErr)
      BY <2>3 DEF Worker, CallEnds, LookupBegins, LookupFails, Answers, FetchBlock, FetchBlockFails,
                  FetchTx, FetchTxFails, DecodeTxFails,
                  BeginWrite, WriteFails, Commit, CommitLost, CommitFails, Report, Fail
    <3>5. UNCHANGED <<height, disp, interrupted, result>>
      BY <2>3 DEF Worker, CallEnds, LookupBegins, LookupFails, Answers, FetchBlock, FetchBlockFails,
                  FetchTx, FetchTxFails, DecodeTxFails,
                  BeginWrite, WriteFails, Commit, CommitLost, CommitFails, Report, Fail
    <3> QED
      BY <3>1, <3>2, <3>3, <3>4, <3>5
  <2>4. CASE Interrupt \/ Terminated \/ UNCHANGED vars
    BY <2>4 DEF Interrupt, Terminated, vars
  <2> QED
    BY <2>1, <2>2, <2>3, <2>4 DEF Next, Dispatcher
<1> QED
  BY <1>1, <1>2, PTL DEF Spec

-----------------------------------------------------------------------------
\* One token more for one runner more, one less for one less, and no change
\* when a runner goes on running.
LEMMA RunningCount ==
  ASSUME TypeOK, wk' \in [Heights -> Stages]
  PROVE  /\ IsFiniteSet(Running) /\ Cardinality(Running) \in Nat
         /\ \A h \in Heights : Running' = Running \union {h} /\ h \notin Running
              => Cardinality(Running') = Cardinality(Running) + 1
         /\ \A h \in Heights : Running' = Running \ {h} /\ h \in Running
              => Cardinality(Running') = Cardinality(Running) - 1
<1>1. IsFiniteSet(Heights)
  BY RangeAssumption, FS_Interval DEF Heights
<1>2. IsFiniteSet(Running)
  BY <1>1, FS_Subset DEF Running
<1> QED
  BY <1>2, FS_CardinalityType, FS_AddElement, FS_RemoveElement

\* What the invariant of the tokens needs beside itself: goroutines are started
\* for heights in order, each once.
Started ==
  /\ \A h \in Heights : wk[h] # "idle" <=> h < height
  /\ disp = "acquire" => height <= Stop

\* A step of a goroutine moves the program counter of that goroutine only, and
\* not back to "idle".
LEMMA WorkerMoves ==
  ASSUME TypeOK, NEW h \in Heights, Worker(h)
  PROVE  /\ wk[h] # "idle" /\ wk'[h] # "idle"
         /\ wk' \in [Heights -> Stages]
         /\ \A g \in Heights \ {h} : wk'[g] = wk[g]
         /\ UNCHANGED <<height, disp, interrupted, result>>
BY DEF TypeOK, Worker, CallEnds, LookupBegins, LookupFails, Answers, FetchBlock, FetchBlockFails,
       FetchTx, FetchTxFails, DecodeTxFails, BeginWrite, WriteFails, Commit, CommitLost, CommitFails,
       Report, Fail, Goto, Stages, Work, Lookups

LEMMA StartedStep == TypeOK /\ Started /\ [Next]_vars => Started'
<1> SUFFICES ASSUME TypeOK, Started, [Next]_vars PROVE Started'
  OBVIOUS
<1>1. CASE Spawn
  BY <1>1, RangeAssumption DEF Spawn, Started, TypeOK, Heights, Stages
<1>2. CASE CheckContext \/ ReturnCtxErr \/ EndLoop \/ Wait
  BY <1>2 DEF CheckContext, ReturnCtxErr, EndLoop, Wait, Started
<1>3. ASSUME NEW h \in Heights, Worker(h) PROVE Started'
  BY <1>3, WorkerMoves DEF Started
<1>4. CASE Interrupt \/ Terminated \/ UNCHANGED vars
  BY <1>4 DEF Interrupt, Terminated, vars, Started
<1> QED
  BY <1>1, <1>2, <1>3, <1>4 DEF Next, Dispatcher

\* The semaphore counts the goroutines at work, whatever way they leave by, and
\* never more than MaxConcurrency of them.
THEOREM TokensCounted == Spec => []SemCountsRunners
<1>1. Init => Started /\ SemCountsRunners
  <2> SUFFICES ASSUME Init PROVE Started /\ SemCountsRunners
    OBVIOUS
  <2>1. Started
    BY RangeAssumption DEF Init, Started, Heights
  <2>2. Running = {}
    BY DEF Init, Running, Work, Lookups
  <2> QED
    BY <2>1, <2>2, FS_EmptySet, ConcurrencyAssumption DEF Init, SemCountsRunners
<1>2. TypeOK /\ Started /\ SemCountsRunners /\ [Next]_vars => SemCountsRunners'
  <2> SUFFICES ASSUME TypeOK, Started, SemCountsRunners, [Next]_vars
               PROVE  SemCountsRunners'
    OBVIOUS
  <2>1. CASE Spawn
    <3>1. height \in Heights /\ wk[height] = "idle"
      BY <2>1, RangeAssumption DEF Spawn, Started, TypeOK, Heights
    <3>2. wk' \in [Heights -> Stages]
      BY <2>1 DEF Spawn, TypeOK, Stages, Work
    <3>3. Running' = Running \union {height} /\ height \notin Running
      BY <2>1, <3>1 DEF Spawn, Running, Work, Lookups, TypeOK
    <3> QED
      BY <2>1, <3>1, <3>2, <3>3, RunningCount, ConcurrencyAssumption
         DEF Spawn, SemCountsRunners, TypeOK
  <2>2. ASSUME NEW h \in Heights, Worker(h) PROVE SemCountsRunners'
    <3>1. wk' \in [Heights -> Stages]
      BY <2>2, WorkerMoves
    <3>2. CASE \E from \in {"block", "txs", "commit"} :
                 sem' = sem - 1 /\ \E to \in {"failed", "done"} : Goto(h, from, to)
      <4>1. Running' = Running \ {h} /\ h \in Running
        BY <3>2 DEF Goto, Running, Work, Lookups, TypeOK
      <4>2. Cardinality(Running') = Cardinality(Running) - 1
        BY <3>1, <4>1, RunningCount
      <4>3. sem' = sem - 1
        BY <3>2
      <4> QED
        BY <4>2, <4>3, ConcurrencyAssumption DEF SemCountsRunners, TypeOK
    <3>3. CASE FetchBlock(h) \/ FetchTx(h) \/ FetchTxFails(h) \/ BeginWrite(h) \/ Report(h)
               \/ LookupBegins(h) \/ LookupFails(h)
      <4>1. (wk[h] \in Work <=> wk'[h] \in Work) /\ sem' = sem
        BY <3>3 DEF FetchBlock, FetchTx, FetchTxFails, BeginWrite, Report, LookupBegins,
                    LookupFails, Answers, Goto, Work, Lookups, TypeOK
      <4>2. Running' = Running
        BY <2>2, <4>1, WorkerMoves DEF Running
      <4> QED
        BY <4>1, <4>2 DEF SemCountsRunners
    <3> QED
      BY <2>2, <3>2, <3>3 DEF Worker, CallEnds, FetchBlockFails, DecodeTxFails, WriteFails,
                              Commit, CommitLost, CommitFails, Fail
  <2>3. CASE CheckContext \/ ReturnCtxErr \/ EndLoop \/ Wait \/ Interrupt \/ Terminated
             \/ UNCHANGED vars
    <3>1. wk' = wk /\ sem' = sem
      BY <2>3 DEF CheckContext, ReturnCtxErr, EndLoop, Wait, Interrupt, Terminated, vars
    <3> QED
      BY <3>1 DEF SemCountsRunners, Running
  <2> QED
    BY <2>1, <2>2, <2>3 DEF Next, Dispatcher
<1> QED
  BY <1>1, <1>2, StartedStep, Typing, PTL DEF Spec

\* A dispatcher that finds the channel full waits for a goroutine that is at work
\* and will receive from it, unless the channel has no room for any
\* (--max-concurrency 0): no token is ever left behind by one that has ended.
THEOREM FullChannelHasRunner ==
  ASSUME MaxConcurrency > 0
  PROVE  Spec => [](disp = "acquire" /\ ~(sem < MaxConcurrency) => Running # {})
<1>1. TypeOK /\ SemCountsRunners => (~(sem < MaxConcurrency) => Running # {})
  BY FS_EmptySet, ConcurrencyAssumption DEF SemCountsRunners, TypeOK
<1> QED
  BY <1>1, Typing, TokensCounted, PTL

-----------------------------------------------------------------------------
\* Control is inductive relative to the types.
LEMMA ControlInit == Init => Control
<1> SUFFICES ASSUME Init PROVE Control
  OBVIOUS
<1> QED
  BY RangeAssumption DEF Init, Control, Heights

LEMMA ControlStep == TypeOK /\ Control /\ [Next]_vars => Control'
<1> SUFFICES ASSUME TypeOK, Control, [Next]_vars PROVE Control'
  OBVIOUS
<1>1. CASE Spawn
  BY <1>1, RangeAssumption DEF Spawn, Control, TypeOK, Heights, Stages, db
<1>2. CASE CheckContext \/ ReturnCtxErr \/ EndLoop
  BY <1>2, RangeAssumption DEF CheckContext, ReturnCtxErr, EndLoop, Control, TypeOK, Heights, db
<1>3. CASE Wait
  <2>1. result' = "ok" => \A h \in Heights : wk[h] = "done"
    <3> SUFFICES ASSUME ~groupErr, NEW h \in Heights PROVE wk[h] = "done"
      BY <1>3 DEF Wait, TypeOK
    <3>1. wk[h] # "idle" /\ wk[h] # "reported"
      BY <1>3, RangeAssumption DEF Wait, Control, Heights, TypeOK
    <3> QED
      BY <1>3, <3>1 DEF Wait, Active, TypeOK, Stages
  <2> QED
    BY <1>3, <2>1 DEF Wait, Control, db
<1>4. ASSUME NEW h \in Heights, Worker(h) PROVE Control'
  <2>1. /\ wk[h] # "idle" /\ wk'[h] # "idle"
        /\ \A g \in Heights \ {h} : wk'[g] = wk[g]
        /\ UNCHANGED <<height, disp, interrupted, result>>
    BY <1>4, WorkerMoves
  <2>2. (wk[h] # "done" /\ wk[h] # "reported") \/ wk' = wk
    BY <1>4 DEF Worker, CallEnds, LookupBegins, LookupFails, Answers, FetchBlock, FetchBlockFails,
                  FetchTx, FetchTxFails, DecodeTxFails,
       BeginWrite, WriteFails, Commit, CommitLost, CommitFails, Report, Fail, Goto
  <2>3. wk'[h] = "reported" => groupErr'
    BY <1>4 DEF Worker, CallEnds, LookupBegins, LookupFails, Answers, FetchBlock, FetchBlockFails,
                  FetchTx, FetchTxFails, DecodeTxFails,
       BeginWrite, WriteFails, Commit, CommitLost, CommitFails, Report, Fail, Goto, TypeOK, Control
  <2>4. wk'[h] = "done" => h \in blocksRaw'
    BY <1>4 DEF Worker, CallEnds, LookupBegins, LookupFails, Answers, FetchBlock, FetchBlockFails,
                  FetchTx, FetchTxFails, DecodeTxFails,
       BeginWrite, WriteFails, Commit, CommitLost, CommitFails, Report, Fail, Goto, TypeOK,
       Apply, Control
  <2>5. (groupErr => groupErr') /\ blocksRaw \subseteq blocksRaw'
    BY <1>4 DEF Worker, CallEnds, LookupBegins, LookupFails, Answers, FetchBlock, FetchBlockFails,
                  FetchTx, FetchTxFails, DecodeTxFails,
       BeginWrite, WriteFails, Commit, CommitLost, CommitFails, Report, Fail, Apply, db
  <2> QED
    BY <2>1, <2>2, <2>3, <2>4, <2>5 DEF Control
<1>5. CASE Interrupt \/ Terminated \/ UNCHANGED vars
  BY <1>5 DEF Interrupt, Terminated, vars, Control, db
<1> QED
  BY <1>1, <1>2, <1>3, <1>4, <1>5 DEF Next, Dispatcher

LEMMA DataInit == Init => Data
<1> SUFFICES ASSUME Init PROVE Data
  OBVIOUS
<1>1. \A h \in Heights, t \in Tx : fetched[h][t] # "ctxError"
  BY DEF Init
<1>2. \A h \in Heights : wk[h] # "commit"
  BY DEF Init
<1>3. NoCancelledRow /\ BlockWithItsTxs
  BY TxAssumption DEF Init, NoCancelledRow, BlockWithItsTxs
<1> QED
  BY <1>1, <1>2, <1>3 DEF Data

LEMMA DataStep == TypeOK /\ Data /\ [Next]_vars => Data'
<1> SUFFICES ASSUME TypeOK, Data, [Next]_vars PROVE Data'
  OBVIOUS
<1>1. ASSUME UNCHANGED <<fetched, blocksRaw, txRaw>>, CtxDone => CtxDone',
             \A g \in Heights : wk'[g] = "commit" => wk[g] = "commit"
      PROVE  Data'
  BY <1>1 DEF Data, NoCancelledRow, BlockWithItsTxs
<1>2. CASE Spawn
  BY <1>1, <1>2 DEF Spawn, TypeOK, CtxDone, db
<1>3. CASE CheckContext \/ ReturnCtxErr \/ EndLoop \/ Wait \/ Interrupt \/ Terminated
           \/ UNCHANGED vars
  BY <1>1, <1>3 DEF CheckContext, ReturnCtxErr, EndLoop, Wait, Interrupt, Terminated, vars,
                    CtxDone, db
<1>4. ASSUME NEW h \in Heights, Worker(h) PROVE Data'
  <2>1. CASE FetchBlock(h) \/ FetchBlockFails(h) \/ DecodeTxFails(h) \/ WriteFails(h)
             \/ CommitFails(h) \/ Report(h) \/ LookupBegins(h) \/ LookupFails(h)
    BY <1>1, <2>1 DEF LookupBegins, LookupFails, FetchBlock, FetchBlockFails, DecodeTxFails, WriteFails, CommitFails,
                      Report, Fail, Goto, TypeOK, CtxDone, db
  <2>2. CASE FetchTx(h) \/ FetchTxFails(h)
    <3>1. PICK t \in TxsOf[h], row \in Rows :
            /\ fetched' = [fetched EXCEPT ![h][t] = row]
            /\ row = "ctxError" => CtxDone
      BY <2>2 DEF FetchTx, FetchTxFails, ToFetch, Rows
    <3>2. /\ wk' = [wk EXCEPT ![h] = "txs"]
          /\ wk[h] # "commit"
          /\ UNCHANGED <<blocksRaw, txRaw, interrupted, groupErr>>
      BY <2>2 DEF FetchTx, FetchTxFails, Answers, TypeOK, db
    <3>3. ~CtxDone' => \A g \in Heights, u \in Tx : fetched'[g][u] # "ctxError"
      BY <3>1, <3>2 DEF Data, TypeOK, CtxDone
    <3>4. \A g \in Heights : wk'[g] = "commit" =>
            \A u \in TxsOf[g] : fetched'[g][u] \in {"full", "rpcError"}
      BY <3>1, <3>2 DEF Data, TypeOK
    <3>5. NoCancelledRow' /\ BlockWithItsTxs'
      BY <3>2 DEF Data, NoCancelledRow, BlockWithItsTxs
    <3> QED
      BY <3>3, <3>4, <3>5 DEF Data
  <2>3. CASE BeginWrite(h)
    <3>1. /\ ~CtxDone
          /\ wk' = [wk EXCEPT ![h] = "commit"]
          /\ UNCHANGED <<fetched, blocksRaw, txRaw, interrupted, groupErr>>
      BY <2>3 DEF BeginWrite, Goto, db
    <3>2. \A t \in TxsOf[h] : fetched[h][t] \in {"full", "rpcError"}
      <4> SUFFICES ASSUME NEW t \in TxsOf[h] PROVE fetched[h][t] \in {"full", "rpcError"}
        OBVIOUS
      <4>1. t \in Tx
        BY TxAssumption
      <4>2. fetched[h][t] # "none"
        BY <2>3 DEF BeginWrite, ToFetch
      <4>3. fetched[h][t] # "ctxError"
        BY <3>1, <4>1 DEF Data
      <4> QED
        BY <4>1, <4>2, <4>3 DEF TypeOK, Rows
    <3> QED
      BY <3>1, <3>2 DEF Data, TypeOK, CtxDone, NoCancelledRow, BlockWithItsTxs
  <2>4. CASE Commit(h) \/ CommitLost(h)
    <3>1. /\ wk[h] = "commit" /\ Apply(h)
          /\ \A g \in Heights : wk'[g] = "commit" => wk[g] = "commit"
          /\ UNCHANGED <<fetched, interrupted, groupErr>>
      BY <2>4 DEF Commit, CommitLost, Fail, Goto, TypeOK
    <3>2. \A t \in TxsOf[h] : fetched[h][t] \in {"full", "rpcError"}
      BY <3>1 DEF Data
    <3>3. NoCancelledRow'
      BY <3>1, <3>2 DEF Apply, Data, NoCancelledRow
    <3>4. BlockWithItsTxs'
      BY <3>1, <3>2, TxAssumption DEF Apply, Data, BlockWithItsTxs, TypeOK
    <3> QED
      BY <3>1, <3>3, <3>4 DEF Data, CtxDone
  <2> QED
    BY <1>4, <2>1, <2>2, <2>3, <2>4 DEF Worker, CallEnds
<1> QED
  BY <1>2, <1>3, <1>4 DEF Next, Dispatcher

\* processBlocks returns nil only when every block of the range, with a row for
\* each of its transactions, is in the tables.
THEOREM OkStoresAll == Spec => []OkMeansAllStored
<1>1. Control /\ Data => OkMeansAllStored
  BY DEF Control, Data, BlockWithItsTxs, OkMeansAllStored
<1> QED
  BY <1>1, Typing, ControlInit, ControlStep, DataInit, DataStep, PTL DEF Spec

\* A block row is never without a row for each of its transactions.
THEOREM BlocksComplete == Spec => []BlockWithItsTxs
<1>1. Data => BlockWithItsTxs
  BY DEF Data
<1> QED
  BY <1>1, Typing, DataInit, DataStep, PTL DEF Spec

\* No error document of a cancelled call is ever stored.
THEOREM CancelledNeverStored == Spec => []NoCancelledRow
<1>1. Data => NoCancelledRow
  BY DEF Data
<1> QED
  BY <1>1, Typing, DataInit, DataStep, PTL DEF Spec

\* After nil is returned the tables do not change any more.
THEOREM QuietAfterOk == Spec => NothingAfterOk
<1>1. TypeOK /\ Control /\ [Next]_vars => [result = "ok" => UNCHANGED db]_vars
  <2> SUFFICES ASSUME TypeOK, Control, [Next]_vars, result = "ok" PROVE UNCHANGED db
    OBVIOUS
  <2>1. CASE Dispatcher \/ Interrupt \/ Terminated \/ UNCHANGED vars
    BY <2>1 DEF Dispatcher, CheckContext, ReturnCtxErr, Spawn, EndLoop, Wait, Interrupt,
                Terminated, vars, db
  <2>2. ASSUME NEW h \in Heights, Worker(h) PROVE FALSE
    <3>1. wk[h] = "done"
      BY DEF Control
    <3> QED
      BY <2>2, <3>1 DEF Worker, CallEnds, LookupBegins, LookupFails, Answers, FetchBlock,
                          FetchBlockFails, FetchTx, FetchTxFails,
                        DecodeTxFails, BeginWrite, WriteFails, Commit, CommitLost,
                        CommitFails, Report, Fail, Goto
  <2> QED
    BY <2>1, <2>2 DEF Next
<1> QED
  BY <1>1, Typing, ControlInit, ControlStep, PTL DEF Spec, NothingAfterOk

-----------------------------------------------------------------------------
\* One call implements the abstract Batch: its initial states are Batch's, and
\* each of its steps is a step of Batch or leaves Batch's variables alone.
THEOREM PromiseKept == Spec => KeepsPromise
<1>1. Init => Promise!Init
  <2> SUFFICES ASSUME Init PROVE Promise!Init
    OBVIOUS
  <2> QED
    BY RangeAssumption DEF Init, Promise!Init, Heights
<1>2. TypeOK /\ Control /\ [Next]_vars => [Promise!Next]_(Promise!vars)
  <2> SUFFICES ASSUME TypeOK, Control, [Next]_vars PROVE [Promise!Next]_(Promise!vars)
    OBVIOUS
  <2> DEFINE acked == {h \in Heights : wk[h] = "done"}
  <2>1. ASSUME UNCHANGED <<result, blocksRaw>>, acked' = acked
        PROVE  UNCHANGED Promise!vars
    BY <2>1 DEF Promise!vars
  <2>2. CASE Spawn
    <3>1. acked' = acked
      BY <2>2, RangeAssumption DEF Spawn, TypeOK, Control, Heights
    <3> QED
      BY <2>1, <2>2, <3>1 DEF Spawn, db
  <2>3. CASE CheckContext \/ EndLoop \/ Interrupt \/ Terminated \/ UNCHANGED vars
    BY <2>1, <2>3 DEF CheckContext, EndLoop, Interrupt, Terminated, vars, db
  <2>4. CASE ReturnCtxErr
    BY <2>4 DEF ReturnCtxErr, Control, db, Promise!Next, Promise!Fail
  <2>5. CASE Wait
    <3>1. acked' = acked /\ result = "none" /\ blocksRaw' = blocksRaw
      BY <2>5 DEF Wait, Control, db
    <3>2. CASE groupErr
      BY <2>5, <3>1, <3>2 DEF Wait, Promise!Next, Promise!Fail
    <3>3. CASE ~groupErr
      <4>1. Control'
        BY ControlStep
      <4>2. result' = "ok" /\ acked = Start..Stop
        BY <2>5, <3>3, <4>1 DEF Wait, Control, Heights
      <4> QED
        BY <3>1, <4>2 DEF Promise!Next, Promise!Succeed
    <3> QED
      BY <3>2, <3>3 DEF TypeOK
  <2>6. ASSUME NEW h \in Heights, Worker(h) PROVE [Promise!Next]_(Promise!vars)
    <3>1. result # "ok"
      <4> SUFFICES ASSUME result = "ok" PROVE FALSE
        OBVIOUS
      <4>1. wk[h] = "done"
        BY DEF Control
      <4> QED
        BY <2>6, <4>1 DEF Worker, CallEnds, LookupBegins, LookupFails, Answers, FetchBlock,
                          FetchBlockFails, FetchTx, FetchTxFails,
                          DecodeTxFails, BeginWrite, WriteFails, Commit, CommitLost,
                          CommitFails, Report, Fail, Goto
    <3>2. result' = result
      BY <2>6, WorkerMoves
    <3>3. CASE Commit(h)
      <4>1. acked' = acked \union {h}
        BY <3>3 DEF Commit, Goto, TypeOK
      <4> QED
        BY <3>1, <3>2, <3>3, <4>1 DEF Commit, Apply, Promise!Next, Promise!Write, Heights
    <3>4. CASE CommitLost(h)
      <4>1. acked' = acked
        BY <3>4 DEF CommitLost, Fail, Goto, TypeOK
      <4> QED
        BY <3>1, <3>2, <3>4, <4>1 DEF CommitLost, Apply, Promise!Next, Promise!LoseAck, Heights
    <3>5. CASE ~Commit(h) /\ ~CommitLost(h)
      <4>1. acked' = acked
        BY <2>6, <3>5 DEF Worker, CallEnds, LookupBegins, LookupFails, Answers, FetchBlock,
                          FetchBlockFails, FetchTx, FetchTxFails,
                          DecodeTxFails, BeginWrite, WriteFails, CommitFails, Report, Fail,
                          Goto, TypeOK
      <4>2. blocksRaw' = blocksRaw
        BY <2>6, <3>5 DEF Worker, CallEnds, LookupBegins, LookupFails, Answers, FetchBlock,
                          FetchBlockFails, FetchTx, FetchTxFails,
                          DecodeTxFails, BeginWrite, WriteFails, CommitFails, Report, db
      <4> QED
        BY <2>1, <3>2, <4>1, <4>2
    <3> QED
      BY <3>3, <3>4, <3>5
  <2> QED
    BY <2>2, <2>3, <2>4, <2>5, <2>6 DEF Next, Dispatcher
<1> QED
  BY <1>1, <1>2, Typing, ControlInit, ControlStep, PTL DEF Spec, KeepsPromise, Promise!Spec

=============================================================================
