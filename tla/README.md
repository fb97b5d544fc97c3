# A TLA+ model of yaci

`yaci extract postgres` reads blocks and transactions of a Cosmos SDK chain from a node over gRPC
(with server reflection in place of generated types) and writes them as JSON to PostgreSQL, once
for a range of heights or for ever (`--live`). This directory holds TLA+ modules that model it, the
TLC configurations that check them on small instances, and TLAPS proofs for all instances.

    tlc -config MCProcessBlocks.cfg MCProcessBlocks     # any row of the table of runs below
    tlapm ProcessBlocks_proofs.tla                      # or any other *_proofs.tla

`PROJECT.json` lists the runs, maps every definition to the source lines it stands for, and lists
the hazards, the findings, the theorems, and one mutant (a plausible bug) for each property.

## 1. Inventory

| Component | Source | State | Operations | Modelled by |
|---|---|---|---|---|
| Block batch | `extractor/block.go` `processBlocks` | loop variable, semaphore channel, errgroup (count, first error, derived context) | start, acquire, spawn, early return, wait, report | `ProcessBlocks`, abstractly `Batch` |
| Block job | `extractor/block.go` `processSingleBlockWithRetry`, `extractor/transaction.go` | transactions fetched so far | fetch block, fetch each transaction or degrade it to an error document, write | `BlockJob`; coarser inside `ProcessBlocks`, which `BlockJob` implements |
| Life cycle | `extractor/extractor.go`, `live.go`, `block.go` | the range, the list of missing blocks, `currentHeight` | resolve the range, scan and repair, one batch, poll; fail, be stopped, be started again | `Indexer` |
| gRPC retry | `utils/grpc.go` | attempt, last error | resolve the method, call, turn the answer into JSON, sleep, give up | `RetryCall`, with the lookups of types `LookupCall` |
| Earliest block probe | `utils/block.go` | none | ask for block 1, read the error, ask again | `EarliestProbe` |
| PostgreSQL output | `output/postgresql/postgresql.go` | `api.blocks_raw`, `api.transactions_raw`, the pool | write a block with its transactions, MIN, MAX, missing ids, migrate | write and scan: inside `ProcessBlocks` and `Indexer`; pool and its closing: `DbPool` |
| Custom resolver | `reflection/resolver.go` | registered files, `seenSymbols`, mutex | look a type up, fetch it by symbol, fetch its dependencies, register | `Resolver` |
| Descriptor set | `reflection/fetch_descriptor.go`, `build_descriptor.go` | files fetched | fetch all files at the start, sort, patch, register | `DescriptorSet`, abstractly `Startup` |
| Metrics | `metrics/server.go`, `collectors/` | connections of the shared pool | scrape, query, read and close the rows | `DbPool` for the connections, not for the SQL |
| gRPC client | `client/client.go` | the connection | dial, build the registry | `NewGRPCClient`: `Startup`; dialling: no |
| Command line | `cmd/yaci/`, `config/` | flags | validate, handle signals | the flags and the signal that matter are inputs of `Indexer`, `ProcessBlocks` |
| Deployment | `scripts/`, `docker/` | none | restart on failure, stop timeout | an action of `Indexer`, a constant of `BlockJob` |

How they interact. `Extract` resolves the range from the flags, the table and the node (through
`RetryGRPCCall`; through the probe when the table is empty), repairs missing blocks one after the
other, then calls `processBlocks` once or, live, once per poll. `processBlocks` runs one goroutine
per height. All of them share one gRPC connection, one resolver (behind an RWMutex) and one pool of
database connections, which the metrics collectors share too. A signal cancels one context that
everything derives from; the first error of a batch cancels the context of that batch. The resolver
is the exception: `NewGRPCClient` gives it the root context (`client.go:44`), `processBlocks` copies
it as it is (`block.go:97`), and `GetGRPCResponse` reaches it inside a call, when `Marshal` meets a
type by name that is not registered. A goroutine that waits there is released by the signal, by the
node, and by nothing else.

What makes it hard, and what correctness means for each part:

- *Batch.* The dispatcher blocks on a channel without looking at the context; the early return does
  not wait for goroutines; the token is given back before the error is recorded. Correct: tokens
  count the goroutines at work; nil means that the whole range is stored; what is reported to the
  caller can be relied on; trouble ends the call.
- *Job.* A failed transaction becomes an error document, also when the failure is the shutdown.
  Correct: no document of a cancelled call is ever stored; each transaction has a row.
- *Life cycle.* The only memory is the set of heights in the table. Correct: whatever crashed
  before, a run that resumes leaves no hole behind it; nothing the live cursor has passed is
  missing; a bounded run keeps to its range.
- *Retry.* Sleeps cannot be interrupted and add up, those of the call and those of a request of the
  resolver inside it. Correct: no call fails early; a shutdown waits
  for a known time.
- *Probe.* Correct: the height returned is the lowest the node has.
- *Writer.* COMMIT may take effect and its answer be lost. Correct: a block row never comes without
  the rows of its transactions, because only block rows are scanned for.
- *Resolver.* A mark set before the fetch; a lock released in the middle. Correct: a lookup fails
  only if the node does not know the type or did not answer; registration follows imports.
- *Descriptor set.* Files out of a map in any order, imports that may be circular, answers without
  the file asked for. Correct: the registry has all that the services need, or there is none, and
  the reason lies with the node.
- *Metrics and pool.* A scrape keeps one connection while it asks for another, its function returns
  at seven places, and nobody shuts the server down. Correct: writers and scrapes do not end up
  waiting for each other; what has returned keeps no connection; the pool closes.

## 2. Plan

In order of how much a wrong answer would cost:

1. `Batch`, `ProcessBlocks`, `ProcessBlocks_proofs`: concurrency and failure of one batch. **Done.**
2. `RetryCall` and `LookupCall`, with `BlockJob` and `EarliestProbe` built on them: time and
   cancellation. **Done.**
3. `Indexer`, built on `Batch`: restarts, holes and repair. **Done.**
4. `Resolver`: concurrent lookups, the mark that is never taken back, imports fetched without the
   lock, and its proofs. **Done.**
5. `Startup`, `DescriptorSet` and their proofs: the registry before the extraction. **Done.**
6. `DbPool` and its proofs: scrapes and writers over `MaxConns` connections. **Done.**
7. Proofs of `RetryCall`, `BlockJob`, `EarliestProbe` and `Indexer`. **Done.**
8. `BlockJob` as an implementation of the goroutine of `ProcessBlocks`, and its proof. **Done.**
9. How deep the resolver recurs, and `ConflictNeedsAnother`, where imports form no circle. **Done.**
10. Left: the writer by statement, if a document ever promises that a full row is not replaced by a
    degraded one; a probe that implements the one step `Indexer` takes for it.

Which module rests on which: `ProcessBlocks` implements `Batch`, and `Indexer` extends `Batch`, so
what the indexer assumes of a batch is what the code of a batch is shown to do. `LookupCall` extends
`RetryCall`; `BlockJob` extends `LookupCall`, and `EarliestProbe` `RetryCall` alone, because the
block it is answered holds no type by name. A goroutine of `ProcessBlocks` is what `BlockJob`
implements, so the chain goes from the attempts of a call over the goroutine and the batch to the
indexer. `DescriptorSet` implements `Startup`; that its registry has the imports of every file it
has is what `Resolver` assumes of the registry it starts from. `Resolver` and `DbPool` stand alone:
to the others a lookup is a part of a call that may fail, and a write may take as long as it likes.
No module uses RECURSIVE operators, so each of them can be proved about.

## 3. The modules

**`Batch`** is what one call of `processBlocks` promises its callers: heights of the range become
stored in any order; success is reported only when every write was acknowledged; after a failure,
writes in flight may still land. `Write` is a write the writer knows of, `LoseAck` one it does not.

**`ProcessBlocks`** is the code that promises it: the dispatcher (`CheckContext`, `ReturnCtxErr`,
`Spawn`, `EndLoop`, `Wait`), one goroutine per height (`Worker(h)`), the signal (`Interrupt`).
`CheckContext` and `Spawn` are two steps because the context may be cancelled between the `select`
and the send on `sem`. `Fail` and `Report` are two steps because the deferred receive runs when the
function returns, before the errgroup sees the error. A gRPC call with all its retries is one step,
which succeeds only under a live context and may always fail, unless a type has to be looked up in
it. Then the goroutine is at `blockLookup` or `txLookup`: `LookupBegins` needs the answer of Invoke
and so the group's context, the end (`Answers`) only the root context, and `LookupFails` leads back
to where the next attempt is made. The write is two: what is done before
COMMIT is invisible, and COMMIT itself succeeds (`Commit`), fails (`CommitFails`) or succeeds and is
reported as failed (`CommitLost`). `Apply` is the upserts of both tables. `ctxError` and `rpcError`
are the same document to the code and differ in its text; the model keeps them apart because one
must never be stored. Blocks of the range may be in the tables already, with full rows.

**`RetryCall`** is the variables and steps of one gRPC call. It has no Init and no Next: `BlockJob`
and `EarliestProbe` extend it, begin calls with `BeginCall` and read how they ended in `phase`.
`stopped` is the signal, which ends the root context, and `groupErr` the error of another goroutine,
which ends the context of the batch only; `CtxDone` is either. Time is the seconds slept after the
signal (`lag`). With zero attempts the call ends `empty`: no error and no answer.

**`LookupCall`** adds what happens between the answer of Invoke and the end of an attempt: a request
of the resolver for a type or for a file it imports (`LookupBegins`, `LookupAnswered`), made up to
three times with sleeps of 2, 4 and 6 s (`RequestFails`, `RequestAgain`, `LookupFails`) that are
counted in `lookupLag`. Only the signal ends a request. Which types and files are asked for is in
`Resolver`; here any answer may need one more, and any may be refused (`LookupRefused`: a conflict,
a mark without a file).

**`BlockJob`** is one goroutine down to those calls. The entries of a block are chosen at the start
and looked at once the block is answered; the write is the two steps of `ProcessBlocks`, and
`written` is what the database has of it. `Stage`, `Held` and the substitutions of `Goroutine(T)`
are the refinement mapping: a call with its attempts, its sleeps and the step that reads its answer
become one step of `Worker(1)` in a range of two heights, a lookup two or more, and the rest are
stutters. The goroutine of height 2 has failed; that its error is recorded (`Report(2)`) is
`AnotherFails`. Which transactions a block has is a constant of `ProcessBlocks` and a variable here
that never changes, hence the parameter T. **`EarliestProbe`** is `GetEarliestBlockHeight`;
`NodeSays` ties the errors to the node: one that names the lowest height comes only from a node that
has not block 1, and names its lowest. `ProbeExact` rests on that as much as on the code.

**`Indexer`** is the process, its supervisor, its operator, the chain and the node. `stored` is the
only variable a failure leaves alone. `ResolveStart` and `ResolveStop` are `setBlockRange` (two
steps: the chain grows between the two queries, the database is not written by anyone else);
`SkipsScan` looks at the flags as given; `Scan`, `Fill` are `processMissingBlocks`; `Poll`,
`BatchWrite`, `BatchOk` the live loop with `Batch` in it. `Breaks("error")` is every failure that
ends the process, a crash included; `Breaks("stopped")` a signal. `Exit` forgets everything else;
`LateWrite` is a commit that lands after the batch has failed, while the process is down: the next
start waits for the old process to be gone, and the model drops what has not landed by then.

**`Resolver`** is `CustomResolver` with its goroutines. The mutual recursion of
`processFileDescriptors`, `fetchDependencies` and `fetchDescriptorByName` is a stack of frames, each
the files of one answer that are left to process; `Processed` is the return of a call with its
deferred unlock, `FetchDependency` the unlock in the middle of it, `Relock` the lock taken back,
`Unwind` an error on its way out. A read under `RLock` is one step, enabled when no writer holds the
lock; `ReadSeen` and `Mark` are two, as the lock is released in between. `Mark` comes before the
request, as in the code. A request with its attempts is one step: it is answered or it fails. An
answer begins with the file asked for, and may hold files that it imports; so the imports of a file
that is about to be registered are there, and the errors of `protodesc.NewFile` are left out
(`Conflict` is the refusal of a duplicate, the one error that takes another goroutine). The registry
starts with any set of files that contains what its files import.

**`Startup`** is what `NewGRPCClient` promises: the files of all services the node lists with all
that they import, or an error, and the error has a reason: a request that failed, an answer without
what was asked for, files that import each other in a circle, or a file that the protobuf library
refuses.

**`DescriptorSet`** is the code that promises it, over an import graph that the node chooses. The
two recursions are stacks of frames: `calls` are the open calls of `processFileDescriptors`
(`MarkFile`, `FetchImport`, `Processed`), `path` those of `visit` (`VisitRoot`, `VisitImport`,
`Leave`). Services, files of an answer, imports of a file and files of the map come in any order: a
choice at each step. A file is in `seen` before its imports are asked for, as in the code. Each
attempt of `sendReflectionRequestWithRetry` is a step (`AttemptFails`, then `GiveUp`); an answer of
the wrong type has no second attempt (`AnswerUnusable`); an answer to a request by name may leave
the file out (`Answers`). `Register` is one turn of the loop of `BuildFileDescriptorSet`, and
`Accepted` what `protodesc.NewFile` and the registry ask of a file (external).

**`DbPool`** is the pool of connections, the calls that use it and its end. `Ask` and `Release` are
`pgxpool` (external): a number of slots, a queue, and a slot that is given back goes to the first in
it. A call `Start`s by asking for a connection. A `Writer` or a `Counter` finishes with it; a
`Locker` (`LockedTokensCollector.Collect`) keeps it while each address asks for one more
(`NextAddress`, `MessagesOpened`, `MessagesRead`). Anything may fail anywhere (`Fails`), and the
deferred `Close`s give back what is open (`Closes`). `Cancel` ends the wait of writers only, since
the collectors query with a context of their own. `ExtractReturns` waits for the writers unless they
are cancelled: the early return of `processBlocks` does not wait. Then the pool closes
(`CloseReturns`), while scrapes go on arriving until the process has exited.

## 4. The runs

| Run | Bounds | States | Shows |
|---|---|---|---|
| `process_blocks` | 3 heights, 2 at a time, two transactions in one block and one of them in another | 207,244 | nine properties below |
| `block_job` | 0..3 entries, 0..3 retries, 3 attempts of a request for a type | 190,256 | six properties below |
| `block_job_stop` | 3 entries, 3 retries (default) | - | **violated**: more than 30 s to stop |
| `earliest_probe` | lowest height 1..3, 0..3 retries | 1,066 | three properties below |
| `indexer` | 5 heights, 2 faults, 2 pruned, 5 configurations | 118,614 | six properties below |
| `indexer_bottom` | 3 heights | - | **violated**: blocks below the first written are lost |
| `indexer_resume` | 4 heights, 2 pruned | - | **violated**: a pruned hole stops the indexer for good |
| `resolver` | 4 files, imports two deep, 2 goroutines, two forms of answer | 197,420 | six properties below |
| `resolver_race` | the same, no request fails, no type is wanted by both | - | **violated**: a lookup that misses makes no request |
| `descriptor_set` | 3 files with every import graph, 2 services, 3 attempts, one file refused | 1,117,364 | five properties below |
| `db_pool` | 3 connections; a writer, a counter, 2 scrapes of locked tokens with 2 addresses | 170,100 | five properties below |
| `db_pool_scrapes` | 2 connections; the same with 1 address | - | **violated**: scrapes and writers wait for each other |

Properties of `process_blocks`:

- `SemCountsRunners`: the channel holds one token for each goroutine at work, at most
  `MaxConcurrency`.
- `OkMeansAllStored`, `NothingAfterOk`: nil means that every height is stored with all its
  transactions, and that no goroutine of the call writes afterwards.
- `BlockWithItsTxs`: at every moment, and so after a crash, a block row has its transaction rows.
- `NoCancelledRow`: no error document that a cancellation has caused is ever stored. This is not
  checked anywhere in the code: it holds because a cancelled `GetTx` means a cancelled context and
  `pool.Begin` refuses one.
- `KeepsPromise`: every behaviour is one of `Batch`, under the mapping in the module.
- `TroubleEndsCall`: after an interrupt the call returns and its goroutines end, even when the node
  never answers again. After the error of one goroutine they do too, provided that requests of the
  resolver are answered (`EveryLookupAnswers`). The premise is needed: without it TLC finds the
  behaviour in which one block fails and the goroutine of another stays in `txLookup` for ever, with
  the group's context done and `eg.Wait` waiting for it. `Returns`: if every call is answered,
  `processBlocks` returns.

`block_job`: `StopBound` bounds what a shutdown waits for by `N * r * (r + 1) + 12` seconds for N
transactions and r retries: the attempts of each transaction, and once the three of a request of the
resolver, as no new request begins after the signal; `OneRowPerTx` is the claim of graceful
degradation: what is in the database has a row for each transaction; `EveryAttemptMade`;
`StopEndsJob` (after the signal the goroutine ends, whatever the node does); `RunsAsGoroutine`: each
step is one that `ProcessBlocks` allows the goroutine of the height, or a stutter. With it
`NoCancelledRow` of `ProcessBlocks` is shown of the calls themselves. `earliest_probe`: `ProbeExact`
(a height that is returned is the node's lowest, except with zero retries) and `StopBound`.

`indexer`: `CursorCovered` (from the start of the live run to its cursor nothing is missing);
`GapFree` (a run that resumes or reindexes leaves no hole from the lowest block of the table to the
height it has reached); `ReindexRewritesAll`; `BoundedRunStaysInRange`; `CatchesUp` (on a node that
keeps its blocks, a live indexer that resumes by itself ends up with every block above its lowest: a
scan that was cut short, or a live run that began above the table, does harm only as long as its own
run lasts).

`resolver`: `LockHeldInside` (the lock is held by exactly the goroutine that is inside, through
recursion, requests and errors; the runtime panics otherwise); `ImportsRegistered` (files are
registered after what they import, so `protodesc.NewFile` resolves it); `MarkHasReason` (a symbol
that is marked is registered, being fetched, or has failed); `ConflictNeedsAnother` (a lookup never
trips over its own registrations, whatever files the answers repeat); `LookupEnds` (a lookup whose
own requests end does end, even when another goroutine's request never does: no one waits for the
node with the lock, and the recursion ends).

`descriptor_set`: `SortedByImports` (each file is put after the files it imports, whatever order the
map is walked in); `RecursionBounded` (every open call of the fetch but the innermost has marked a
file of its own, so circular imports cannot make it recur for ever); `AllOrNothing` (every behaviour
is one of `Startup`: no order decides between a registry and an error, and no registry is
incomplete); `StartupEnds`.

`db_pool`: `HoldsAsOpen` (a call has as many connections as it has results open, and none once it
has returned, by whichever of its returns); `NeverAllWaiting` (with fewer scrapes of locked tokens
than connections, if anyone waits, someone who holds a connection does not); `CallsEnd` (every
scrape and every write ends; violated in `db_pool_scrapes`, where the condition is not met);
`CloseEnds` (the pool closes although scrapes keep coming, because whoever gets a slot then is
refused).

### Why the bounds are enough

- Three heights and two tokens make the dispatcher wait for a token with two goroutines at work and
  one height to come, which is where the early return, the late commit and the full channel meet. A
  transaction that two blocks share makes their upserts collide.
- Three entries and three attempts put the cancellation before, between and after the attempts of
  the first, a middle and the last transaction, and reach the 30 s of the service unit at the
  default of `--max-retries`.
- `MaxTip = 5` in `indexer`: a failure needs a hole (a block written above one that is not), a
  restart needs a block above to resume from, and the second failure has to hit the repair while
  the chain still grows. `MayFail` lets failures happen only while there are blocks to come:
  without it a restart at the end of the chain would find nothing to do for ever, which is an
  artefact of a chain that ends. `MaxFaults = 2`: one to leave a hole, one to interrupt its repair.
- `MaxLow = 3` in `indexer` and `indexer_resume`: the lowest block of the table and the hole above
  it are both pruned, so that a repair meets a block that is gone (`FillPruned`).
- In `resolver` two types of different files import a common file that imports another: a goroutine
  can hold two open calls, both goroutines can be in the same import, and each can find it
  registered before, between and after its own two checks. Goroutines look up for ever, so a lookup
  also meets what earlier ones have left.
- In `descriptor_set` the 512 import graphs over three files have every chain, shared import, circle
  and self-import; a file of no service is reached through imports only, and one of the three is
  refused by the library, needed or not. Three attempts are the constant of the code's caller.
- In `db_pool` two scrapes that hold a connection each leave one for the writer, the counter and
  both second queries, so that holders stand in the queue behind others; with one connection less
  the same calls are deadlocked, which is `db_pool_scrapes`. The default size of a pool is four or
  the number of processors: what matters is how the number of scrapes compares with it, and
  `Progress` proves that for every number.
- The `MC` modules use no symmetry: liveness is checked in the same runs.

### Fairness

`ProcessBlocks`: the dispatcher is scheduled when it can move. No call has a deadline, and a node
may accept one and never answer, so a goroutine is certain to move only once the context it waits
under is done. For Invoke and pgx, which return then, that is the context of the batch; for a
request of the resolver it is the root context, and the error of another goroutine does not end it.
`Report` waits for nobody. `TroubleEndsCall` and `Returns` name what they suppose of the node,
`EveryLookupAnswers` and `EveryCallAnswers`; the latter includes that a call does end, its attempts
being limited. `BlockJob` likewise: sleeps end, Invoke or a write is certain to end only under a
context that is done, a request of the resolver only after the signal. `Indexer`: the process runs
and its calls end; what exits with an error is started again, what was stopped or has finished is
started again by its operator; the chain grows to its bound. systemd gives up after
`StartLimitBurst=5` starts in 300 s, and the model's supervisor never does: with `RestartSec=10s` a
real unit that fails five times in a row stays down until someone starts it, which `Operate` is.
`Resolver`: strong fairness for each goroutine but while it waits for the node, because
`sync.RWMutex` starves nobody: a reader or writer that waits while others come and go gets the lock
in the end. Requests have no deadline; `LookupEnds` supposes only that those of the lookup itself
end. `DescriptorSet`: the process runs between its requests; a request may be out for ever, and
`StartupEnds` names the premise that none is. `DbPool`: every goroutine that can go on does, the
database answers, and the queue of the pool is served in its order; nobody has to scrape, to write
or to cancel.

## 5. What is proved

`ProcessBlocks_proofs`, from the assumptions `RangeAssumption`, `ConcurrencyAssumption` and
`TxAssumption` of `ProcessBlocks`, so for every range, every limit and every assignment of
transactions to blocks:

| Theorem | Establishes |
|---|---|
| `Typing` | `TypeOK` |
| `TokensCounted` | `SemCountsRunners` |
| `FullChannelHasRunner` | if `MaxConcurrency > 0`, whoever finds the channel full waits for a goroutine at work |
| `OkStoresAll` | `OkMeansAllStored` |
| `BlocksComplete` | `BlockWithItsTxs` |
| `CancelledNeverStored` | `NoCancelledRow` |
| `QuietAfterOk` | `NothingAfterOk` |
| `PromiseKept` | `KeepsPromise`: `ProcessBlocks` implements `Batch` |

The argument. `TypeOK` is inductive. `SemCountsRunners` is not: `Spawn` adds a token for a height
that must not have a goroutine yet, which `Started` says (a height has a goroutine iff it is below
the loop variable). That `eg.Wait` means that all are done needs `Control`: in `wait` the loop
variable is past the range, a goroutine that recorded an error has set the error of the group, and
one that ended well has its height in the table. That no cancelled document is stored needs `Data`:
under a live context no call was cancelled, and a goroutine whose COMMIT was sent holds a proper row
for each transaction; `BlockWithItsTxs` and `NoCancelledRow` follow from what `Apply` writes. Both
are built on `Typing`, then `PTL` combines initial state, step and consequence.

`RetryCall_proofs` holds lemmas on one call, for any number of attempts. `CallInv` says that the
loop variable counts failed attempts and that a call that fails has used them up. `SleepIsPaid` is
the lemma the bounds rest on: no step increases what has been slept since the signal plus what is
left to sleep in the worst case. For a request of the resolver `LookupInv` says as much: what has
been slept in it since the signal is at most the sleeps of its attempts so far, and none begins
later, so 12 s in all.

`BlockJob_proofs` (for all retries and any number of transactions; assumptions `LimitsAssumption`,
`MaxTxsAssumption`, `ErrorsAssumption`, `CallErrorsAssumption`) and `EarliestProbe_proofs` (the same
for its own constants):

| Theorem | Establishes |
|---|---|
| `BlockJob_proofs!Typing`, `EarliestProbe_proofs!Typing` | `TypeOK` of each |
| `BlockJob_proofs!StopDelay` | `StopBound`: at most N calls' sleeps and those of one request after the signal |
| `BlockJob_proofs!NoTxIsLost` | `OneRowPerTx` |
| `BlockJob_proofs!ShutdownSpoilsNoRow` | `NoCancelledRow` of `BlockJob` |
| `BlockJob_proofs!Conformance` | `RunsAsGoroutine`: `BlockJob` implements a goroutine of `ProcessBlocks` |
| `BlockJob_proofs!Persistence` | `EveryAttemptMade` |
| `EarliestProbe_proofs!Exactness` | `ProbeExact` |
| `EarliestProbe_proofs!StopDelay` | `StopBound` |

None of the bounds is inductive. `Delays` says what may have been slept at each place of the
function: before entry k at most the sleeps of k - 1 calls, during call k what it has left on top.
That the block's own call adds nothing to the transactions' needs the last part of `CallInv`: a call
that was answered has not been stopped, so nothing was slept. `Rows` and `Shutdown` say the same of
the rows: those before `next` are there, and one spoilt by the cancellation means that it lasts.
`Committed` ties `written` to the end of the function. `Conformance` has one step for each action:
that a failed call may have failed in `ProcessBlocks` needs `Shutdown` (an error of the context only
under a cancelled one), that `BeginWrite` finds every transaction fetched needs `Rows`, and that
COMMIT writes what the mapping says needs `Committed`.

`Resolver_proofs`, for any goroutines, files, imports (cyclic ones included) and answers, but for
the three theorems that name their hypotheses; the assumptions are those of `Resolver`:

| Theorem | Establishes |
|---|---|
| `Typing` | `TypeOK`, with `Shape` |
| `LockHeld` | `LockHeldInside` |
| `ImportsFirst` | `ImportsRegistered` |
| `MarksHaveReasons` | `MarkHasReason` |
| `OwnRegistrations` | `ConflictNeedsAnother`, where `NoCircle` and `ImportsOnly` hold |
| `RecursionBounded` | with finitely many files as well: one open call more than files at most |
| `AloneNothingIsMissed` | with one goroutine and requests that are answered: no lookup misses |

Typing needs `Shape`: what the frames look like at each place of the recursion, without which
`Head` of a frame need not be a file. `ImportsRegistered` is inductive with it, because files are
never unregistered. `MarkHasReason` is not: that a fetch which ends without an error has registered
the file it was after needs `Underway`, by which the outermost call still has that file before it.

`NoCircle` says that files do not import each other in a circle, which protoc refuses to compile;
`ImportsOnly` that with a file come only files that it imports, which is what the reflection service
of grpc-go sends. Both are of the node, neither is checked by the resolver, and `NodeAssumption` of
`MCResolver` has TLC check that the instance is such a world. Without `NoCircle` a circular import
that is fetched inside itself is registered by the inner call, and the outer one finds it taken.
`Descent` carries the three: the file each open call is at is imported, over some steps, by the file
of the call around it, and none of these files has been registered by the goroutine itself. In a
world without circles these files are all different, so there are no more calls than files (and one
that has no file left), and registering the innermost cannot take the place of an outer one. `Alone`
adds for a single goroutine that none of them is registered at all and no lookup has failed, so none
finds a mark without a file.

`DescriptorSet_proofs`, for every set of services and files, every import graph, every number of
attempts; the assumptions are those of `DescriptorSet`:

| Theorem | Establishes |
|---|---|
| `Typing` | `TypeOK`, with `Shape` |
| `Recursion` | `RecursionBounded` |
| `Sorting` | `SortedByImports` |
| `Implements` | `AllOrNothing`: `DescriptorSet` implements `Startup` |
| `ReadyForResolver` | a registry has the files of all services and the imports of its files |

`SortedByImports` needs `Stack` and `Order`: the files on `path` are exactly the marked ones, each
imported by the one below it, and what is visited is exactly what is sorted and has no circle. That
a registry is whole needs three invariants of the fetch: nothing is fetched that is not needed
(`Within`), every service that has had its turn has its file seen or under way (`RootsMet`), and so
has every import of a file that is seen unless an answer was lacking (`ImportsMet`). When the fetch
ends well the files seen contain the roots and, once all are registered, the imports of their
members; `Startup!Needed` is the least such set. That a circle found by the sort is a circle of the
node's graph follows from `Stack`; that a circle is always found, from `Order`.

`DbPool_proofs`, for any finite number of slots and scrapes and any calls and addresses:

| Theorem | Establishes |
|---|---|
| `Typing` | `TypeOK` |
| `Holding` | `HoldsAsOpen` |
| `Progress` | `NeverAllWaiting` |

The invariant is `HoldsAsOpen` with `Queue` (whoever waits is asking and waits once), `NoneIdle` (no
slot is free while someone waits) and `OnlyLockersAskMore`. `Progress` follows from it by counting:
if everyone who has a slot waited, each would be a locker with exactly one slot, all slots would be
taken, and so there would be at least as many lockers as slots.

`Indexer_proofs`, for every chain, table, number of faults and bound; the assumptions are those of
`Indexer`:

| Theorem | Establishes |
|---|---|
| `Typing` | `TypeOK` |
| `Covering` | `CursorCovered` |
| `Repairing` | `GapFree` |
| `Rewriting` | `ReindexRewritesAll` |
| `Staying` | `BoundedRunStaysInRange` |

None of them is inductive: a failure may leave any hole, so the invariant says what each phase of a
run knows of the table. `Phases` ties the range to the flags, `Passed` says that everything below
the position of the loop is stored, `Repaired` that what is missing below the highest block is on
the list or was not read, `Spanned` that a reindex has its range from the table, `Bounded` that an
explicit range is kept. `Exit` forgets everything but `stored`; of a process that has failed the
invariant says nothing but its types, so a crash between any two steps is as good a start as any
other.

Model-checked only: everything temporal beyond safety (`TroubleEndsCall`, `Returns`,
`StopEndsJob`, `CatchesUp`, `LookupEnds`, `StartupEnds`, `CallsEnd`, `CloseEnds`), which the prover
does not handle. Every invariant, action property and refinement that a passing run checks is
proved. `RunsAsGoroutine`, `KeepsPromise` and `AllOrNothing` are the safety part of their
specifications: the fairness of the abstract one is not part of what is shown.

## 6. Findings

Each is a run that must find its property violated.

1. `block_job_stop`: `RetryGRPCCall` sleeps without looking at the context, also after the last
   attempt, and `extractTransactions` goes on after a cancelled transaction; so does the loop that a
   request of the resolver is in. At the default retries three transactions left take 36 s, two with
   such a request under way as much, and systemd kills the process after 30 s
   (`scripts/yaci-indexer.service:31-32`, "Graceful shutdown").
2. `indexer_bottom`: the scan for missing blocks starts at the lowest row. When the first batch of
   an empty table fails after a higher block was written, the blocks below it are never fetched.
3. `indexer_resume`: a missing block that the node has pruned fails every later start before
   anything new is fetched.
4. `resolver_race`: two lookups that need the same import may both fetch it; the second registration
   is refused, and the error ends a lookup whose symbol is already marked as seen. From then on
   every lookup of that type reports "not found" without asking the node. No request has to fail for
   this; one that does fail has the same effect.
5. `db_pool_scrapes`: as many scrapes of locked tokens at once as the pool has connections: each
   keeps the connection its addresses come from and waits for another, and the writers wait with
   them. Nothing has a deadline. A signal ends the wait of the writers, and the pool then waits for
   the scrapes when it closes.

Met on the way, without a run:

- `processBlocks` (`block.go:87`) logs "Processing cancelled by user" and returns `context canceled`
  when a block has failed while the loop was still running: the error that says why is lost.
- The error of one block does not release a goroutine that waits for the node's reflection service:
  the resolver has the root context (`client.go:44`, `resolver.go:147`). If the node never answers,
  the batch hangs until the signal; `TroubleEndsCall` has the premise.
- The probe reads the lowest height of a pruned node out of the first error only
  (`utils/block.go:52`); `GetMissingBlockIds` does not read `rows.Err()` (`postgresql.go:113`), so a
  scan cut short counts as complete; the model has both.
- `Validate` accepts `--max-concurrency 0`, with which the first send on `sem` blocks for ever
  (`TroubleEndsCall` is false there: the context is not looked at); with `--max-retries 0` the probe
  answers 1 for every node (`ProbeExact` excludes it).
- The comment of `RetryGRPCCall` says exponential backoff, the code sleeps 2, 4, 6 ... seconds; the
  flag says "Reindex the database from block 1" (`cmd/yaci/extract.go:58`), the code starts at the
  lowest block of the table; the resolver registers an ABCI file that it fetches by itself without
  the patch that the startup applies to it (`resolver.go:215`).

## 7. Not modelled

- Metrics: the report of a server that cannot listen (`server.go:76`: the channel is looked at once,
  without waiting), the registration of collectors, the arithmetic of vesting periods. `DbPool`
  starts from a server that listens, and a collector is the connections it takes.
- The Bech32 prefix lookup: one call through `ExtractGRPCField`, used for a metric only.
- The patch of the ABCI descriptor: it changes the type of one field, no import.
- Test utilities, and lookups of services and methods in the resolver, which only read what the
  startup has registered.
- The gRPC client: dialling and keepalive belong to the gRPC library.
- The SQL of the collectors and of the migrations: evaluated by the database.
- Parsing of flags, addresses, method names and nested fields; the JSON and its layout; the
  progress bar; logging. No property is about them.
- The order in which `extractTransactions` and the writer visit transactions: the model fetches
  those of a block in any order in `ProcessBlocks`, in the code's order in `BlockJob`, which
  `RunsAsGoroutine` shows to be one of them.
- The regular expression of the probe: the model takes an error either to name the height or not.
- Two indexers over one database at the same time.
