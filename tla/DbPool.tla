--------------------------------- MODULE DbPool ---------------------------------
(***************************************************************************)
(* The connection pool that the extractor and the metrics share            *)
(* (cmd/yaci/postgres.go): WriteBlockWithTransactions takes a connection   *)
(* for its transaction, a collector one for its query.                     *)
(* LockedTokensCollector keeps the one that its addresses come from while  *)
(* it asks for another for the messages of each.                           *)
(*                                                                         *)
(* pgxpool is external.  It has a fixed number of slots; whoever finds     *)
(* none free waits, and a slot that is given back goes to the first who    *)
(* waits.  Close refuses those who get a slot from then on and waits for   *)
(* the connections that are out; those who wait are not woken.             *)
(***************************************************************************)
EXTENDS Naturals, Sequences, FiniteSets

CONSTANTS
  Slots,       \* MaxConns of them
  Writers,     \* calls of WriteBlockWithTransactions that may be out at once
  Counters,    \* calls of Collect with a single query
  Lockers,     \* calls of Collect of LockedTokensCollector
  Addresses,   \* that vesting messages name
  Nobody

ASSUME SlotsAssumption == IsFiniteSet(Slots) /\ IsFiniteSet(Lockers)
ASSUME UsersAssumption ==
  /\ Nobody \notin Writers \union Counters \union Lockers
  /\ (Writers \union Counters) \intersect Lockers = {}

Users == Writers \union Counters \union Lockers

VARIABLES
  main,        \* Extract goes on, the pool is closing, the process has exited
  cancelled,   \* the context of the writers
  pc,          \* of each call
  holder,      \* who has the slot
  waiting,     \* for a slot, the first to come first
  left         \* addresses that the call has not come to

vars == <<main, cancelled, pc, holder, waiting, left>>

Held(u) == {s \in Slots : holder[s] = u}
Free == Held(Nobody)
Queued(u) == \E i \in 1..Len(waiting) : waiting[i] = u
Asking == {"asking", "askingMore"}
Granted(u) == pc[u] \in Asking /\ ~Queued(u)

\* Slots are alike: it does not matter which of several is taken or given back.
One(S) == CHOOSE s \in S : TRUE

Ask(u) ==
  \/ /\ waiting = <<>> /\ Free # {}
     /\ holder' = [holder EXCEPT ![One(Free)] = u]
     /\ UNCHANGED waiting
  \/ /\ waiting # <<>> \/ Free = {}
     /\ waiting' = Append(waiting, u)
     /\ UNCHANGED holder

Release(u) ==
  \/ /\ waiting = <<>>
     /\ holder' = [holder EXCEPT ![One(Held(u))] = Nobody]
     /\ UNCHANGED waiting
  \/ /\ waiting # <<>>
     /\ holder' = [holder EXCEPT ![One(Held(u))] = Head(waiting)]
     /\ waiting' = Tail(waiting)

Goes(u, place) == pc' = [pc EXCEPT ![u] = place]

-----------------------------------------------------------------------------
Start(u) ==
  /\ pc[u] = "idle"
  /\ Goes(u, "asking") /\ Ask(u)
  /\ UNCHANGED <<main, cancelled, left>>

\* pool.Begin(ctx).
BeginWrite ==
  /\ main = "extracting" /\ ~cancelled
  /\ \E w \in Writers : Start(w)

\* Each request of the metrics server collects anew, also while the pool closes:
\* nobody shuts the server down.
Scrape ==
  /\ main # "exited"
  /\ \E u \in Counters \union Lockers : Start(u)

\* Only the writers have a context that ends their wait.
\* Mutant: the wait ends, and its place in the queue remains.
PlaceKept(w) ==
  /\ cancelled /\ pc[w] \in Asking /\ Queued(w)
  /\ Goes(w, "idle")
  /\ UNCHANGED <<main, cancelled, holder, waiting, left>>

WriterGivesUp(w) ==
  /\ cancelled
  /\ \E i \in 1..Len(waiting) :
       /\ waiting[i] = w
       /\ waiting' = SubSeq(waiting, 1, i - 1) \o SubSeq(waiting, i + 1, Len(waiting))
  /\ Goes(w, "idle")
  /\ UNCHANGED <<main, cancelled, holder, left>>

\* The pool is closed, or no connection can be made: the slot goes back.
Refused(u) ==
  /\ Granted(u)
  /\ Release(u)
  /\ Goes(u, IF pc[u] = "asking" THEN "idle" ELSE "leaving")
  /\ UNCHANGED <<main, cancelled, left>>

\* Mutant: a pool that is closing opens connections.
OpenedLate(u) ==
  /\ pc[u] = "asking" /\ Granted(u)
  /\ Goes(u, "open")
  /\ \E A \in SUBSET Addresses : left' = [left EXCEPT ![u] = IF u \in Lockers THEN A ELSE {}]
  /\ UNCHANGED <<main, cancelled, holder, waiting>>

\* The transaction has begun, or the rows of the query are there to be read.
Opened(u) ==
  /\ pc[u] = "asking" /\ Granted(u) /\ main = "extracting"
  /\ Goes(u, "open")
  /\ \E A \in SUBSET Addresses : left' = [left EXCEPT ![u] = IF u \in Lockers THEN A ELSE {}]
  /\ UNCHANGED <<main, cancelled, holder, waiting>>

\* Mutant: the statements of the transaction go to the pool instead.
PoolInsideTransaction(u) ==
  /\ pc[u] = "open"
  /\ u \in Writers \/ left[u] # {}
  /\ \E A \in SUBSET left[u] : left' = [left EXCEPT ![u] = A]
  /\ Goes(u, "askingMore") /\ Ask(u)
  /\ UNCHANGED <<main, cancelled>>

\* Mutant: the loop does not advance.
SameAddressAgain(u) ==
  /\ pc[u] = "open" /\ left[u] # {}
  /\ Goes(u, "askingMore") /\ Ask(u)
  /\ UNCHANGED <<main, cancelled, left>>

\* The next address, and a second connection for its messages.
NextAddress(u) ==
  /\ pc[u] = "open"
  /\ \E a \in left[u] : left' = [left EXCEPT ![u] = @ \ {a}]
  /\ Goes(u, "askingMore") /\ Ask(u)
  /\ UNCHANGED <<main, cancelled>>

MessagesOpened(u) ==
  /\ pc[u] = "askingMore" /\ Granted(u) /\ main = "extracting"
  /\ Goes(u, "openMore")
  /\ UNCHANGED <<main, cancelled, holder, waiting, left>>

\* Rows that are read to their end close themselves.
MessagesRead(u) ==
  /\ pc[u] = "openMore"
  /\ Release(u)
  /\ Goes(u, "open")
  /\ UNCHANGED <<main, cancelled, left>>

\* Commit, or the last row.
Finished(u) ==
  /\ pc[u] = "open" /\ left[u] = {}
  /\ Release(u)
  /\ Goes(u, "idle")
  /\ UNCHANGED <<main, cancelled, left>>

\* Mutant: rows that are not read to their end are not closed.
LeftOpen(u) ==
  /\ pc[u] \in {"open", "openMore"}
  /\ Goes(u, "idle")
  /\ UNCHANGED <<main, cancelled, holder, waiting, left>>

\* Any statement, row or amount may be at fault: the function returns.
Fails(u) ==
  /\ pc[u] \in {"open", "openMore"}
  /\ Goes(u, "leaving")
  /\ UNCHANGED <<main, cancelled, holder, waiting, left>>

\* The deferred Close of the rows, or Rollback, one by one.
Closes(u) ==
  /\ pc[u] = "leaving"
  /\ Release(u)
  /\ Goes(u, IF Held(u) = {One(Held(u))} THEN "idle" ELSE "leaving")
  /\ UNCHANGED <<main, cancelled, left>>

-----------------------------------------------------------------------------
\* A signal, or the errgroup after a block that has failed.
Cancel ==
  /\ main = "extracting"
  /\ cancelled' = TRUE
  /\ UNCHANGED <<main, pc, holder, waiting, left>>

\* Extract waits for its writers, or returns early once they are cancelled; then
\* the deferred Close of the handler runs.
ExtractReturns ==
  /\ main = "extracting" /\ (cancelled \/ \A w \in Writers : pc[w] = "idle")
  /\ main' = "closing"
  /\ UNCHANGED <<cancelled, pc, holder, waiting, left>>

\* pool.Close has seen all connections return.
CloseReturns ==
  /\ main = "closing" /\ \A u \in Users : pc[u] \in {"idle", "asking"}
  /\ main' = "exited"
  /\ UNCHANGED <<cancelled, pc, holder, waiting, left>>

Exited == main = "exited" /\ UNCHANGED vars

-----------------------------------------------------------------------------
Init ==
  /\ main = "extracting" /\ cancelled = FALSE
  /\ pc = [u \in Users |-> "idle"]
  /\ holder = [s \in Slots |-> Nobody]
  /\ waiting = <<>>
  /\ left = [u \in Users |-> {}]

Step(u) ==
  /\ main # "exited"
  /\ \/ u \in Writers /\ WriterGivesUp(u)
     \/ Refused(u) \/ Opened(u) \/ NextAddress(u) \/ MessagesOpened(u)
     \/ MessagesRead(u) \/ Finished(u) \/ Fails(u) \/ Closes(u)

Next ==
  \/ BeginWrite \/ Scrape \/ \E u \in Users : Step(u)
  \/ Cancel \/ ExtractReturns \/ CloseReturns \/ Exited

Spec == Init /\ [][Next]_vars

\* Go runs every goroutine that can go on, and the database answers.  Nobody has
\* to scrape, to write or to cancel.
FairSpec ==
  /\ Spec
  /\ \A u \in Users : WF_vars(Step(u))
  /\ WF_vars(CloseReturns)
-----------------------------------------------------------------------------
\* Whoever waits is asking.
TypeOK ==
  /\ main \in {"extracting", "closing", "exited"} /\ cancelled \in BOOLEAN
  /\ pc \in [Users -> {"idle", "asking", "open", "askingMore", "openMore", "leaving"}]
  /\ holder \in [Slots -> Users \union {Nobody}]
  /\ waiting \in Seq({u \in Users : pc[u] \in Asking})
  /\ left \in [Users -> SUBSET Addresses]

\* A call has as many connections as it has results open, or was just granted,
\* so that one that has returned, from wherever, has none.
Due(place, queued) ==
  CASE place = "idle" -> {0}
    [] place = "asking" -> IF queued THEN {0} ELSE {1}
    [] place = "open" -> {1}
    [] place = "askingMore" -> IF queued THEN {1} ELSE {2}
    [] place = "openMore" -> {2}
    [] place = "leaving" -> {1, 2}

HoldsAsOpen == \A u \in Users : Cardinality(Held(u)) \in Due(pc[u], Queued(u))

\* There is no deadlock as long as fewer scrapes of locked tokens are out than
\* the pool has slots: if someone waits, someone who has a slot does not.
NeverAllWaiting ==
  Cardinality(Lockers) < Cardinality(Slots) /\ waiting # <<>> =>
    \E u \in Users : Held(u) # {} /\ ~Queued(u)

\* Each Collect sends its metric or an error, each block is written or fails.
CallsEnd == \A u \in Users : pc[u] # "idle" ~> pc[u] = "idle" \/ main = "exited"

\* Close returns, though scrapes go on arriving that nobody turns away.
CloseEnds == main = "closing" ~> main = "exited"
=============================================================================
