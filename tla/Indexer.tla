------------------------------- MODULE Indexer -------------------------------
(***************************************************************************)
(* The life of an indexer over a growing and pruned chain: Extract         *)
(* (internal/extractor/extractor.go, block.go, live.go) in a process that  *)
(* fails, crashes, is stopped and is started again, by its supervisor with *)
(* the same configuration or by an operator with any other.  Nothing but   *)
(* the table survives the process: where to resume is read off the heights *)
(* it holds.                                                               *)
(*                                                                         *)
(* One call of processBlocks is the abstract Batch, which ProcessBlocks    *)
(* implements; the probe of an empty database is exact (EarliestProbe).    *)
(***************************************************************************)
EXTENDS FiniteSetsExt

CONSTANTS
  Configs,     \* the configurations operators use
  MaxTip,      \* bound of the model: the latest height of the chain
  MaxLow,      \* bound of the model: the lowest height of the node
  MaxFaults    \* bound of the model: failures, crashes and stops

\* --start, --stop (0: not given), --live and --reindex; Validate refuses
\* --live together with --stop.
Configuration ==
  {c \in [start : 0..MaxTip, stop : 0..MaxTip, live : BOOLEAN, reindex : BOOLEAN] :
     ~(c.live /\ c.stop # 0)}

ASSUME ConfigsAssumption == Configs \subseteq Configuration
ASSUME BoundsAssumption ==
  MaxTip \in Nat \ {0} /\ MaxLow \in 1..MaxTip /\ MaxFaults \in Nat

VARIABLES
  tip, low,                            \* the heights the node has: low..tip
  lo, hi, stored, acked, outcome,      \* the Batch: see there
  pc,        \* where Extract is, "down" without a process
  exit,      \* how the last process ended
  cfg,       \* its configuration
  from, to,  \* cfg.BlockStart and cfg.BlockStop after setBlockRange
  missing,   \* missing blocks that are left to be fetched
  truncated, \* the scan for them was cut short
  cursor,    \* currentHeight of the live loop
  faults     \* failures, crashes and stops so far

B == INSTANCE Batch

chain == <<tip, low>>
batch == <<lo, hi, stored, acked, outcome>>
vars == <<chain, batch, pc, exit, cfg, from, to, missing, truncated, cursor, faults>>

Available == low..tip

\* Failures happen while the chain still grows: on one that has stopped there
\* is never a block to resume from.
MayFail == faults < MaxFaults /\ tip < MaxTip
Fault == MayFail /\ faults' = faults + 1

\* The process ends and what it knew is gone; a batch it was in may leave late
\* writes behind.
Exit(how) ==
  /\ pc' = "down" /\ exit' = how
  /\ from' = 0 /\ to' = 0 /\ missing' = {} /\ cursor' = 0
  /\ UNCHANGED <<chain, cfg, truncated>>

\* Extract returns an error before or after its batch.
Error == Exit("error") /\ UNCHANGED batch

-----------------------------------------------------------------------------
Start(c) ==
  /\ pc = "down"
  /\ cfg' = c /\ pc' = "start" /\ truncated' = FALSE
  /\ lo' = 1 /\ hi' = 0 /\ acked' = {} /\ outcome' = "ok"
  /\ UNCHANGED <<chain, stored, exit, from, to, missing, cursor, faults>>

\* Restart=on-failure.
Restart == exit = "error" /\ Start(cfg)

Operate == (exit = "ok" => tip < MaxTip) /\ \E c \in Configs : Start(c)

\* GetLatestBlock and GetEarliestBlock, for a table that holds blocks.
LatestBlock == Max(stored)
EarliestBlock == Min(stored)

\* Mutant: a reindex of a table that holds blocks resumes as any other run.
FirstBlockResumes(c) ==
  IF c.start # 0 THEN c.start
  ELSE IF stored = {} THEN low ELSE LatestBlock + 1

\* A fresh table is filled from the lowest block of the node, a table that
\* holds blocks from the block after its highest, or, to reindex, its lowest.
FirstBlock(c) ==
  IF c.reindex
    THEN IF stored = {} THEN low ELSE EarliestBlock
    ELSE IF c.start # 0 THEN c.start
    ELSE IF stored = {} THEN low ELSE LatestBlock + 1

ResolveStart ==
  /\ pc = "start"
  /\ from' = FirstBlock(cfg)
  /\ pc' = "stop"
  /\ UNCHANGED <<chain, batch, exit, cfg, to, missing, truncated, cursor, faults>>

LastBlock(c) == IF c.stop = 0 \/ c.reindex THEN tip ELSE c.stop

\* Mutant: asked after setBlockRange has filled both heights in.
SkipsScanLate(c) == TRUE

\* Mutant: a bounded run repairs the table as well.
SkipsScanReindex(c) == c.reindex

\* Taken from the flags as given, before setBlockRange fills them in.
SkipsScan(c) == (c.start # 0 /\ c.stop # 0) \/ c.reindex

\* Mutant: the live loop begins after its start block.
ProceedAfter(first, last) ==
  IF cfg.live
    THEN /\ pc' = "poll" /\ cursor' = first
         /\ UNCHANGED batch
    ELSE /\ pc' = "batch" /\ cursor' = cursor
         /\ B!Begin(first, last) /\ UNCHANGED stored

\* What follows the check for missing blocks: the first poll, or the one batch.
Proceed(first, last) ==
  IF cfg.live
    THEN /\ pc' = "poll" /\ cursor' = first - 1
         /\ UNCHANGED batch
    ELSE /\ pc' = "batch" /\ cursor' = cursor
         /\ B!Begin(first, last) /\ UNCHANGED stored

ResolveStop ==
  /\ pc = "stop"
  /\ from <= LastBlock(cfg)
  /\ to' = LastBlock(cfg)
  /\ IF SkipsScan(cfg)
       THEN Proceed(from, LastBlock(cfg))
       ELSE pc' = "scan" /\ UNCHANGED <<batch, cursor>>
  /\ UNCHANGED <<chain, exit, cfg, from, missing, truncated, faults>>

\* "start block is greater than stop block", also when there is no new block.
NothingToDo ==
  /\ pc = "stop"
  /\ from > LastBlock(cfg)
  /\ Error /\ UNCHANGED faults

\* Mutant: the series starts at 0.
MissingFromZero == IF stored = {} THEN {} ELSE {h \in 0..LatestBlock : h \notin stored}

\* GetMissingBlockIds: the heights without a row between the lowest and the
\* highest that have one.
Missing == IF stored = {} THEN {} ELSE {h \in EarliestBlock..LatestBlock : h \notin stored}

Scan ==
  /\ pc = "scan"
  /\ missing' = Missing
  /\ pc' = "fill"
  /\ UNCHANGED <<chain, batch, exit, cfg, from, to, truncated, cursor, faults>>

\* rows.Next() also ends at a lost connection, and rows.Err() is not read.
ScanTruncated ==
  /\ pc = "scan" /\ Fault
  /\ missing' \in SUBSET Missing /\ missing' # Missing
  /\ pc' = "fill" /\ truncated' = TRUE
  /\ UNCHANGED <<chain, batch, exit, cfg, from, to, cursor>>

\* processMissingBlocks: one block after the other; the first failure ends it.
Fill ==
  /\ pc = "fill"
  /\ \E h \in missing \intersect Available :
       /\ stored' = stored \union {h}
       /\ missing' = missing \ {h}
  /\ UNCHANGED <<chain, lo, hi, acked, outcome, pc, exit, cfg, from, to, truncated, cursor, faults>>

\* A block that the node has pruned cannot be fetched.
FillPruned ==
  /\ pc = "fill"
  /\ missing \ Available # {}
  /\ Error /\ UNCHANGED faults

Filled ==
  /\ pc = "fill"
  /\ missing = {}
  /\ Proceed(from, to)
  /\ UNCHANGED <<chain, exit, cfg, from, to, missing, truncated, faults>>

\* The live loop: a batch of what is new since the last.
Poll ==
  /\ pc = "poll"
  /\ tip > cursor
  /\ B!Begin(cursor + 1, tip) /\ UNCHANGED stored
  /\ pc' = "batch"
  /\ UNCHANGED <<chain, exit, cfg, from, to, missing, truncated, cursor, faults>>

\* The heights of the batch are written in any order; a height the node does
\* not have cannot be.
BatchWrite ==
  /\ pc = "batch"
  /\ \E h \in lo..hi \intersect Available : h \notin acked /\ B!Write(h)
  /\ UNCHANGED <<chain, pc, exit, cfg, from, to, missing, truncated, cursor, faults>>

\* A write whose COMMIT was sent lands although its goroutine, its batch or its
\* process has failed.
LateWrite ==
  /\ pc = "down" /\ outcome = "failed"
  /\ \E h \in lo..hi \intersect Available : h \notin stored /\ B!LoseAck(h)
  /\ UNCHANGED <<chain, pc, exit, cfg, from, to, missing, truncated, cursor, faults>>

BatchOk ==
  /\ pc = "batch"
  /\ B!Succeed
  /\ IF cfg.live
       THEN /\ pc' = "poll" /\ cursor' = hi
            /\ UNCHANGED <<chain, exit, cfg, from, to, missing, truncated>>
       ELSE Exit("ok")
  /\ UNCHANGED faults

\* A height of the batch that the node does not have, or no longer has.
BatchPruned ==
  /\ pc = "batch"
  /\ lo..hi \ (acked \union Available) # {}
  /\ B!Fail /\ Exit("error") /\ UNCHANGED faults

\* The process ends at any point: a call to the node or the database has failed
\* once too often, or it has crashed, and it exits with an error; or SIGTERM
\* has cancelled what it was doing.
Breaks(how) ==
  /\ pc # "down" /\ Fault
  /\ IF pc = "batch" THEN B!Fail ELSE UNCHANGED batch
  /\ Exit(how)

Grow ==
  /\ tip < MaxTip
  /\ tip' = tip + 1
  /\ UNCHANGED <<low, batch, pc, exit, cfg, from, to, missing, truncated, cursor, faults>>

Prune ==
  /\ low < MaxLow /\ low < tip
  /\ low' = low + 1
  /\ UNCHANGED <<tip, batch, pc, exit, cfg, from, to, missing, truncated, cursor, faults>>

\* The live loop sleeps until there is a new block; a stopped indexer may stay so.
Idle ==
  /\ (pc = "poll" /\ tip <= cursor) \/ pc = "down"
  /\ UNCHANGED vars

Init ==
  /\ tip = 1 /\ low = 1
  /\ lo = 1 /\ hi = 0 /\ stored = {} /\ acked = {} /\ outcome = "ok"
  /\ pc = "down" /\ exit = "stopped" /\ cfg \in Configs
  /\ from = 0 /\ to = 0 /\ missing = {} /\ truncated = FALSE /\ cursor = 0
  /\ faults = 0

Extract ==
  \/ ResolveStart \/ ResolveStop \/ NothingToDo
  \/ Scan \/ Fill \/ FillPruned \/ Filled
  \/ Poll \/ BatchWrite \/ BatchOk \/ BatchPruned

Next ==
  \/ Operate \/ Restart
  \/ Extract
  \/ LateWrite
  \/ Breaks("error") \/ Breaks("stopped") \/ ScanTruncated
  \/ Grow \/ Prune
  \/ Idle

Spec == Init /\ [][Next]_vars

\* The process runs and every call ends, the supervisor restarts what failed,
\* who stopped the indexer starts it again, and the chain grows to its bound.
Fairness == WF_vars(Extract) /\ WF_vars(Restart) /\ WF_vars(Operate) /\ WF_vars(Grow)

FairSpec == Spec /\ Fairness
-----------------------------------------------------------------------------
TypeOK ==
  /\ tip \in 1..MaxTip /\ low \in 1..MaxLow
  /\ lo \in 1..(MaxTip + 1) /\ hi \in 0..MaxTip
  /\ stored \in SUBSET (1..MaxTip) /\ acked \in SUBSET (1..MaxTip)
  /\ outcome \in {"running", "ok", "failed"}
  /\ pc \in {"down", "start", "stop", "scan", "fill", "poll", "batch"}
  /\ exit \in {"ok", "error", "stopped"}
  /\ cfg \in Configs
  /\ from \in 0..(MaxTip + 1) /\ to \in 0..MaxTip
  /\ missing \in SUBSET (1..MaxTip)
  /\ truncated \in BOOLEAN
  /\ cursor \in 0..MaxTip
  /\ faults \in 0..MaxFaults

\* The live loop has stored everything from the height it set out from to its
\* cursor: nothing the loop has passed is left to a later run.
CursorCovered == pc = "poll" => from..cursor \subseteq stored

\* Whatever crashed before, a run that resumes (or reindexes) leaves no hole
\* between the lowest block of the table and the height it has reached.
Reached == IF pc = "poll" THEN cursor ELSE hi
HasReached == pc = "poll" \/ (pc = "down" /\ exit = "ok")
Resumes(c) == c.reindex \/ (c.start = 0 /\ c.stop = 0)
HoleFree == \A h \in stored : h..Reached \subseteq stored
GapFree == HasReached /\ Resumes(cfg) /\ ~truncated => HoleFree

\* A reindex that ends well has rewritten every block of the table, those too
\* that late writes of earlier runs have added.
ReindexRewritesAll ==
  pc = "down" /\ exit = "ok" /\ cfg.reindex => stored \subseteq acked

\* A run with both --start and --stop writes blocks of that range only: it does
\* not repair the rest of the table.
BoundedRunStaysInRange ==
  [][pc # "down" /\ cfg.start # 0 /\ cfg.stop # 0 /\ ~cfg.reindex
       => stored' \ stored \subseteq cfg.start..cfg.stop]_vars

AutoLive == [start |-> 0, stop |-> 0, live |-> TRUE, reindex |-> FALSE]

\* On a node that keeps its blocks, a live indexer that resumes by itself ends up
\* with every block above its lowest one: those that failed, stopped or explicit
\* runs have skipped and those that the chain grows by.  A scan that was cut
\* short does harm only as long as its own run lasts.
CatchesUp ==
  [](low = 1) /\ <>[](cfg = AutoLive /\ ~truncated) =>
    \A h \in 1..MaxTip : (h <= tip /\ \E m \in stored : m <= h) ~> h \in stored

\* "If the database is empty, it queries the node for the earliest available
\* block": the live loop has stored what the node has, from its lowest block on.
NothingBelowLost ==
  pc = "poll" /\ cfg = AutoLive => low..cursor \subseteq stored

\* "Starting block height (empty = auto-resume)": after its last failure the
\* indexer resumes, and stores what the chain grows by.
AutoResumes == tip = MaxTip ~> MaxTip \in stored
=============================================================================
