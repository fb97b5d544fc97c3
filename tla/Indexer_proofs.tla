----------------------------- MODULE Indexer_proofs -----------------------------
(***************************************************************************)
(* Proofs about the life of an indexer, for any set of configurations, any *)
(* length of the chain and any number of failures: what each phase of      *)
(* Extract knows of the table, whatever earlier processes left in it.      *)
(***************************************************************************)
EXTENDS Indexer, WellFoundedInduction, TLAPS

\* What holds at each place of Extract whatever the configuration.
Phases ==
  /\ low <= tip /\ stored \subseteq 1..tip
  /\ pc \in {"stop", "scan", "fill"} => from \in Nat \ {0}
  /\ pc \in {"scan", "fill"} => ~SkipsScan(cfg)
  /\ pc = "poll" => cfg.live
  /\ pc = "batch" => outcome = "running" /\ acked \subseteq stored
  /\ pc = "down" /\ exit = "ok" => outcome = "ok"

\* What the live loop has passed is stored.
Passed ==
  /\ pc = "poll" => from..cursor \subseteq stored
  /\ pc = "batch" /\ cfg.live => from..(lo - 1) \subseteq stored

\* The heights that are not stored between a stored one and the place that the
\* run has come to are those that are left to be fetched.
Repaired ==
  Resumes(cfg) /\ ~truncated =>
    /\ pc = "stop" /\ cfg.reindex => \A h \in stored : from <= h
    /\ pc \in {"stop", "scan"} /\ ~cfg.reindex /\ stored # {} => from = LatestBlock + 1
    /\ pc = "fill" =>
         /\ \A h \in stored : h..(from - 1) \subseteq stored \union missing
         /\ \A h \in missing : \E g \in stored : g <= h
    /\ pc = "poll" => \A h \in stored : h..cursor \subseteq stored
    /\ pc = "batch" => \A h \in stored : h..(lo - 1) \subseteq stored
    /\ pc = "down" /\ exit = "ok" => HoleFree

\* The batch of a reindex spans the table.
Spanned ==
  cfg.reindex =>
    /\ pc = "stop" => \A h \in stored : from <= h
    /\ pc = "batch" /\ ~cfg.live => stored \subseteq lo..hi
    /\ pc = "down" /\ exit = "ok" => stored \subseteq acked

\* A bounded run has one batch, from --start to --stop.
Bounded ==
  cfg.start # 0 /\ cfg.stop # 0 /\ ~cfg.reindex =>
    /\ pc \notin {"scan", "fill", "poll"}
    /\ pc = "stop" => from = cfg.start
    /\ pc = "batch" => lo = cfg.start /\ hi = cfg.stop

Inv == TypeOK /\ Phases /\ Passed /\ Repaired /\ Spanned /\ Bounded

-----------------------------------------------------------------------------
\* A set of natural numbers that is not empty has a least one.
LEMMA Least ==
  ASSUME NEW S \in SUBSET Nat, S # {}
  PROVE  \E x \in S : \A y \in S : x <= y
<1> DEFINE R == OpToRel(<, Nat)
<1>1. IsWellFoundedOn(R, Nat)
  BY NatLessThanWellFounded
<1>2. \A x, y \in Nat : <<x, y>> \in R <=> x < y
  BY DEF OpToRel
<1> HIDE DEF R
<1>3. PICK x \in S : \A y \in S : ~ (<<y, x>> \in R)
  BY <1>1, WFMin
<1>4. \A y \in S : x <= y
  <2> TAKE y \in S
  <2>1. x \in Nat /\ y \in Nat /\ ~ (y < x)
    BY <1>2, <1>3
  <2> QED
    BY <2>1
<1> QED
  BY <1>3, <1>4

\* The lowest and the highest block of a table that holds blocks.
LEMMA Ends ==
  ASSUME NEW S \in SUBSET (1..MaxTip), S # {}
  PROVE  /\ Min(S) \in S /\ \A y \in S : Min(S) <= y
         /\ Max(S) \in S /\ \A y \in S : Max(S) >= y
<1>1. MaxTip \in Nat /\ \A y \in S : y \in Nat /\ MaxTip - y \in Nat
  BY BoundsAssumption
<1>2. \E x \in S : \A y \in S : x <= y
  BY <1>1, Least
<1>3. \E x \in S : \A y \in S : x >= y
  <2> DEFINE T == {MaxTip - y : y \in S}
  <2>1. T \in SUBSET Nat /\ T # {}
    BY <1>1
  <2>2. PICK t \in T : \A u \in T : t <= u
    <3> HIDE DEF T
    <3> QED
      BY <2>1, Least
  <2>3. PICK x \in S : t = MaxTip - x
    OBVIOUS
  <2>4. \A y \in S : x >= y
    <3> TAKE y \in S
    <3>1. MaxTip - y \in T
      OBVIOUS
    <3>2. MaxTip - x <= MaxTip - y
      BY <2>2, <2>3, <3>1
    <3> QED
      BY <1>1, <3>2
  <2> QED
    BY <2>4
<1> QED
  BY <1>2, <1>3 DEF Min, Max

LEMMA Given ==
  ASSUME NEW c \in Configs
  PROVE  /\ c.start \in 0..MaxTip /\ c.stop \in 0..MaxTip
         /\ c.live \in BOOLEAN /\ c.reindex \in BOOLEAN
         /\ ~(c.live /\ c.stop # 0)
  BY ConfigsAssumption DEF Configuration

\* Heights of the model, and where a run may begin and end.
LEMMA Heights ==
  ASSUME TypeOK
  PROVE  /\ MaxTip \in Nat \ {0} /\ MaxLow \in Nat /\ MaxLow <= MaxTip /\ MaxFaults \in Nat
         /\ FirstBlock(cfg) \in 1..(MaxTip + 1) /\ LastBlock(cfg) \in 1..MaxTip
         /\ stored # {} => LatestBlock \in stored /\ EarliestBlock \in stored
         /\ \A h \in stored : EarliestBlock <= h /\ h <= LatestBlock
<1>1. MaxTip \in Nat \ {0} /\ MaxLow \in Nat /\ MaxLow <= MaxTip /\ MaxFaults \in Nat
  BY BoundsAssumption
<1>2. /\ stored # {} => LatestBlock \in stored /\ EarliestBlock \in stored
      /\ \A h \in stored : EarliestBlock <= h /\ h <= LatestBlock
  BY <1>1, Ends DEF TypeOK, LatestBlock, EarliestBlock
<1>3. LastBlock(cfg) \in 1..MaxTip
  BY <1>1, Given DEF TypeOK, LastBlock
<1>4. FirstBlock(cfg) \in 1..(MaxTip + 1)
  <2>1. low \in 1..(MaxTip + 1)
    BY <1>1 DEF TypeOK
  <2>2. stored # {} => EarliestBlock \in 1..MaxTip /\ LatestBlock \in 1..MaxTip
    BY <1>2 DEF TypeOK
  <2>3. cfg.start \in 0..MaxTip
    BY Given DEF TypeOK
  <2> QED
    BY <1>1, <2>1, <2>2, <2>3 DEF FirstBlock
<1> QED
  BY <1>1, <1>2, <1>3, <1>4

-----------------------------------------------------------------------------
\* A process that ends without success leaves nothing but the table.
LEMMA Quits ==
  ASSUME Inv, NEW how \in {"error", "stopped"}, Exit(how), UNCHANGED <<lo, hi, stored, acked>>,
         outcome' \in {"running", "ok", "failed"}, faults' \in 0..MaxFaults
  PROVE  Inv'
<1>1. TypeOK'
  <2>1. TypeOK /\ MaxTip \in Nat
    BY Heights DEF Inv
  <2>2. 0 \in 0..MaxTip /\ 0 \in 0..(MaxTip + 1)
    BY <2>1
  <2> QED
    BY <2>1, <2>2 DEF TypeOK, Exit, chain
<1>2. Phases' /\ Passed' /\ Bounded'
  BY DEF Inv, Phases, Passed, Bounded, Exit, chain
<1>3. Repaired' /\ Spanned'
  BY DEF Exit, Repaired, Spanned
<1> QED
  BY <1>1, <1>2, <1>3 DEF Inv

LEMMA Launched ==
  ASSUME Inv, NEW c \in Configs, Start(c)
  PROVE  Inv'
<1>1. TypeOK'
  <2>1. TypeOK /\ MaxTip \in Nat
    BY Heights DEF Inv
  <2>2. 0 \in 0..MaxTip /\ 1 \in 1..(MaxTip + 1)
    BY <2>1
  <2> QED
    BY <2>1, <2>2 DEF TypeOK, Start, chain
<1>2. Phases' /\ Passed' /\ Bounded'
  BY DEF Inv, Phases, Passed, Bounded, Start, chain
<1>3. Repaired' /\ Spanned'
  BY DEF Start, Repaired, Spanned
<1> QED
  BY <1>1, <1>2, <1>3 DEF Inv

\* Nothing has been done to the table yet when the start block is chosen.
LEMMA StartChosen ==
  ASSUME Inv, ResolveStart
  PROVE  Inv'
<1> USE DEF ResolveStart, chain, batch
<1>1. TypeOK'
  BY Heights DEF Inv, TypeOK
<1>2. Phases'
  BY Heights DEF Inv, Phases
<1>3. Passed'
  BY DEF Passed
<1>4. Repaired'
  BY Heights, Given DEF Inv, TypeOK, Repaired, Resumes, FirstBlock, LatestBlock
<1>5. Spanned'
  BY Heights, Given DEF Inv, TypeOK, Spanned, FirstBlock
<1>6. Bounded'
  BY DEF Bounded, FirstBlock
<1> QED
  BY <1>1, <1>2, <1>3, <1>4, <1>5, <1>6 DEF Inv

\* What a run knows when it comes to its first poll or to its batch.
LEMMA Proceeds ==
  ASSUME Inv, NEW first \in Nat \ {0}, NEW last, first <= MaxTip + 1, last \in 0..MaxTip,
         Proceed(first, last), from' = first, to' \in 0..MaxTip,
         UNCHANGED <<chain, exit, cfg, missing, truncated, faults>>,
         pc \in {"stop", "fill"},
         Resumes(cfg) /\ ~truncated => \A h \in stored : h..(first - 1) \subseteq stored,
         cfg.reindex => \A h \in stored : h \in first..last,
         cfg.start # 0 /\ cfg.stop # 0 /\ ~cfg.reindex => first = cfg.start /\ last = cfg.stop
  PROVE  Inv'
<1> USE DEF Proceed, chain
<1>1. stored' = stored /\ cfg \in Configs /\ first \in Int /\ first - 1 \in Nat
  BY DEF B!Begin, batch, Inv, TypeOK
<1>2. TypeOK'
  <2>1. TypeOK /\ MaxTip \in Nat
    BY Heights DEF Inv
  <2>2. first \in 0..(MaxTip + 1) /\ first \in 1..(MaxTip + 1) /\ first - 1 \in 0..MaxTip
    BY <2>1
  <2> QED
    BY <1>1, <2>1, <2>2 DEF TypeOK, B!Begin, batch
<1>3. Phases'
  BY <1>1 DEF Inv, Phases, B!Begin
<1>4. Passed'
  BY <1>1 DEF Passed, B!Begin
<1>5. Repaired'
  BY <1>1 DEF Repaired, Resumes, B!Begin
<1>6. Spanned'
  BY <1>1 DEF Spanned, B!Begin
<1>7. Bounded'
  BY <1>1, Given DEF Bounded, B!Begin
<1> QED
  BY <1>2, <1>3, <1>4, <1>5, <1>6, <1>7 DEF Inv

LEMMA StopChosen ==
  ASSUME Inv, ResolveStop
  PROVE  Inv'
<1>1. /\ pc = "stop" /\ from \in Nat \ {0} /\ from <= LastBlock(cfg) /\ to' = LastBlock(cfg)
      /\ UNCHANGED <<chain, exit, cfg, from, missing, truncated, faults>>
      /\ LastBlock(cfg) \in 1..MaxTip /\ cfg \in Configs
  BY Heights DEF ResolveStop, Inv, Phases, TypeOK
<1>2. CASE SkipsScan(cfg)
  <2>1. Proceed(from, LastBlock(cfg))
    BY <1>2 DEF ResolveStop
  <2>2. Resumes(cfg) /\ ~truncated => \A h \in stored : h..(from - 1) \subseteq stored
    <3>1. SUFFICES ASSUME Resumes(cfg), ~truncated, NEW h \in stored PROVE h..(from - 1) = {}
      OBVIOUS
    <3>2. from <= h /\ h \in Nat
      BY <1>1, <1>2, <3>1 DEF SkipsScan, Resumes, Inv, Repaired, TypeOK
    <3> QED
      BY <1>1, <3>2
  <2>3. cfg.reindex => \A h \in stored : h \in from..LastBlock(cfg)
    BY <1>1 DEF Inv, Spanned, Phases, TypeOK, LastBlock
  <2>4. cfg.start # 0 /\ cfg.stop # 0 /\ ~cfg.reindex => from = cfg.start /\ LastBlock(cfg) = cfg.stop
    BY <1>1 DEF Inv, Bounded, LastBlock
  <2>5. from <= MaxTip + 1 /\ LastBlock(cfg) \in 0..MaxTip
    BY <1>1, Heights DEF Inv
  <2>6. PICK first \in Nat \ {0}, last \in 0..MaxTip : first = from /\ last = LastBlock(cfg)
    BY <1>1, <2>5
  <2> QED
    BY <1>1, <2>1, <2>2, <2>3, <2>4, <2>5, <2>6, Proceeds
<1>3. CASE ~SkipsScan(cfg)
  <2>1. pc' = "scan" /\ UNCHANGED <<batch, cursor>>
    BY <1>3 DEF ResolveStop
  <2> USE DEF chain, batch
  <2>2. TypeOK'
    BY <1>1, <2>1, Heights DEF Inv, TypeOK
  <2>3. Phases' /\ Passed' /\ Spanned'
    BY <1>1, <1>3, <2>1 DEF Inv, Phases, Passed, Spanned, SkipsScan
  <2>4. Repaired'
    BY <1>1, <1>3, <2>1 DEF Inv, Repaired, Resumes, LatestBlock, SkipsScan
  <2>5. Bounded'
    BY <1>1, <1>3, <2>1 DEF Bounded, SkipsScan
  <2> QED
    BY <2>2, <2>3, <2>4, <2>5 DEF Inv
<1> QED
  BY <1>2, <1>3

\* The missing heights close every hole, unless the scan is cut short.
LEMMA Scanned ==
  ASSUME Inv, Scan \/ ScanTruncated
  PROVE  Inv'
<1>1. /\ pc = "scan" /\ pc' = "fill" /\ missing' \subseteq Missing
      /\ (missing' = Missing /\ truncated' = truncated) \/ truncated' = TRUE
      /\ faults' \in 0..MaxFaults
      /\ UNCHANGED <<chain, batch, exit, cfg, from, to, cursor>>
  <2>1. faults \in 0..MaxFaults /\ MaxFaults \in Nat
    BY Heights DEF Inv, TypeOK
  <2>2. CASE Scan
    BY <2>1, <2>2 DEF Scan
  <2>3. CASE ScanTruncated
    BY <2>1, <2>3 DEF ScanTruncated, Fault, MayFail
  <2> QED
    BY <2>2, <2>3
<1>2. Missing \in SUBSET (1..MaxTip) /\ \A x \in Missing : \E g \in stored : g <= x
  <2>1. CASE stored = {}
    BY <2>1 DEF Missing
  <2>2. CASE stored # {}
    <3>1. EarliestBlock \in stored /\ EarliestBlock \in 1..MaxTip /\ LatestBlock \in 1..MaxTip /\ MaxTip \in Nat
      BY <2>2, Heights DEF Inv, TypeOK
    <3> QED
      BY <2>2, <3>1 DEF Missing
  <2> QED
    BY <2>1, <2>2
<1> USE DEF chain, batch
<1>3. TypeOK'
  BY <1>1, <1>2 DEF Inv, TypeOK
<1>4. Phases' /\ Passed' /\ Spanned' /\ Bounded'
  BY <1>1 DEF Inv, Phases, Passed, Spanned, Bounded, SkipsScan
<1>5. ASSUME ~truncated', Resumes(cfg), NEW h \in stored
      PROVE  h..(from - 1) \subseteq stored \union Missing
  <2>1. from = LatestBlock + 1 /\ LatestBlock \in Int /\ EarliestBlock \in Int /\ h \in Int /\ EarliestBlock <= h
    <3>1. ~cfg.reindex /\ ~truncated /\ stored # {} /\ pc = "scan"
      BY <1>1, <1>5 DEF Inv, Phases, SkipsScan
    <3>2. from = LatestBlock + 1
      BY <1>5, <3>1 DEF Inv, Repaired
    <3>3. stored \subseteq Int /\ LatestBlock \in stored /\ EarliestBlock \in stored /\ EarliestBlock <= h
      BY <3>1, Heights DEF Inv, TypeOK
    <3> QED
      BY <3>2, <3>3
  <2>2. h..(from - 1) \subseteq EarliestBlock..LatestBlock
    BY <2>1
  <2> QED
    BY <2>2 DEF Missing
<1>6. Repaired'
  BY <1>1, <1>2, <1>5 DEF Repaired, Resumes
<1> QED
  BY <1>3, <1>4, <1>6 DEF Inv

\* A missing block is fetched.
LEMMA FilledOne ==
  ASSUME Inv, Fill
  PROVE  Inv'
<1>1. PICK h \in missing \intersect Available : stored' = stored \union {h} /\ missing' = missing \ {h}
  BY DEF Fill
<1>2. h \in 1..tip /\ h \in 1..MaxTip /\ tip \in Int /\ from \in Int
  BY <1>1, Heights DEF Available, Inv, TypeOK
<1>3. pc = "fill" /\ UNCHANGED <<chain, lo, hi, acked, outcome, pc, exit, cfg, from, to, truncated, cursor, faults>>
  BY DEF Fill
<1> USE DEF chain
<1>4. TypeOK'
  BY <1>1, <1>2, <1>3 DEF Inv, TypeOK
<1>5. Phases' /\ Passed' /\ Spanned' /\ Bounded'
  BY <1>1, <1>2, <1>3 DEF Inv, Phases, Passed, Spanned, Bounded, SkipsScan
<1>6. Repaired'
  <2> SUFFICES ASSUME Resumes(cfg), ~truncated
               PROVE  /\ \A g \in stored' : g..(from - 1) \subseteq stored' \union missing'
                      /\ \A x \in missing' : \E g \in stored' : g <= x
    BY <1>3 DEF Repaired, Resumes
  <2>1. /\ \A g \in stored : g..(from - 1) \subseteq stored \union missing
        /\ \A x \in missing : \E g \in stored : g <= x
    BY <1>3 DEF Inv, Repaired
  <2>2. stored \union missing = stored' \union missing'
    BY <1>1
  <2>3. h..(from - 1) \subseteq stored \union missing
    <3>1. PICK g \in stored : g <= h
      BY <1>1, <2>1
    <3>2. g \in Int
      BY DEF Inv, TypeOK
    <3>3. h..(from - 1) \subseteq g..(from - 1)
      BY <1>2, <3>1, <3>2
    <3> QED
      BY <2>1, <3>3
  <2> QED
    BY <1>1, <2>1, <2>2, <2>3
<1> QED
  BY <1>4, <1>5, <1>6 DEF Inv

LEMMA FilledAll ==
  ASSUME Inv, Filled
  PROVE  Inv'
<1>1. /\ pc = "fill" /\ missing = {} /\ Proceed(from, to) /\ ~SkipsScan(cfg)
      /\ from \in Nat \ {0} /\ from <= MaxTip + 1 /\ to \in 0..MaxTip
      /\ UNCHANGED <<chain, exit, cfg, from, to, missing, truncated, faults>>
  BY Heights DEF Filled, Inv, TypeOK, Phases
<1>2. Resumes(cfg) /\ ~truncated => \A h \in stored : h..(from - 1) \subseteq stored
  BY <1>1 DEF Inv, Repaired
<1>3. ~cfg.reindex /\ ~(cfg.start # 0 /\ cfg.stop # 0)
  BY <1>1 DEF SkipsScan
<1>4. PICK first \in Nat \ {0}, last \in 0..MaxTip : first = from /\ last = to
  BY <1>1
<1> QED
  BY <1>1, <1>2, <1>3, <1>4, Proceeds

LEMMA Polled ==
  ASSUME Inv, Poll
  PROVE  Inv'
<1>1. /\ pc = "poll" /\ pc' = "batch" /\ cfg.live /\ tip > cursor
      /\ lo' = cursor + 1 /\ hi' = tip /\ acked' = {} /\ outcome' = "running"
      /\ UNCHANGED <<chain, stored, exit, cfg, from, to, missing, truncated, cursor, faults>>
      /\ MaxTip \in Nat /\ cursor \in Nat /\ tip \in 1..MaxTip
  BY Heights DEF Poll, B!Begin, Inv, Phases, TypeOK
<1>2. cursor + 1 \in 1..(MaxTip + 1) /\ (cursor + 1) - 1 = cursor
  BY <1>1
<1> USE DEF chain
<1>3. TypeOK'
  BY <1>1, <1>2 DEF Inv, TypeOK
<1>4. Phases' /\ Passed' /\ Spanned' /\ Bounded'
  BY <1>1, <1>2 DEF Inv, Phases, Passed, Spanned, Bounded
<1>5. Repaired'
  BY <1>1, <1>2 DEF Inv, Repaired, Resumes
<1> QED
  BY <1>3, <1>4, <1>5 DEF Inv

\* A write of the batch in progress, or a late one of a batch that has failed.
LEMMA Wrote ==
  ASSUME Inv, BatchWrite \/ LateWrite
  PROVE  Inv'
<1>1. PICK h \in lo..hi \intersect Available :
         /\ stored' = stored \union {h} /\ acked' \subseteq acked \union {h}
         /\ acked \subseteq stored => acked' \subseteq stored'
         /\ pc # "batch" => acked' = acked
  BY DEF BatchWrite, LateWrite, B!Write, B!LoseAck
<1>2. /\ pc = "batch" \/ (pc = "down" /\ outcome = "failed")
      /\ UNCHANGED <<chain, lo, hi, outcome, pc, exit, cfg, from, to, missing, truncated, cursor, faults>>
  BY DEF BatchWrite, LateWrite, B!Write, B!LoseAck
<1>3. h \in 1..tip /\ h \in 1..MaxTip /\ lo \in Int /\ lo <= h /\ h <= hi
  BY <1>1, Heights DEF Available, Inv, TypeOK
<1> USE DEF chain
<1>4. TypeOK'
  BY <1>1, <1>2, <1>3 DEF Inv, TypeOK
<1>5. Phases' /\ Passed'
  BY <1>1, <1>2, <1>3 DEF Inv, Phases, Passed, SkipsScan
<1>6. Spanned' /\ Bounded'
  BY <1>1, <1>2, <1>3 DEF Inv, Phases, Spanned, Bounded
<1>7. Repaired'
  <2>1. h..(lo - 1) = {}
    BY <1>3
  <2> QED
    BY <1>1, <1>2, <2>1 DEF Inv, Phases, Repaired, Resumes
<1> QED
  BY <1>4, <1>5, <1>6, <1>7 DEF Inv

LEMMA BatchEnds ==
  ASSUME Inv, BatchOk
  PROVE  Inv'
<1>1. /\ pc = "batch" /\ acked = lo..hi /\ acked \subseteq stored /\ outcome' = "ok"
      /\ UNCHANGED <<lo, hi, stored, acked>> /\ UNCHANGED <<chain, cfg, truncated, faults>>
      /\ lo \in Nat \ {0} /\ hi \in 0..MaxTip /\ MaxTip \in Nat /\ from \in Int
  BY Heights DEF BatchOk, B!Succeed, Exit, Inv, Phases, TypeOK
<1>2. ASSUME NEW x \in Int, x..(lo - 1) \subseteq stored
      PROVE  x..hi \subseteq stored
  <2> SUFFICES ASSUME NEW y \in x..hi PROVE y \in stored
    OBVIOUS
  <2>1. y \in x..(lo - 1) \/ y \in lo..hi
    BY <1>1, <1>2
  <2> QED
    BY <1>1, <1>2, <2>1
<1> USE DEF chain
<1>3. CASE cfg.live
  <2>1. pc' = "poll" /\ cursor' = hi /\ UNCHANGED <<exit, from, to, missing>>
    BY <1>3 DEF BatchOk
  <2>2. TypeOK'
    BY <1>1, <2>1 DEF Inv, TypeOK
  <2>3. Phases' /\ Spanned' /\ Bounded'
    BY <1>1, <1>3, <2>1, Given DEF Inv, TypeOK, Phases, Spanned, Bounded
  <2>4. Passed'
    BY <1>1, <1>2, <1>3, <2>1 DEF Inv, Passed
  <2>5. Repaired'
    BY <1>1, <1>2, <2>1 DEF Inv, TypeOK, Repaired, Resumes
  <2> QED
    BY <2>2, <2>3, <2>4, <2>5 DEF Inv
<1>4. CASE ~cfg.live
  <2>1. /\ pc' = "down" /\ exit' = "ok" /\ from' = 0 /\ to' = 0 /\ missing' = {} /\ cursor' = 0
    BY <1>4 DEF BatchOk, Exit
  <2>2. TypeOK'
    <3>1. 0 \in 0..MaxTip /\ 0 \in 0..(MaxTip + 1)
      BY <1>1
    <3> QED
      BY <1>1, <2>1, <3>1 DEF Inv, TypeOK
  <2>3. Phases' /\ Passed' /\ Bounded'
    BY <1>1, <2>1 DEF Inv, Phases, Passed, Bounded
  <2>4. Spanned'
    BY <1>1, <1>4, <2>1 DEF Inv, Spanned
  <2>5. Repaired'
    BY <1>1, <1>2, <2>1 DEF Inv, TypeOK, Repaired, Resumes, HoleFree, Reached
  <2> QED
    BY <2>2, <2>3, <2>4, <2>5 DEF Inv
<1>5. cfg.live \in BOOLEAN
  BY Given DEF Inv, TypeOK
<1> QED
  BY <1>3, <1>4, <1>5

\* The chain grows by a block, or the node prunes its lowest.
LEMMA ChainMoves ==
  ASSUME Inv, Grow \/ Prune
  PROVE  Inv'
<1>1. /\ tip' \in 1..MaxTip /\ low' \in 1..MaxLow /\ low' <= tip' /\ tip <= tip' /\ tip \in Int
      /\ UNCHANGED <<batch, pc, exit, cfg, from, to, missing, truncated, cursor, faults>>
  BY Heights DEF Grow, Prune, Inv, TypeOK, Phases
<1>2. stored \subseteq 1..tip'
  BY <1>1 DEF Inv, Phases
<1> USE DEF batch
<1>3. TypeOK'
  BY <1>1 DEF Inv, TypeOK
<1>4. Phases' /\ Passed' /\ Spanned' /\ Bounded'
  BY <1>1, <1>2 DEF Inv, Phases, Passed, Spanned, Bounded, SkipsScan
<1>5. Repaired'
  BY <1>1 DEF Inv, Repaired, Resumes, LatestBlock, HoleFree, Reached
<1> QED
  BY <1>3, <1>4, <1>5 DEF Inv

LEMMA Starts ==
  ASSUME Init
  PROVE  Inv
<1>1. TypeOK
  <2>1. MaxTip \in Nat \ {0} /\ MaxLow \in Nat \ {0} /\ MaxFaults \in Nat
    BY BoundsAssumption
  <2>2. 1 \in 1..MaxTip /\ 1 \in 1..MaxLow /\ 1 \in 1..(MaxTip + 1) /\ 0 \in 0..MaxTip /\ 0 \in 0..(MaxTip + 1)
        /\ 0 \in 0..MaxFaults
    BY <2>1
  <2> QED
    BY <2>2 DEF Init, TypeOK
<1> QED
  BY <1>1 DEF Init, Inv, Phases, Passed, Repaired, Spanned, Bounded

\* What each phase knows of the table remains true with every step.
LEMMA Invariance == Spec => []Inv
<1>1. Init => Inv
  BY Starts
<1>2. ASSUME Inv, [Next]_vars PROVE Inv'
  <2>1. CASE Operate \/ Restart
    <3>1. PICK c \in Configs : Start(c)
      BY <1>2, <2>1 DEF Operate, Restart, Inv, TypeOK
    <3> QED
      BY <1>2, <3>1, Launched
  <2>2. CASE NothingToDo \/ FillPruned
    <3>1. Exit("error") /\ UNCHANGED batch /\ UNCHANGED faults
      BY <2>2 DEF NothingToDo, FillPruned, Error
    <3> QED
      BY <1>2, <3>1, Quits DEF batch, Inv, TypeOK
  <2>3. CASE BatchPruned
    <3>1. Exit("error") /\ UNCHANGED <<lo, hi, stored, acked, faults>> /\ outcome' = "failed"
      BY <2>3 DEF BatchPruned, B!Fail
    <3> QED
      BY <1>2, <3>1, Quits DEF Inv, TypeOK
  <2>4. CASE Breaks("error") \/ Breaks("stopped")
    <3>1. PICK how \in {"error", "stopped"} : Breaks(how)
      BY <2>4
    <3>2. /\ Exit(how) /\ UNCHANGED <<lo, hi, stored, acked>>
          /\ outcome' = "failed" \/ outcome' = outcome
      BY <3>1 DEF Breaks, B!Fail, batch
    <3>3. faults' \in 0..MaxFaults
      BY <1>2, <3>1, Heights DEF Breaks, Fault, MayFail, Inv, TypeOK
    <3> QED
      BY <1>2, <3>2, <3>3, Quits DEF Inv, TypeOK
  <2>5. CASE ResolveStart \/ ResolveStop
    BY <1>2, <2>5, StartChosen, StopChosen
  <2>6. CASE Scan \/ ScanTruncated
    BY <1>2, <2>6, Scanned
  <2>7. CASE Fill \/ Filled
    BY <1>2, <2>7, FilledOne, FilledAll
  <2>8. CASE Poll \/ BatchOk
    BY <1>2, <2>8, Polled, BatchEnds
  <2>9. CASE BatchWrite \/ LateWrite
    BY <1>2, <2>9, Wrote
  <2>10. CASE Grow \/ Prune
    BY <1>2, <2>10, ChainMoves
  <2>11. CASE Idle \/ UNCHANGED vars
    <3>1. UNCHANGED vars
      BY <2>11 DEF Idle
    <3>2. (TypeOK /\ Phases /\ Passed /\ Spanned /\ Bounded)'
      BY <1>2, <3>1 DEF vars, chain, batch, Inv, TypeOK, Phases, Passed, Spanned, Bounded, SkipsScan
    <3>3. Repaired'
      BY <1>2, <3>1 DEF vars, chain, batch, Inv, Repaired, Resumes, LatestBlock, HoleFree, Reached
    <3> QED
      BY <3>2, <3>3 DEF Inv
  <2> QED
    BY <1>2, <2>1, <2>2, <2>3, <2>4, <2>5, <2>6, <2>7, <2>8, <2>9, <2>10, <2>11 DEF Next, Extract
<1> QED
  BY <1>1, <1>2, PTL DEF Spec

-----------------------------------------------------------------------------
\* Heights, phases and configurations stay within their bounds in every life
\* of the indexer.
THEOREM Typing == Spec => []TypeOK
<1>1. Inv => TypeOK
  BY DEF Inv
<1> QED
  BY <1>1, Invariance, PTL

\* The live loop leaves nothing that it has passed unstored, for every way in
\* which earlier processes ended.
THEOREM Covering == Spec => []CursorCovered
<1>1. Inv => CursorCovered
  BY DEF Inv, Passed, CursorCovered
<1> QED
  BY <1>1, Invariance, PTL

\* A run that resumes repairs every hole that earlier runs have left between
\* the lowest block of the table and the height it reaches.
THEOREM Repairing == Spec => []GapFree
<1>1. Inv => GapFree
  BY DEF Inv, Repaired, GapFree, HasReached, HoleFree, Reached
<1> QED
  BY <1>1, Invariance, PTL

\* A reindex that ends well has rewritten the whole table.
THEOREM Rewriting == Spec => []ReindexRewritesAll
<1>1. Inv => ReindexRewritesAll
  BY DEF Inv, Spanned, ReindexRewritesAll
<1> QED
  BY <1>1, Invariance, PTL

\* A bounded run writes in its range only.
THEOREM Staying == Spec => BoundedRunStaysInRange
<1>1. ASSUME Inv, [Next]_vars, pc # "down", cfg.start # 0, cfg.stop # 0, ~cfg.reindex
      PROVE  stored' \ stored \subseteq cfg.start..cfg.stop
  <2>1. CASE stored' = stored
    BY <2>1
  <2>2. CASE BatchWrite
    <3>1. PICK h \in lo..hi : stored' = stored \union {h}
      BY <2>2 DEF BatchWrite, B!Write
    <3>2. lo = cfg.start /\ hi = cfg.stop
      BY <1>1, <2>2 DEF BatchWrite, Inv, Bounded
    <3> QED
      BY <3>1, <3>2
  <2>3. CASE Fill
    BY <1>1, <2>3 DEF Fill, Inv, Bounded
  <2>4. stored' = stored \/ BatchWrite \/ Fill
    <3> USE DEF batch, vars
    <3>1. CASE Operate \/ Restart \/ LateWrite
      BY <1>1, <3>1 DEF Operate, Restart, Start, LateWrite
    <3>2. CASE ResolveStart \/ Scan \/ ScanTruncated \/ Grow \/ Prune \/ Idle \/ UNCHANGED vars
      BY <3>2 DEF ResolveStart, Scan, ScanTruncated, Grow, Prune, Idle
    <3>3. CASE ResolveStop \/ Filled
      BY <3>3 DEF ResolveStop, Filled, Proceed
    <3>4. CASE NothingToDo \/ FillPruned \/ BatchPruned \/ Breaks("error") \/ Breaks("stopped")
      BY <3>4 DEF NothingToDo, FillPruned, BatchPruned, Breaks, Error, B!Fail
    <3>5. CASE Poll \/ BatchOk
      BY <3>5 DEF Poll, BatchOk, B!Succeed
    <3> QED
      BY <1>1, <3>1, <3>2, <3>3, <3>4, <3>5 DEF Next, Extract
  <2> QED
    BY <2>1, <2>2, <2>3, <2>4
<1>2. Inv /\ [Next]_vars => [pc # "down" /\ cfg.start # 0 /\ cfg.stop # 0 /\ ~cfg.reindex
                               => stored' \ stored \subseteq cfg.start..cfg.stop]_vars
  BY <1>1
<1> QED
  BY <1>2, Invariance, PTL DEF Spec, BoundedRunStaysInRange
=============================================================================
