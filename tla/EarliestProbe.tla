---------------------------- MODULE EarliestProbe ----------------------------
(***************************************************************************)
(* GetEarliestBlockHeight (internal/utils/block.go): where extraction      *)
(* starts on an empty database.  Block 1 is asked for once; the error of a *)
(* pruned node names its lowest height; any other error is followed by a   *)
(* second call with --max-retries attempts.                                *)
(*                                                                         *)
(* The context is the root one, of no errgroup; the answer has no field of *)
(* type Any, so that no type is looked up.                                 *)
(***************************************************************************)
EXTENDS RetryCall

CONSTANTS
  Limits,      \* the values of --max-retries
  MaxLowest    \* bound of the model: the lowest height of the node

ASSUME LimitsAssumption == Limits \subseteq Nat
ASSUME MaxLowestAssumption == MaxLowest \in Nat \ {0}
ASSUME ErrorsAssumption == Errors = {"pruned", "transient"}

VARIABLES
  retries,   \* the configured --max-retries
  lowest,    \* the lowest block the node has
  probe,     \* which call GetEarliestBlockHeight is at
  answer     \* the height it returns, 0 for an error

vars == <<callVars, retries, lowest, probe, answer>>

Start ==
  /\ probe = "start"
  /\ BeginCall(1)
  /\ probe' = "first"
  /\ UNCHANGED <<stopped, groupErr, lag, retries, lowest, answer>>

Return(height) ==
  /\ probe' = "done" /\ answer' = height
  /\ UNCHANGED <<callVars, retries, lowest>>

FirstAnswered == probe = "first" /\ phase = "answered" /\ Return(1)

\* Mutant: an error that names no height counts as an archive node.
FirstPrunedAny ==
  /\ probe = "first" /\ phase = "failed"
  /\ Return(IF err = "pruned" THEN lowest ELSE 1)

\* parseLowestHeightFromError: the message still holds what the node said,
\* whatever has been put in front of it.
FirstPruned == probe = "first" /\ phase = "failed" /\ err = "pruned" /\ Return(lowest)

TryAgain ==
  /\ probe = "first" /\ phase = "failed" /\ err # "pruned"
  /\ BeginCall(retries)
  /\ probe' = "again"
  /\ UNCHANGED <<stopped, groupErr, lag, retries, lowest, answer>>

\* A call of zero attempts has no error either.
AgainAnswered == probe = "again" /\ phase \in {"answered", "empty"} /\ Return(1)

\* The error of the second call is not parsed.
AgainFailed == probe = "again" /\ phase = "failed" /\ Return(0)

\* The node has block 1, or says what its lowest block is, or fails otherwise.
NodeSays ==
  /\ phase' = "answered" => lowest = 1
  /\ err' = "pruned" => lowest > 1

CallRuns ==
  /\ probe \in {"first", "again"}
  /\ CallStep /\ NodeSays
  /\ UNCHANGED <<retries, lowest, probe, answer>>

Interrupted == probe # "done" /\ Stop /\ UNCHANGED <<retries, lowest, probe, answer>>

Returned == probe = "done" /\ UNCHANGED vars

Init ==
  /\ retries \in Limits /\ lowest \in 1..MaxLowest
  /\ maxRetries = 0 /\ attempt = 1 /\ phase = "idle" /\ err = "nil"
  /\ stopped = FALSE /\ groupErr = FALSE /\ lag = 0
  /\ probe = "start" /\ answer = 0

ProbeStep ==
  \/ Start \/ FirstAnswered \/ FirstPruned \/ TryAgain \/ AgainAnswered \/ AgainFailed

Next == ProbeStep \/ CallRuns \/ Interrupted \/ Returned

Spec == Init /\ [][Next]_vars
-----------------------------------------------------------------------------
TypeOK ==
  /\ CallTypeOK
  /\ retries \in Limits /\ lowest \in 1..MaxLowest
  /\ probe \in {"start", "first", "again", "done"}
  /\ answer \in 0..MaxLowest

\* Extraction never starts below a block the node has, nor above its lowest
\* one: a height that is returned is exact, in whatever order transient errors,
\* answers and the cancellation come.  Only --max-retries 0 breaks this: the
\* second call is then not made and its absent error is taken for an answer.
ProbeExact == answer # 0 /\ retries > 0 => answer = lowest

\* The probe delays a shutdown by its one attempt and the configured ones.
StopBound == lag <= WorstSleep(1) + WorstSleep(retries)
=============================================================================
