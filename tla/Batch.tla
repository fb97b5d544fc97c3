-------------------------------- MODULE Batch --------------------------------
(***************************************************************************)
(* What one call of processBlocks(start, stop) promises to its callers     *)
(* (Extract and the live loop), with goroutines, semaphore, contexts and   *)
(* retries left out: blocks of the range are stored one at a time in any   *)
(* order, an acknowledged write is in the table, and success is reported   *)
(* only when every height of the range was acknowledged.  After a failure  *)
(* is reported, writes that were in flight may still land.                 *)
(*                                                                         *)
(* ProcessBlocks implements this module; Indexer is built on it.           *)
(***************************************************************************)
EXTENDS Integers

VARIABLES
  lo, hi,     \* the range of the call
  stored,     \* heights that have a row in api.blocks_raw
  acked,      \* heights of the range whose write was acknowledged
  outcome     \* "running", "ok" or "failed"

vars == <<lo, hi, stored, acked, outcome>>

\* The state a call starts from, whatever the table already holds.
Begin(first, last) ==
  /\ lo' = first /\ hi' = last
  /\ acked' = {} /\ outcome' = "running"

\* A block is written and the writer knows it.
Write(h) ==
  /\ outcome # "ok"
  /\ h \in lo..hi
  /\ stored' = stored \union {h}
  /\ acked' = acked \union {h}
  /\ UNCHANGED <<lo, hi, outcome>>

\* A block is written and the writer is told that it was not.
LoseAck(h) ==
  /\ outcome # "ok"
  /\ h \in lo..hi
  /\ stored' = stored \union {h}
  /\ UNCHANGED <<lo, hi, acked, outcome>>

Succeed ==
  /\ outcome = "running"
  /\ acked = lo..hi
  /\ outcome' = "ok"
  /\ UNCHANGED <<lo, hi, stored, acked>>

Fail ==
  /\ outcome = "running"
  /\ outcome' = "failed"
  /\ UNCHANGED <<lo, hi, stored, acked>>

Init ==
  /\ lo \in Nat \ {0} /\ hi \in Nat
  /\ stored \in SUBSET Nat
  /\ acked = {} /\ outcome = "running"

Next ==
  \/ \E h \in lo..hi : Write(h) \/ LoseAck(h)
  \/ Succeed
  \/ Fail

Spec == Init /\ [][Next]_vars
=============================================================================
