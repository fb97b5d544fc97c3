------------------------ MODULE EarliestProbe_proofs ------------------------
(***************************************************************************)
(* The search for the first height is exact and bounds its delay of a      *)
(* shutdown, for every --max-retries and every lowest height of the node.  *)
(***************************************************************************)
EXTENDS EarliestProbe, RetryCall_proofs

\* What the two calls have slept and may yet sleep.
Delays ==
  /\ probe = "start" => lag = 0
  /\ probe = "first" => maxRetries = 1 /\ lag + SleepLeft <= WorstSleep(1)
  /\ probe = "again" => maxRetries = retries /\ lag + SleepLeft <= WorstSleep(1) + WorstSleep(retries)
  /\ probe = "done" => StopBound

\* A node answers for block 1 only if it has it; nothing is returned before.
Exact ==
  /\ phase = "answered" => lowest = 1
  /\ probe # "done" => answer = 0
  /\ ProbeExact

Inv == TypeOK /\ CallInv /\ Delays /\ Exact

-----------------------------------------------------------------------------
LEMMA InvInit == Init => Inv
<1> SUFFICES ASSUME Init PROVE Inv
  OBVIOUS
<1>1. TypeOK /\ CallInv
  <2>1. maxRetries \in Nat /\ attempt \in Nat \ {0} /\ attempt <= maxRetries + 1 /\ lag \in Nat
    BY DEF Init
  <2>2. CallTypeOK
    BY <2>1 DEF Init, CallTypeOK, Looking
  <2>3. answer \in 0..MaxLowest
    BY MaxLowestAssumption DEF Init
  <2> QED
    BY <2>2, <2>3 DEF Init, TypeOK, CallInv, Looking
<1>2. Delays
  BY DEF Init, Delays
<1>3. Exact
  BY DEF Init, Exact, ProbeExact
<1> QED
  BY <1>1, <1>2, <1>3 DEF Inv

\* Each bound is a number, and no call has slept more than its own.
LEMMA Bounds ==
  ASSUME Inv
  PROVE  /\ retries \in Nat /\ lag \in Nat
         /\ WorstSleep(1) \in Nat /\ WorstSleep(retries) \in Nat
         /\ SleepLeft \in Nat
<1>1. retries \in Nat /\ lag \in Nat
  BY LimitsAssumption DEF Inv, TypeOK, CallTypeOK
<1>2. SleepLeft \in Nat
  <2>1. WorstSleep(attempt - 1) \in Nat /\ WorstSleep(maxRetries) \in Nat
        /\ WorstSleep(attempt - 1) <= WorstSleep(maxRetries)
    BY SleepGrows DEF Inv, TypeOK, CallTypeOK
  <2> QED
    BY <2>1 DEF SleepLeft
<1>3. WorstSleep(1) \in Nat /\ WorstSleep(retries) \in Nat
  BY <1>1, SleepGrows
<1> QED
  BY <1>1, <1>2, <1>3

LEMMA InvNext == Inv /\ [Next]_vars => Inv'
<1> SUFFICES ASSUME Inv, [Next]_vars PROVE Inv'
  OBVIOUS
<1>0. retries \in Nat /\ lag \in Nat /\ SleepLeft \in Nat
      /\ WorstSleep(1) \in Nat /\ WorstSleep(retries) \in Nat
  BY Bounds
<1>1. CASE Start
  <2>1. CallInv' /\ SleepLeft' = WorstSleep(1)
    BY <1>1, CallBegins DEF Start, Inv
  <2>2. Delays'
    BY <1>0, <1>1, <2>1 DEF Inv, Delays, Start, BeginCall
  <2>3. Exact'
    BY <1>1 DEF Inv, Exact, ProbeExact, Start, BeginCall
  <2> QED
    BY <1>1, <2>1, <2>2, <2>3 DEF Inv, TypeOK, CallInv, Start
<1>2. CASE TryAgain
  <2>1. CallInv' /\ SleepLeft' = WorstSleep(retries)
    BY <1>0, <1>2, CallBegins DEF TryAgain, Inv
  <2>2. lag <= WorstSleep(1)
    BY <1>0, <1>2 DEF Inv, Delays, TryAgain
  <2>3. Delays'
    <3>1. probe' = "again" /\ maxRetries' = retries' /\ retries' = retries /\ lag' = lag
      BY <1>2 DEF TryAgain, BeginCall
    <3>2. WorstSleep(retries') = WorstSleep(retries)
      BY <3>1
    <3>3. (lag + WorstSleep(retries)) <= WorstSleep(1) + WorstSleep(retries)
      BY <1>0, <2>2
    <3> QED
      BY <2>1, <3>1, <3>2, <3>3 DEF Delays
  <2>4. Exact'
    BY <1>2 DEF Inv, Exact, ProbeExact, TryAgain, BeginCall
  <2> QED
    BY <1>2, <2>1, <2>3, <2>4 DEF Inv, TypeOK, CallInv, TryAgain
<1>3. ASSUME NEW h \in 0..MaxLowest, Return(h), probe \in {"first", "again"},
             h # 0 /\ retries > 0 => h = lowest
      PROVE  Inv'
  <2>1. CallInv' /\ SleepLeft' = SleepLeft
    BY <1>3, CallRests DEF Return, Inv, CallInv, CallTypeOK, callVars
  <2>2. StopBound
    BY <1>0, <1>3 DEF Inv, Delays, StopBound
  <2>3. Delays'
    BY <1>3, <2>2 DEF Delays, StopBound, Return, callVars, WorstSleep
  <2>4. Exact'
    BY <1>3 DEF Inv, Exact, ProbeExact, Return, callVars
  <2> QED
    BY <1>3, <2>1, <2>3, <2>4 DEF Inv, TypeOK, CallInv, Return
<1>4. CASE FirstAnswered
  BY <1>4, <1>3, MaxLowestAssumption DEF FirstAnswered, Inv, Exact
<1>5. CASE FirstPruned
  BY <1>5, <1>3, MaxLowestAssumption DEF FirstPruned, Inv, TypeOK
<1>6. CASE AgainAnswered
  <2>1. phase = "empty" => retries = 0
    BY <1>6 DEF AgainAnswered, Inv, Delays, CallInv
  <2> QED
    BY <1>0, <1>6, <2>1, <1>3, MaxLowestAssumption DEF AgainAnswered, Inv, Exact
<1>7. CASE AgainFailed
  BY <1>7, <1>3, MaxLowestAssumption DEF AgainFailed
<1>8. CASE CallRuns
  <2>1. CallInv'
    BY <1>8, CallStepKeeps DEF CallRuns, Inv
  <2>2. WorstSleep(1) + WorstSleep(retries) \in Nat
    BY <1>0
  <2>3. Delays'
    <3>1. /\ UNCHANGED <<retries, probe, maxRetries>>
          /\ probe \in {"first", "again"} /\ WorstSleep(retries') = WorstSleep(retries)
      BY <1>8 DEF CallRuns, CallStep, Resolve, CallAnswered, CallFails, Sleep, GiveUp
    <3>2. CASE probe = "first"
      <4>1. maxRetries = 1 /\ lag + SleepLeft <= WorstSleep(1)
        BY <3>2 DEF Inv, Delays
      <4>2. lag' + SleepLeft' <= WorstSleep(1)
        BY <1>0, <1>8, <2>2, <4>1, SleepStaysWithin DEF CallRuns, Inv
      <4> QED
        BY <3>1, <3>2, <4>1, <4>2 DEF Delays
    <3>3. CASE probe = "again"
      <4>1. maxRetries = retries /\ lag + SleepLeft <= WorstSleep(1) + WorstSleep(retries)
        BY <3>3 DEF Inv, Delays
      <4>2. lag' + SleepLeft' <= WorstSleep(1) + WorstSleep(retries)
        BY <1>0, <1>8, <2>2, <4>1, SleepStaysWithin DEF CallRuns, Inv
      <4> QED
        BY <3>1, <3>3, <4>1, <4>2 DEF Delays
    <3> QED
      BY <3>1, <3>2, <3>3
  <2>4. Exact'
    BY <1>8 DEF Inv, Exact, ProbeExact, CallRuns, NodeSays
  <2> QED
    BY <1>8, <2>1, <2>3, <2>4 DEF Inv, TypeOK, CallInv, CallRuns
<1>9. CASE Interrupted \/ UNCHANGED vars
  <2>1. UNCHANGED <<retries, lowest, probe, answer, maxRetries, phase>>
    BY <1>9 DEF Interrupted, Stop, vars, callVars
  <2>2. CallInv' /\ SleepLeft' = SleepLeft /\ lag' = lag
    BY <1>9, CallRests DEF Interrupted, vars, callVars, Inv, CallInv, CallTypeOK
  <2>3. Delays'
    BY <2>1, <2>2 DEF Inv, Delays, StopBound, WorstSleep
  <2>4. Exact'
    BY <2>1 DEF Inv, Exact, ProbeExact
  <2> QED
    BY <2>1, <2>2, <2>3, <2>4 DEF Inv, TypeOK, CallInv
<1> QED
  BY <1>1, <1>2, <1>4, <1>5, <1>6, <1>7, <1>8, <1>9
  DEF Next, ProbeStep, Returned

LEMMA Invariance == Spec => []Inv
<1> QED
  BY InvInit, InvNext, PTL DEF Spec

\* The variables keep their types.
THEOREM Typing == Spec => []TypeOK
<1>1. Inv => TypeOK
  BY DEF Inv
<1> QED
  BY <1>1, Invariance, PTL

\* A height GetEarliestBlockHeight returns is the lowest the node has, as long
\* as at least one retry is configured.
THEOREM Exactness == Spec => []ProbeExact
<1>1. Inv => ProbeExact
  BY DEF Inv, Exact
<1> QED
  BY <1>1, Invariance, PTL

\* A shutdown never waits longer for the probe than all its attempts' sleeps.
THEOREM StopDelay == Spec => []StopBound
<1>1. Inv => StopBound
  <2> SUFFICES ASSUME Inv PROVE StopBound
    OBVIOUS
  <2>1. retries \in Nat /\ lag \in Nat /\ SleepLeft \in Nat
        /\ WorstSleep(1) \in Nat /\ WorstSleep(retries) \in Nat
    BY Bounds
  <2> QED
    BY <2>1 DEF Inv, TypeOK, Delays, StopBound
<1> QED
  BY <1>1, Invariance, PTL
=============================================================================
