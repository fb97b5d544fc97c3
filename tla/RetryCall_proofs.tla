----------------------------- MODULE RetryCall_proofs -----------------------------
(***************************************************************************)
(* Lemmas about one gRPC call with its retries, for any number of          *)
(* attempts and any errors of the node: used by the proofs about those who *)
(* make such calls.                                                        *)
(***************************************************************************)
EXTENDS RetryCall, TLAPS

\* The loop variable counts the attempts that have failed, and an error has
\* been kept for the last of them.
CallInv ==
  /\ CallTypeOK
  /\ phase = "resolve" => attempt = 1 /\ err = "nil"
  /\ phase = "call" /\ err = "nil" => attempt = 1
  /\ phase = "sleep" => attempt <= maxRetries /\ err # "nil"
  /\ phase = "empty" => maxRetries = 0
  /\ phase = "failed" => err = "resolve" \/ attempt = maxRetries + 1
  /\ phase \in Looking => attempt <= maxRetries
  /\ ~stopped \/ phase = "answered" => lag = 0

-----------------------------------------------------------------------------
\* One attempt more costs the sleep that follows it.
LEMMA SleepOfAttempt ==
  ASSUME NEW a \in Nat \ {0}
  PROVE  /\ WorstSleep(a - 1) \in Nat /\ WorstSleep(a) \in Nat
         /\ WorstSleep(a) = WorstSleep(a - 1) + 2 * a
<1>1. WorstSleep(a) = a * a + a
  BY DEF WorstSleep
<1>2. WorstSleep(a - 1) = (a - 1) * a
  BY DEF WorstSleep
<1>3. (a - 1) * a = a * a - a
  OBVIOUS
<1>4. (a - 1) * a \in Nat /\ a * a + a \in Nat
  OBVIOUS
<1> QED
  BY <1>1, <1>2, <1>3, <1>4

LEMMA SleepGrows ==
  ASSUME NEW a \in Nat, NEW b \in Nat, a <= b
  PROVE  WorstSleep(a) \in Nat /\ WorstSleep(a) <= WorstSleep(b)
<1>1. a * a <= b * b
  OBVIOUS
<1>2. a * (a + 1) = a * a + a /\ b * (b + 1) = b * b + b
  OBVIOUS
<1> QED
  BY <1>1, <1>2 DEF WorstSleep

\* A call begins with all its attempts before it.
LEMMA CallBegins ==
  ASSUME CallInv, NEW r \in Nat, BeginCall(r), UNCHANGED <<stopped, groupErr, lag>>
  PROVE  CallInv' /\ SleepLeft' = WorstSleep(r)
<1>1. CallInv'
  BY DEF CallInv, CallTypeOK, BeginCall, Ended, Looking
<1>2. SleepLeft' = WorstSleep(r) - WorstSleep(0)
  BY DEF BeginCall, SleepLeft, Ended, CallInv, CallTypeOK
<1>3. WorstSleep(0) = 0 /\ WorstSleep(r) \in Nat
  BY SleepGrows DEF WorstSleep
<1> QED
  BY <1>1, <1>2, <1>3

\* A step of the call keeps its invariant.
LEMMA CallStepKeeps ==
  ASSUME CallInv, CallStep PROVE CallInv'
<1> USE DEF CallInv, CallTypeOK, Ended, Looking
<1>1. CASE Resolve
  BY <1>1 DEF Resolve
<1>2. CASE CallAnswered
  BY <1>2 DEF CallAnswered, CtxDone
<1>3. CASE Sleep
  BY <1>3 DEF Sleep
<1>4. CASE GiveUp
  BY <1>4 DEF GiveUp
<1>5. ASSUME NEW e \in Errors \union {"ctx"}, CallFails(e) PROVE CallInv'
  BY <1>5, CallErrorsAssumption DEF CallFails
<1> QED
  BY <1>1, <1>2, <1>3, <1>4, <1>5 DEF CallStep

\* Paying a part of what is left leaves no more to pay in all.
LEMMA Paying ==
  ASSUME NEW total \in Nat, NEW paid \in Nat, NEW slept \in Nat, NEW later \in Nat,
         NEW a \in Nat, NEW worst, worst = paid + 2 * a, worst <= total,
         later <= slept + 2 * a
  PROVE  total - worst \in Nat /\ later + (total - worst) <= slept + (total - paid)
OBVIOUS

\* What is slept after the signal is taken off what is left to sleep.
LEMMA SleepIsPaid ==
  ASSUME CallInv, CallStep
  PROVE  /\ SleepLeft \in Nat /\ SleepLeft' \in Nat
         /\ lag' + SleepLeft' <= lag + SleepLeft
<1> DEFINE paid == WorstSleep(attempt - 1)
           total == WorstSleep(maxRetries)
<1>1. attempt \in Nat \ {0} /\ maxRetries \in Nat /\ attempt - 1 <= maxRetries /\ lag \in Nat
  BY DEF CallInv, CallTypeOK
<1>2. paid \in Nat /\ total \in Nat /\ paid <= total
  BY <1>1, SleepGrows
<1>3. SleepLeft \in {0, total - paid} /\ SleepLeft \in Nat
  BY <1>2 DEF SleepLeft
<1>4. CASE Sleep
  <2>1. attempt <= maxRetries /\ phase \notin Ended \union {"idle"}
    BY <1>4 DEF Sleep, CallInv, Ended
  <2>2. WorstSleep(attempt) = paid + 2 * attempt /\ WorstSleep(attempt) <= total
    BY <1>1, <2>1, SleepOfAttempt, SleepGrows
  <2>3. SleepLeft = total - paid
    BY <2>1 DEF SleepLeft
  <2>4. SleepLeft' = total - WorstSleep(attempt)
    <3>1. phase' \notin Ended \union {"idle"} /\ maxRetries' = maxRetries /\ attempt' - 1 = attempt
      BY <1>1, <1>4 DEF Sleep, Ended
    <3> QED
      BY <3>1 DEF SleepLeft, WorstSleep
  <2>5. lag' <= lag + 2 * attempt /\ lag' \in Nat
    BY <1>1, <1>4 DEF Sleep
  <2> HIDE DEF paid, total
  <2>6. total - WorstSleep(attempt) \in Nat
        /\ lag' + (total - WorstSleep(attempt)) <= lag + (total - paid)
    BY <1>1, <1>2, <2>2, <2>5, Paying
  <2> QED
    BY <1>3, <2>3, <2>4, <2>6, Zenon
<1>5. CASE ~Sleep
  <2>1. lag' = lag /\ maxRetries' = maxRetries /\ attempt' = attempt
        /\ phase \notin Ended \union {"idle"}
    BY <1>5 DEF CallStep, Resolve, CallAnswered, GiveUp, CallFails, Ended
  <2>2. SleepLeft = total - paid
    BY <2>1 DEF SleepLeft
  <2>3. SleepLeft' = 0 \/ SleepLeft' = total - paid
    BY <2>1 DEF SleepLeft, WorstSleep
  <2> HIDE DEF paid, total
  <2>4. 0 \in Nat /\ total - paid \in Nat
        /\ lag + 0 <= lag + (total - paid) /\ lag + (total - paid) <= lag + (total - paid)
    BY <1>1, <1>2
  <2> QED
    BY <1>3, <2>1, <2>2, <2>3, <2>4, Zenon
<1> QED
  BY <1>4, <1>5

LEMMA AtMost ==
  ASSUME NEW a \in Nat, NEW b \in Nat, NEW c \in Nat, NEW d \in Nat, NEW bound \in Nat,
         a + b <= c + d, c + d <= bound
  PROVE  a + b <= bound
OBVIOUS

\* A bound of what is slept and left to sleep still holds after a step.
LEMMA SleepStaysWithin ==
  ASSUME CallInv, CallStep, NEW bound \in Nat, lag + SleepLeft <= bound
  PROVE  lag' + SleepLeft' <= bound
<1>1. lag \in Nat /\ lag' \in Nat
  BY CallStepKeeps DEF CallInv, CallTypeOK
<1>2. /\ SleepLeft \in Nat /\ SleepLeft' \in Nat
      /\ lag' + SleepLeft' <= lag + SleepLeft
  BY SleepIsPaid
<1> QED
  BY <1>1, <1>2, AtMost, Zenon

\* Nothing is slept while the call rests, or when the signal or an error comes.
LEMMA CallRests ==
  ASSUME CallInv,
         \/ UNCHANGED <<maxRetries, attempt, phase, err, stopped, lag>> /\ groupErr' \in BOOLEAN
         \/ Stop
  PROVE  CallInv' /\ SleepLeft \in Nat /\ SleepLeft' = SleepLeft /\ lag' = lag
<1>1. UNCHANGED <<maxRetries, attempt, phase, err, lag>>
  BY DEF Stop
<1>2. (stopped' = stopped \/ stopped' = TRUE) /\ groupErr' \in BOOLEAN
  BY DEF Stop, CallInv, CallTypeOK
<1>3. CallTypeOK'
  BY <1>1, <1>2 DEF CallInv, CallTypeOK, Ended, Looking
<1>4. CallInv'
  BY <1>1, <1>2, <1>3 DEF CallInv, Looking
<1>5. SleepLeft' = SleepLeft
  BY <1>1 DEF SleepLeft, WorstSleep, Ended
<1>6. WorstSleep(attempt - 1) \in Nat /\ WorstSleep(maxRetries) \in Nat
      /\ WorstSleep(attempt - 1) <= WorstSleep(maxRetries)
  BY SleepGrows DEF CallInv, CallTypeOK
<1>7. SleepLeft \in Nat
  BY <1>6 DEF SleepLeft
<1> QED
  BY <1>1, <1>4, <1>5, <1>7
=============================================================================
