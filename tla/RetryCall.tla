------------------------------ MODULE RetryCall ------------------------------
(***************************************************************************)
(* One gRPC call as RetryGRPCCall makes it (internal/utils/grpc.go): look  *)
(* the method up, then call up to maxRetries times, with a sleep of        *)
(* 2 * attempt seconds after every call that failed, the last included.    *)
(* The sleep does not look at the context.  The modules of the callers     *)
(* (BlockJob, EarliestProbe) extend this one: they begin a call, let it    *)
(* run by CallStep, and act on its end.                                    *)
(*                                                                         *)
(* Time is the seconds slept.  Invoke sleeps nowhere: the node answers it  *)
(* or it fails, and once the context of the call is done it only fails.    *)
(* What is slept while the answer is turned into JSON is in LookupCall.    *)
(***************************************************************************)
EXTENDS Integers

CONSTANT Errors     \* what a call to the node may fail with, beside "ctx"

ASSUME CallErrorsAssumption == {"nil", "ctx", "resolve"} \intersect Errors = {}

VARIABLES
  maxRetries,   \* the argument of the current call
  attempt,      \* its loop variable
  phase,        \* where the call is, or how it ended
  err,          \* the variable err; "nil" before the first attempt fails
  stopped,      \* the signal has come: the root context is done
  groupErr,     \* an error has ended the errgroup whose context the call has
  lag           \* seconds this loop has slept since the signal

callVars == <<maxRetries, attempt, phase, err, stopped, groupErr, lag>>

\* ctx.Err() # nil for the context of the call, which descends from the root one.
CtxDone == stopped \/ groupErr

\* The answer is being turned into JSON and a type in it is not registered: the
\* resolver asks the node for it, or sleeps before it asks again (LookupCall).
Looking == {"request", "backoff"}

\* A call ends with an answer, with an error, or, when there was no attempt,
\* with the zero value and no error: errors.WithMessage(nil, ...) is nil.
Ended == {"answered", "failed", "empty"}

\* Mutant: the attempts of an earlier call count.
BeginCallResumes(retries) ==
  /\ maxRetries' = retries /\ attempt' = attempt
  /\ phase' = "resolve" /\ err' = "nil"

BeginCall(retries) ==
  /\ maxRetries' = retries /\ attempt' = 1
  /\ phase' = "resolve" /\ err' = "nil"

\* FindMethodDescriptor looks in the registered files; it is not tried again.
Resolve ==
  /\ phase = "resolve"
  /\ \/ phase' = "call" /\ err' = err
     \/ phase' = "failed" /\ err' = "resolve"
  /\ UNCHANGED <<maxRetries, attempt, stopped, groupErr, lag>>

\* Invoke is answered, and every type in the answer is registered.
CallAnswered ==
  /\ phase = "call" /\ attempt <= maxRetries
  /\ ~CtxDone
  /\ phase' = "answered"
  /\ UNCHANGED <<maxRetries, attempt, err, stopped, groupErr, lag>>

\* Mutant: the first error ends the call.
CallFailsAtOnce(e) ==
  /\ phase = "call" /\ attempt <= maxRetries
  /\ e = "ctx" => CtxDone
  /\ phase' = "failed" /\ err' = e
  /\ UNCHANGED <<maxRetries, attempt, stopped, groupErr, lag>>

CallFails(e) ==
  /\ phase = "call" /\ attempt <= maxRetries
  /\ e = "ctx" => CtxDone
  /\ phase' = "sleep" /\ err' = e
  /\ UNCHANGED <<maxRetries, attempt, stopped, groupErr, lag>>

\* Mutant: the exponential backoff that the comment of the function announces.
SleepDoubles ==
  /\ phase = "sleep"
  /\ lag' = IF stopped THEN lag + 2 ^ attempt ELSE lag
  /\ attempt' = attempt + 1
  /\ phase' = "call"
  /\ UNCHANGED <<maxRetries, err, stopped, groupErr>>

Sleep ==
  /\ phase = "sleep"
  /\ lag' = IF stopped THEN lag + 2 * attempt ELSE lag
  /\ attempt' = attempt + 1
  /\ phase' = "call"
  /\ UNCHANGED <<maxRetries, err, stopped, groupErr>>

GiveUp ==
  /\ phase = "call" /\ attempt > maxRetries
  /\ phase' = IF err = "nil" THEN "empty" ELSE "failed"
  /\ UNCHANGED <<maxRetries, attempt, err, stopped, groupErr, lag>>

CallStep ==
  \/ Resolve \/ CallAnswered \/ Sleep \/ GiveUp
  \/ \E e \in Errors \union {"ctx"} : CallFails(e)

\* The signal handler cancels the root context, and so every context.
Stop ==
  /\ ~stopped
  /\ stopped' = TRUE
  /\ UNCHANGED <<maxRetries, attempt, phase, err, groupErr, lag>>

CallTypeOK ==
  /\ maxRetries \in Nat /\ attempt \in Nat \ {0} /\ attempt <= maxRetries + 1
  /\ phase \in {"idle", "resolve", "call", "sleep"} \union Looking \union Ended
  /\ err \in Errors \union {"nil", "ctx", "resolve"}
  /\ stopped \in BOOLEAN /\ groupErr \in BOOLEAN
  /\ lag \in Nat

\* Seconds a call of r attempts sleeps when every attempt fails.
WorstSleep(r) == r * (r + 1)

\* Seconds the call has yet to sleep in the worst case.
SleepLeft ==
  CASE phase \in Ended \union {"idle"} -> 0
    [] OTHER -> WorstSleep(maxRetries) - WorstSleep(attempt - 1)
=============================================================================
