------------------------------ MODULE LookupCall ------------------------------
(***************************************************************************)
(* A gRPC call whose answer holds types by name: GetGRPCResponse           *)
(* (internal/utils/grpc.go) turns the answer into JSON inside the call     *)
(* that RetryGRPCCall repeats, and the resolver asks the node for a type   *)
(* that is not registered and for the files it imports                     *)
(* (internal/reflection/resolver.go, fetch_descriptor.go).                 *)
(*                                                                         *)
(* The resolver has the root context, whatever context the call has.  A    *)
(* request that fails is followed by a sleep of 2 * tries seconds that     *)
(* does not look at any context, and is made LookupAttempts times.  Which  *)
(* types and files are asked for is in module Resolver.                    *)
(***************************************************************************)
EXTENDS RetryCall

VARIABLES
  tries,      \* the loop variable of sendReflectionRequestWithRetry
  lookupLag   \* seconds that loop has slept since the signal

lookupVars == <<tries, lookupLag>>

LookupAttempts == 3

\* Invoke is answered, with a type that is not registered.
LookupBegins ==
  /\ phase = "call" /\ attempt <= maxRetries
  /\ ~CtxDone
  /\ phase' = "request" /\ tries' = 1
  /\ UNCHANGED <<maxRetries, attempt, err, stopped, groupErr, lag, lookupLag>>

\* The node answers: one more file or type is needed, or the JSON is complete.
LookupAnswered ==
  /\ phase = "request"
  /\ ~stopped
  /\ phase' \in {"request", "answered"} /\ tries' = 1
  /\ UNCHANGED <<maxRetries, attempt, err, stopped, groupErr, lag, lookupLag>>

\* The answer cannot be registered or does not have the type: this attempt of the
\* call has failed.
LookupRefused ==
  /\ phase = "request"
  /\ ~stopped
  /\ phase' = "sleep" /\ err' \in Errors
  /\ UNCHANGED <<maxRetries, attempt, stopped, groupErr, lag, lookupVars>>

RequestFails ==
  /\ phase = "request"
  /\ phase' = "backoff"
  /\ UNCHANGED <<maxRetries, attempt, err, stopped, groupErr, lag, lookupVars>>

Backoff ==
  /\ phase = "backoff"
  /\ lookupLag' = IF stopped THEN lookupLag + 2 * tries ELSE lookupLag
  /\ tries' = tries + 1
  /\ UNCHANGED <<maxRetries, attempt, stopped, groupErr, lag>>

\* Mutant: one attempt too many.
RequestOnceMore ==
  /\ Backoff /\ tries <= LookupAttempts
  /\ phase' = "request" /\ UNCHANGED err

RequestAgain ==
  /\ Backoff /\ tries < LookupAttempts
  /\ phase' = "request" /\ UNCHANGED err

\* The last attempt of the request has failed, and with it this one of the call.
LookupFails(e) ==
  /\ Backoff /\ tries >= LookupAttempts
  /\ e = "ctx" => stopped
  /\ phase' = "sleep" /\ err' = e

LookupStep ==
  \/ LookupBegins \/ LookupAnswered \/ LookupRefused
  \/ RequestFails \/ RequestAgain
  \/ \E e \in Errors \union {"ctx"} : LookupFails(e)

\* A call whose answer may hold types by name.
AnyCallStep == (CallStep /\ UNCHANGED lookupVars) \/ LookupStep

LookupTypeOK == tries \in 1..(LookupAttempts + 1) /\ lookupLag \in Nat
=============================================================================
