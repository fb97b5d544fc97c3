-------------------------------- MODULE Resolver --------------------------------
(***************************************************************************)
(* CustomResolver (internal/reflection/resolver.go): the goroutines that   *)
(* turn transactions into JSON look message types up by name while the     *)
(* registry grows.  A type that is not registered is fetched from the node *)
(* by reflection, with the files its file imports, one goroutine not       *)
(* knowing of another's requests: the lock is free while a request is out. *)
(*                                                                         *)
(* The recursion of processFileDescriptors, fetchDependencies and          *)
(* fetchDescriptorByName is a stack of frames: the files of an answer that *)
(* are left to process.  A read under RLock is one step.                   *)
(***************************************************************************)
EXTENDS Naturals, Sequences

CONSTANTS
  Goroutines,
  Files, Symbols,   \* of the node: proto files, and message types
  FileOf,           \* FileOf[s]: the file that declares s
  Deps,             \* Deps[f]: the files that f imports
  Answers,          \* Answers[f]: what the node may answer when asked for f
  Wants,            \* Wants[g]: the types that g meets
  Reliable,         \* no request ever fails
  NoOne             \* nobody: no holder of the lock, no registration

VARIABLES
  by,      \* by[f]: who has registered f: NoOne, "startup" or a goroutine
  seen,    \* seenSymbols
  mu,      \* the goroutine that holds r.mu for writing
  pc,      \* where the lookup of a goroutine is, or how its last one ended
  sym,     \* the type it looks up
  stack,   \* its frames, the innermost first
  want,    \* the file it asks the node for
  err,     \* the error of its last lookup
  lost     \* history: types whose fetch has ended in an error

vars == <<by, seen, mu, pc, sym, stack, want, err, lost>>

Closed(R) == \A f \in R : Deps[f] \subseteq R

ASSUME DepsAssumption == Deps \in [Files -> SUBSET Files]
ASSUME SymbolsAssumption == FileOf \in [Symbols -> Files] /\ Symbols # {}
ASSUME WantsAssumption == Wants \in [Goroutines -> SUBSET Symbols]
ASSUME ReliableAssumption == Reliable \in BOOLEAN
\* An answer begins with the file asked for; files that it imports may follow.
ASSUME AnswersAssumption ==
  \A f \in Files : \A a \in Answers[f] : a \in Seq(Files) /\ a # <<>> /\ Head(a) = f
ASSUME NoOneAssumption == NoOne \notin Goroutines /\ "startup" \notin Goroutines \union {NoOne}

Registered == {f \in Files : by[f] # NoOne}

\* S and all that it imports.
Reach(S) == {f \in Files : \A R \in SUBSET Files : S \subseteq R /\ Closed(R) => f \in R}

\* What protoc sees to: no files import each other in a circle.
NoCircle == \A C \in SUBSET Files : C # {} => \E f \in C : Deps[f] \intersect C = {}

Of(files) == {files[i] : i \in 1..Len(files)}

\* What the reflection service of grpc-go sees to: with the file asked for come
\* only files that it imports.
ImportsOnly == \A f \in Files : \A a \in Answers[f] : Of(a) \subseteq Reach({f})

Ended == {"idle", "found", "notFound", "failed"}
Fetching == {"request", "lock", "check", "deps", "register", "relock"}

\* The lock is free of writers.
Unlocked == mu = NoOne

\* The file that the innermost call of processFileDescriptors is at.
Current(g) == Head(Head(stack[g]))

Goto(g, from, to) == pc[g] = from /\ pc' = [pc EXCEPT ![g] = to]

-----------------------------------------------------------------------------
\* FindMessageByName and fetchDescriptorBySymbol.

Lookup(g) ==
  /\ pc[g] \in Ended
  /\ \E s \in Wants[g] : sym' = [sym EXCEPT ![g] = s]
  /\ pc' = [pc EXCEPT ![g] = "find"]
  /\ err' = [err EXCEPT ![g] = "none"]
  /\ UNCHANGED <<by, seen, mu, stack, want, lost>>

\* FindDescriptorByName under RLock.
Find(g) ==
  /\ Unlocked
  /\ Goto(g, "find", IF FileOf[sym[g]] \in Registered THEN "found" ELSE "readSeen")
  /\ UNCHANGED <<by, seen, mu, sym, stack, want, err, lost>>

ReadSeen(g) ==
  /\ Unlocked
  /\ Goto(g, "readSeen", IF sym[g] \in seen THEN "again" ELSE "mark")
  /\ UNCHANGED <<by, seen, mu, sym, stack, want, err, lost>>

\* The symbol is marked first and asked for then.
Mark(g) ==
  /\ Unlocked
  /\ Goto(g, "mark", "request")
  /\ seen' = seen \union {sym[g]}
  /\ want' = [want EXCEPT ![g] = FileOf[sym[g]]]
  /\ UNCHANGED <<by, mu, sym, stack, err, lost>>

FindAgain(g) ==
  /\ Unlocked
  /\ Goto(g, "again", IF FileOf[sym[g]] \in Registered THEN "found" ELSE "notFound")
  /\ UNCHANGED <<by, seen, mu, sym, stack, want, err, lost>>

-----------------------------------------------------------------------------
\* fetchFileDescriptorsFromRequest, for a symbol or for a file.

Answered(g) ==
  /\ Goto(g, "request", "lock")
  /\ \E a \in Answers[want[g]] : stack' = [stack EXCEPT ![g] = <<a>> \o @]
  /\ UNCHANGED <<by, seen, mu, sym, want, err, lost>>

\* Mutant: the error leaves the calls that are open where they are.
UnwindNothing(g, frames) ==
  /\ stack' = [stack EXCEPT ![g] = frames]
  /\ pc' = [pc EXCEPT ![g] = "failed"]
  /\ lost' = lost \union {sym[g]}

\* The calls that are still open return the error one after the other.
Unwind(g, frames) ==
  /\ stack' = [stack EXCEPT ![g] = frames]
  /\ pc' = [pc EXCEPT ![g] = IF frames = <<>> THEN "failed" ELSE "relock"]
  /\ lost' = IF frames = <<>> THEN lost \union {sym[g]} ELSE lost

\* Every attempt has failed, or the context is cancelled.
RequestFails(g) ==
  /\ ~Reliable
  /\ pc[g] = "request"
  /\ err' = [err EXCEPT ![g] = "request"]
  /\ Unwind(g, stack[g])
  /\ UNCHANGED <<by, seen, mu, sym, want>>

-----------------------------------------------------------------------------
\* processFileDescriptors.

Lock(g) ==
  /\ Unlocked
  /\ Goto(g, "lock", "check")
  /\ mu' = g
  /\ UNCHANGED <<by, seen, sym, stack, want, err, lost>>

\* Mutant: files that are registered already are registered again.
CheckNothing(g) ==
  /\ Goto(g, "check", "deps")
  /\ Head(stack[g]) # <<>>
  /\ UNCHANGED <<by, seen, mu, sym, stack, want, err, lost>>

Check(g) ==
  /\ Goto(g, "check", "deps")
  /\ Head(stack[g]) # <<>> /\ Current(g) \notin Registered
  /\ UNCHANGED <<by, seen, mu, sym, stack, want, err, lost>>

\* The frames without the first file of the innermost.
NextFile(frames) == <<Tail(Head(frames))>> \o Tail(frames)

SkipRegistered(g) ==
  /\ pc[g] = "check" /\ Head(stack[g]) # <<>>
  /\ Current(g) \in Registered
  /\ stack' = [stack EXCEPT ![g] = NextFile(@)]
  /\ UNCHANGED <<by, seen, mu, pc, sym, want, err, lost>>

\* Mutant: the return of a nested call is taken for that of the outermost.
ProcessedEarly(g) ==
  /\ pc[g] = "check" /\ Head(stack[g]) = <<>>
  /\ mu' = NoOne
  /\ stack' = [stack EXCEPT ![g] = <<>>]
  /\ pc' = [pc EXCEPT ![g] = "again"]
  /\ UNCHANGED <<by, seen, sym, want, err, lost>>

\* All files of the answer are processed: the deferred unlock, and the return
\* to fetchDependencies or to the lookup.
Processed(g) ==
  /\ pc[g] = "check" /\ Head(stack[g]) = <<>>
  /\ mu' = NoOne
  /\ stack' = [stack EXCEPT ![g] = Tail(@)]
  /\ pc' = [pc EXCEPT ![g] = IF Tail(stack[g]) = <<>> THEN "again" ELSE "relock"]
  /\ UNCHANGED <<by, seen, sym, want, err, lost>>

\* fetchDependencies gives the lock away to ask for an import.
FetchDependency(g) ==
  /\ Goto(g, "deps", "request")
  /\ \E d \in Deps[Current(g)] \ Registered : want' = [want EXCEPT ![g] = d]
  /\ mu' = NoOne
  /\ UNCHANGED <<by, seen, sym, stack, err, lost>>

\* Mutant: the imports of a file are taken for complete after the first.
DependenciesAssumed(g) ==
  /\ Goto(g, "deps", "register")
  /\ UNCHANGED <<by, seen, mu, sym, stack, want, err, lost>>

DependenciesDone(g) ==
  /\ Goto(g, "deps", "register")
  /\ Deps[Current(g)] \subseteq Registered
  /\ UNCHANGED <<by, seen, mu, sym, stack, want, err, lost>>

\* Mutant: the lock is not taken back after the request.
RelockForgotten(g) ==
  /\ Unlocked
  /\ err[g] = "none"
  /\ Goto(g, "relock", "deps")
  /\ UNCHANGED <<by, seen, mu, sym, stack, want, err, lost>>

Relock(g) ==
  /\ Unlocked
  /\ err[g] = "none"
  /\ Goto(g, "relock", "deps")
  /\ mu' = g
  /\ UNCHANGED <<by, seen, sym, stack, want, err, lost>>

\* The lock is taken back only to be given away by the deferred unlock.
RelockToFail(g) ==
  /\ Unlocked
  /\ pc[g] = "relock" /\ err[g] # "none"
  /\ Unwind(g, Tail(stack[g]))
  /\ UNCHANGED <<by, seen, mu, sym, want, err>>

\* registerFileDescriptor.
Register(g) ==
  /\ Goto(g, "register", "check")
  /\ Current(g) \notin Registered
  /\ by' = [by EXCEPT ![Current(g)] = g]
  /\ stack' = [stack EXCEPT ![g] = NextFile(@)]
  /\ UNCHANGED <<seen, mu, sym, want, err, lost>>

\* Mutant: the lock is not given back by the path that fails.
ConflictKeepsLock(g) ==
  /\ pc[g] = "register"
  /\ Current(g) \in Registered
  /\ err' = [err EXCEPT ![g] = "conflict"]
  /\ Unwind(g, Tail(stack[g]))
  /\ UNCHANGED <<by, seen, mu, sym, want>>

\* RegisterFile refuses a file that was registered since it was looked for.
Conflict(g) ==
  /\ pc[g] = "register"
  /\ Current(g) \in Registered
  /\ err' = [err EXCEPT ![g] = "conflict"]
  /\ mu' = NoOne
  /\ Unwind(g, Tail(stack[g]))
  /\ UNCHANGED <<by, seen, sym, want>>

Resolve(g) ==
  \/ Find(g) \/ ReadSeen(g) \/ Mark(g) \/ FindAgain(g)
  \/ Answered(g) \/ RequestFails(g)
  \/ Lock(g) \/ Check(g) \/ SkipRegistered(g) \/ Processed(g)
  \/ FetchDependency(g) \/ DependenciesDone(g) \/ Relock(g) \/ RelockToFail(g)
  \/ Register(g) \/ Conflict(g)

\* The registry starts with what the startup has fetched: files and all that
\* they import.
Init ==
  /\ \E R \in SUBSET Files :
       Closed(R) /\ by = [f \in Files |-> IF f \in R THEN "startup" ELSE NoOne]
  /\ seen = {} /\ mu = NoOne
  /\ pc = [g \in Goroutines |-> "idle"]
  /\ sym \in [Goroutines -> {CHOOSE s \in Symbols : TRUE}]
  /\ stack = [g \in Goroutines |-> <<>>]
  /\ want \in [Goroutines -> {FileOf[CHOOSE s \in Symbols : TRUE]}]
  /\ err = [g \in Goroutines |-> "none"]
  /\ lost = {}

Next == \E g \in Goroutines : Lookup(g) \/ Resolve(g)

Spec == Init /\ [][Next]_vars

\* RWMutex starves nobody: a writer that waits keeps new readers out, and
\* waiting readers go before the next writer.  A request has no deadline of its
\* own and may be out for ever.
FairSpec == Spec /\ \A g \in Goroutines : SF_vars(pc[g] # "request" /\ Resolve(g))
-----------------------------------------------------------------------------
TypeOK ==
  /\ by \in [Files -> Goroutines \union {"startup", NoOne}]
  /\ seen \in SUBSET Symbols /\ lost \in SUBSET Symbols
  /\ mu \in Goroutines \union {NoOne}
  /\ pc \in [Goroutines -> Ended \union Fetching \union {"find", "readSeen", "mark", "again"}]
  /\ sym \in [Goroutines -> Symbols]
  /\ stack \in [Goroutines -> Seq(Seq(Files))]
  /\ want \in [Goroutines -> Files]
  /\ err \in [Goroutines -> {"none", "request", "conflict"}]
  /\ \A g \in Goroutines : pc[g] \notin Fetching => stack[g] = <<>>

\* Through every recursion, request and error, the lock is held exactly by the
\* goroutine that is inside: sync.RWMutex panics when a free lock is unlocked.
LockHeldInside ==
  \A g \in Goroutines : mu = g <=> pc[g] \in {"check", "deps", "register"}

\* When a file is registered its imports are, whoever has fetched them, so that
\* protodesc.NewFile finds them all.
ImportsRegistered ==
  /\ \A g \in Goroutines : pc[g] = "register" => Deps[Current(g)] \subseteq Registered
  /\ Closed(Registered)

\* A symbol is marked for a reason: its file is registered, or somebody is at
\* it, or fetching it has failed.  A mark of any other would be a type that
\* nobody ever fetches.
MarkHasReason ==
  \A s \in seen :
    \/ FileOf[s] \in Registered
    \/ s \in lost
    \/ \E g \in Goroutines : sym[g] = s /\ pc[g] \in Fetching

\* A goroutine finds a file registered that it was about to register only if
\* another one has done it: alone, a lookup never trips over itself, whatever
\* files the answers repeat (if they are ImportsOnly, and if there is NoCircle).
ConflictNeedsAnother ==
  \A g \in Goroutines :
    pc[g] = "register" => by[Current(g)] # g

\* A lookup ends if its own requests do, even when the request of another
\* goroutine never does: this is what the lock is given away for.  No two
\* lookups wait for each other, and the recursion comes to its end.
LookupEnds ==
  \A g \in Goroutines :
    []<>(pc[g] # "request") => (pc[g] = "find" ~> pc[g] \in Ended)

\* "If not found, attempt to fetch the descriptor via reflection": a lookup
\* that misses makes a request, and so finds its type or ends in an error.
MissIsFetched == \A g \in Goroutines : pc[g] # "notFound"
=============================================================================
