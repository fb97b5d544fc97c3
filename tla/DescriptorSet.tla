----------------------------- MODULE DescriptorSet -----------------------------
(***************************************************************************)
(* How the registry of proto files comes about before anything is          *)
(* extracted (internal/client/client.go): FetchAllDescriptors asks the     *)
(* node for the services it has, for the file of each and for what that    *)
(* imports (fetch_descriptor.go); BuildFileDescriptorSet puts the files    *)
(* in the order of their imports and registers one after the other         *)
(* (build_descriptor.go).                                                  *)
(*                                                                         *)
(* Both halves recur over the imports: a stack of frames each.  The order  *)
(* of services, of files in an answer, of imports in a file and of a Go    *)
(* map is whatever it happens to be: a choice at each step.                *)
(***************************************************************************)
EXTENDS Naturals, Sequences, FiniteSets

CONSTANTS
  Files,         \* the proto files there may be
  Services,      \* the services the node lists
  FileOf,        \* FileOf[s]: the file that declares s
  Nodes,         \* the import graphs a node may have
  Invalid,       \* files that protodesc or protoregistry refuse
  MaxAttempts    \* maxRetries

VARIABLES
  imports,     \* of the node: the files that each file imports
  pc,
  listed,      \* services that are left to ask for
  want,        \* the file that the request asks for, by symbol or by name
  attempt,     \* of that request: the loop variable
  lacking,     \* history: an answer was not what was asked for
  seen,        \* seenFiles, afterwards fdMap
  calls,       \* open calls of processFileDescriptors, the innermost first
  path,        \* open calls of visit, the innermost first
  tempMarked, visited, sortedDescriptors,
  built        \* how many of sortedDescriptors are registered

fetching == <<listed, want, attempt, lacking, seen, calls>>
sorting == <<path, tempMarked, visited, sortedDescriptors>>
vars == <<imports, pc, fetching, sorting, built>>

Roots == {FileOf[s] : s \in Services}

Promise == INSTANCE Startup WITH
       trouble <- lacking \/ attempt > MaxAttempts,
       outcome <- IF pc \in {"ready", "failed"} THEN pc ELSE "starting",
       files <- IF pc = "ready" THEN seen ELSE {}

ASSUME FilesAssumption == Files # {}
ASSUME NodesAssumption == Nodes \subseteq [Files -> SUBSET Files]
ASSUME ServicesAssumption == FileOf \in [Services -> Files]
ASSUME AttemptsAssumption == MaxAttempts \in Nat \ {0}
ASSUME InvalidAssumption == Invalid \subseteq Files

Ended == {"ready", "failed"}
Requesting == {"list", "request"}

\* A call of processFileDescriptors: the files of the answer and the imports of
\* its current file that it has not come to.
Call(answer) == [left |-> answer, imports |-> {}]

\* An answer holds the file asked for, and may hold what that file imports.  A
\* node that is asked for a file by its name may answer without it.
Answers(f) ==
  {A \in SUBSET Promise!Reach({f}) : f \in A \/ calls # <<>>}

-----------------------------------------------------------------------------
\* sendReflectionRequestWithRetry.

\* Mutant: the loop variable is never seen to have passed its bound.
AttemptsUnbounded ==
  /\ pc \in Requesting
  /\ attempt' = attempt + 1
  /\ UNCHANGED <<imports, pc, listed, want, lacking, seen, calls, sorting, built>>

AttemptFails ==
  /\ pc \in Requesting /\ attempt <= MaxAttempts
  /\ attempt' = attempt + 1
  /\ UNCHANGED <<imports, pc, listed, want, lacking, seen, calls, sorting, built>>

\* The error goes up through all calls that are open and ends the startup.
GiveUp ==
  /\ pc \in Requesting /\ attempt > MaxAttempts
  /\ pc' = "failed"
  /\ UNCHANGED <<imports, fetching, sorting, built>>

\* An answer of another type, or with a file that is not one: no second attempt.
AnswerUnusable ==
  /\ pc \in Requesting /\ attempt <= MaxAttempts
  /\ pc' = "failed" /\ lacking' = TRUE
  /\ UNCHANGED <<imports, listed, want, attempt, seen, calls, sorting, built>>

-----------------------------------------------------------------------------
\* FetchAllDescriptors.

ServicesListed ==
  /\ pc = "list" /\ attempt <= MaxAttempts
  /\ pc' = "services" /\ attempt' = 1
  /\ UNCHANGED <<imports, listed, want, lacking, seen, calls, sorting, built>>

\* Mutant: the loop does not advance.
SameServiceAgain ==
  /\ pc = "services"
  /\ \E s \in listed : want' = FileOf[s]
  /\ pc' = "request"
  /\ UNCHANGED <<imports, listed, attempt, lacking, seen, calls, sorting, built>>

\* fetchFileDescriptors: seen has the names of files, never that of a service,
\* so that every service is asked for.
NextService ==
  /\ pc = "services"
  /\ \E s \in listed : want' = FileOf[s] /\ listed' = listed \ {s}
  /\ pc' = "request"
  /\ UNCHANGED <<imports, attempt, lacking, seen, calls, sorting, built>>

Answered ==
  /\ pc = "request" /\ attempt <= MaxAttempts
  /\ \E A \in Answers(want) :
       /\ calls' = <<Call(A)>> \o calls
       /\ lacking' = (lacking \/ want \notin A)
  /\ pc' = "process" /\ attempt' = 1
  /\ UNCHANGED <<imports, listed, want, seen, sorting, built>>

\* Mutant: a file is taken for seen when its imports have been fetched.
MarkLate ==
  /\ pc = "process"
  /\ LET call == Head(calls) IN
       /\ call.imports \subseteq seen
       /\ \E f \in call.left \ seen :
            calls' = <<[left |-> call.left \ {f}, imports |-> imports[f]]>> \o Tail(calls)
  /\ UNCHANGED <<imports, pc, listed, want, attempt, lacking, seen, sorting, built>>

\* The next file of the answer that is new: seen before its imports are.
MarkFile ==
  /\ pc = "process"
  /\ LET call == Head(calls) IN
       /\ call.imports \subseteq seen
       /\ \E f \in call.left \ seen :
            /\ seen' = seen \union {f}
            /\ calls' = <<[left |-> call.left \ {f}, imports |-> imports[f]]>> \o Tail(calls)
  /\ UNCHANGED <<imports, pc, listed, want, attempt, lacking, sorting, built>>

\* fetchFileByName for an import that is not seen.
FetchImport ==
  /\ pc = "process"
  /\ LET call == Head(calls) IN
       \E d \in call.imports \ seen :
         /\ want' = d
         /\ calls' = <<[call EXCEPT !.imports = @ \ {d}]>> \o Tail(calls)
  /\ pc' = "request"
  /\ UNCHANGED <<imports, listed, attempt, lacking, seen, sorting, built>>

\* Nothing new is left in the answer: the call returns.
Processed ==
  /\ pc = "process"
  /\ LET call == Head(calls) IN call.left \union call.imports \subseteq seen
  /\ calls' = Tail(calls)
  /\ pc' = IF Tail(calls) = <<>> THEN "services" ELSE "process"
  /\ UNCHANGED <<imports, listed, want, attempt, lacking, seen, sorting, built>>

AllFetched ==
  /\ pc = "services"
  /\ listed = {}
  /\ pc' = "sort"
  /\ UNCHANGED <<imports, fetching, sorting, built>>

-----------------------------------------------------------------------------
\* topologicalSort.

\* visit(f), for a file that is neither marked nor visited.
Enter(f, open) ==
  /\ path' = <<[file |-> f, imports |-> imports[f]]>> \o open
  /\ tempMarked' = tempMarked \union {f}
  /\ UNCHANGED <<imports, pc, fetching, visited, sortedDescriptors, built>>

VisitRoot ==
  /\ pc = "sort"
  /\ path = <<>>
  /\ \E f \in seen \ visited : Enter(f, <<>>)

\* Imports that are not among the files are passed over.
VisitImport ==
  /\ pc = "sort"
  /\ path # <<>>
  /\ \E d \in (Head(path).imports \intersect seen) \ (tempMarked \union visited) :
       Enter(d, <<[Head(path) EXCEPT !.imports = @ \ {d}]>> \o Tail(path))

\* "circular dependency detected".
CircularImport ==
  /\ pc = "sort"
  /\ path # <<>>
  /\ Head(path).imports \intersect seen \intersect tempMarked # {}
  /\ pc' = "failed"
  /\ UNCHANGED <<imports, fetching, sorting, built>>

\* Mutant: a marked import is passed over as if it were visited.
LeaveMarked ==
  /\ pc = "sort"
  /\ path # <<>>
  /\ LET f == Head(path).file IN
       /\ Head(path).imports \intersect seen \subseteq visited \union tempMarked
       /\ visited' = visited \union {f}
       /\ tempMarked' = tempMarked \ {f}
       /\ sortedDescriptors' = Append(sortedDescriptors, Head(path).file)
  /\ path' = Tail(path)
  /\ UNCHANGED <<imports, pc, fetching, built>>

\* All imports are visited: visit returns.
Leave ==
  /\ pc = "sort"
  /\ path # <<>>
  /\ Head(path).imports \intersect seen \subseteq visited
  /\ visited' = visited \union {Head(path).file}
  /\ tempMarked' = tempMarked \ {Head(path).file}
  /\ sortedDescriptors' = Append(sortedDescriptors, Head(path).file)
  /\ path' = Tail(path)
  /\ UNCHANGED <<imports, pc, fetching, built>>

\* Mutant: one walk from one file is taken for all.
SortedAfterOne ==
  /\ pc = "sort"
  /\ path = <<>> /\ visited # {}
  /\ pc' = "register"
  /\ UNCHANGED <<imports, fetching, sorting, built>>

Sorted ==
  /\ pc = "sort"
  /\ path = <<>> /\ seen \subseteq visited
  /\ pc' = "register"
  /\ UNCHANGED <<imports, fetching, sorting, built>>

-----------------------------------------------------------------------------
\* BuildFileDescriptorSet, after the sort.

NextDescriptor == sortedDescriptors[built + 1]
Registered == {sortedDescriptors[i] : i \in 1..built}

\* protodesc.NewFile finds the imports, protoregistry takes the file.
Accepted(f) == imports[f] \subseteq Registered /\ f \notin Invalid

Register ==
  /\ pc = "register"
  /\ built < Len(sortedDescriptors) /\ Accepted(NextDescriptor)
  /\ built' = built + 1
  /\ UNCHANGED <<imports, pc, fetching, sorting>>

RegisterFails ==
  /\ pc = "register"
  /\ built < Len(sortedDescriptors) /\ ~Accepted(NextDescriptor)
  /\ pc' = "failed"
  /\ UNCHANGED <<imports, fetching, sorting, built>>

Built ==
  /\ pc = "register"
  /\ built = Len(sortedDescriptors)
  /\ pc' = "ready"
  /\ UNCHANGED <<imports, fetching, sorting, built>>

-----------------------------------------------------------------------------
Init ==
  /\ imports \in Nodes
  /\ pc = "list" /\ attempt = 1
  /\ listed = Services
  /\ want = CHOOSE f \in Files : TRUE
  /\ lacking = FALSE
  /\ seen = {} /\ calls = <<>>
  /\ path = <<>> /\ tempMarked = {} /\ visited = {} /\ sortedDescriptors = <<>>
  /\ built = 0

Fetch ==
  \/ AttemptFails \/ GiveUp \/ AnswerUnusable
  \/ ServicesListed \/ NextService \/ Answered
  \/ MarkFile \/ FetchImport \/ Processed \/ AllFetched

Build ==
  \/ VisitRoot \/ VisitImport \/ CircularImport \/ Leave \/ Sorted
  \/ Register \/ RegisterFails \/ Built

\* Extract goes on with the registry, or the process has exited.
Stop == pc \in Ended /\ UNCHANGED vars

Next == Fetch \/ Build \/ Stop

Spec == Init /\ [][Next]_vars

\* The process runs; a request has no deadline and may be out for ever.
FairSpec == Spec /\ WF_vars(pc \notin Requesting /\ (Fetch \/ Build))
-----------------------------------------------------------------------------
TypeOK ==
  /\ imports \in Nodes
  /\ pc \in {"list", "services", "request", "process", "sort", "register", "ready", "failed"}
  /\ listed \in SUBSET Services
  /\ want \in Files
  /\ attempt \in 1..(MaxAttempts + 1) /\ lacking \in BOOLEAN
  /\ seen \in SUBSET Files
  /\ calls \in Seq([left : SUBSET Files, imports : SUBSET Files])
  /\ path \in Seq([file : Files, imports : SUBSET Files])
  /\ tempMarked \in SUBSET Files /\ visited \in SUBSET Files
  /\ sortedDescriptors \in Seq(Files)
  /\ built \in 0..Len(sortedDescriptors)

\* However the files come out of the map, each is put after all files that it
\* imports, so that protodesc.NewFile finds them registered.
SortedByImports ==
  \A i \in 1..Len(sortedDescriptors) :
    imports[sortedDescriptors[i]] \intersect seen \subseteq {sortedDescriptors[j] : j \in 1..(i - 1)}

\* Files that import each other do not make the fetch recur for ever: every
\* call below the innermost has marked a file of its own before it asked for
\* the next.
RecursionBounded == Len(calls) <= Cardinality(seen) + 1

\* The registry holds exactly what the listed services need, or the startup has
\* failed for a reason; no order of maps or answers decides which.
AllOrNothing == Promise!Spec

\* The startup ends if its requests do, on nodes with circular imports too.
StartupEnds == []<>(pc \notin Requesting) => <>(pc \in Ended)
=============================================================================
