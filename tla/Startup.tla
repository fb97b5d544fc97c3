-------------------------------- MODULE Startup --------------------------------
(***************************************************************************)
(* What NewGRPCClient (internal/client/client.go) promises whoever it      *)
(* hands a registry to: the files of every service that the node lists,    *)
(* with all that they import, or an error.  There is no registry with a    *)
(* part of the files, and an error has a reason that lies with the node:   *)
(* the order in which maps are walked and answers are given never decides. *)
(***************************************************************************)
CONSTANTS
  Files,      \* the proto files there may be
  Roots,      \* those that declare the services the node lists
  Nodes,      \* the import graphs a node may have
  Invalid     \* files that protodesc or protoregistry refuse

VARIABLES
  imports,    \* of the node: the files that each file imports
  trouble,    \* the node has left a request unanswered, or a file out
  outcome,
  files       \* the registry

vars == <<imports, trouble, outcome, files>>

Closed(R) == \A f \in R : imports[f] \subseteq R

\* S and all that it imports.
Reach(S) == {f \in Files : \A R \in SUBSET Files : S \subseteq R /\ Closed(R) => f \in R}

Needed == Reach(Roots)

\* Some files of S import each other in a circle.
Cyclic(S) == \E C \in SUBSET S : C # {} /\ \A f \in C : imports[f] \intersect C # {}

Init ==
  /\ imports \in Nodes
  /\ trouble = FALSE
  /\ outcome = "starting"
  /\ files = {}

NodeFails ==
  /\ outcome = "starting"
  /\ trouble' = TRUE
  /\ UNCHANGED <<imports, outcome, files>>

Ready ==
  /\ outcome = "starting"
  /\ ~Cyclic(Needed) /\ Needed \intersect Invalid = {}
  /\ outcome' = "ready"
  /\ files' = Needed
  /\ UNCHANGED <<imports, trouble>>

Fail ==
  /\ outcome = "starting"
  /\ trouble' \in {trouble, TRUE}
  /\ trouble' \/ Cyclic(Needed) \/ Needed \intersect Invalid # {}
  /\ outcome' = "failed"
  /\ UNCHANGED <<imports, files>>

Next == NodeFails \/ Ready \/ Fail

Spec == Init /\ [][Next]_vars
=============================================================================
