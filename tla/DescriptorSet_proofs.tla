-------------------------- MODULE DescriptorSet_proofs --------------------------
(***************************************************************************)
(* Proofs about the startup of the registry, for any files, services and   *)
(* import graphs, circular ones included, any number of attempts, and      *)
(* whatever the node answers in whatever order.                            *)
(*                                                                         *)
(* Shape says which calls are open where.  Fetching keeps to what the      *)
(* services need (Within) and forgets nothing (RootsMet, ImportsMet);      *)
(* sorting knows what each open visit has behind it (Visits).  Together    *)
(* they give the refinement of Startup.                                    *)
(***************************************************************************)
EXTENDS DescriptorSet, FiniteSetTheorems, SequenceTheorems, TLAPS

Calls == [left : SUBSET Files, imports : SUBSET Files]
Visit == [file : Files, imports : SUBSET Files]

Shape ==
  /\ pc \in {"list", "services", "sort", "register", "ready"} => calls = <<>>
  /\ pc = "process" => calls # <<>>
  /\ pc \in {"list", "services", "request", "process"} =>
       path = <<>> /\ tempMarked = {} /\ visited = {} /\ sortedDescriptors = <<>>
  /\ pc \in {"register", "ready"} => path = <<>> /\ seen \subseteq visited
  /\ pc \in {"sort", "register", "ready"} => listed = {}
  /\ pc \notin {"register", "ready", "failed"} => built = 0
  /\ pc = "ready" => built = Len(sortedDescriptors)

-----------------------------------------------------------------------------
\* A frame pushed on a stack is its top, and the others move down by one.
LEMMA Pushed ==
  ASSUME NEW T, NEW a \in T, NEW s \in Seq(T)
  PROVE  /\ <<a>> \o s \in Seq(T) /\ <<a>> \o s # <<>>
         /\ Len(<<a>> \o s) = Len(s) + 1
         /\ Head(<<a>> \o s) = a /\ (<<a>> \o s)[1] = a
         /\ \A i \in 1..Len(s) : (<<a>> \o s)[i + 1] = s[i]
<1>1. <<a>> \in Seq(T) /\ Len(<<a>>) = 1 /\ <<a>>[1] = a
  OBVIOUS
<1>2. /\ <<a>> \o s \in Seq(T) /\ Len(<<a>> \o s) = 1 + Len(s)
      /\ \A i \in 1..(1 + Len(s)) : (<<a>> \o s)[i] = IF i <= 1 THEN <<a>>[i] ELSE s[i - 1]
  BY <1>1, ConcatProperties
<1>3. Len(s) \in Nat
  BY LenProperties
<1>4. <<a>> \o s # <<>>
  BY <1>2, <1>3, EmptySeq
<1>5. (<<a>> \o s)[1] = a
  BY <1>1, <1>2, <1>3
<1>6. \A i \in 1..Len(s) : (<<a>> \o s)[i + 1] = s[i]
  BY <1>2, <1>3
<1> QED
  BY <1>2, <1>3, <1>4, <1>5, <1>6

\* The top of a stack taken off, or changed.
LEMMA Popped ==
  ASSUME NEW T, NEW s \in Seq(T), s # <<>>
  PROVE  /\ Head(s) \in T /\ Head(s) = s[1] /\ Len(s) \in Nat \ {0}
         /\ Tail(s) \in Seq(T) /\ Len(Tail(s)) = Len(s) - 1
         /\ \A i \in 1..Len(Tail(s)) : Tail(s)[i] = s[i + 1]
  BY HeadTailProperties, EmptySeq

LEMMA Replaced ==
  ASSUME NEW T, NEW a \in T, NEW s \in Seq(T), s # <<>>
  PROVE  /\ <<a>> \o Tail(s) \in Seq(T) /\ <<a>> \o Tail(s) # <<>>
         /\ Len(<<a>> \o Tail(s)) = Len(s)
         /\ Head(<<a>> \o Tail(s)) = a /\ (<<a>> \o Tail(s))[1] = a
         /\ \A i \in 2..Len(s) : (<<a>> \o Tail(s))[i] = s[i]
<1>1. /\ Len(s) \in Nat \ {0} /\ Tail(s) \in Seq(T) /\ Len(Tail(s)) = Len(s) - 1
      /\ \A i \in 1..Len(Tail(s)) : Tail(s)[i] = s[i + 1]
  BY Popped
<1>2. /\ <<a>> \o Tail(s) \in Seq(T) /\ <<a>> \o Tail(s) # <<>>
      /\ Len(<<a>> \o Tail(s)) = Len(Tail(s)) + 1
      /\ Head(<<a>> \o Tail(s)) = a /\ (<<a>> \o Tail(s))[1] = a
      /\ \A i \in 1..Len(Tail(s)) : (<<a>> \o Tail(s))[i + 1] = Tail(s)[i]
  BY <1>1, Pushed
<1>3. \A i \in 2..Len(s) : (<<a>> \o Tail(s))[i] = s[i]
  <2> TAKE i \in 2..Len(s)
  <2>1. i - 1 \in 1..Len(Tail(s)) /\ (i - 1) + 1 = i
    BY <1>1
  <2>2. (<<a>> \o Tail(s))[(i - 1) + 1] = Tail(s)[i - 1] /\ Tail(s)[i - 1] = s[(i - 1) + 1]
    BY <1>1, <1>2, <2>1
  <2> QED
    BY <2>1, <2>2
<1> QED
  BY <1>1, <1>2, <1>3

-----------------------------------------------------------------------------
\* Every variable keeps its type, and the calls that are open are those of the
\* place the startup is at.
THEOREM Typing == Spec => [](TypeOK /\ Shape)
<1>1. Init => TypeOK /\ Shape
  <2> SUFFICES ASSUME Init PROVE TypeOK /\ Shape
    OBVIOUS
  <2>1. want \in Files
    BY FilesAssumption DEF Init
  <2>2. /\ <<>> \in Seq(Calls) /\ <<>> \in Seq(Visit) /\ <<>> \in Seq(Files)
        /\ built \in 0..Len(sortedDescriptors)
    BY EmptySeq DEF Init
  <2>3. attempt \in 1..(MaxAttempts + 1)
    BY AttemptsAssumption DEF Init
  <2>5. TypeOK
    BY <2>1, <2>2, <2>3 DEF Init, TypeOK, Calls, Visit
  <2>4. Shape
    BY DEF Init, Shape
  <2> QED
    BY <2>4, <2>5
<1>2. ASSUME TypeOK, Shape, [Next]_vars PROVE TypeOK' /\ Shape'
  <2>0. /\ imports \in [Files -> SUBSET Files] /\ calls \in Seq(Calls) /\ path \in Seq(Visit)
        /\ \A f \in Files : imports[f] \in SUBSET Files
    BY <1>2, NodesAssumption DEF TypeOK, Calls, Visit
  <2>a. \A A \in SUBSET Files : Call(A) \in Calls
    BY DEF Call, Calls
  <2> USE <1>2
  <2>1. CASE AttemptFails
    BY <2>1, AttemptsAssumption DEF AttemptFails, TypeOK, Shape, Requesting, sorting
  <2>2. CASE GiveUp
    BY <2>2 DEF GiveUp, TypeOK, Shape, Requesting, sorting, fetching
  <2>3. CASE AnswerUnusable
    BY <2>3 DEF AnswerUnusable, TypeOK, Shape, Requesting, sorting
  <2>4. CASE ServicesListed
    BY <2>4, AttemptsAssumption DEF ServicesListed, TypeOK, Shape, sorting
  <2>5. CASE NextService
    <3>1. want' \in Files /\ listed' \in SUBSET Services
      BY <2>5, ServicesAssumption DEF NextService, TypeOK
    <3> QED
      BY <2>5, <3>1 DEF NextService, TypeOK, Shape, sorting
  <2>6. CASE Answered
    <3>1. PICK A \in SUBSET Files : calls' = <<Call(A)>> \o calls
      BY <2>6 DEF Answered, Answers, Promise!Reach
    <3>2. calls' \in Seq(Calls) /\ calls' # <<>>
      BY <3>1, <2>0, <2>a, Pushed
    <3>3. lacking' \in BOOLEAN
      BY <2>6 DEF Answered, TypeOK
    <3> QED
      BY <2>6, <3>2, <3>3, AttemptsAssumption DEF Answered, TypeOK, Shape, sorting, Calls
  <2>7. CASE MarkFile
    <3>1. calls # <<>> /\ Head(calls) \in Calls
      BY <2>7, <2>0, Popped DEF MarkFile, Shape
    <3>2. PICK f \in Head(calls).left \ seen :
            /\ seen' = seen \union {f}
            /\ calls' = <<[left |-> Head(calls).left \ {f}, imports |-> imports[f]]>> \o Tail(calls)
      BY <2>7 DEF MarkFile
    <3>3. f \in Files /\ [left |-> Head(calls).left \ {f}, imports |-> imports[f]] \in Calls
      BY <3>1, <2>0 DEF Calls
    <3>4. calls' \in Seq(Calls) /\ calls' # <<>>
      BY <3>1, <3>2, <3>3, <2>0, Replaced
    <3> QED
      BY <2>7, <3>2, <3>3, <3>4 DEF MarkFile, TypeOK, Shape, sorting, Calls
  <2>8. CASE FetchImport
    <3>1. calls # <<>> /\ Head(calls) \in Calls
      BY <2>8, <2>0, Popped DEF FetchImport, Shape
    <3>2. PICK d \in Head(calls).imports \ seen :
            want' = d /\ calls' = <<[Head(calls) EXCEPT !.imports = @ \ {d}]>> \o Tail(calls)
      BY <2>8 DEF FetchImport
    <3>3. d \in Files /\ [Head(calls) EXCEPT !.imports = @ \ {d}] \in Calls
      BY <3>1 DEF Calls
    <3>4. calls' \in Seq(Calls) /\ calls' # <<>>
      BY <3>1, <3>2, <3>3, <2>0, Replaced
    <3> QED
      BY <2>8, <3>2, <3>3, <3>4 DEF FetchImport, TypeOK, Shape, sorting, Calls
  <2>9. CASE Processed
    <3>1. calls # <<>>
      BY <2>9 DEF Processed, Shape
    <3>2. calls' \in Seq(Calls) /\ (pc' = "process" => calls' # <<>>)
          /\ (pc' = "services" => calls' = <<>>) /\ pc' \in {"services", "process"}
      BY <2>9, <3>1, <2>0, Popped DEF Processed
    <3> QED
      BY <2>9, <3>2 DEF Processed, TypeOK, Shape, sorting, Calls
  <2>10. CASE AllFetched
    BY <2>10 DEF AllFetched, TypeOK, Shape, sorting, fetching
  <2>11. CASE VisitRoot
    <3>1. PICK f \in seen \ visited : Enter(f, <<>>)
      BY <2>11 DEF VisitRoot
    <3>2. [file |-> f, imports |-> imports[f]] \in Visit /\ f \in Files
      BY <2>0 DEF Visit, TypeOK
    <3>3. path' \in Seq(Visit) /\ tempMarked' \in SUBSET Files
      BY <3>1, <3>2, <2>0, Pushed, EmptySeq DEF Enter, TypeOK
    <3> QED
      BY <2>11, <3>1, <3>3 DEF VisitRoot, Enter, TypeOK, Shape, fetching, Visit
  <2>12. CASE VisitImport
    <3>1. path # <<>> /\ Head(path) \in Visit
      BY <2>12, <2>0, Popped DEF VisitImport
    <3>2. PICK d \in (Head(path).imports \intersect seen) \ (tempMarked \union visited) :
            Enter(d, <<[Head(path) EXCEPT !.imports = @ \ {d}]>> \o Tail(path))
      BY <2>12 DEF VisitImport
    <3>3. /\ d \in Files /\ [file |-> d, imports |-> imports[d]] \in Visit
          /\ [Head(path) EXCEPT !.imports = @ \ {d}] \in Visit
      BY <3>1, <2>0 DEF Visit, TypeOK
    <3>4. <<[Head(path) EXCEPT !.imports = @ \ {d}]>> \o Tail(path) \in Seq(Visit)
      BY <3>1, <3>3, <2>0, Replaced
    <3>5. path' \in Seq(Visit) /\ tempMarked' \in SUBSET Files
      BY <3>2, <3>3, <3>4, Pushed DEF Enter, TypeOK
    <3> QED
      BY <2>12, <3>2, <3>5 DEF VisitImport, Enter, TypeOK, Shape, fetching, Visit
  <2>13. CASE CircularImport
    BY <2>13 DEF CircularImport, TypeOK, Shape, fetching, sorting
  <2>14. CASE Leave
    <3>1. path # <<>> /\ Head(path) \in Visit /\ Tail(path) \in Seq(Visit)
      BY <2>14, <2>0, Popped DEF Leave
    <3>2. Head(path).file \in Files
      BY <3>1 DEF Visit
    <3>3. sortedDescriptors' \in Seq(Files) /\ Len(sortedDescriptors') \in Nat
      BY <2>14, <3>2, AppendProperties, LenProperties DEF Leave, TypeOK
    <3>4. built = 0 /\ built' = 0
      BY <2>14 DEF Leave, Shape
    <3> QED
      BY <2>14, <3>1, <3>2, <3>3, <3>4 DEF Leave, TypeOK, Shape, fetching, Visit
  <2>15. CASE Sorted
    <3>1. listed' = {} /\ path' = <<>> /\ seen' \subseteq visited' /\ calls' = <<>>
      BY <2>15 DEF Sorted, Shape, fetching, sorting
    <3> QED
      BY <2>15, <3>1 DEF Sorted, TypeOK, Shape, fetching, sorting
  <2>16. CASE Register
    BY <2>16, LenProperties DEF Register, TypeOK, Shape, fetching, sorting
  <2>17. CASE RegisterFails
    BY <2>17 DEF RegisterFails, TypeOK, Shape, fetching, sorting
  <2>18. CASE Built
    BY <2>18 DEF Built, TypeOK, Shape, fetching, sorting
  <2>19. CASE UNCHANGED vars
    BY <2>19 DEF vars, TypeOK, Shape, fetching, sorting
  <2>20. CASE Stop
    BY <2>19, <2>20 DEF Stop
  <2> QED
    BY <2>1, <2>2, <2>3, <2>4, <2>5, <2>6, <2>7, <2>8, <2>9, <2>10, <2>11, <2>12, <2>13,
       <2>14, <2>15, <2>16, <2>17, <2>18, <2>19, <2>20 DEF Next, Fetch, Build
<1> QED
  BY <1>1, <1>2, PTL DEF Spec

-----------------------------------------------------------------------------
\* What the services need holds their files and what its own files import.
Needed == Promise!Needed

LEMMA NeededClosed ==
  ASSUME TypeOK
  PROVE  /\ Needed \subseteq Files /\ Roots \subseteq Needed
         /\ \A f \in Needed : imports[f] \subseteq Needed
<1>1. imports \in [Files -> SUBSET Files] /\ Roots \subseteq Files
  BY NodesAssumption, ServicesAssumption DEF TypeOK, Roots
<1>2. Roots \subseteq Needed
  BY <1>1 DEF Needed, Promise!Needed, Promise!Reach
<1>3. ASSUME NEW f \in Needed, NEW d \in imports[f] PROVE d \in Needed
  <2>1. f \in Files /\ d \in Files
    BY <1>1, <1>3 DEF Needed, Promise!Needed, Promise!Reach
  <2>2. ASSUME NEW R \in SUBSET Files, Roots \subseteq R, Promise!Closed(R) PROVE d \in R
    <3>1. f \in R
      BY <1>3, <2>2 DEF Needed, Promise!Needed, Promise!Reach
    <3> QED
      BY <3>1, <1>3, <2>2 DEF Promise!Closed
  <2> QED
    BY <2>1, <2>2 DEF Needed, Promise!Needed, Promise!Reach
<1> QED
  BY <1>2, <1>3 DEF Needed, Promise!Needed, Promise!Reach

\* And what any of its files reaches.
LEMMA ReachNeeded ==
  ASSUME TypeOK, NEW f \in Needed
  PROVE  Promise!Reach({f}) \subseteq Needed
<1> SUFFICES ASSUME NEW g \in Promise!Reach({f}) PROVE g \in Needed
  OBVIOUS
<1>1. ASSUME NEW R \in SUBSET Files, Roots \subseteq R, Promise!Closed(R) PROVE g \in R
  <2>1. f \in R
    BY <1>1 DEF Needed, Promise!Needed, Promise!Reach
  <2> QED
    BY <2>1, <1>1 DEF Promise!Reach
<1> QED
  BY <1>1 DEF Needed, Promise!Needed, Promise!Reach

\* Nothing else is small: a set that holds the roots and what it imports has it all.
LEMMA NeededLeast ==
  ASSUME NEW R \in SUBSET Files, Roots \subseteq R, \A f \in R : imports[f] \subseteq R
  PROVE  Needed \subseteq R
  BY DEF Needed, Promise!Needed, Promise!Reach, Promise!Closed

LEMMA NeededStays ==
  ASSUME imports' = imports
  PROVE  Needed' = Needed
<1>1. \A R : Promise!Closed(R)' <=> Promise!Closed(R)
  BY DEF Promise!Closed
<1> QED
  BY <1>1 DEF Needed, Promise!Needed, Promise!Reach, Promise!Closed

LEMMA NodeFixed == [Next]_vars => imports' = imports
  BY DEF Next, Fetch, Build, Stop, AttemptFails, GiveUp, AnswerUnusable, ServicesListed, NextService,
         Answered, MarkFile, FetchImport, Processed, AllFetched, VisitRoot, VisitImport, Enter,
         CircularImport, Leave, Sorted, Register, RegisterFails, Built, vars

-----------------------------------------------------------------------------
\* What the steps of the fetch do to the stack of calls, frame by frame.
LEMMA AnswerPushed ==
  ASSUME TypeOK, Answered
  PROVE  \E A \in Answers(want) :
           /\ lacking' = (lacking \/ want \notin A) /\ A \in SUBSET Files
           /\ Len(calls) \in Nat /\ Len(calls') = Len(calls) + 1
           /\ calls'[1].left = A /\ calls'[1].imports = {}
           /\ \A i \in 2..Len(calls') : i - 1 \in 1..Len(calls) /\ calls'[i] = calls[i - 1]
<1>1. PICK A \in Answers(want) :
        calls' = <<Call(A)>> \o calls /\ lacking' = (lacking \/ want \notin A)
  BY DEF Answered
<1>2. calls \in Seq(Calls) /\ Len(calls) \in Nat
  BY LenProperties DEF TypeOK, Calls
<1>3. A \in SUBSET Files
  BY DEF Answers, Promise!Reach
<1>4. Call(A) \in Calls
  BY <1>3 DEF Call, Calls
<1>5. /\ Len(calls') = Len(calls) + 1 /\ calls'[1] = Call(A)
      /\ \A i \in 1..Len(calls) : calls'[i + 1] = calls[i]
  BY <1>1, <1>2, <1>4, Pushed
<1>6. \A i \in 2..Len(calls') : i - 1 \in 1..Len(calls) /\ calls'[i] = calls[i - 1]
  <2> TAKE i \in 2..Len(calls')
  <2>1. i - 1 \in 1..Len(calls) /\ (i - 1) + 1 = i
    BY <1>2, <1>5
  <2> QED
    BY <2>1, <1>5
<1> QED
  BY <1>1, <1>2, <1>3, <1>5, <1>6 DEF Call

LEMMA FileMarked ==
  ASSUME TypeOK, Shape, MarkFile
  PROVE  \E f \in calls[1].left \ seen :
           /\ seen' = seen \union {f} /\ calls[1].imports \subseteq seen
           /\ Len(calls) \in Nat \ {0} /\ Len(calls') = Len(calls)
           /\ calls'[1].left = calls[1].left \ {f} /\ calls'[1].imports = imports[f]
           /\ \A i \in 2..Len(calls) : calls'[i] = calls[i]
<1>1. calls \in Seq(Calls) /\ calls # <<>> /\ imports \in [Files -> SUBSET Files]
  BY NodesAssumption DEF TypeOK, Shape, MarkFile, Calls
<1>2. Head(calls) \in Calls /\ Head(calls) = calls[1] /\ Len(calls) \in Nat \ {0}
  BY <1>1, Popped
<1>3. PICK f \in calls[1].left \ seen :
        /\ seen' = seen \union {f} /\ calls[1].imports \subseteq seen
        /\ calls' = <<[left |-> calls[1].left \ {f}, imports |-> imports[f]]>> \o Tail(calls)
  BY <1>2 DEF MarkFile
<1>4. [left |-> calls[1].left \ {f}, imports |-> imports[f]] \in Calls
  BY <1>1, <1>2 DEF Calls
<1>5. /\ Len(calls') = Len(calls)
      /\ calls'[1] = [left |-> calls[1].left \ {f}, imports |-> imports[f]]
      /\ \A i \in 2..Len(calls) : calls'[i] = calls[i]
  BY <1>1, <1>3, <1>4, Replaced
<1> QED
  BY <1>2, <1>3, <1>5

LEMMA ImportAsked ==
  ASSUME TypeOK, Shape, FetchImport
  PROVE  \E d \in calls[1].imports \ seen :
           /\ want' = d /\ seen' = seen
           /\ Len(calls) \in Nat \ {0} /\ Len(calls') = Len(calls)
           /\ calls'[1].left = calls[1].left /\ calls'[1].imports = calls[1].imports \ {d}
           /\ \A i \in 2..Len(calls) : calls'[i] = calls[i]
<1>1. calls \in Seq(Calls) /\ calls # <<>>
  BY DEF TypeOK, Shape, FetchImport, Calls
<1>2. Head(calls) \in Calls /\ Head(calls) = calls[1] /\ Len(calls) \in Nat \ {0}
  BY <1>1, Popped
<1>3. PICK d \in calls[1].imports \ seen :
        want' = d /\ calls' = <<[calls[1] EXCEPT !.imports = @ \ {d}]>> \o Tail(calls)
  BY <1>2 DEF FetchImport
<1>4. [calls[1] EXCEPT !.imports = @ \ {d}] \in Calls
  BY <1>2 DEF Calls
<1>5. /\ Len(calls') = Len(calls) /\ calls'[1] = [calls[1] EXCEPT !.imports = @ \ {d}]
      /\ \A i \in 2..Len(calls) : calls'[i] = calls[i]
  BY <1>1, <1>3, <1>4, Replaced
<1>6. calls'[1].left = calls[1].left /\ calls'[1].imports = calls[1].imports \ {d}
  BY <1>2, <1>5 DEF Calls
<1>7. seen' = seen
  BY DEF FetchImport
<1> QED
  BY <1>2, <1>3, <1>5, <1>6, <1>7

LEMMA CallReturned ==
  ASSUME TypeOK, Shape, Processed
  PROVE  /\ Len(calls) \in Nat \ {0} /\ Len(calls') = Len(calls) - 1
         /\ calls[1].left \union calls[1].imports \subseteq seen
         /\ \A i \in 1..Len(calls') : i + 1 \in 2..Len(calls) /\ calls'[i] = calls[i + 1]
<1>1. calls \in Seq(Calls) /\ calls # <<>>
  BY DEF TypeOK, Shape, Processed, Calls
<1>2. /\ Head(calls) = calls[1] /\ Len(calls) \in Nat \ {0} /\ Len(Tail(calls)) = Len(calls) - 1
      /\ \A i \in 1..Len(Tail(calls)) : Tail(calls)[i] = calls[i + 1]
  BY <1>1, Popped
<1>3. \A i \in 1..(Len(calls) - 1) : i + 1 \in 2..Len(calls)
  BY <1>2
<1> QED
  BY <1>2, <1>3 DEF Processed

\* The other steps leave what is fetched alone.
OtherStep ==
  \/ AttemptFails \/ GiveUp \/ AnswerUnusable \/ ServicesListed \/ AllFetched
  \/ Build \/ UNCHANGED vars

LEMMA StepCases ==
  ASSUME [Next]_vars
  PROVE  NextService \/ Answered \/ MarkFile \/ FetchImport \/ Processed \/ OtherStep
  BY DEF Next, Fetch, Stop, OtherStep

LEMMA FetchedKept ==
  ASSUME OtherStep
  PROVE  /\ seen' = seen /\ calls' = calls /\ want' = want /\ listed' = listed
         /\ pc' = "request" => pc = "request"
         /\ lacking' = lacking \/ (lacking' /\ pc' = "failed")
         /\ pc = "request" => pc' \in {"request", "failed"}
         /\ pc = "failed" => pc' = "failed"
<1> USE DEF OtherStep, AttemptFails, GiveUp, AnswerUnusable, ServicesListed, AllFetched, Build, VisitRoot,
         VisitImport, Enter, CircularImport, Leave, Sorted, Register, RegisterFails, Built, vars,
         fetching, Requesting
<1>1. seen' = seen /\ calls' = calls /\ want' = want /\ listed' = listed
  OBVIOUS
<1>2. (pc' = "request" => pc = "request") /\ (pc = "request" => pc' \in {"request", "failed"})
      /\ (pc = "failed" => pc' = "failed")
  OBVIOUS
<1>3. lacking' = lacking \/ (lacking' /\ pc' = "failed")
  OBVIOUS
<1> QED
  BY <1>1, <1>2, <1>3

-----------------------------------------------------------------------------
\* Nothing is fetched that the services do not need.
Within ==
  /\ seen \subseteq Needed
  /\ \A i \in 1..Len(calls) : calls[i].left \union calls[i].imports \subseteq Needed
  /\ pc = "request" => want \in Needed

LEMMA StaysWithin == Spec => []Within
<1>1. Init => Within
  BY EmptySeq DEF Init, Within
<1>2. ASSUME TypeOK, Shape, Within, [Next]_vars PROVE Within'
  <2> USE <1>2
  <2>0. Needed' = Needed
    BY NodeFixed, NeededStays
  <2>a. /\ Needed \subseteq Files /\ Roots \subseteq Needed
        /\ \A f \in Needed : imports[f] \subseteq Needed
    BY NeededClosed
  <2>1. CASE NextService
    <3>1. want' \in Roots
      BY <2>1 DEF NextService, Roots, TypeOK
    <3> QED
      BY <2>0, <2>a, <2>1, <3>1 DEF NextService, Within
  <2>2. CASE Answered
    <3>1. PICK A \in Answers(want) :
           /\ Len(calls) \in Nat /\ Len(calls') = Len(calls) + 1
           /\ calls'[1].left = A /\ calls'[1].imports = {}
           /\ \A i \in 2..Len(calls') : i - 1 \in 1..Len(calls) /\ calls'[i] = calls[i - 1]
      BY <2>2, AnswerPushed
    <3>2. A \subseteq Needed
      BY <2>2, ReachNeeded DEF Answered, Answers, Within
    <3>3. \A i \in 1..Len(calls') : i = 1 \/ i \in 2..Len(calls')
      BY <3>1
    <3>4. \A i \in 1..Len(calls') : calls'[i].left \union calls'[i].imports \subseteq Needed
      BY <3>1, <3>2, <3>3 DEF Within
    <3> QED
      BY <2>0, <2>2, <3>4 DEF Answered, Within
  <2>3. CASE MarkFile
    <3>1. PICK f \in calls[1].left \ seen :
           /\ seen' = seen \union {f}
           /\ Len(calls) \in Nat \ {0} /\ Len(calls') = Len(calls)
           /\ calls'[1].left = calls[1].left \ {f} /\ calls'[1].imports = imports[f]
           /\ \A i \in 2..Len(calls) : calls'[i] = calls[i]
      BY <2>3, FileMarked
    <3>2. \A i \in 1..Len(calls') : i = 1 \/ i \in 2..Len(calls)
      BY <3>1
    <3>3. f \in Needed /\ calls[1].left \subseteq Needed
      BY <3>1 DEF Within
    <3>4. \A i \in 1..Len(calls') : calls'[i].left \union calls'[i].imports \subseteq Needed
      BY <2>a, <3>1, <3>2, <3>3 DEF Within
    <3> QED
      BY <2>0, <2>3, <3>1, <3>3, <3>4 DEF MarkFile, Within
  <2>4. CASE FetchImport
    <3>1. PICK d \in calls[1].imports \ seen :
           /\ want' = d /\ seen' = seen
           /\ Len(calls) \in Nat \ {0} /\ Len(calls') = Len(calls)
           /\ calls'[1].left = calls[1].left /\ calls'[1].imports = calls[1].imports \ {d}
           /\ \A i \in 2..Len(calls) : calls'[i] = calls[i]
      BY <2>4, ImportAsked
    <3>2. \A i \in 1..Len(calls') : i = 1 \/ i \in 2..Len(calls)
      BY <3>1
    <3>3. calls[1].left \union calls[1].imports \subseteq Needed
      BY <3>1 DEF Within
    <3>4. \A i \in 1..Len(calls') : calls'[i].left \union calls'[i].imports \subseteq Needed
      BY <3>1, <3>2, <3>3 DEF Within
    <3> QED
      BY <2>0, <3>1, <3>3, <3>4 DEF Within
  <2>5. CASE Processed
    <3>1. \A i \in 1..Len(calls') : i + 1 \in 1..Len(calls) /\ calls'[i] = calls[i + 1]
      BY <2>5, CallReturned
    <3> QED
      BY <2>0, <2>5, <3>1 DEF Processed, Within
  <2>6. CASE OtherStep
    BY <2>0, <2>6, FetchedKept DEF Within
  <2> QED
    BY <2>1, <2>2, <2>3, <2>4, <2>5, <2>6, StepCases
<1> QED
  BY <1>1, <1>2, Typing, PTL DEF Spec

-----------------------------------------------------------------------------
\* The file of a service that was asked for is seen, or left in an answer, or
\* what the request out is for.
Met(s) ==
  \/ FileOf[s] \in seen
  \/ \E i \in 1..Len(calls) : FileOf[s] \in calls[i].left
  \/ pc = "request" /\ calls = <<>> /\ want = FileOf[s]

RootsMet == pc # "failed" => \A s \in Services \ listed : Met(s)

LEMMA NoServiceLost == Spec => []RootsMet
<1>1. Init => RootsMet
  BY DEF Init, RootsMet
<1>2. ASSUME TypeOK, Shape, RootsMet, [Next]_vars PROVE RootsMet'
  <2> SUFFICES ASSUME pc' # "failed", NEW s \in Services, s \notin listed' PROVE Met(s)'
    BY DEF RootsMet
  <2> USE <1>2
  <2>a. pc # "failed" /\ s \notin listed => Met(s)
    BY DEF RootsMet
  <2>1. CASE NextService
    <3>1. s \notin listed => FileOf[s] \in seen
      BY <2>1, <2>a, EmptySeq DEF NextService, Met, Shape
    <3>2. s \in listed => calls' = <<>> /\ want' = FileOf[s] /\ pc' = "request"
      BY <2>1 DEF NextService, Shape
    <3> QED
      BY <2>1, <3>1, <3>2 DEF NextService, Met
  <2>2. CASE Answered
    <3>1. PICK A \in Answers(want) :
           /\ Len(calls) \in Nat /\ Len(calls') = Len(calls) + 1 /\ calls'[1].left = A
           /\ \A i \in 2..Len(calls') : i - 1 \in 1..Len(calls) /\ calls'[i] = calls[i - 1]
      BY <2>2, AnswerPushed
    <3>2. Met(s) /\ seen' = seen
      BY <2>2, <2>a DEF Answered
    <3>3. CASE calls = <<>> /\ want = FileOf[s]
      <4>1. want \in A /\ 1 \in 1..Len(calls')
        BY <3>1, <3>3 DEF Answers
      <4> QED
        BY <3>1, <3>3, <4>1 DEF Met
    <3>4. CASE \E i \in 1..Len(calls) : FileOf[s] \in calls[i].left
      <4>1. PICK i \in 1..Len(calls) : FileOf[s] \in calls[i].left
        BY <3>4
      <4>2. i + 1 \in 2..Len(calls') /\ (i + 1) - 1 = i
        BY <3>1, <4>1
      <4>3. calls'[i + 1] = calls[i] /\ i + 1 \in 1..Len(calls')
        BY <3>1, <4>2
      <4> QED
        BY <4>1, <4>3 DEF Met
    <3> QED
      BY <3>2, <3>3, <3>4 DEF Met
  <2>3. CASE MarkFile
    <3>1. PICK f \in calls[1].left \ seen :
           /\ seen' = seen \union {f}
           /\ Len(calls) \in Nat \ {0} /\ Len(calls') = Len(calls)
           /\ calls'[1].left = calls[1].left \ {f}
           /\ \A i \in 2..Len(calls) : calls'[i] = calls[i]
      BY <2>3, FileMarked
    <3>2. Met(s) /\ pc = "process"
      BY <2>3, <2>a DEF MarkFile
    <3>3. \A i \in 1..Len(calls) : i = 1 \/ i \in 2..Len(calls)
      BY <3>1
    <3> QED
      BY <3>1, <3>2, <3>3 DEF Met
  <2>4. CASE FetchImport
    <3>1. /\ seen' = seen /\ Len(calls') = Len(calls) /\ Len(calls) \in Nat \ {0}
          /\ calls'[1].left = calls[1].left
          /\ \A i \in 2..Len(calls) : calls'[i] = calls[i]
      BY <2>4, ImportAsked
    <3>2. \A i \in 1..Len(calls) : i = 1 \/ i \in 2..Len(calls)
      BY <3>1
    <3> QED
      BY <2>4, <2>a, <3>1, <3>2 DEF Met, FetchImport
  <2>5. CASE Processed
    <3>1. /\ Len(calls) \in Nat \ {0} /\ Len(calls') = Len(calls) - 1
          /\ calls[1].left \union calls[1].imports \subseteq seen
          /\ \A i \in 1..Len(calls') : i + 1 \in 2..Len(calls) /\ calls'[i] = calls[i + 1]
      BY <2>5, CallReturned
    <3>2. Met(s) /\ pc = "process" /\ seen' = seen
      BY <2>5, <2>a DEF Processed
    <3>3. ASSUME NEW i \in 1..Len(calls), FileOf[s] \in calls[i].left PROVE Met(s)'
      <4>1. CASE i = 1
        BY <3>1, <3>2, <3>3, <4>1 DEF Met
      <4>2. CASE i # 1
        <5>1. i - 1 \in 1..Len(calls') /\ (i - 1) + 1 = i
          BY <3>1, <4>2
        <5>2. calls'[i - 1] = calls[i]
          BY <3>1, <5>1
        <5> QED
          BY <3>3, <5>1, <5>2 DEF Met
      <4> QED
        BY <4>1, <4>2
    <3> QED
      BY <3>2, <3>3 DEF Met
  <2>6. CASE OtherStep
    <3>1. seen' = seen /\ calls' = calls /\ want' = want /\ listed' = listed
          /\ (pc = "request" => pc' = "request") /\ pc # "failed"
      BY <2>6, FetchedKept
    <3> QED
      BY <2>a, <3>1 DEF Met
  <2> QED
    BY <2>1, <2>2, <2>3, <2>4, <2>5, <2>6, StepCases
<1> QED
  BY <1>1, <1>2, Typing, PTL DEF Spec

\* If every answer was what was asked for, an import of a file that is seen is
\* seen, or waits in an open call, or is what the request out is for.
Waits(f) ==
  \/ \E i \in 1..Len(calls) : f \in calls[i].left \union calls[i].imports
  \/ pc = "request" /\ want = f

ImportsMet ==
  pc # "failed" /\ ~lacking => \A f \in seen : \A d \in imports[f] : d \in seen \/ Waits(d)

LEMMA NoImportLost == Spec => []ImportsMet
<1>1. Init => ImportsMet
  BY DEF Init, ImportsMet
<1>2. ASSUME TypeOK, Shape, ImportsMet, [Next]_vars PROVE ImportsMet'
  <2> SUFFICES ASSUME pc' # "failed", ~lacking', NEW f \in seen', NEW d \in imports'[f]
               PROVE  d \in seen' \/ Waits(d)'
    BY DEF ImportsMet
  <2> USE <1>2
  <2>0. imports' = imports
    BY NodeFixed
  <2>a. pc # "failed" /\ ~lacking /\ f \in seen => d \in seen \/ Waits(d)
    BY <2>0 DEF ImportsMet
  <2>1. CASE NextService
    BY <2>1, <2>a, EmptySeq DEF NextService, Waits, Shape
  <2>2. CASE Answered
    <3>1. PICK A \in Answers(want) :
           /\ lacking' = (lacking \/ want \notin A)
           /\ Len(calls) \in Nat /\ Len(calls') = Len(calls) + 1 /\ calls'[1].left = A
           /\ \A i \in 2..Len(calls') : i - 1 \in 1..Len(calls) /\ calls'[i] = calls[i - 1]
      BY <2>2, AnswerPushed
    <3>2. want \in A /\ ~lacking /\ seen' = seen /\ (d \in seen \/ Waits(d))
      BY <2>2, <2>a, <3>1 DEF Answered
    <3>3. CASE d = want
      <4>1. 1 \in 1..Len(calls')
        BY <3>1
      <4> QED
        BY <3>1, <3>2, <3>3, <4>1 DEF Waits
    <3>4. ASSUME NEW i \in 1..Len(calls), d \in calls[i].left \union calls[i].imports PROVE Waits(d)'
      <4>1. i + 1 \in 2..Len(calls') /\ (i + 1) - 1 = i /\ i + 1 \in 1..Len(calls')
        BY <3>1
      <4>2. calls'[i + 1] = calls[i]
        BY <3>1, <4>1
      <4> QED
        BY <3>4, <4>1, <4>2 DEF Waits
    <3> QED
      BY <3>2, <3>3, <3>4 DEF Waits
  <2>3. CASE MarkFile
    <3>1. PICK e \in calls[1].left \ seen :
           /\ seen' = seen \union {e} /\ calls[1].imports \subseteq seen
           /\ Len(calls) \in Nat \ {0} /\ Len(calls') = Len(calls)
           /\ calls'[1].left = calls[1].left \ {e} /\ calls'[1].imports = imports[e]
           /\ \A i \in 2..Len(calls) : calls'[i] = calls[i]
      BY <2>3, FileMarked
    <3>2. pc = "process" /\ ~lacking
      BY <2>3 DEF MarkFile
    <3>3. \A i \in 1..Len(calls) : i = 1 \/ i \in 2..Len(calls)
      BY <3>1
    <3>4. CASE f = e
      <4>1. 1 \in 1..Len(calls') /\ d \in calls'[1].imports
        BY <2>0, <3>1, <3>4
      <4> QED
        BY <4>1 DEF Waits
    <3>5. CASE f \in seen
      <4>1. d \in seen \/ \E i \in 1..Len(calls) : d \in calls[i].left \union calls[i].imports
        BY <2>a, <3>2, <3>5 DEF Waits
      <4>2. ASSUME NEW i \in 1..Len(calls), d \in calls[i].left \union calls[i].imports
            PROVE  d \in seen' \/ Waits(d)'
        <5>1. CASE i = 1
          <6>1. d \in seen' \/ d \in calls'[1].left
            BY <3>1, <4>2, <5>1
          <6>2. 1 \in 1..Len(calls')
            BY <3>1
          <6> QED
            BY <6>1, <6>2 DEF Waits
        <5>2. CASE i \in 2..Len(calls)
          <6>1. i \in 1..Len(calls') /\ calls'[i] = calls[i]
            BY <3>1, <5>2
          <6> QED
            BY <4>2, <6>1 DEF Waits
        <5> QED
          BY <3>3, <5>1, <5>2
      <4> QED
        BY <3>1, <4>1, <4>2
    <3> QED
      BY <3>1, <3>4, <3>5
  <2>4. CASE FetchImport
    <3>1. PICK e \in calls[1].imports \ seen :
           /\ want' = e /\ seen' = seen
           /\ Len(calls) \in Nat \ {0} /\ Len(calls') = Len(calls)
           /\ calls'[1].left = calls[1].left /\ calls'[1].imports = calls[1].imports \ {e}
           /\ \A i \in 2..Len(calls) : calls'[i] = calls[i]
      BY <2>4, ImportAsked
    <3>2. pc = "process" /\ pc' = "request" /\ ~lacking
      BY <2>4 DEF FetchImport
    <3>3. \A i \in 1..Len(calls) : i = 1 \/ i \in 2..Len(calls)
      BY <3>1
    <3>4. d \in seen \/ \E i \in 1..Len(calls) : d \in calls[i].left \union calls[i].imports
      BY <2>a, <3>1, <3>2 DEF Waits
    <3>5. d = e => Waits(d)'
      BY <3>1, <3>2 DEF Waits
    <3>6. ASSUME NEW i \in 1..Len(calls), d \in calls[i].left \union calls[i].imports, d # e
          PROVE  Waits(d)'
      <4>1. d \in calls'[i].left \union calls'[i].imports /\ i \in 1..Len(calls')
        BY <3>1, <3>3, <3>6
      <4> QED
        BY <4>1 DEF Waits
    <3> QED
      BY <3>1, <3>4, <3>5, <3>6
  <2>5. CASE Processed
    <3>1. /\ Len(calls) \in Nat \ {0} /\ Len(calls') = Len(calls) - 1
          /\ calls[1].left \union calls[1].imports \subseteq seen
          /\ \A i \in 1..Len(calls') : i + 1 \in 2..Len(calls) /\ calls'[i] = calls[i + 1]
      BY <2>5, CallReturned
    <3>2. pc = "process" /\ seen' = seen /\ ~lacking
      BY <2>5 DEF Processed
    <3>3. d \in seen \/ \E i \in 1..Len(calls) : d \in calls[i].left \union calls[i].imports
      BY <2>a, <3>2 DEF Waits
    <3>4. ASSUME NEW i \in 1..Len(calls), d \in calls[i].left \union calls[i].imports
          PROVE  d \in seen' \/ Waits(d)'
      <4>1. CASE i = 1
        BY <3>1, <3>2, <3>4, <4>1
      <4>2. CASE i # 1
        <5>1. i - 1 \in 1..Len(calls') /\ (i - 1) + 1 = i
          BY <3>1, <4>2
        <5>2. calls'[i - 1] = calls[i]
          BY <3>1, <5>1
        <5> QED
          BY <3>4, <5>1, <5>2 DEF Waits
      <4> QED
        BY <4>1, <4>2
    <3> QED
      BY <3>2, <3>3, <3>4
  <2>6. CASE OtherStep
    <3>1. seen' = seen /\ calls' = calls /\ want' = want /\ lacking' = lacking
          /\ (pc = "request" => pc' = "request") /\ pc # "failed"
      BY <2>6, FetchedKept
    <3> QED
      BY <2>a, <3>1 DEF Waits
  <2> QED
    BY <2>1, <2>2, <2>3, <2>4, <2>5, <2>6, StepCases
<1> QED
  BY <1>1, <1>2, Typing, PTL DEF Spec

-----------------------------------------------------------------------------
\* Each call below the innermost has marked a file, and so has the innermost
\* once it has imports to ask for.
Depth ==
  /\ IsFiniteSet(seen)
  /\ Len(calls) <= Cardinality(seen) + 1
  /\ pc = "request" => Len(calls) <= Cardinality(seen)
  /\ calls # <<>> /\ calls[1].imports # {} => Len(calls) <= Cardinality(seen)

\* The recursion over imports is no deeper than there are files, whatever
\* imports what.
THEOREM Recursion == Spec => []RecursionBounded
<1>1. Init => Depth
  BY FS_EmptySet DEF Init, Depth
<1>2. ASSUME TypeOK, Shape, Depth, [Next]_vars PROVE Depth'
  <2> USE <1>2
  <2>0. /\ IsFiniteSet(seen) /\ Cardinality(seen) \in Nat
        /\ calls \in Seq(Calls) /\ Len(calls) \in Nat
    BY FS_CardinalityType, LenProperties DEF Depth, TypeOK, Calls
  <2>1. CASE NextService
    <3>1. calls' = <<>> /\ seen' = seen /\ Len(calls') = 0
      BY <2>1 DEF NextService, Shape
    <3> QED
      BY <2>0, <3>1 DEF Depth
  <2>2. CASE Answered
    <3>1. Len(calls') = Len(calls) + 1 /\ calls'[1].imports = {}
      BY <2>2, AnswerPushed
    <3>2. seen' = seen /\ pc = "request" /\ pc' = "process"
      BY <2>2 DEF Answered
    <3> QED
      BY <2>0, <3>1, <3>2 DEF Depth
  <2>3. CASE MarkFile
    <3>1. PICK f \in calls[1].left \ seen :
            seen' = seen \union {f} /\ Len(calls') = Len(calls)
      BY <2>3, FileMarked
    <3>2. IsFiniteSet(seen') /\ Cardinality(seen') = Cardinality(seen) + 1
      BY <2>0, <3>1, FS_AddElement
    <3> QED
      BY <2>0, <3>1, <3>2 DEF Depth
  <2>4. CASE FetchImport
    <3>1. PICK d \in calls[1].imports \ seen : seen' = seen /\ Len(calls') = Len(calls)
      BY <2>4, ImportAsked
    <3>2. Len(calls) <= Cardinality(seen)
      BY <2>4, <3>1 DEF Depth, FetchImport, Shape
    <3> QED
      BY <2>0, <3>1, <3>2 DEF Depth
  <2>5. CASE Processed
    <3>1. Len(calls) \in Nat \ {0} /\ Len(calls') = Len(calls) - 1
      BY <2>5, CallReturned
    <3>2. seen' = seen /\ pc' # "request"
      BY <2>5 DEF Processed
    <3> QED
      BY <2>0, <3>1, <3>2 DEF Depth
  <2>6. CASE OtherStep
    <3>1. seen' = seen /\ calls' = calls /\ (pc' = "request" => pc = "request")
      BY <2>6, FetchedKept
    <3> QED
      BY <2>0, <3>1 DEF Depth
  <2> QED
    BY <2>1, <2>2, <2>3, <2>4, <2>5, <2>6, StepCases
<1>3. Depth => RecursionBounded
  BY DEF Depth, RecursionBounded
<1> QED
  BY <1>1, <1>2, <1>3, Typing, PTL DEF Spec

-----------------------------------------------------------------------------
\* What the steps of the sort do to the stack of visits.
LEMMA RootEntered ==
  ASSUME TypeOK, VisitRoot
  PROVE  \E f \in seen \ visited :
           /\ Len(path') = 1 /\ path'[1].file = f /\ path'[1].imports = imports[f]
           /\ path = <<>> /\ tempMarked' = tempMarked \union {f}
<1>1. PICK f \in seen \ visited : Enter(f, <<>>) /\ path = <<>>
  BY DEF VisitRoot
<1>2. [file |-> f, imports |-> imports[f]] \in Visit
  BY NodesAssumption DEF Visit, TypeOK
<1>3. <<>> \in Seq(Visit) /\ Len(<<>>) = 0
  BY EmptySeq
<1>4. Len(path') = 1 /\ path'[1] = [file |-> f, imports |-> imports[f]]
  BY <1>1, <1>2, <1>3, Pushed DEF Enter
<1> QED
  BY <1>1, <1>4 DEF Enter

LEMMA ImportEntered ==
  ASSUME TypeOK, VisitImport
  PROVE  \E d \in (path[1].imports \intersect seen) \ (tempMarked \union visited) :
           /\ Len(path) \in Nat \ {0} /\ Len(path') = Len(path) + 1
           /\ path'[1].file = d /\ path'[1].imports = imports[d]
           /\ path'[2].file = path[1].file /\ path'[2].imports = path[1].imports \ {d}
           /\ \A i \in 3..Len(path') : i - 1 \in 2..Len(path) /\ path'[i] = path[i - 1]
           /\ tempMarked' = tempMarked \union {d}
<1>1. path \in Seq(Visit) /\ path # <<>> /\ imports \in [Files -> SUBSET Files] /\ seen \in SUBSET Files
  BY NodesAssumption DEF VisitImport, Visit, TypeOK
<1>2. Head(path) \in Visit /\ Head(path) = path[1] /\ Len(path) \in Nat \ {0}
  BY <1>1, Popped
<1>3. PICK d \in (path[1].imports \intersect seen) \ (tempMarked \union visited) :
        Enter(d, <<[path[1] EXCEPT !.imports = @ \ {d}]>> \o Tail(path))
  BY <1>2 DEF VisitImport
<1> DEFINE top == [path[1] EXCEPT !.imports = @ \ {d}]
           new == [file |-> d, imports |-> imports[d]]
           rest == <<top>> \o Tail(path)
<1>4. top \in Visit /\ top.file = path[1].file /\ top.imports = path[1].imports \ {d} /\ new \in Visit
  BY <1>1, <1>2 DEF Visit
<1>5. new.file = d /\ new.imports = imports[d] /\ path' = <<new>> \o rest
  BY <1>3 DEF Enter
<1> HIDE DEF top, new
<1>6. rest \in Seq(Visit) /\ Len(rest) = Len(path) /\ rest[1] = top
      /\ \A i \in 2..Len(path) : rest[i] = path[i]
  BY <1>1, <1>4, Replaced
<1> HIDE DEF rest
<1>7. /\ Len(path') = Len(rest) + 1 /\ path'[1] = new
      /\ \A i \in 1..Len(rest) : path'[i + 1] = rest[i]
  BY <1>4, <1>5, <1>6, Pushed
<1>8. path'[2] = top
  <2>1. 1 \in 1..Len(rest) /\ 1 + 1 = 2
    BY <1>2, <1>6
  <2> QED
    BY <1>6, <1>7, <2>1
<1>9. \A i \in 3..Len(path') : i - 1 \in 2..Len(path) /\ path'[i] = path[i - 1]
  <2> TAKE i \in 3..Len(path')
  <2>1. i - 1 \in 2..Len(path) /\ i - 1 \in 1..Len(rest) /\ (i - 1) + 1 = i
    BY <1>2, <1>6, <1>7
  <2> QED
    BY <1>6, <1>7, <2>1
<1> QED
  BY <1>2, <1>3, <1>4, <1>5, <1>6, <1>7, <1>8, <1>9 DEF Enter

LEMMA VisitLeft ==
  ASSUME TypeOK, Leave
  PROVE  /\ Len(path) \in Nat \ {0} /\ Len(path') = Len(path) - 1
         /\ \A i \in 1..Len(path') : i + 1 \in 2..Len(path) /\ path'[i] = path[i + 1]
         /\ path[1].imports \intersect seen \subseteq visited
         /\ visited' = visited \union {path[1].file}
         /\ tempMarked' = tempMarked \ {path[1].file}
         /\ Len(sortedDescriptors) \in Nat
         /\ Len(sortedDescriptors') = Len(sortedDescriptors) + 1
         /\ sortedDescriptors'[Len(sortedDescriptors) + 1] = path[1].file
         /\ \A i \in 1..Len(sortedDescriptors) : sortedDescriptors'[i] = sortedDescriptors[i]
<1>1. path \in Seq(Visit) /\ path # <<>> /\ sortedDescriptors \in Seq(Files)
  BY DEF Leave, Visit, TypeOK
<1>2. /\ Head(path) \in Visit /\ Head(path) = path[1] /\ Len(path) \in Nat \ {0}
      /\ Len(Tail(path)) = Len(path) - 1
      /\ \A i \in 1..Len(Tail(path)) : Tail(path)[i] = path[i + 1]
  BY <1>1, Popped
<1>3. path' = Tail(path) /\ sortedDescriptors' = Append(sortedDescriptors, path[1].file)
  BY <1>2 DEF Leave
<1>4. \A i \in 1..Len(path') : i + 1 \in 2..Len(path) /\ path'[i] = path[i + 1]
  BY <1>2, <1>3
<1>5. path[1].file \in Files
  BY <1>2 DEF Visit
<1>6. /\ Len(sortedDescriptors) \in Nat /\ Len(sortedDescriptors') = Len(sortedDescriptors) + 1
      /\ sortedDescriptors'[Len(sortedDescriptors) + 1] = path[1].file
      /\ \A i \in 1..Len(sortedDescriptors) : sortedDescriptors'[i] = sortedDescriptors[i]
  BY <1>1, <1>3, <1>5, AppendProperties, LenProperties
<1> QED
  BY <1>2, <1>3, <1>4, <1>6 DEF Leave

\* All other steps leave the sort alone, and the files too unless it has not begun.
SortIdle ==
  /\ UNCHANGED sorting
  /\ \/ seen' = seen
     \/ path = <<>> /\ tempMarked = {} /\ visited = {} /\ sortedDescriptors = <<>>

LEMMA SortCases ==
  ASSUME Shape, [Next]_vars
  PROVE  VisitRoot \/ VisitImport \/ Leave \/ SortIdle
<1>1. CASE UNCHANGED vars
  BY <1>1 DEF vars, SortIdle, sorting, fetching
<1>2. CASE MarkFile
  BY <1>2 DEF MarkFile, SortIdle, Shape
<1>3. CASE Fetch /\ ~MarkFile
  BY <1>3 DEF Fetch, AttemptFails, GiveUp, AnswerUnusable, ServicesListed, NextService, Answered,
      FetchImport, Processed, AllFetched, SortIdle, fetching
<1>4. CASE CircularImport \/ Sorted \/ Register \/ RegisterFails \/ Built
  BY <1>4 DEF CircularImport, Sorted, Register, RegisterFails, Built, SortIdle, fetching
<1> QED
  BY <1>1, <1>2, <1>3, <1>4 DEF Next, Build, Stop

-----------------------------------------------------------------------------
\* The open visits are of different files, each below another imports it, and
\* what a file imports is yet to come, visited, or the visit above.
Behind(i) == IF i = 1 THEN {} ELSE {path[i - 1].file}

Stack ==
  /\ tempMarked = {path[i].file : i \in 1..Len(path)}
  /\ \A i, j \in 1..Len(path) : path[i].file = path[j].file => i = j
  /\ \A i \in 1..Len(path) :
       /\ path[i].imports \subseteq imports[path[i].file]
       /\ imports[path[i].file] \intersect seen \subseteq path[i].imports \union visited \union Behind(i)
  /\ \A i \in 2..Len(path) : path[i - 1].file \in imports[path[i].file]

Order ==
  /\ visited = {sortedDescriptors[i] : i \in 1..Len(sortedDescriptors)}
  /\ visited \intersect tempMarked = {}
  /\ visited \subseteq seen /\ tempMarked \subseteq seen
  /\ ~Promise!Cyclic(visited)

\* No circle goes through a file whose imports are all visited already.
LEMMA NoNewCircle ==
  ASSUME Order, SortedByImports, imports' = imports,
         NEW x, x \notin visited, x \in seen, imports[x] \intersect seen \subseteq visited
  PROVE  ~Promise!Cyclic(visited \union {x})
<1> SUFFICES ASSUME NEW C \in SUBSET (visited \union {x}), C # {},
                    \A f \in C : imports[f] \intersect C # {}
             PROVE  FALSE
  BY DEF Promise!Cyclic
<1>1. C \subseteq seen
  BY DEF Order
<1>2. \A f \in visited : imports[f] \intersect seen \subseteq visited
  <2> TAKE f \in visited
  <2>1. PICK i \in 1..Len(sortedDescriptors) : f = sortedDescriptors[i]
    BY DEF Order
  <2>2. \A j \in 1..(i - 1) : j \in 1..Len(sortedDescriptors)
    BY <2>1
  <2> QED
    BY <2>1, <2>2 DEF Order, SortedByImports
<1>3. \A f \in C : imports[f] \intersect C \subseteq visited
  BY <1>1, <1>2
<1>4. C \intersect visited # {}
  BY <1>3
<1>5. \A f \in C \intersect visited : imports[f] \intersect (C \intersect visited) # {}
  BY <1>3
<1>6. Promise!Cyclic(visited)
  BY <1>4, <1>5 DEF Promise!Cyclic
<1> QED
  BY <1>6 DEF Order

LEMMA VisitsKept == Spec => [](Stack /\ Order /\ SortedByImports)
<1>0. ASSUME path = <<>>, tempMarked = {}, visited = {}, sortedDescriptors = <<>>
      PROVE  Stack /\ Order /\ SortedByImports
  BY <1>0 DEF Stack, Order, SortedByImports, Promise!Cyclic
<1>1. Init => Stack /\ Order /\ SortedByImports
  BY <1>0 DEF Init
<1>2. ASSUME TypeOK, Shape, Stack, Order, SortedByImports, [Next]_vars
      PROVE  Stack' /\ Order' /\ SortedByImports'
  <2> USE <1>2
  <2>0. imports' = imports /\ path \in Seq(Visit) /\ Len(path) \in Nat
    BY NodeFixed, LenProperties DEF TypeOK, Visit
  <2>1. CASE VisitRoot
    <3>1. PICK f \in seen \ visited :
            /\ Len(path') = 1 /\ path'[1].file = f /\ path'[1].imports = imports[f]
            /\ path = <<>> /\ tempMarked' = tempMarked \union {f}
      BY <2>1, RootEntered
    <3>2. UNCHANGED <<visited, sortedDescriptors, seen>>
      BY <2>1 DEF VisitRoot, Enter, fetching
    <3>3. tempMarked = {}
      BY <3>1 DEF Stack
    <3>4. Stack'
      BY <2>0, <3>1, <3>2, <3>3 DEF Stack, Behind
    <3>5. Order'
      BY <2>0, <3>1, <3>2, <3>3 DEF Order, Promise!Cyclic
    <3> QED
      BY <2>0, <3>2, <3>4, <3>5 DEF SortedByImports
  <2>2. CASE VisitImport
    <3>1. PICK d \in (path[1].imports \intersect seen) \ (tempMarked \union visited) :
           /\ Len(path) \in Nat \ {0} /\ Len(path') = Len(path) + 1
           /\ path'[1].file = d /\ path'[1].imports = imports[d]
           /\ path'[2].file = path[1].file /\ path'[2].imports = path[1].imports \ {d}
           /\ \A i \in 3..Len(path') : i - 1 \in 2..Len(path) /\ path'[i] = path[i - 1]
           /\ tempMarked' = tempMarked \union {d}
      BY <2>2, ImportEntered
    <3>2. UNCHANGED <<visited, sortedDescriptors, seen>>
      BY <2>2 DEF VisitImport, Enter, fetching
    <3>3. \A i \in 1..Len(path') : i = 1 \/ i \in 2..Len(path')
      BY <3>1
    <3>4. \A i \in 2..Len(path') : i - 1 \in 1..Len(path) /\ path'[i].file = path[i - 1].file
      <4> TAKE i \in 2..Len(path')
      <4>1. i = 2 \/ i \in 3..Len(path')
        BY <3>1
      <4> QED
        BY <3>1, <4>1
    <3>5. tempMarked' = {path'[i].file : i \in 1..Len(path')}
      <4>1. ASSUME NEW i \in 1..Len(path') PROVE path'[i].file \in tempMarked'
        BY <3>1, <3>3, <3>4 DEF Stack
      <4>2. ASSUME NEW i \in 1..Len(path) PROVE i + 1 \in 1..Len(path') /\ path'[i + 1].file = path[i].file
        <5>1. i + 1 \in 2..Len(path') /\ (i + 1) - 1 = i /\ i + 1 \in 1..Len(path')
          BY <3>1
        <5> QED
          BY <3>4, <5>1
      <4>3. 1 \in 1..Len(path')
        BY <3>1
      <4>4. ASSUME NEW f \in tempMarked' PROVE \E i \in 1..Len(path') : path'[i].file = f
        <5>1. CASE f = d
          BY <3>1, <4>3, <5>1
        <5>2. CASE f \in tempMarked
          <6>1. PICK i \in 1..Len(path) : path[i].file = f
            BY <5>2 DEF Stack
          <6> QED
            BY <4>2, <6>1
        <5> QED
          BY <3>1, <5>1, <5>2
      <4>5. ASSUME NEW f PROVE f \in tempMarked' <=> f \in {path'[i].file : i \in 1..Len(path')}
        BY <4>1, <4>4
      <4> QED
        BY <4>5
    <3>6. \A i, j \in 1..Len(path') : path'[i].file = path'[j].file => i = j
      <4>1. \A i \in 2..Len(path') : path'[i].file # d
        BY <3>1, <3>4 DEF Stack
      <4>2. \A i, j \in 2..Len(path') : path'[i].file = path'[j].file => i - 1 = j - 1
        BY <3>4 DEF Stack
      <4>3. \A i, j \in 2..Len(path') : i - 1 = j - 1 => i = j
        BY <3>1
      <4> QED
        BY <3>1, <3>3, <4>1, <4>2, <4>3
    <3>7. \A i \in 2..Len(path') : path'[i - 1].file \in imports[path'[i].file]
      <4> TAKE i \in 2..Len(path')
      <4>1. CASE i = 2
        <5>1. 1 \in 1..Len(path)
          BY <3>1
        <5>2. d \in imports[path[1].file]
          BY <3>1, <5>1 DEF Stack
        <5>3. i - 1 = 1
          BY <4>1
        <5> QED
          BY <3>1, <4>1, <5>2, <5>3
      <4>2. CASE i # 2
        <5>1. i \in 3..Len(path') /\ i - 1 \in 2..Len(path') /\ i - 1 \in 2..Len(path)
          BY <3>1, <4>2
        <5>2. path'[i].file = path[i - 1].file /\ path'[i - 1].file = path[(i - 1) - 1].file
          BY <3>4, <5>1
        <5> QED
          BY <5>1, <5>2 DEF Stack
      <4> QED
        BY <4>1, <4>2
    <3>8. ASSUME NEW i \in 1..Len(path')
          PROVE /\ path'[i].imports \subseteq imports[path'[i].file]
                /\ imports[path'[i].file] \intersect seen
                     \subseteq path'[i].imports \union visited \union Behind(i)'
      <4>1. CASE i = 1
        BY <3>1, <4>1
      <4>2. CASE i = 2
        <5>1. 1 \in 1..Len(path)
          BY <3>1
        <5>2. /\ path[1].imports \subseteq imports[path[1].file]
              /\ imports[path[1].file] \intersect seen \subseteq path[1].imports \union visited
          BY <5>1 DEF Stack, Behind
        <5>3. Behind(i)' = {d}
          BY <3>1, <4>2 DEF Behind
        <5> QED
          BY <3>1, <4>2, <5>2, <5>3
      <4>3. CASE i \in 3..Len(path')
        <5>1. i - 1 \in 2..Len(path) /\ path'[i] = path[i - 1] /\ i - 1 \in 1..Len(path) /\ i - 1 # 1
          BY <3>1, <4>3
        <5>2. i - 1 \in 2..Len(path')
          BY <3>1, <5>1
        <5>3. Behind(i)' = Behind(i - 1)
          BY <3>4, <4>3, <5>1, <5>2 DEF Behind
        <5> QED
          BY <5>1, <5>3 DEF Stack
      <4> QED
        BY <3>1, <4>1, <4>2, <4>3
    <3>9. Stack'
      BY <2>0, <3>2, <3>5, <3>6, <3>7, <3>8 DEF Stack
    <3>10. Order'
      <4>1. d \in seen /\ d \notin visited /\ tempMarked' = tempMarked \union {d}
        BY <3>1
      <4>2. visited' \intersect tempMarked' = {} /\ visited' \subseteq seen' /\ tempMarked' \subseteq seen'
        BY <3>2, <4>1 DEF Order
      <4>3. ~Promise!Cyclic(visited)'
        BY <2>0, <3>2 DEF Order, Promise!Cyclic
      <4> QED
        BY <3>2, <4>2, <4>3 DEF Order
    <3> QED
      BY <2>0, <3>2, <3>9, <3>10 DEF SortedByImports
  <2>3. CASE Leave
    <3>1. /\ Len(path) \in Nat \ {0} /\ Len(path') = Len(path) - 1
          /\ \A i \in 1..Len(path') : i + 1 \in 2..Len(path) /\ path'[i] = path[i + 1]
          /\ path[1].imports \intersect seen \subseteq visited
          /\ visited' = visited \union {path[1].file}
          /\ tempMarked' = tempMarked \ {path[1].file}
          /\ Len(sortedDescriptors) \in Nat
          /\ Len(sortedDescriptors') = Len(sortedDescriptors) + 1
          /\ sortedDescriptors'[Len(sortedDescriptors) + 1] = path[1].file
          /\ \A i \in 1..Len(sortedDescriptors) : sortedDescriptors'[i] = sortedDescriptors[i]
      BY <2>3, VisitLeft
    <3>2. seen' = seen /\ 1 \in 1..Len(path)
      BY <2>3, <3>1 DEF Leave, fetching
    <3>3. /\ path[1].file \in tempMarked
          /\ imports[path[1].file] \intersect seen \subseteq visited
      BY <3>1, <3>2 DEF Stack, Behind
    <3>4. \A i \in 1..Len(path') : i + 1 \in 1..Len(path) /\ i + 1 # 1 /\ (i + 1) - 1 = i
      BY <3>1
    <3>5. tempMarked' = {path'[i].file : i \in 1..Len(path')}
      <4>1. ASSUME NEW i \in 1..Len(path') PROVE path'[i].file \in tempMarked'
        <5>1. i + 1 \in 1..Len(path) /\ i + 1 # 1 /\ path'[i] = path[i + 1]
          BY <3>1, <3>4
        <5>2. path[i + 1].file # path[1].file /\ path[i + 1].file \in tempMarked
          BY <3>2, <5>1 DEF Stack
        <5> QED
          BY <3>1, <5>1, <5>2
      <4>2. ASSUME NEW f \in tempMarked' PROVE \E i \in 1..Len(path') : path'[i].file = f
        <5>1. PICK i \in 1..Len(path) : f = path[i].file /\ i # 1
          BY <3>1 DEF Stack
        <5>2. i - 1 \in 1..Len(path') /\ (i - 1) + 1 = i
          BY <3>1, <5>1
        <5>3. path'[i - 1] = path[i]
          BY <3>1, <5>2
        <5> QED
          BY <5>1, <5>2, <5>3
      <4> QED
        BY <4>1, <4>2
    <3>6. \A i, j \in 1..Len(path') : path'[i].file = path'[j].file => i = j
      <4>1. \A i, j \in 1..Len(path') : path'[i].file = path'[j].file => i + 1 = j + 1
        <5> TAKE i, j \in 1..Len(path')
        <5>1. i + 1 \in 1..Len(path) /\ j + 1 \in 1..Len(path)
          BY <3>1
        <5>2. path'[i] = path[i + 1] /\ path'[j] = path[j + 1]
          BY <3>1
        <5> QED
          BY <5>1, <5>2 DEF Stack
      <4> QED
        BY <3>1, <4>1
    <3>7. \A i \in 2..Len(path') : path'[i - 1].file \in imports[path'[i].file]
      <4> TAKE i \in 2..Len(path')
      <4>1. i \in 1..Len(path') /\ i - 1 \in 1..Len(path') /\ (i - 1) + 1 = i /\ (i + 1) - 1 = i
        BY <3>1
      <4>2. path'[i] = path[i + 1] /\ path'[i - 1] = path[i] /\ i + 1 \in 2..Len(path)
        BY <3>1, <4>1
      <4> QED
        BY <4>1, <4>2 DEF Stack
    <3>8. ASSUME NEW i \in 1..Len(path')
          PROVE /\ path'[i].imports \subseteq imports[path'[i].file]
                /\ imports[path'[i].file] \intersect seen
                     \subseteq path'[i].imports \union visited' \union Behind(i)'
      <4>1. path'[i] = path[i + 1] /\ i + 1 \in 1..Len(path) /\ i + 1 # 1 /\ (i + 1) - 1 = i
        BY <3>1, <3>4
      <4>2. /\ path[i + 1].imports \subseteq imports[path[i + 1].file]
            /\ imports[path[i + 1].file] \intersect seen
                 \subseteq path[i + 1].imports \union visited \union {path[i].file}
        BY <4>1 DEF Stack, Behind
      <4>3. CASE i = 1
        BY <3>1, <4>1, <4>2, <4>3
      <4>4. CASE i # 1
        <5>1. i - 1 \in 1..Len(path') /\ (i - 1) + 1 = i
          BY <3>1, <4>4
        <5>2. Behind(i)' = {path[i].file}
          BY <3>1, <4>4, <5>1 DEF Behind
        <5> QED
          BY <3>1, <4>1, <4>2, <5>2
      <4> QED
        BY <4>3, <4>4
    <3>9. Stack'
      BY <2>0, <3>2, <3>5, <3>6, <3>7, <3>8 DEF Stack
    <3>10. visited' = {sortedDescriptors'[i] : i \in 1..Len(sortedDescriptors')}
      <4>1. \A i \in 1..Len(sortedDescriptors') :
              i \in 1..Len(sortedDescriptors) \/ i = Len(sortedDescriptors) + 1
        BY <3>1
      <4>2. /\ Len(sortedDescriptors) + 1 \in 1..Len(sortedDescriptors')
            /\ \A i \in 1..Len(sortedDescriptors) : i \in 1..Len(sortedDescriptors')
        BY <3>1
      <4> QED
        BY <3>1, <4>1, <4>2 DEF Order
    <3>11. Order'
      <4>1. ~Promise!Cyclic(visited \union {path[1].file})
        BY <2>0, <3>3, NoNewCircle DEF Order
      <4>2. ~Promise!Cyclic(visited)'
        BY <2>0, <3>1, <4>1 DEF Promise!Cyclic
      <4>3. visited' \subseteq seen' /\ tempMarked' \subseteq seen' /\ visited' \intersect tempMarked' = {}
        BY <3>1, <3>2, <3>3 DEF Order
      <4> QED
        BY <3>10, <4>2, <4>3 DEF Order
    <3>12. SortedByImports'
      <4> SUFFICES ASSUME NEW i \in 1..Len(sortedDescriptors')
                   PROVE imports[sortedDescriptors'[i]] \intersect seen
                           \subseteq {sortedDescriptors'[j] : j \in 1..(i - 1)}
        BY <2>0, <3>2 DEF SortedByImports
      <4>1. CASE i = Len(sortedDescriptors) + 1
        <5>1. i - 1 = Len(sortedDescriptors)
          BY <3>1, <4>1
        <5>2. visited = {sortedDescriptors'[j] : j \in 1..Len(sortedDescriptors)}
          BY <3>1 DEF Order
        <5> QED
          BY <3>1, <3>3, <4>1, <5>1, <5>2
      <4>2. CASE i # Len(sortedDescriptors) + 1
        <5>1. i \in 1..Len(sortedDescriptors)
              /\ \A j \in 1..(i - 1) : j \in 1..Len(sortedDescriptors)
          BY <3>1, <4>2
        <5>2. imports[sortedDescriptors[i]] \intersect seen \subseteq {sortedDescriptors[j] : j \in 1..(i - 1)}
          BY <5>1 DEF SortedByImports
        <5> QED
          BY <3>1, <5>1, <5>2
      <4> QED
        BY <4>1, <4>2
    <3> QED
      BY <3>9, <3>11, <3>12
  <2>4. CASE SortIdle
    <3>1. UNCHANGED <<path, tempMarked, visited, sortedDescriptors>>
      BY <2>4 DEF SortIdle, sorting
    <3>2. CASE seen' = seen
      BY <2>0, <3>1, <3>2 DEF Stack, Behind, Order, SortedByImports, Promise!Cyclic
    <3>3. CASE path = <<>> /\ tempMarked = {} /\ visited = {} /\ sortedDescriptors = <<>>
      BY <3>1, <3>3 DEF Stack, Order, SortedByImports, Promise!Cyclic
    <3> QED
      BY <2>4, <3>2, <3>3 DEF SortIdle
  <2> QED
    BY <2>1, <2>2, <2>3, <2>4, SortCases
<1> QED
  BY <1>1, <1>2, Typing, PTL DEF Spec

\* Each file that the sort puts out comes after all files that it imports.
THEOREM Sorting == Spec => []SortedByImports
  BY VisitsKept, PTL

-----------------------------------------------------------------------------
\* What is registered has its imports among the files, and is not refused.
Closing == \A i \in 1..built : imports[sortedDescriptors[i]] \subseteq seen /\ sortedDescriptors[i] \notin Invalid

LEMMA RegisteredSeen ==
  ASSUME TypeOK, Order
  PROVE  Registered \subseteq seen
<1>1. \A i \in 1..built : i \in 1..Len(sortedDescriptors)
  BY LenProperties DEF TypeOK
<1> QED
  BY <1>1 DEF Order, Registered

LEMMA RegistryCloses == Spec => []Closing
<1>1. Init => Closing
  BY DEF Init, Closing
<1>2. ASSUME TypeOK, Shape, Order, Closing, [Next]_vars PROVE Closing'
  <2> USE <1>2
  <2>0. imports' = imports
    BY NodeFixed
  <2>1. CASE Register
    <3>1. /\ built' = built + 1 /\ built \in Nat
          /\ UNCHANGED <<seen, sortedDescriptors>>
      BY <2>1, LenProperties DEF Register, TypeOK, fetching, sorting
    <3>2. /\ imports[sortedDescriptors[built + 1]] \subseteq seen
          /\ sortedDescriptors[built + 1] \notin Invalid
      BY <2>1, RegisteredSeen DEF Register, Accepted, NextDescriptor
    <3>3. \A i \in 1..built' : i \in 1..built \/ i = built + 1
      BY <3>1
    <3> QED
      BY <2>0, <3>1, <3>2, <3>3 DEF Closing
  <2>2. CASE pc \in {"list", "services", "request", "process", "sort"} /\ ~Register
    <3>1. built = 0
      BY <2>2 DEF Shape
    <3>2. built' = built
      BY <2>2 DEF Next, Fetch, Build, Stop, AttemptFails, GiveUp, AnswerUnusable, ServicesListed,
         NextService, Answered, MarkFile, FetchImport, Processed, AllFetched, VisitRoot, VisitImport,
         Enter, CircularImport, Leave, Sorted, RegisterFails, Built, vars
    <3> QED
      BY <3>1, <3>2 DEF Closing
  <2>3. CASE pc \in {"register", "ready", "failed"} /\ ~Register
    <3>1. UNCHANGED <<seen, sortedDescriptors, built>>
      BY <2>3 DEF Next, Fetch, Build, Stop, AttemptFails, GiveUp, AnswerUnusable, ServicesListed,
         NextService, Answered, MarkFile, FetchImport, Processed, AllFetched, VisitRoot, VisitImport,
         Enter, CircularImport, Leave, Sorted, RegisterFails, Built, vars, fetching, sorting, Requesting
    <3> QED
      BY <2>0, <3>1 DEF Closing
  <2> QED
    BY <2>1, <2>2, <2>3 DEF TypeOK
<1> QED
  BY <1>1, <1>2, Typing, VisitsKept, PTL DEF Spec

-----------------------------------------------------------------------------
Invariants ==
  TypeOK /\ Shape /\ Within /\ RootsMet /\ ImportsMet /\ Stack /\ Order /\ SortedByImports /\ Closing

\* The registry that is handed on is what the services need, no more and no less.
LEMMA RegistryWhole ==
  ASSUME Invariants, pc \in {"register", "ready"}, built = Len(sortedDescriptors)
  PROVE  seen = Needed /\ ~Promise!Cyclic(seen) /\ seen \intersect Invalid = {}
<1> USE DEF Invariants
<1>1. seen = visited /\ \A f \in seen : imports[f] \subseteq seen /\ f \notin Invalid
  BY DEF Shape, Order, Closing
<1>2. Roots \subseteq seen
  <2> SUFFICES ASSUME NEW s \in Services PROVE FileOf[s] \in seen
    BY DEF Roots
  <2>1. calls = <<>> /\ listed = {}
    BY DEF Shape
  <2> QED
    BY <2>1, EmptySeq DEF RootsMet, Met
<1>3. Needed \subseteq seen
  BY <1>1, <1>2, NeededLeast DEF TypeOK
<1> QED
  BY <1>1, <1>3 DEF Within, Order

\* A circle is reported only if there is one: the files of the open visits.
LEMMA CircleFound ==
  ASSUME Invariants, CircularImport
  PROVE  Promise!Cyclic(Needed)
<1> USE DEF Invariants
<1> DEFINE C == {path[i].file : i \in 1..Len(path)}
<1>1. path \in Seq(Visit) /\ path # <<>> /\ Len(path) \in Nat \ {0} /\ Head(path) = path[1]
  BY Popped DEF CircularImport, TypeOK, Visit
<1>2. 1 \in 1..Len(path)
  BY <1>1
<1>3. C \subseteq Needed /\ path[1].file \in C
  BY <1>2 DEF Stack, Order, Within
<1>4. imports[path[1].file] \intersect C # {}
  BY <1>1, <1>2 DEF CircularImport, Stack
<1>5. ASSUME NEW i \in 2..Len(path) PROVE imports[path[i].file] \intersect C # {}
  <2>1. i - 1 \in 1..Len(path) /\ path[i - 1].file \in imports[path[i].file]
    BY <1>1 DEF Stack
  <2> QED
    BY <2>1
<1>6. \A i \in 1..Len(path) : i = 1 \/ i \in 2..Len(path)
  BY <1>1
<1>7. \A g \in C : imports[g] \intersect C # {}
  BY <1>4, <1>5, <1>6
<1> HIDE DEF C
<1> QED
  BY <1>3, <1>7 DEF Promise!Cyclic

\* A file is refused because it is invalid, or because the node left out one
\* that it imports; never because of the order.
LEMMA RefusedForReason ==
  ASSUME Invariants, RegisterFails
  PROVE  Needed \intersect Invalid # {} \/ lacking
<1> USE DEF Invariants
<1> DEFINE f == NextDescriptor
<1>1. built + 1 \in 1..Len(sortedDescriptors) /\ built \in Nat /\ (built + 1) - 1 = built
  BY LenProperties DEF RegisterFails, TypeOK
<1>2. f \in seen /\ f \in Needed
  BY <1>1 DEF NextDescriptor, Order, Within
<1>3. imports[f] \intersect seen \subseteq Registered
  BY <1>1 DEF NextDescriptor, SortedByImports, Registered
<1>4. ~lacking => imports[f] \subseteq seen
  BY <1>2, EmptySeq DEF ImportsMet, Waits, RegisterFails, Shape
<1>5. f \in Invalid \/ ~(imports[f] \subseteq Registered)
  BY DEF RegisterFails, Accepted
<1> QED
  BY <1>2, <1>3, <1>4, <1>5

-----------------------------------------------------------------------------
\* The startup implements what NewGRPCClient promises: the registry with exactly
\* the files that the listed services need, or an error that has a reason.
THEOREM Implements == Spec => AllOrNothing
<1>1. Init => Promise!Init
  <2> SUFFICES ASSUME Init PROVE Promise!Init
    OBVIOUS
  <2>1. (lacking \/ attempt > MaxAttempts) = FALSE
    BY AttemptsAssumption DEF Init
  <2> QED
    BY <2>1 DEF Init, Promise!Init
<1>2. ASSUME Invariants, [Next]_vars PROVE [Promise!Next]_Promise!vars
  <2> USE <1>2 DEF Invariants
  <2>0. imports' = imports /\ Needed = Promise!Needed
    BY NodeFixed DEF Needed
  <2>1. CASE AttemptFails
    <3>1. attempt > MaxAttempts => FALSE
      BY <2>1, AttemptsAssumption DEF AttemptFails, TypeOK
    <3>2. \/ (lacking' \/ attempt' > MaxAttempts) = TRUE
          \/ (lacking' \/ attempt' > MaxAttempts) = (lacking \/ attempt > MaxAttempts)
      <4>1. lacking' = lacking
        BY <2>1 DEF AttemptFails
      <4> QED
        BY <4>1, <3>1 DEF TypeOK
    <3> QED
      BY <2>1, <3>2 DEF AttemptFails, Requesting, Promise!Next, Promise!NodeFails, Promise!vars
  <2>2. CASE Answered
    <3>1. (attempt > MaxAttempts) = FALSE /\ (attempt' > MaxAttempts) = FALSE
      BY <2>2, AttemptsAssumption DEF Answered, TypeOK
    <3>2. lacking' = TRUE \/ lacking' = lacking
      BY <2>2 DEF Answered, TypeOK
    <3>3. \/ (lacking' \/ attempt' > MaxAttempts) = TRUE
          \/ (lacking' \/ attempt' > MaxAttempts) = (lacking \/ attempt > MaxAttempts)
      BY <3>1, <3>2
    <3> QED
      BY <2>2, <3>3 DEF Answered, Promise!Next, Promise!NodeFails, Promise!vars
  <2>3. CASE ServicesListed
    <3>1. (attempt > MaxAttempts) = FALSE /\ (attempt' > MaxAttempts) = FALSE /\ lacking' = lacking
      BY <2>3, AttemptsAssumption DEF ServicesListed, TypeOK
    <3>2. (lacking' \/ attempt' > MaxAttempts) = (lacking \/ attempt > MaxAttempts)
      BY <3>1
    <3> QED
      BY <2>3, <3>2 DEF ServicesListed, Promise!vars
  <2>4. CASE NextService \/ MarkFile \/ FetchImport \/ Processed \/ AllFetched
             \/ VisitRoot \/ VisitImport \/ Leave \/ Sorted \/ Register
    <3>1. lacking' = lacking /\ attempt' = attempt /\ pc \notin Ended /\ pc' \notin Ended
      BY <2>4 DEF NextService, MarkFile, FetchImport, Processed, AllFetched, VisitRoot, VisitImport,
         Enter, Leave, Sorted, Register, fetching, Ended
    <3> QED
      BY <2>0, <3>1 DEF Promise!vars, Ended
  <2>5. CASE GiveUp \/ AnswerUnusable \/ CircularImport \/ RegisterFails
    <3>1. pc \notin Ended /\ pc' = "failed"
      BY <2>5 DEF GiveUp, AnswerUnusable, CircularImport, RegisterFails, Requesting, Ended
    <3>2. \/ (lacking' \/ attempt' > MaxAttempts) = TRUE
          \/ (lacking' \/ attempt' > MaxAttempts) = (lacking \/ attempt > MaxAttempts)
      <4>1. lacking' = TRUE \/ (lacking' = lacking /\ attempt' = attempt)
        BY <2>5 DEF GiveUp, AnswerUnusable, CircularImport, RegisterFails, fetching
      <4> QED
        BY <4>1
    <3>3. (lacking' \/ attempt' > MaxAttempts) \/ Promise!Cyclic(Needed) \/ Needed \intersect Invalid # {}
      <4>1. CASE GiveUp
        BY <4>1 DEF GiveUp, fetching
      <4>2. CASE AnswerUnusable
        BY <4>2 DEF AnswerUnusable
      <4>3. CASE CircularImport
        BY <4>3, CircleFound
      <4>4. CASE RegisterFails
        BY <4>4, RefusedForReason DEF RegisterFails, fetching
      <4> QED
        BY <2>5, <4>1, <4>2, <4>3, <4>4
    <3>4. Promise!Fail
      BY <2>0, <3>1, <3>2, <3>3 DEF Promise!Fail, Ended
    <3> QED
      BY <3>4 DEF Promise!Next
  <2>6. CASE Built
    <3>1. seen = Needed /\ ~Promise!Cyclic(seen) /\ seen \intersect Invalid = {}
      BY <2>6, RegistryWhole DEF Built
    <3>2. pc = "register" /\ pc' = "ready" /\ seen' = seen /\ lacking' = lacking /\ attempt' = attempt
      BY <2>6 DEF Built, fetching
    <3>3. Promise!Ready
      BY <2>0, <3>1, <3>2 DEF Promise!Ready
    <3> QED
      BY <3>3 DEF Promise!Next
  <2>7. CASE UNCHANGED vars
    BY <2>7 DEF vars, fetching, Promise!vars
  <2> QED
    BY <2>1, <2>2, <2>3, <2>4, <2>5, <2>6, <2>7 DEF Next, Fetch, Build, Stop
<1>3. Spec => []Invariants
  BY Typing, StaysWithin, NoServiceLost, NoImportLost, VisitsKept, RegistryCloses, PTL DEF Invariants
<1> QED
  BY <1>1, <1>2, <1>3, PTL DEF Spec, AllOrNothing, Promise!Spec

\* What the resolver starts with: a registry that is closed under imports and
\* holds the file of every service.
RegistryOfServices == pc = "ready" => Roots \subseteq seen /\ \A f \in seen : imports[f] \subseteq seen

THEOREM ReadyForResolver == Spec => []RegistryOfServices
<1>1. Spec => []Invariants
  BY Typing, StaysWithin, NoServiceLost, NoImportLost, VisitsKept, RegistryCloses, PTL DEF Invariants
<1>2. Invariants => RegistryOfServices
  BY RegistryWhole, NeededClosed DEF Invariants, RegistryOfServices, Shape
<1> QED
  BY <1>1, <1>2, PTL
=============================================================================
