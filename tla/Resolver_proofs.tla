----------------------------- MODULE Resolver_proofs -----------------------------
(***************************************************************************)
(* Proofs about CustomResolver, for any number of goroutines, any files    *)
(* and imports and whatever the node answers.                              *)
(*                                                                         *)
(* Shape says what the frames of a goroutine look like at each place of    *)
(* the recursion; typing rests on it, and the order of registration and    *)
(* the lock on both.  Descent adds that the calls of a goroutine go deeper *)
(* and deeper into the imports, which come to an end where the imports     *)
(* form no circle.                                                         *)
(***************************************************************************)
EXTENDS Resolver, FiniteSets, SequenceTheorems, FiniteSetTheorems, TLAPS

Pcs == Ended \union Fetching \union {"find", "readSeen", "mark", "again"}

\* What processFileDescriptors is called with.
Answer == Seq(Files) \ {<<>>}

\* An open call has a file left, but the innermost between two of its files.
Shaped(p, frames) ==
  /\ p \notin Fetching => frames = <<>>
  /\ p \in Fetching \ {"request"} => frames # <<>>
  /\ p # "check" => frames \in Seq(Answer)
  /\ p = "check" => Head(frames) \in Seq(Files) /\ Tail(frames) \in Seq(Answer)
                    /\ frames \in Seq(Seq(Files))

Shape == \A g \in Goroutines : Shaped(pc[g], stack[g])

Step(g) == Lookup(g) \/ Resolve(g)

-----------------------------------------------------------------------------
\* The call of a frame that is pushed is the innermost.
LEMMA PushFrame ==
  ASSUME NEW S, NEW a \in S, NEW s \in Seq(S)
  PROVE  /\ <<a>> \o s \in Seq(S) /\ <<a>> \o s # <<>>
         /\ Head(<<a>> \o s) = a /\ Tail(<<a>> \o s) = s
<1>1. <<a>> \in Seq(S) /\ Len(<<a>>) = 1
  OBVIOUS
<1>2. /\ <<a>> \o s \in Seq(S) /\ Len(<<a>> \o s) = 1 + Len(s)
      /\ \A i \in 1..(1 + Len(s)) : (<<a>> \o s)[i] = IF i <= 1 THEN <<a>>[i] ELSE s[i - 1]
  BY <1>1, ConcatProperties
<1>3. <<a>> \o s # <<>>
  BY <1>2, LenProperties, EmptySeq
<1>4. Head(<<a>> \o s) = a
  BY <1>2, <1>3, LenProperties
<1>5. /\ Tail(<<a>> \o s) \in Seq(S) /\ Len(Tail(<<a>> \o s)) = Len(s)
      /\ \A i \in 1..Len(s) : Tail(<<a>> \o s)[i] = (<<a>> \o s)[i + 1]
  BY <1>2, <1>3, HeadTailProperties, LenProperties
<1>6. \A i \in 1..Len(s) : Tail(<<a>> \o s)[i] = s[i]
  BY <1>2, <1>5, LenProperties
<1>7. Tail(<<a>> \o s) = s
  BY <1>5, <1>6, SeqEqual
<1> QED
  BY <1>2, <1>3, <1>4, <1>7

\* A sequence that is not empty is its head before its tail.
LEMMA Rebuild ==
  ASSUME NEW S, NEW s \in Seq(S), s # <<>>
  PROVE  s = <<Head(s)>> \o Tail(s)
<1>1. Head(s) \in S /\ Tail(s) \in Seq(S) /\ Len(Tail(s)) = Len(s) - 1
      /\ \A i \in 1..Len(Tail(s)) : Tail(s)[i] = s[i + 1]
  BY HeadTailProperties
<1>2. <<Head(s)>> \in Seq(S) /\ Len(<<Head(s)>>) = 1
  BY <1>1
<1>3. /\ <<Head(s)>> \o Tail(s) \in Seq(S) /\ Len(<<Head(s)>> \o Tail(s)) = 1 + Len(Tail(s))
      /\ \A i \in 1..(1 + Len(Tail(s))) :
           (<<Head(s)>> \o Tail(s))[i] = IF i <= 1 THEN <<Head(s)>>[i] ELSE Tail(s)[i - 1]
  BY <1>1, <1>2, ConcatProperties
<1>4. \A i \in 1..Len(s) : (<<Head(s)>> \o Tail(s))[i] = s[i]
  BY <1>1, <1>3, LenProperties
<1> QED
  BY <1>1, <1>3, <1>4, SeqEqual, LenProperties

-----------------------------------------------------------------------------
\* A step of a goroutine is a step of its own lookup and of no other.
LEMMA OwnStep ==
  ASSUME TypeOK, NEW g \in Goroutines, Step(g)
  PROVE  /\ pc' \in [Goroutines -> Pcs] /\ \A h \in Goroutines \ {g} : pc'[h] = pc[h]
         /\ \A h \in Goroutines \ {g} : stack'[h] = stack[h]
         /\ DOMAIN stack' = Goroutines
<1> USE DEF Step, Resolve, Lookup, Find, ReadSeen, Mark, FindAgain, Answered, RequestFails, Lock,
            Check, SkipRegistered, Processed, FetchDependency, DependenciesDone, Relock,
            RelockToFail, Register, Conflict, Unwind, Goto, TypeOK
<1>1. pc' \in [Goroutines -> Pcs]
  BY DEF Pcs, Ended, Fetching
<1>2. \A h \in Goroutines \ {g} : pc'[h] = pc[h]
  OBVIOUS
<1>3. DOMAIN stack' = Goroutines /\ \A h \in Goroutines \ {g} : stack'[h] = stack[h]
  OBVIOUS
<1> QED
  BY <1>1, <1>2, <1>3

\* Every variable keeps its type and the frames of every goroutine their shape:
\* the recursion never looks for a file in a frame that has none left.
THEOREM Typing == Spec => [](TypeOK /\ Shape)
<1>1. Init => TypeOK /\ Shape
  <2> SUFFICES ASSUME Init PROVE TypeOK /\ Shape
    OBVIOUS
  <2>1. (CHOOSE s \in Symbols : TRUE) \in Symbols
    BY SymbolsAssumption
  <2>2. by \in [Files -> Goroutines \union {"startup", NoOne}]
    BY DEF Init
  <2>3. <<>> \in Seq(Seq(Files)) /\ <<>> \in Seq(Answer)
    OBVIOUS
  <2>4. stack \in [Goroutines -> Seq(Seq(Files))]
    BY <2>3 DEF Init
  <2>5. pc \in [Goroutines -> Pcs] /\ \A g \in Goroutines : pc[g] = "idle" /\ stack[g] = <<>>
    BY DEF Init, Pcs, Ended
  <2>6. sym \in [Goroutines -> Symbols] /\ want \in [Goroutines -> Files]
    BY <2>1, SymbolsAssumption DEF Init
  <2>7. TypeOK
    BY <2>2, <2>4, <2>5, <2>6 DEF Init, TypeOK, Pcs
  <2>8. Shape
    BY <2>3, <2>5 DEF Shape, Shaped, Fetching
  <2> QED
    BY <2>7, <2>8
<1>2. ASSUME TypeOK, Shape, NEW g \in Goroutines, Step(g) PROVE TypeOK' /\ Shape'
  <2>1. \A p \in Pcs : \A fr : Shaped(p, fr) => fr \in Seq(Seq(Files))
    BY SeqMonotonic DEF Shaped, Answer
  <2>2. Shaped(pc[g], stack[g]) /\ pc[g] \in Pcs
    BY <1>2 DEF Shape, TypeOK, Pcs
  <2>3. Shaped(pc'[g], stack'[g])
    <3> USE <1>2, <2>2 DEF TypeOK, Goto
    <3>1. CASE Lookup(g) \/ Find(g) \/ ReadSeen(g) \/ Mark(g) \/ FindAgain(g)
      BY <3>1 DEF Lookup, Find, ReadSeen, Mark, FindAgain, Shaped, Fetching, Ended
    <3>2. CASE Answered(g)
      <4>1. PICK a \in Answers[want[g]] : stack' = [stack EXCEPT ![g] = <<a>> \o @]
        BY <3>2 DEF Answered
      <4>2. a \in Answer
        BY <4>1, AnswersAssumption DEF Answer
      <4>3. stack[g] \in Seq(Answer)
        BY <3>2 DEF Answered, Shaped
      <4>4. stack'[g] = <<a>> \o stack[g] /\ pc'[g] = "lock"
        BY <3>2, <4>1 DEF Answered
      <4> QED
        BY <4>2, <4>3, <4>4, PushFrame DEF Shaped, Fetching
    <3>3. ASSUME NEW fr \in Seq(Answer), Unwind(g, fr) PROVE Shaped(pc'[g], stack'[g])
      BY <3>3 DEF Unwind, Shaped, Fetching
    <3>4. CASE RequestFails(g)
      BY <3>3, <3>4 DEF RequestFails, Shaped
    <3>5. stack[g] \in Seq(Answer) /\ stack[g] # <<>> =>
            /\ Head(stack[g]) \in Answer /\ Tail(stack[g]) \in Seq(Answer)
      BY HeadTailProperties
    <3>6. CASE RelockToFail(g) \/ Conflict(g)
      BY <3>3, <3>5, <3>6 DEF RelockToFail, Conflict, Shaped, Fetching
    <3>7. CASE Lock(g)
      BY <3>5, <3>7, SeqMonotonic DEF Lock, Shaped, Fetching, Answer
    <3>8. CASE Check(g)
      <4>1. pc[g] = "check" /\ pc'[g] = "deps" /\ stack'[g] = stack[g] /\ Head(stack[g]) \in Answer
        BY <3>8 DEF Check, Shaped, Answer
      <4>2. stack[g] \in Seq(Seq(Files)) /\ stack[g] # <<>> /\ Tail(stack[g]) \in Seq(Answer)
        BY <4>1 DEF Shaped, Fetching
      <4>3. stack[g] = <<Head(stack[g])>> \o Tail(stack[g])
        BY <4>2, Rebuild
      <4>4. stack[g] \in Seq(Answer)
        BY <4>1, <4>2, <4>3, PushFrame
      <4> QED
        BY <4>1, <4>2, <4>4 DEF Shaped, Fetching
    <3>9. ASSUME Head(stack[g]) \in Answer, Tail(stack[g]) \in Seq(Answer),
                 stack'[g] = NextFile(stack[g]), pc'[g] = "check"
          PROVE  Shaped(pc'[g], stack'[g])
      <4> DEFINE left == Tail(Head(stack[g]))
                 outer == Tail(stack[g])
      <4>1. left \in Seq(Files)
        BY <3>9, HeadTailProperties DEF Answer
      <4>2. outer \in Seq(Seq(Files)) /\ outer \in Seq(Answer)
        BY <3>9, SeqMonotonic DEF Answer
      <4>3. stack'[g] = <<left>> \o outer
        BY <3>9 DEF NextFile
      <4> HIDE DEF left, outer
      <4>4. /\ stack'[g] \in Seq(Seq(Files)) /\ stack'[g] # <<>>
            /\ Head(stack'[g]) = left /\ Tail(stack'[g]) = outer
        BY <4>1, <4>2, <4>3, PushFrame
      <4> QED
        BY <3>9, <4>1, <4>2, <4>4 DEF Shaped, Fetching
    <3>10. CASE SkipRegistered(g)
      BY <3>9, <3>10 DEF SkipRegistered, Shaped, Answer
    <3>11. CASE Register(g)
      <4>1. stack[g] \in Seq(Answer) /\ stack[g] # <<>>
        BY <3>11 DEF Register, Shaped, Fetching
      <4> QED
        BY <3>5, <3>9, <3>11, <4>1 DEF Register
    <3>12. CASE Processed(g)
      BY <3>12 DEF Processed, Shaped, Fetching
    <3>13. CASE FetchDependency(g) \/ DependenciesDone(g) \/ Relock(g)
      BY <3>13 DEF FetchDependency, DependenciesDone, Relock, Shaped, Fetching
    <3> QED
      BY <3>1, <3>2, <3>4, <3>6, <3>7, <3>8, <3>10, <3>11, <3>12, <3>13 DEF Step, Resolve
  <2>4. Shape'
    <3> SUFFICES ASSUME NEW h \in Goroutines PROVE Shaped(pc'[h], stack'[h])
      BY DEF Shape
    <3> QED
      BY <1>2, <2>3, OwnStep DEF Shape
  <2>5. stack' \in [Goroutines -> Seq(Seq(Files))] /\ pc' \in [Goroutines -> Pcs]
    <3>1. \A h \in Goroutines : stack'[h] \in Seq(Seq(Files))
      BY <1>2, <2>1, <2>3, OwnStep DEF TypeOK
    <3>2. stack' = [h \in Goroutines |-> stack'[h]]
      BY <1>2 DEF Step, Resolve, Lookup, Find, ReadSeen, Mark, FindAgain, Answered, RequestFails,
        Lock, Check, SkipRegistered, Processed, FetchDependency, DependenciesDone, Relock,
        RelockToFail, Register, Conflict, Unwind, TypeOK
    <3> QED
      BY <1>2, <3>1, <3>2, OwnStep
  <2>6. want' \in [Goroutines -> Files] /\ sym' \in [Goroutines -> Symbols]
    <3>1. CASE FetchDependency(g)
      <4>1. stack[g] \in Seq(Answer) /\ stack[g] # <<>>
        BY <2>2, <3>1 DEF FetchDependency, Goto, Shaped, Fetching
      <4>2. Current(g) \in Files
        BY <4>1, HeadTailProperties DEF Current, Answer
      <4> QED
        BY <1>2, <3>1, <4>2, DepsAssumption DEF FetchDependency, TypeOK
    <3>2. CASE Lookup(g)
      <4>1. PICK s \in Wants[g] : sym' = [sym EXCEPT ![g] = s]
        BY <3>2 DEF Lookup
      <4>2. s \in Symbols
        BY <4>1, WantsAssumption
      <4> QED
        BY <1>2, <3>2, <4>1, <4>2 DEF Lookup, TypeOK
    <3>3. CASE Mark(g)
      <4>1. FileOf[sym[g]] \in Files
        BY <1>2, SymbolsAssumption DEF TypeOK
      <4> QED
        BY <1>2, <3>3, <4>1 DEF Mark, TypeOK
    <3>4. CASE UNCHANGED <<want, sym>>
      BY <1>2, <3>4 DEF TypeOK
    <3> QED
      BY <1>2, <3>1, <3>2, <3>3, <3>4
         DEF Step, Resolve, Find, ReadSeen, FindAgain, Answered, RequestFails, Lock, Check,
             SkipRegistered, Processed, DependenciesDone, Relock, RelockToFail, Register, Conflict
  <2>7. /\ by' \in [Files -> Goroutines \union {"startup", NoOne}]
        /\ seen' \in SUBSET Symbols /\ lost' \in SUBSET Symbols
        /\ mu' \in Goroutines \union {NoOne}
        /\ err' \in [Goroutines -> {"none", "request", "conflict"}]
    <3> USE <1>2 DEF Step, Resolve, Lookup, Find, ReadSeen, Mark, FindAgain, Answered,
          RequestFails, Lock, Check, SkipRegistered, Processed, FetchDependency,
          DependenciesDone, Relock, RelockToFail, Register, Conflict, Unwind, TypeOK
    <3>1. by' \in [Files -> Goroutines \union {"startup", NoOne}]
      OBVIOUS
    <3>2. seen' \in SUBSET Symbols
      OBVIOUS
    <3>3. lost' \in SUBSET Symbols
      OBVIOUS
    <3>4. mu' \in Goroutines \union {NoOne}
      OBVIOUS
    <3>5. err' \in [Goroutines -> {"none", "request", "conflict"}]
      OBVIOUS
    <3> QED
      BY <3>1, <3>2, <3>3, <3>4, <3>5
  <2>8. \A h \in Goroutines : pc'[h] \notin Fetching => stack'[h] = <<>>
    BY <2>4 DEF Shape, Shaped
  <2> QED
    BY <2>4, <2>5, <2>6, <2>7, <2>8 DEF TypeOK, Pcs
<1>3. TypeOK /\ Shape /\ [Next]_vars => TypeOK' /\ Shape'
  <2>1. CASE UNCHANGED vars
    BY <2>1 DEF vars, TypeOK, Shape, Shaped
  <2> QED
    BY <1>2, <2>1 DEF Next, Step
<1> QED
  BY <1>1, <1>3, PTL DEF Spec

-----------------------------------------------------------------------------
\* Whoever is between a Lock and its Unlock holds the lock, and nobody else.
THEOREM LockHeld == Spec => []LockHeldInside
<1>1. Init => LockHeldInside
  BY NoOneAssumption DEF Init, LockHeldInside
<1>2. ASSUME TypeOK, LockHeldInside, NEW g \in Goroutines, Step(g) PROVE LockHeldInside'
  <2>1. /\ pc' \in [Goroutines -> Pcs]
        /\ \A h \in Goroutines \ {g} : pc'[h] = pc[h]
    BY <1>2, OwnStep
  <2> USE <1>2, <2>1, NoOneAssumption DEF TypeOK, LockHeldInside
  <2>2. CASE Lookup(g) \/ Find(g) \/ ReadSeen(g) \/ Mark(g) \/ FindAgain(g)
    BY <2>2 DEF Lookup, Find, ReadSeen, Mark, FindAgain, Goto, Ended
  <2>3. CASE Answered(g) \/ RequestFails(g) \/ RelockToFail(g)
    BY <2>3 DEF Answered, RequestFails, RelockToFail, Unwind, Goto
  <2>4. CASE Check(g) \/ SkipRegistered(g) \/ DependenciesDone(g) \/ Register(g)
    BY <2>4 DEF Check, SkipRegistered, DependenciesDone, Register, Goto
  <2>5. CASE Lock(g) \/ Relock(g)
    <3>1. mu = NoOne /\ mu' = g /\ pc'[g] \in {"check", "deps"}
      BY <2>5 DEF Lock, Relock, Unlocked, Goto
    <3> QED
      BY <3>1
  <2>6. CASE Processed(g) \/ FetchDependency(g) \/ Conflict(g)
    <3>1. pc[g] \in {"check", "deps", "register"} /\ mu' = NoOne
      BY <2>6 DEF Processed, FetchDependency, Conflict, Goto
    <3>2. pc'[g] \notin {"check", "deps", "register"}
      BY <2>6 DEF Processed, FetchDependency, Conflict, Unwind, Goto
    <3> QED
      BY <3>1, <3>2
  <2> QED
    BY <2>2, <2>3, <2>4, <2>5, <2>6 DEF Step, Resolve
<1>3. TypeOK /\ LockHeldInside /\ [Next]_vars => LockHeldInside'
  <2>1. CASE UNCHANGED vars
    BY <2>1 DEF vars, LockHeldInside
  <2> QED
    BY <1>2, <2>1 DEF Next, Step
<1> QED
  BY <1>1, <1>3, Typing, PTL DEF Spec

\* In whatever order goroutines fetch and register them, files are registered
\* after everything they import.
THEOREM ImportsFirst == Spec => []ImportsRegistered
<1>1. Init => ImportsRegistered
  <2> SUFFICES ASSUME Init PROVE ImportsRegistered
    OBVIOUS
  <2>1. PICK R \in SUBSET Files :
          Closed(R) /\ by = [f \in Files |-> IF f \in R THEN "startup" ELSE NoOne]
    BY DEF Init
  <2>2. Registered = R
    BY <2>1, NoOneAssumption DEF Registered
  <2> QED
    BY <2>1, <2>2 DEF Init, ImportsRegistered
<1>2. ASSUME TypeOK, Shape, ImportsRegistered, NEW g \in Goroutines, Step(g)
      PROVE  ImportsRegistered'
  <2>1. /\ pc' \in [Goroutines -> Pcs]
        /\ \A h \in Goroutines \ {g} : pc'[h] = pc[h] /\ stack'[h] = stack[h]
    BY <1>2, OwnStep
  <2>2. CASE Register(g)
    <3>1. stack[g] \in Seq(Answer) /\ stack[g] # <<>>
      BY <1>2, <2>2 DEF Register, Goto, Shape, Shaped, Fetching
    <3>2. Current(g) \in Files
      BY <3>1, HeadTailProperties DEF Current, Answer
    <3>3. Registered' = Registered \union {Current(g)}
      BY <1>2, <2>2, <3>2, NoOneAssumption DEF Register, Registered, TypeOK
    <3>4. Deps[Current(g)] \subseteq Registered
      BY <1>2, <2>2 DEF Register, Goto, ImportsRegistered
    <3>5. Closed(Registered)'
      BY <1>2, <3>3, <3>4 DEF ImportsRegistered, Closed
    <3>6. pc'[g] = "check"
      BY <1>2, <2>2 DEF Register, Goto, TypeOK
    <3>7. ASSUME NEW h \in Goroutines, pc'[h] = "register"
          PROVE  Deps[Current(h)'] \subseteq Registered'
      BY <1>2, <2>1, <3>3, <3>6, <3>7 DEF ImportsRegistered, Current
    <3> QED
      BY <3>5, <3>7 DEF ImportsRegistered
  <2>3. CASE ~Register(g)
    <3>1. Registered' = Registered
      BY <1>2, <2>3 DEF Step, Resolve, Lookup, Find, ReadSeen, Mark, FindAgain, Answered,
        RequestFails, Lock, Check, SkipRegistered, Processed, FetchDependency,
        DependenciesDone, Relock, RelockToFail, Conflict, Registered
    <3>2. pc'[g] = "register" => /\ stack'[g] = stack[g]
                                /\ Deps[Current(g)] \subseteq Registered
      BY <1>2, <2>3 DEF Step, Resolve, Lookup, Find, ReadSeen, Mark, FindAgain, Answered,
        RequestFails, Lock, Check, SkipRegistered, Processed, FetchDependency,
        DependenciesDone, Relock, RelockToFail, Conflict, Unwind, Goto, TypeOK
    <3>3. ASSUME NEW h \in Goroutines, pc'[h] = "register"
          PROVE  Deps[Current(h)'] \subseteq Registered'
      BY <1>2, <2>1, <3>1, <3>2, <3>3 DEF ImportsRegistered, Current
    <3>4. Closed(Registered)'
      BY <1>2, <3>1 DEF ImportsRegistered, Closed
    <3> QED
      BY <3>3, <3>4 DEF ImportsRegistered
  <2> QED
    BY <2>2, <2>3
<1>3. TypeOK /\ Shape /\ ImportsRegistered /\ [Next]_vars => ImportsRegistered'
  <2>1. CASE UNCHANGED vars
    BY <2>1 DEF vars, ImportsRegistered, Registered, Current, Closed
  <2> QED
    BY <1>2, <2>1 DEF Next, Step
<1> QED
  BY <1>1, <1>3, Typing, PTL DEF Spec

-----------------------------------------------------------------------------
\* The frame of the outermost call, which processes the answer for the symbol.
Bottom(frames) == frames[Len(frames)]

Has(files, f) == \E i \in 1..Len(files) : files[i] = f

\* The file of the type that a goroutine fetches is registered, or about to be
\* asked for, or among those that the outermost call has left.
Underway(g) ==
  LET f == FileOf[sym[g]] IN
  \/ f \in Registered
  \/ stack[g] = <<>> /\ want[g] = f
  \/ stack[g] # <<>> /\ Has(Bottom(stack[g]), f)

AllUnderway == \A g \in Goroutines : pc[g] \in Fetching => Underway(g)

LEMMA BottomOfPush ==
  ASSUME NEW S, NEW a \in S, NEW s \in Seq(S)
  PROVE  Bottom(<<a>> \o s) = IF s = <<>> THEN a ELSE Bottom(s)
<1>1. <<a>> \in Seq(S) /\ Len(<<a>>) = 1
  OBVIOUS
<1>2. /\ Len(<<a>> \o s) = 1 + Len(s)
      /\ \A i \in 1..(1 + Len(s)) : (<<a>> \o s)[i] = IF i <= 1 THEN <<a>>[i] ELSE s[i - 1]
  BY <1>1, ConcatProperties
<1>3. Len(s) \in Nat /\ (s = <<>> <=> Len(s) = 0)
  BY LenProperties, EmptySeq
<1> QED
  BY <1>2, <1>3 DEF Bottom

LEMMA BottomOfTail ==
  ASSUME NEW S, NEW s \in Seq(S), s # <<>>, Tail(s) # <<>>
  PROVE  Bottom(Tail(s)) = Bottom(s)
<1>1. /\ Tail(s) \in Seq(S) /\ Len(Tail(s)) = Len(s) - 1
      /\ \A i \in 1..Len(Tail(s)) : Tail(s)[i] = s[i + 1]
  BY HeadTailProperties
<1>2. Len(Tail(s)) \in Nat /\ Len(Tail(s)) # 0 /\ Len(s) \in Nat
  BY <1>1, LenProperties, EmptySeq
<1> QED
  BY <1>1, <1>2 DEF Bottom

\* A sequence of one element has it at both ends.
LEMMA BottomOfOne ==
  ASSUME NEW S, NEW s \in Seq(S), s # <<>>, Tail(s) = <<>>
  PROVE  Bottom(s) = Head(s)
<1>1. Len(Tail(s)) = Len(s) - 1 /\ Len(s) \in Nat /\ Len(Tail(s)) = 0
  BY HeadTailProperties, LenProperties, EmptySeq
<1>2. Len(s) = 1
  BY <1>1
<1>3. Head(s) = s[1]
  OBVIOUS
<1> QED
  BY <1>2, <1>3 DEF Bottom

LEMMA HasInTail ==
  ASSUME NEW S, NEW s \in Seq(S), s # <<>>, NEW f, Has(s, f)
  PROVE  f = Head(s) \/ Has(Tail(s), f)
<1>1. /\ Len(Tail(s)) = Len(s) - 1 /\ Len(s) \in Nat
      /\ \A i \in 1..Len(Tail(s)) : Tail(s)[i] = s[i + 1]
  BY HeadTailProperties, LenProperties
<1>2. PICK i \in 1..Len(s) : s[i] = f
  BY DEF Has
<1>3. CASE i = 1
  BY <1>2, <1>3
<1>4. CASE i # 1
  <2>1. i - 1 \in 1..Len(Tail(s)) /\ Tail(s)[i - 1] = f
    BY <1>1, <1>2, <1>4
  <2> QED
    BY <2>1 DEF Has
<1> QED
  BY <1>3, <1>4

\* What a step does to the registry and to the lookups of others.
LEMMA OthersStay ==
  ASSUME TypeOK, NEW g \in Goroutines, Step(g)
  PROVE  /\ Registered \subseteq Registered' /\ lost \subseteq lost'
         /\ \A h \in Goroutines \ {g} :
              pc'[h] = pc[h] /\ stack'[h] = stack[h] /\ sym'[h] = sym[h] /\ want'[h] = want[h]
<1> USE DEF Step, Resolve, Lookup, Find, ReadSeen, Mark, FindAgain, Answered, RequestFails, Lock,
            Check, SkipRegistered, Processed, FetchDependency, DependenciesDone, Relock,
            RelockToFail, Register, Conflict, Unwind, TypeOK
<1>1. Registered \subseteq Registered'
  BY NoOneAssumption DEF Registered
<1>2. lost \subseteq lost'
  OBVIOUS
<1>3. \A h \in Goroutines \ {g} : sym'[h] = sym[h] /\ want'[h] = want[h]
  OBVIOUS
<1> QED
  BY <1>1, <1>2, <1>3, OwnStep

\* The file of the type stays underway until the outermost call has returned.
LEMMA UnderwayStep ==
  ASSUME TypeOK, Shape, AllUnderway, NEW g \in Goroutines, Step(g)
  PROVE  AllUnderway'
<1> DEFINE f == FileOf[sym[g]]
<1>1. Registered \subseteq Registered'
  BY OthersStay
<1>2. ASSUME NEW h \in Goroutines \ {g}, pc'[h] \in Fetching PROVE Underway(h)'
  BY <1>1, <1>2, OthersStay DEF AllUnderway, Underway
<1>3. ASSUME pc'[g] \in Fetching PROVE Underway(g)'
  <2>1. Shaped(pc[g], stack[g]) /\ (pc[g] \in Fetching => Underway(g))
    BY DEF Shape, AllUnderway
  <2>2. ASSUME sym'[g] = sym[g], stack'[g] # <<>>, f \in Registered' \/ Has(Bottom(stack'[g]), f)
        PROVE  Underway(g)'
    BY <2>2 DEF Underway
  <2>3. ASSUME sym'[g] = sym[g], stack'[g] = stack[g], stack[g] # <<>>, Underway(g)
        PROVE  Underway(g)'
    BY <1>1, <2>2, <2>3 DEF Underway
  <2>4. CASE Mark(g)
    <3>1. stack'[g] = <<>> /\ sym'[g] = sym[g] /\ want'[g] = FileOf[sym[g]]
      BY <2>1, <2>4 DEF Mark, Goto, Shaped, Fetching, TypeOK
    <3> QED
      BY <3>1 DEF Underway
  <2>5. CASE Answered(g)
    <3>1. PICK a \in Answers[want[g]] : stack' = [stack EXCEPT ![g] = <<a>> \o @]
      BY <2>5 DEF Answered
    <3>2. a \in Answer /\ Head(a) = want[g]
      BY <3>1, AnswersAssumption DEF TypeOK, Answer
    <3>3. stack[g] \in Seq(Answer) /\ Underway(g) /\ sym'[g] = sym[g]
      BY <2>1, <2>5 DEF Answered, Goto, Shaped, Fetching
    <3>4. stack'[g] = <<a>> \o stack[g] /\ stack'[g] # <<>>
      BY <3>1, <3>2, <3>3, PushFrame DEF TypeOK
    <3>5. Bottom(stack'[g]) = IF stack[g] = <<>> THEN a ELSE Bottom(stack[g])
      BY <3>2, <3>3, <3>4, BottomOfPush
    <3>6. Has(a, Head(a))
      <4>1. Len(a) \in Nat /\ Len(a) # 0 /\ Head(a) = a[1]
        BY <3>2, LenProperties, EmptySeq DEF Answer
      <4> QED
        BY <4>1 DEF Has
    <3> QED
      BY <1>1, <2>2, <3>2, <3>3, <3>4, <3>5, <3>6 DEF Underway
  <2>6. CASE Lock(g) \/ Check(g) \/ FetchDependency(g) \/ DependenciesDone(g) \/ Relock(g)
    <3>1. sym'[g] = sym[g] /\ stack'[g] = stack[g] /\ pc[g] \in Fetching \ {"request"}
      BY <2>6 DEF Lock, Check, FetchDependency, DependenciesDone, Relock, Goto, Fetching
    <3> QED
      BY <2>1, <2>3, <3>1 DEF Shaped
  <2>7. CASE RequestFails(g)
    <3>1. sym'[g] = sym[g] /\ stack'[g] = stack[g] /\ pc[g] \in Fetching
      BY <2>7 DEF RequestFails, Unwind, Fetching, TypeOK
    <3>2. stack[g] # <<>>
      BY <1>3, <2>7 DEF RequestFails, Unwind, Fetching, TypeOK
    <3> QED
      BY <2>1, <2>3, <3>1, <3>2
  <2>8. CASE SkipRegistered(g) \/ Register(g)
    <3> DEFINE left == Tail(Head(stack[g]))
               outer == Tail(stack[g])
    <3>1. /\ pc[g] \in Fetching \ {"request"} /\ sym'[g] = sym[g]
          /\ stack'[g] = <<left>> \o outer
      BY <2>8 DEF SkipRegistered, Register, Goto, Fetching, NextFile, TypeOK
    <3>2. stack[g] # <<>> /\ stack[g] \in Seq(Seq(Files))
      BY <2>1, <3>1 DEF Shaped, TypeOK
    <3>3. Head(stack[g]) \in Seq(Files) /\ outer \in Seq(Seq(Files))
      BY <3>2, HeadTailProperties
    <3>4. Head(stack[g]) # <<>>
      <4>1. CASE Register(g)
        <5>1. stack[g] \in Seq(Answer)
          BY <2>1, <4>1 DEF Register, Goto, Shaped
        <5> QED
          BY <3>2, <5>1, HeadTailProperties DEF Answer
      <4> QED
        BY <2>8, <4>1 DEF SkipRegistered
    <3>5. left \in Seq(Files)
      BY <3>3, <3>4, HeadTailProperties
    <3>6. Head(Head(stack[g])) \in Registered'
      <4>1. CASE Register(g)
        <5>1. Current(g) \in Files
          BY <3>3, <3>4, HeadTailProperties DEF Current
        <5>2. by'[Current(g)] = g
          BY <4>1, <5>1 DEF Register, TypeOK
        <5> QED
          BY <5>1, <5>2, NoOneAssumption DEF Registered, Current
      <4>2. CASE SkipRegistered(g)
        BY <1>1, <4>2 DEF SkipRegistered, Current
      <4> QED
        BY <2>8, <4>1, <4>2
    <3> HIDE DEF outer
    <3>7. stack'[g] # <<>> /\ Bottom(stack'[g]) = IF outer = <<>> THEN left ELSE Bottom(outer)
      <4> HIDE DEF left
      <4> QED
        BY <3>1, <3>3, <3>5, PushFrame, BottomOfPush
    <3>8. f \in Registered \/ Has(Bottom(stack[g]), f)
      BY <2>1, <3>1, <3>2 DEF Underway
    <3>9. CASE outer = <<>>
      <4>1. Bottom(stack[g]) = Head(stack[g])
        BY <3>2, <3>9, BottomOfOne DEF outer
      <4>2. Has(Bottom(stack[g]), f) => f = Head(Head(stack[g])) \/ Has(left, f)
        BY <3>3, <3>4, <4>1, HasInTail
      <4> QED
        BY <1>1, <2>2, <3>1, <3>6, <3>7, <3>8, <3>9, <4>2
    <3>10. CASE outer # <<>>
      <4>1. Bottom(outer) = Bottom(stack[g])
        BY <3>2, <3>10, BottomOfTail DEF outer
      <4> QED
        BY <1>1, <2>2, <3>1, <3>7, <3>8, <3>10, <4>1
    <3> QED
      BY <3>9, <3>10
  <2>9. CASE Processed(g) \/ RelockToFail(g) \/ Conflict(g)
    <3>1. /\ pc[g] \in Fetching \ {"request"} /\ sym'[g] = sym[g]
          /\ stack'[g] = Tail(stack[g])
      BY <2>9 DEF Processed, RelockToFail, Conflict, Unwind, Fetching, Goto, TypeOK
    <3>2. Tail(stack[g]) # <<>>
      BY <1>3, <2>9 DEF Processed, RelockToFail, Conflict, Unwind, Fetching, TypeOK
    <3>3. stack[g] # <<>> /\ stack[g] \in Seq(Seq(Files)) /\ Underway(g)
      BY <2>1, <3>1 DEF Shaped, TypeOK
    <3>4. Bottom(Tail(stack[g])) = Bottom(stack[g])
      BY <3>2, <3>3, BottomOfTail
    <3> QED
      BY <1>1, <2>2, <3>1, <3>2, <3>3, <3>4 DEF Underway
  <2>10. ~(Lookup(g) \/ Find(g) \/ ReadSeen(g) \/ FindAgain(g))
    BY <1>3 DEF Lookup, Find, ReadSeen, FindAgain, Goto, Fetching, TypeOK
  <2> QED
    BY <2>4, <2>5, <2>6, <2>7, <2>8, <2>9, <2>10 DEF Step, Resolve
<1> QED
  BY <1>2, <1>3 DEF AllUnderway

LEMMA MarkStep ==
  ASSUME TypeOK, Shape, AllUnderway, MarkHasReason, NEW g \in Goroutines, Step(g)
  PROVE  MarkHasReason'
<1> SUFFICES ASSUME NEW s \in seen'
             PROVE  \/ FileOf[s] \in Registered' \/ s \in lost'
                    \/ \E h \in Goroutines : sym'[h] = s /\ pc'[h] \in Fetching
  BY DEF MarkHasReason
<1>1. CASE s \notin seen
  <2>1. Mark(g)
    BY <1>1 DEF Step, Resolve, Lookup, Find, ReadSeen, FindAgain, Answered, RequestFails, Lock,
      Check, SkipRegistered, Processed, FetchDependency, DependenciesDone, Relock, RelockToFail,
      Register, Conflict
  <2>2. s = sym[g] /\ sym'[g] = sym[g] /\ pc'[g] \in Fetching
    BY <1>1, <2>1 DEF Mark, Goto, Fetching, TypeOK
  <2> QED
    BY <2>2
<1>2. CASE s \in seen /\ (FileOf[s] \in Registered \/ s \in lost)
  BY <1>2, OthersStay
<1>3. ASSUME NEW h \in Goroutines \ {g}, sym[h] = s, pc[h] \in Fetching
      PROVE  sym'[h] = s /\ pc'[h] \in Fetching
  BY <1>3, OthersStay
<1>4. CASE sym[g] = s /\ pc[g] \in Fetching
  <2>1. sym'[g] = s
    BY <1>4 DEF Step, Resolve, Lookup, Find, ReadSeen, Mark, FindAgain, Answered, RequestFails,
      Lock, Check, SkipRegistered, Processed, FetchDependency, DependenciesDone, Relock,
      RelockToFail, Register, Conflict, Ended, Fetching
  <2>2. CASE Processed(g)
    <3>1. CASE Tail(stack[g]) = <<>>
      <4>1. stack[g] \in Seq(Seq(Files)) /\ stack[g] # <<>> /\ Head(stack[g]) = <<>>
        BY <1>4, <2>2 DEF Processed, Shape, Shaped, Fetching
      <4>2. Bottom(stack[g]) = <<>>
        BY <3>1, <4>1, BottomOfOne
      <4>3. ~Has(<<>>, FileOf[s])
        BY DEF Has
      <4>4. FileOf[s] \in Registered
        BY <1>4, <4>1, <4>2, <4>3 DEF AllUnderway, Underway
      <4> QED
        BY <4>4, OthersStay
    <3>2. CASE Tail(stack[g]) # <<>>
      BY <2>1, <2>2, <3>2 DEF Processed, Fetching, TypeOK
    <3> QED
      BY <3>1, <3>2
  <2>3. CASE RequestFails(g) \/ RelockToFail(g) \/ Conflict(g)
    <3>1. pc'[g] \in Fetching \/ sym[g] \in lost'
      BY <2>3 DEF RequestFails, RelockToFail, Conflict, Unwind, Fetching, TypeOK
    <3> QED
      BY <1>4, <2>1, <3>1
  <2>4. CASE ~Processed(g) /\ ~(RequestFails(g) \/ RelockToFail(g) \/ Conflict(g))
    <3>1. pc'[g] \in Fetching
      BY <1>4, <2>4 DEF Step, Resolve, Lookup, Find, ReadSeen, Mark, FindAgain, Answered, Lock,
        Check, SkipRegistered, FetchDependency, DependenciesDone, Relock, Register, Goto,
        Ended, Fetching, TypeOK
    <3> QED
      BY <2>1, <3>1
  <2> QED
    BY <2>2, <2>3, <2>4
<1> QED
  BY <1>1, <1>2, <1>3, <1>4 DEF MarkHasReason

\* No symbol is marked without its file being registered or fetched, unless a
\* fetch of it has failed.
THEOREM MarksHaveReasons == Spec => []MarkHasReason
<1>1. Init => AllUnderway /\ MarkHasReason
  BY DEF Init, AllUnderway, MarkHasReason, Fetching
<1>2. TypeOK /\ Shape /\ AllUnderway /\ MarkHasReason /\ [Next]_vars
        => AllUnderway' /\ MarkHasReason'
  <2>1. CASE UNCHANGED vars
    <3>1. Registered' = Registered
      BY <2>1 DEF vars, Registered
    <3> QED
      BY <2>1, <3>1 DEF vars, AllUnderway, Underway, MarkHasReason
  <2> QED
    BY <2>1, UnderwayStep, MarkStep DEF Next, Step
<1> QED
  BY <1>1, <1>2, Typing, PTL DEF Spec

-----------------------------------------------------------------------------
\* What a file imports, itself or through other files.
Imported(f) == Reach(Deps[f])

\* The files of an open call are imported by the file that every call below it
\* is at.
Linked(frames) ==
  \A i, j \in 1..Len(frames) : i < j => Of(frames[i]) \subseteq Imported(Head(frames[j]))

\* Places at which the innermost call has found its file not registered.
Checked == {"deps", "register", "relock", "request"}

\* Of the files that its calls are at and have checked, g has registered none itself.
NoneOwn(g, p, frames) ==
  \A i \in 1..Len(frames) : i > 1 \/ p \in Checked => by[Head(frames[i])] # g

\* How far the lookups have come into the imports.
Descent ==
  \A g \in Goroutines :
    /\ Linked(stack[g])
    /\ pc[g] = "request" /\ stack[g] # <<>> => want[g] \in Deps[Head(stack[g][1])]
    /\ NoneOwn(g, pc[g], stack[g])

LEMMA ReachHolds ==
  ASSUME NEW S \in SUBSET Files
  PROVE  S \subseteq Reach(S) /\ Closed(Reach(S))
<1>1. S \subseteq Reach(S)
  BY DEF Reach
<1>2. ASSUME NEW f \in Reach(S), NEW d \in Deps[f] PROVE d \in Reach(S)
  <2>1. f \in Files /\ d \in Files
    BY <1>2, DepsAssumption DEF Reach
  <2>2. ASSUME NEW R \in SUBSET Files, S \subseteq R, Closed(R) PROVE d \in R
    BY <1>2, <2>2 DEF Reach, Closed
  <2> QED
    BY <2>1, <2>2 DEF Reach
<1> QED
  BY <1>1, <1>2 DEF Closed

\* Nothing else is reached.
LEMMA ReachLeast ==
  ASSUME NEW S, NEW R \in SUBSET Files, S \subseteq R, Closed(R)
  PROVE  Reach(S) \subseteq R
BY DEF Reach

LEMMA ImportedHolds ==
  ASSUME NEW f \in Files
  PROVE  Imported(f) \in SUBSET Files /\ Deps[f] \subseteq Imported(f) /\ Closed(Imported(f))
<1>1. Deps[f] \in SUBSET Files
  BY DepsAssumption
<1> QED
  BY <1>1, ReachHolds DEF Imported, Reach

\* What an imported file imports is imported.
LEMMA ImportedOfImported ==
  ASSUME NEW f \in Files, NEW d \in Imported(f)
  PROVE  d \in Files /\ Imported(d) \subseteq Imported(f)
<1>1. d \in Files /\ Deps[d] \subseteq Imported(f)
  BY ImportedHolds DEF Closed
<1> QED
  BY <1>1, ImportedHolds, ReachLeast DEF Imported

\* What comes with the answer for an import is imported.
LEMMA AnswerImported ==
  ASSUME ImportsOnly, NEW f \in Files, NEW d \in Imported(f), NEW a \in Answers[d]
  PROVE  Of(a) \subseteq Imported(f)
<1>1. d \in Files /\ Closed(Imported(f)) /\ Imported(f) \in SUBSET Files
  BY ImportedHolds
<1>2. Reach({d}) \subseteq Imported(f)
  BY <1>1, ReachLeast
<1> QED
  BY <1>1, <1>2 DEF ImportsOnly

\* Without a circle no file imports itself: the files that reach f through
\* their imports would be one.
LEMMA NotItsOwnImport ==
  ASSUME NoCircle, NEW f \in Files
  PROVE  f \notin Imported(f)
<1> SUFFICES ASSUME f \in Imported(f) PROVE FALSE
  OBVIOUS
<1> DEFINE C == {g \in Files : f \in Imported(g)}
<1>1. f \in C
  OBVIOUS
<1>2. PICK g \in C : Deps[g] \intersect C = {}
  BY <1>1 DEF NoCircle
<1>3. Deps[g] \in SUBSET Files
  BY DepsAssumption
<1>5. f \notin Deps[g]
  BY <1>1, <1>2
\* What is reached from g without f is closed, and so it is all that is reached.
<1> DEFINE Q == {x \in Imported(g) : x # f /\ f \notin Imported(x)}
<1>6. Deps[g] \subseteq Q
  BY <1>2, <1>3, <1>5, ImportedHolds
<1>7. Closed(Q)
  <2> SUFFICES ASSUME NEW x \in Q, NEW d \in Deps[x] PROVE d \in Q
    BY DEF Closed
  <2>1. x \in Files /\ d \in Imported(g) /\ d \in Imported(x)
    BY ImportedHolds DEF Closed
  <2>2. Imported(d) \subseteq Imported(x)
    BY <2>1, ImportedOfImported
  <2> QED
    BY <2>1, <2>2
<1>8. Imported(g) \subseteq Q
  <2>1. Q \in SUBSET Files
    BY ImportedHolds
  <2> QED
    BY <1>6, <1>7, <2>1, ReachLeast DEF Imported
<1> QED
  BY <1>8

-----------------------------------------------------------------------------
LEMMA HeadIsOf ==
  ASSUME NEW a \in Seq(Files), a # <<>>
  PROVE  Head(a) \in Of(a) /\ Head(a) \in Files /\ Of(Tail(a)) \subseteq Of(a)
<1>1. Len(a) \in Nat /\ Len(a) # 0 /\ Head(a) = a[1]
  BY LenProperties, EmptySeq
<1>2. /\ Tail(a) \in Seq(Files) /\ Len(Tail(a)) = Len(a) - 1
      /\ \A i \in 1..Len(Tail(a)) : Tail(a)[i] = a[i + 1]
  BY HeadTailProperties
<1>3. Head(a) \in Of(a)
  BY <1>1 DEF Of
<1>4. \A i \in 1..Len(Tail(a)) : i + 1 \in 1..Len(a)
  BY <1>1, <1>2
<1>5. Of(Tail(a)) \subseteq Of(a)
  BY <1>2, <1>4 DEF Of
<1> QED
  BY <1>3, <1>5, HeadTailProperties

\* An import is asked for: what the call is at imports the whole answer, and so
\* does what the calls below it are at.
LEMMA LinkedPush ==
  ASSUME NEW frames \in Seq(Answer), NEW a \in Answer, Linked(frames),
         frames # <<>> => Of(a) \subseteq Imported(Head(frames[1]))
  PROVE  Linked(<<a>> \o frames)
<1> DEFINE new == <<a>> \o frames
<1>1. <<a>> \in Seq(Answer) /\ Len(<<a>>) = 1 /\ Len(frames) \in Nat
  BY LenProperties
<1>2. /\ Len(new) = 1 + Len(frames)
      /\ \A i \in 1..(1 + Len(frames)) : new[i] = IF i <= 1 THEN <<a>>[i] ELSE frames[i - 1]
  BY <1>1, ConcatProperties
<1> HIDE DEF new
<1> SUFFICES ASSUME NEW i \in 1..Len(new), NEW j \in 1..Len(new), i < j
             PROVE  Of(new[i]) \subseteq Imported(Head(new[j]))
  BY DEF Linked, new
<1>3. j - 1 \in 1..Len(frames) /\ new[j] = frames[j - 1]
  BY <1>1, <1>2
<1>4. CASE i # 1
  <2>1. i - 1 \in 1..Len(frames) /\ new[i] = frames[i - 1] /\ i - 1 < j - 1
    BY <1>1, <1>2, <1>4
  <2> QED
    BY <1>3, <2>1 DEF Linked
<1>5. CASE i = 1
  <2>1. new[i] = a /\ 1 \in 1..Len(frames) /\ frames # <<>>
    BY <1>1, <1>2, <1>3, <1>5, EmptySeq
  <2>2. CASE j - 1 = 1
    BY <1>3, <2>1, <2>2
  <2>3. CASE j - 1 # 1
    <3>1. 1 < j - 1 /\ Of(frames[1]) \subseteq Imported(Head(frames[j - 1]))
      BY <1>3, <2>1, <2>3 DEF Linked
    <3>2. frames[1] \in Answer /\ frames[j - 1] \in Answer
      BY <1>3, <2>1, ElementOfSeq
    <3>3. Head(frames[1]) \in Of(frames[1]) /\ Head(frames[j - 1]) \in Files
      BY <3>2, HeadIsOf DEF Answer
    <3>4. Imported(Head(frames[1])) \subseteq Imported(Head(frames[j - 1]))
      BY <3>1, <3>3, ImportedOfImported
    <3> QED
      BY <1>3, <2>1, <3>4
  <2> QED
    BY <2>2, <2>3
<1> QED
  BY <1>4, <1>5

\* A call returns.
LEMMA LinkedTail ==
  ASSUME NEW frames \in Seq(Seq(Files)), frames # <<>>, Linked(frames)
  PROVE  Linked(Tail(frames))
<1>1. /\ Len(Tail(frames)) = Len(frames) - 1 /\ Len(frames) \in Nat
      /\ \A i \in 1..Len(Tail(frames)) : Tail(frames)[i] = frames[i + 1]
  BY HeadTailProperties, LenProperties
<1> SUFFICES ASSUME NEW i \in 1..Len(Tail(frames)), NEW j \in 1..Len(Tail(frames)), i < j
             PROVE  Of(Tail(frames)[i]) \subseteq Imported(Head(Tail(frames)[j]))
  BY DEF Linked
<1>2. i + 1 \in 1..Len(frames) /\ j + 1 \in 1..Len(frames) /\ i + 1 < j + 1
  BY <1>1
<1> QED
  BY <1>1, <1>2 DEF Linked

\* What a frame sequence looks like when its innermost file is done.
LEMMA NextFrames ==
  ASSUME NEW frames \in Seq(Seq(Files)), frames # <<>>, Head(frames) # <<>>
  PROVE  /\ NextFile(frames) \in Seq(Seq(Files)) /\ Len(NextFile(frames)) = Len(frames)
         /\ Len(frames) \in Nat \ {0}
         /\ NextFile(frames)[1] = Tail(frames[1]) /\ frames[1] = Head(frames)
         /\ \A i \in 1..Len(frames) : i > 1 => NextFile(frames)[i] = frames[i]
<1> DEFINE left == Tail(Head(frames))
           outer == Tail(frames)
<1>1. Head(frames) \in Seq(Files) /\ frames[1] = Head(frames)
      /\ Len(frames) \in Nat \ {0}
  BY HeadTailProperties, LenProperties, EmptySeq
<1>2. left \in Seq(Files)
  BY <1>1, HeadTailProperties
<1>3. /\ outer \in Seq(Seq(Files)) /\ Len(outer) = Len(frames) - 1
      /\ \A i \in 1..Len(outer) : outer[i] = frames[i + 1]
  BY HeadTailProperties
<1> HIDE DEF left, outer
<1>4. <<left>> \in Seq(Seq(Files)) /\ Len(<<left>>) = 1 /\ <<left>>[1] = left
  BY <1>2
<1>5. /\ <<left>> \o outer \in Seq(Seq(Files)) /\ Len(<<left>> \o outer) = 1 + Len(outer)
      /\ \A i \in 1..(1 + Len(outer)) :
           (<<left>> \o outer)[i] = IF i <= 1 THEN <<left>>[i] ELSE outer[i - 1]
  BY <1>3, <1>4, ConcatProperties
<1>6. NextFile(frames) = <<left>> \o outer
  BY DEF NextFile, left, outer
<1>7. \A i \in 1..Len(frames) : i > 1 => i - 1 \in 1..Len(outer) /\ outer[i - 1] = frames[i]
  BY <1>1, <1>3
<1>8. NextFile(frames)[1] = left /\ Len(NextFile(frames)) = Len(frames)
  BY <1>1, <1>3, <1>4, <1>5, <1>6
<1>9. \A i \in 1..Len(frames) : i > 1 => NextFile(frames)[i] = frames[i]
  BY <1>1, <1>3, <1>5, <1>6, <1>7
<1> QED
  BY <1>1, <1>5, <1>6, <1>8, <1>9 DEF left

LEMMA LinkedNext ==
  ASSUME NEW frames \in Seq(Seq(Files)), frames # <<>>, Head(frames) # <<>>, Linked(frames)
  PROVE  Linked(NextFile(frames))
<1> DEFINE new == NextFile(frames)
<1>1. /\ Len(new) = Len(frames) /\ Len(frames) \in Nat \ {0}
      /\ new[1] = Tail(frames[1]) /\ frames[1] = Head(frames)
      /\ \A i \in 1..Len(frames) : i > 1 => new[i] = frames[i]
  BY NextFrames
<1>2. Of(Tail(frames[1])) \subseteq Of(frames[1])
  BY <1>1, HeadTailProperties, HeadIsOf
<1> HIDE DEF new
<1> SUFFICES ASSUME NEW i \in 1..Len(new), NEW j \in 1..Len(new), i < j
             PROVE  Of(new[i]) \subseteq Imported(Head(new[j]))
  BY DEF Linked, new
<1>3. j \in 1..Len(frames) /\ j > 1 /\ i \in 1..Len(frames)
  BY <1>1
<1>4. new[j] = frames[j]
  BY <1>1, <1>3
<1>5. Of(frames[i]) \subseteq Imported(Head(frames[j]))
  BY <1>3 DEF Linked
<1>6. CASE i = 1
  BY <1>1, <1>2, <1>4, <1>5, <1>6
<1>7. CASE i # 1
  <2>1. new[i] = frames[i]
    BY <1>1, <1>3, <1>7
  <2> QED
    BY <1>4, <1>5, <2>1
<1> QED
  BY <1>6, <1>7

-----------------------------------------------------------------------------
\* Every call but the innermost has a file left, and that one is a file.
LEMMA AtFile ==
  ASSUME Shape, NEW g \in Goroutines, NEW i \in 1..Len(stack[g]),
         pc[g] \in Fetching, i > 1 \/ pc[g] # "check"
  PROVE  stack[g][i] \in Answer /\ Head(stack[g][i]) \in Of(stack[g][i]) /\ Head(stack[g][i]) \in Files
<1>1. stack[g][i] \in Answer
  <2>1. CASE pc[g] # "check"
    <3>1. stack[g] \in Seq(Answer)
      BY <2>1 DEF Shape, Shaped
    <3> QED
      BY <3>1, ElementOfSeq
  <2>2. CASE pc[g] = "check"
    <3>1. stack[g] \in Seq(Seq(Files)) /\ stack[g] # <<>> /\ Tail(stack[g]) \in Seq(Answer)
      BY <2>2 DEF Shape, Shaped, Fetching
    <3>2. /\ Len(Tail(stack[g])) = Len(stack[g]) - 1 /\ Len(stack[g]) \in Nat
          /\ \A k \in 1..Len(Tail(stack[g])) : Tail(stack[g])[k] = stack[g][k + 1]
      BY <3>1, HeadTailProperties, LenProperties
    <3>3. i - 1 \in 1..Len(Tail(stack[g])) /\ (i - 1) + 1 = i
      BY <2>2, <3>2
    <3>4. Tail(stack[g])[i - 1] = stack[g][i]
      BY <3>2, <3>3
    <3> QED
      BY <3>1, <3>3, <3>4, ElementOfSeq
  <2> QED
    BY <2>1, <2>2
<1> QED
  BY <1>1, HeadIsOf DEF Answer

\* The calls of a goroutine go deeper and deeper into the imports.
LEMMA LinkedStep ==
  ASSUME ImportsOnly, TypeOK, Shape, Descent, NEW g \in Goroutines, Step(g)
  PROVE  Linked(stack'[g])
<1>1. Linked(stack[g]) /\ stack[g] \in Seq(Seq(Files)) /\ Shaped(pc[g], stack[g])
  BY DEF Descent, TypeOK, Shape
<1>2. CASE Answered(g)
  <2>1. PICK a \in Answers[want[g]] : stack' = [stack EXCEPT ![g] = <<a>> \o @]
    BY <1>2 DEF Answered
  <2>2. pc[g] = "request" /\ stack'[g] = <<a>> \o stack[g] /\ want[g] \in Files
    BY <1>2, <2>1 DEF Answered, Goto, TypeOK
  <2>3. a \in Answer /\ stack[g] \in Seq(Answer)
    BY <1>1, <2>2, AnswersAssumption DEF Answer, Shaped
  <2>4. ASSUME stack[g] # <<>> PROVE Of(a) \subseteq Imported(Head(stack[g][1]))
    <3>1. want[g] \in Deps[Head(stack[g][1])]
      BY <2>2, <2>4 DEF Descent
    <3>2. 1 \in 1..Len(stack[g])
      BY <1>1, <2>4, LenProperties, EmptySeq
    <3>3. Head(stack[g][1]) \in Files
      BY <2>2, <3>2, AtFile DEF Fetching
    <3> QED
      BY <3>1, <3>3, ImportedHolds, AnswerImported
  <2> QED
    BY <1>1, <2>2, <2>3, <2>4, LinkedPush
<1>3. CASE Processed(g) \/ RelockToFail(g) \/ Conflict(g)
  <2>1. stack'[g] = Tail(stack[g]) /\ pc[g] \in Fetching \ {"request"}
    BY <1>3 DEF Processed, RelockToFail, Conflict, Unwind, Goto, Fetching, TypeOK
  <2>2. stack[g] # <<>>
    BY <1>1, <2>1 DEF Shaped
  <2> QED
    BY <1>1, <2>1, <2>2, LinkedTail
<1>4. CASE SkipRegistered(g) \/ Register(g)
  <2>1. stack'[g] = NextFile(stack[g]) /\ pc[g] \in {"check", "register"}
    BY <1>4 DEF SkipRegistered, Register, Goto, TypeOK
  <2>2. stack[g] # <<>>
    BY <1>1, <2>1 DEF Shaped, Fetching
  <2>3. Head(stack[g]) # <<>>
    <3>1. CASE Register(g)
      <4>1. stack[g] \in Seq(Answer)
        BY <1>1, <3>1 DEF Register, Goto, Shaped
      <4> QED
        BY <2>2, <4>1, HeadTailProperties DEF Answer
    <3> QED
      BY <1>4, <3>1 DEF SkipRegistered
  <2> QED
    BY <1>1, <2>1, <2>2, <2>3, LinkedNext
<1>5. CASE stack'[g] = stack[g]
  BY <1>1, <1>5
<1> QED
  BY <1>2, <1>3, <1>4, <1>5
     DEF Step, Resolve, Lookup, Find, ReadSeen, Mark, FindAgain, RequestFails, Unwind, Lock, Check,
         FetchDependency, DependenciesDone, Relock, TypeOK

LEMMA AskedStep ==
  ASSUME TypeOK, Shape, Descent, NEW g \in Goroutines, Step(g), pc'[g] = "request", stack'[g] # <<>>
  PROVE  want'[g] \in Deps[Head(stack'[g][1])]
<1>1. CASE FetchDependency(g)
  <2>1. want'[g] \in Deps[Current(g)] /\ stack'[g] = stack[g]
    BY <1>1 DEF FetchDependency, TypeOK
  <2>2. stack[g] \in Seq(Seq(Files))
    BY DEF TypeOK
  <2>3. Head(stack[g]) = stack[g][1]
    BY <2>1, <2>2, HeadTailProperties
  <2> QED
    BY <2>1, <2>3 DEF Current
<1>2. CASE Mark(g)
  BY <1>2 DEF Mark, Goto, Shape, Shaped, Fetching
<1>3. ~(FetchDependency(g) \/ Mark(g)) => FALSE
  BY DEF Step, Resolve, Lookup, Find, ReadSeen, FindAgain, Answered, RequestFails, Unwind, Lock,
         Check, SkipRegistered, Processed, DependenciesDone, Relock, RelockToFail, Register,
         Conflict, Goto, TypeOK
<1> QED
  BY <1>1, <1>2, <1>3

\* The files that the calls of h are at become h's own registrations by no step:
\* another goroutine registers in its own name, and h registers a file that those
\* of its outer calls import.
LEMMA OthersBy ==
  ASSUME NoCircle, TypeOK, Shape, Descent, NEW g \in Goroutines, Step(g), NEW h \in Goroutines,
         NEW i \in 1..Len(stack[h]), pc[h] \in Fetching, i > 1 \/ pc[h] # "check",
         by[Head(stack[h][i])] # h, i > 1 \/ ~(Register(g) /\ g = h)
  PROVE  by'[Head(stack[h][i])] # h
<1> DEFINE f == Head(stack[h][i])
<1>1. f \in Files /\ by[f] # h
  BY AtFile
<1>2. CASE Register(g)
  <2>1. by' = [by EXCEPT ![Current(g)] = g] /\ pc[g] = "register"
    BY <1>2 DEF Register, Goto
  <2>2. CASE g # h
    BY <1>1, <2>1, <2>2 DEF TypeOK
  <2>3. CASE g = h
    <3>1. i > 1 /\ stack[g] \in Seq(Seq(Files)) /\ i \in 1..Len(stack[g])
      BY <1>2, <2>3 DEF TypeOK
    <3>2. 1 \in 1..Len(stack[g]) /\ 1 < i /\ stack[g] # <<>>
      BY <3>1, LenProperties, EmptySeq
    <3>3. Head(stack[g]) = stack[g][1]
      BY <3>1, <3>2, HeadTailProperties
    <3>4. Current(g) \in Of(stack[g][1])
      BY <2>1, <3>2, <3>3, AtFile DEF Current, Fetching
    <3>5. Of(stack[g][1]) \subseteq Imported(f)
      BY <2>3, <3>2 DEF Descent, Linked
    <3>6. Current(g) # f
      BY <1>1, <3>4, <3>5, NotItsOwnImport
    <3> QED
      BY <1>1, <2>1, <2>3, <3>6 DEF TypeOK
  <2> QED
    BY <2>2, <2>3
<1>3. CASE by' = by
  BY <1>1, <1>3
<1> QED
  BY <1>2, <1>3
     DEF Step, Resolve, Lookup, Find, ReadSeen, Mark, FindAgain, Answered, RequestFails, Lock, Check,
         SkipRegistered, Processed, FetchDependency, DependenciesDone, Relock, RelockToFail, Conflict

\* A frame after a step: the one of an answer that has come, the innermost
\* with one file less, or a frame that was there before.
LEMMA FrameFrom ==
  ASSUME TypeOK, Shape, NEW g \in Goroutines, Step(g), NEW i \in 1..Len(stack'[g]),
         i > 1 \/ pc'[g] \in Checked
  PROVE  \E k \in 1..Len(stack[g]) :
           /\ pc[g] \in Fetching /\ (k > 1 \/ pc[g] # "check" \/ Check(g))
           /\ stack'[g][i] = stack[g][k]
           /\ k > 1 \/ pc[g] \in Checked \/ Check(g)
           /\ k > 1 \/ ~Register(g)
<1>1. /\ stack[g] \in Seq(Seq(Files)) /\ Shaped(pc[g], stack[g]) /\ pc[g] \in Pcs
      /\ Len(stack[g]) \in Nat /\ pc' \in [Goroutines -> Pcs]
  BY OwnStep, LenProperties DEF TypeOK, Shape, Pcs
<1>2. CASE Answered(g)
  <2>1. PICK a \in Answers[want[g]] : stack' = [stack EXCEPT ![g] = <<a>> \o @]
    BY <1>2 DEF Answered
  <2>2. pc[g] = "request" /\ pc'[g] = "lock" /\ stack'[g] = <<a>> \o stack[g] /\ want[g] \in Files
    BY <1>2, <2>1 DEF Answered, Goto, TypeOK
  <2>3. <<a>> \in Seq(Seq(Files)) /\ Len(<<a>>) = 1
    BY <2>2, AnswersAssumption
  <2>4. /\ Len(stack'[g]) = 1 + Len(stack[g])
        /\ \A m \in 1..(1 + Len(stack[g])) : stack'[g][m] = IF m <= 1 THEN <<a>>[m] ELSE stack[g][m - 1]
    BY <1>1, <2>2, <2>3, ConcatProperties
  <2>5. i > 1
    BY <2>2 DEF Checked
  <2>6. i - 1 \in 1..Len(stack[g]) /\ stack'[g][i] = stack[g][i - 1]
    BY <1>1, <2>4, <2>5
  <2> QED
    BY <2>2, <2>6 DEF Checked, Fetching, Register, Goto
<1>3. CASE Processed(g) \/ RelockToFail(g) \/ Conflict(g)
  <2>1. stack'[g] = Tail(stack[g]) /\ pc[g] \in Fetching \ {"request"} /\ ~Register(g)
    BY <1>3 DEF Processed, RelockToFail, Conflict, Unwind, Goto, Fetching, TypeOK, Register
  <2>2. stack[g] # <<>>
    BY <1>1, <2>1 DEF Shaped
  <2>3. /\ Len(stack'[g]) = Len(stack[g]) - 1
        /\ \A m \in 1..Len(stack'[g]) : stack'[g][m] = stack[g][m + 1]
    BY <1>1, <2>1, <2>2, HeadTailProperties
  <2>4. i + 1 \in 1..Len(stack[g]) /\ i + 1 > 1 /\ stack'[g][i] = stack[g][i + 1]
    BY <1>1, <2>3
  <2> QED
    BY <2>1, <2>4
<1>4. CASE SkipRegistered(g) \/ Register(g)
  <2>1. stack'[g] = NextFile(stack[g]) /\ pc[g] \in {"check", "register"} /\ pc'[g] = "check"
    BY <1>4 DEF SkipRegistered, Register, Goto, TypeOK
  <2>2. stack[g] # <<>>
    BY <1>1, <2>1 DEF Shaped, Fetching
  <2>3. Head(stack[g]) # <<>>
    <3>1. CASE Register(g)
      <4>1. stack[g] \in Seq(Answer)
        BY <1>1, <3>1 DEF Register, Goto, Shaped
      <4> QED
        BY <2>2, <4>1, HeadTailProperties DEF Answer
    <3> QED
      BY <1>4, <3>1 DEF SkipRegistered
  <2>4. i > 1
    BY <2>1 DEF Checked
  <2>5. i \in 1..Len(stack[g]) /\ stack'[g][i] = stack[g][i]
    BY <1>1, <2>1, <2>2, <2>3, <2>4, NextFrames
  <2> QED
    BY <2>1, <2>4, <2>5 DEF Fetching
<1>5. CASE Check(g)
  <2>1. pc[g] = "check" /\ stack'[g] = stack[g] /\ ~Register(g)
    BY <1>5 DEF Check, Goto, Register
  <2> QED
    BY <1>5, <2>1 DEF Fetching
<1>6. CASE Lock(g) \/ RequestFails(g) \/ FetchDependency(g) \/ DependenciesDone(g) \/ Relock(g)
  <2>1. stack'[g] = stack[g] /\ pc[g] \in Fetching \ {"check", "register"}
    BY <1>6 DEF Lock, RequestFails, Unwind, FetchDependency, DependenciesDone, Relock, Goto,
      Fetching, TypeOK
  <2>2. pc[g] = "lock" => pc'[g] = "check"
    BY <1>6 DEF Lock, RequestFails, FetchDependency, DependenciesDone, Relock, Goto, TypeOK
  <2>3. pc[g] = "lock" => i > 1
    BY <2>2 DEF Checked
  <2>4. ~Register(g)
    BY <2>1 DEF Register, Goto
  <2>5. i > 1 \/ pc[g] \in Checked
    BY <2>1, <2>3 DEF Checked, Fetching
  <2> QED
    BY <2>1, <2>4, <2>5
<1>7. CASE Lookup(g) \/ Find(g) \/ ReadSeen(g) \/ Mark(g) \/ FindAgain(g)
  <2>1. stack'[g] = <<>>
    BY <1>1, <1>7 DEF Lookup, Find, ReadSeen, Mark, FindAgain, Goto, Shaped, Fetching, Ended
  <2> QED
    BY <2>1
<1> QED
  BY <1>2, <1>3, <1>4, <1>5, <1>6, <1>7 DEF Step, Resolve

LEMMA NoneOwnStep ==
  ASSUME NoCircle, TypeOK, Shape, Descent, NEW g \in Goroutines, Step(g), NEW h \in Goroutines
  PROVE  NoneOwn(h, pc[h], stack[h])'
<1> SUFFICES ASSUME NEW i \in 1..Len(stack'[h]), i > 1 \/ pc'[h] \in Checked
             PROVE  by'[Head(stack'[h][i])] # h
  BY DEF NoneOwn
<1>1. NoneOwn(h, pc[h], stack[h])
  BY DEF Descent
<1>2. CASE h # g
  <2>1. stack'[h] = stack[h] /\ pc'[h] = pc[h]
    BY <1>2, OwnStep
  <2>2. pc[h] \in Fetching
    <3>1. stack[h] # <<>>
      BY <2>1
    <3> QED
      BY <3>1 DEF TypeOK
  <2>3. by[Head(stack[h][i])] # h /\ (i > 1 \/ pc[h] # "check")
    BY <1>1, <2>1 DEF NoneOwn, Checked
  <2> QED
    BY <1>2, <2>1, <2>2, <2>3, OthersBy
<1>3. CASE h = g
  <2>1. PICK k \in 1..Len(stack[g]) :
           /\ pc[g] \in Fetching /\ (k > 1 \/ pc[g] # "check" \/ Check(g))
           /\ stack'[g][i] = stack[g][k]
           /\ k > 1 \/ pc[g] \in Checked \/ Check(g)
           /\ k > 1 \/ ~Register(g)
    BY <1>3, FrameFrom
  <2>2. CASE k > 1 \/ pc[g] \in Checked
    <3>1. by[Head(stack[g][k])] # g /\ (k > 1 \/ pc[g] # "check")
      BY <1>1, <1>3, <2>2 DEF NoneOwn, Checked
    <3> QED
      BY <1>3, <2>1, <3>1, OthersBy
  <2>3. CASE ~(k > 1 \/ pc[g] \in Checked)
    <3>1. Check(g) /\ k = 1 /\ stack[g] \in Seq(Seq(Files)) /\ stack[g] # <<>>
      BY <2>1, <2>3 DEF TypeOK
    <3>2. Current(g) = Head(stack[g][k]) /\ Current(g) \notin Registered /\ by' = by
      BY <3>1, HeadTailProperties DEF Check, Current
    <3>3. Current(g) \in Files
      <4>1. Head(stack[g]) \in Seq(Files) /\ Head(stack[g]) # <<>>
        BY <3>1, HeadTailProperties DEF Check
      <4> QED
        BY <4>1, HeadTailProperties DEF Current
    <3> QED
      BY <1>3, <2>1, <3>2, <3>3, NoOneAssumption DEF Registered
  <2> QED
    BY <2>2, <2>3
<1> QED
  BY <1>2, <1>3

LEMMA DescentKept ==
  ASSUME NoCircle, ImportsOnly
  PROVE  /\ Init => Descent
         /\ TypeOK /\ Shape /\ Descent /\ [Next]_vars => Descent'
<1>1. Init => Descent
  <2> SUFFICES ASSUME Init PROVE Descent
    OBVIOUS
  <2> SUFFICES ASSUME NEW g \in Goroutines
               PROVE  /\ Linked(stack[g]) /\ NoneOwn(g, pc[g], stack[g])
                      /\ pc[g] = "request" /\ stack[g] # <<>> => want[g] \in Deps[Head(stack[g][1])]
    BY DEF Descent
  <2>1. stack[g] = <<>>
    BY DEF Init
  <2>2. 1..Len(stack[g]) = {}
    BY <2>1
  <2> QED
    BY <2>1, <2>2 DEF Linked, NoneOwn
<1>2. ASSUME TypeOK, Shape, Descent, NEW g \in Goroutines, Step(g) PROVE Descent'
  <2> SUFFICES ASSUME NEW h \in Goroutines
               PROVE  /\ Linked(stack'[h])
                      /\ pc'[h] = "request" /\ stack'[h] # <<>> => want'[h] \in Deps[Head(stack'[h][1])]
                      /\ NoneOwn(h, pc[h], stack[h])'
    BY DEF Descent
  <2>1. NoneOwn(h, pc[h], stack[h])'
    BY <1>2, NoneOwnStep
  <2>2. CASE h = g
    BY <1>2, <2>1, <2>2, LinkedStep, AskedStep
  <2>3. CASE h # g
    <3>1. stack'[h] = stack[h] /\ pc'[h] = pc[h]
      BY <1>2, <2>3, OwnStep
    <3>2. want'[h] = want[h]
      BY <1>2, <2>3 DEF Step, Resolve, Lookup, Find, ReadSeen, Mark, FindAgain, Answered, RequestFails,
        Lock, Check, SkipRegistered, Processed, FetchDependency, DependenciesDone, Relock,
        RelockToFail, Register, Conflict, TypeOK
    <3> QED
      BY <1>2, <2>1, <3>1, <3>2 DEF Descent
  <2> QED
    BY <2>2, <2>3
<1>3. ASSUME Descent, UNCHANGED vars PROVE Descent'
  BY <1>3 DEF vars, Descent, NoneOwn
<1> QED
  BY <1>1, <1>2, <1>3 DEF Next, Step

\* Where files do not import each other in a circle and an answer holds nothing
\* but imports, only another goroutine can have registered the file that one is
\* about to register.
THEOREM OwnRegistrations ==
  ASSUME NoCircle, ImportsOnly
  PROVE  Spec => []ConflictNeedsAnother
<1>1. TypeOK /\ Shape /\ Descent => ConflictNeedsAnother
  <2> SUFFICES ASSUME TypeOK, Shape, Descent, NEW g \in Goroutines, pc[g] = "register"
               PROVE  by[Current(g)] # g
    BY DEF ConflictNeedsAnother
  <2>1. stack[g] \in Seq(Seq(Files)) /\ stack[g] # <<>>
    BY DEF TypeOK, Shape, Shaped, Fetching
  <2>2. 1 \in 1..Len(stack[g]) /\ Head(stack[g]) = stack[g][1]
    BY <2>1, LenProperties, EmptySeq, HeadTailProperties
  <2> QED
    BY <2>2 DEF Descent, NoneOwn, Checked, Current
<1> QED
  BY <1>1, DescentKept, Typing, PTL DEF Spec

\* The recursion is no deeper than there are files, an innermost call that has
\* none left apart.
Shallow == \A g \in Goroutines : Len(stack[g]) <= Cardinality(Files) + 1

\* In the same world every open call is at a file of its own, so that the
\* recursion of a lookup, which nothing in the code limits, is bounded.
THEOREM RecursionBounded ==
  ASSUME NoCircle, ImportsOnly, IsFiniteSet(Files)
  PROVE  Spec => []Shallow
<1>1. TypeOK /\ Shape /\ Descent => Shallow
  <2> SUFFICES ASSUME TypeOK, Shape, Descent, NEW g \in Goroutines,
                      ~(Len(stack[g]) <= Cardinality(Files) + 1)
               PROVE  FALSE
    BY DEF Shallow
  <2> DEFINE calls == 2..Len(stack[g])
             at == [i \in calls |-> Head(stack[g][i])]
  <2>1. Len(stack[g]) \in Nat /\ Cardinality(Files) \in Nat /\ stack[g] # <<>>
    <3>1. stack[g] \in Seq(Seq(Files))
      BY DEF TypeOK
    <3>2. Cardinality(Files) \in Nat /\ Len(<<>>) = 0
      BY FS_CardinalityType
    <3> QED
      BY <3>1, <3>2, LenProperties
  <2>2. \A i \in calls : i \in 1..Len(stack[g]) /\ i > 1
    BY <2>1
  <2>3. pc[g] \in Fetching
    BY <2>1 DEF TypeOK
  <2>4. \A i \in calls : Head(stack[g][i]) \in Of(stack[g][i]) /\ Head(stack[g][i]) \in Files
    BY <2>2, <2>3, AtFile
  <2>5. at \in [calls -> Files]
    BY <2>4
  <2>6. IsFiniteSet(calls) /\ Cardinality(Files) < Cardinality(calls)
    <3>1. 2 \in Int /\ Len(stack[g]) \in Int /\ ~(2 > Len(stack[g]))
      BY <2>1
    <3>2. IsFiniteSet(calls) /\ Cardinality(calls) = Len(stack[g]) - 2 + 1
      BY <3>1, FS_Interval
    <3> QED
      BY <2>1, <3>2
  <2>7. ASSUME NEW i \in calls, NEW j \in calls, i < j PROVE at[i] # at[j]
    <3>1. Of(stack[g][i]) \subseteq Imported(Head(stack[g][j]))
      BY <2>2, <2>7 DEF Descent, Linked
    <3>2. Head(stack[g][i]) # Head(stack[g][j])
      BY <2>4, <3>1, NotItsOwnImport
    <3> QED
      BY <3>2
  <2>8. PICK i, j \in calls : i # j /\ at[i] = at[j]
    <3> HIDE DEF at, calls
    <3> QED
      BY <2>5, <2>6, FS_PigeonHole
  <2>9. i < j \/ j < i
    BY <2>1, <2>8
  <2> QED
    BY <2>7, <2>8, <2>9
<1> QED
  BY <1>1, DescentKept, Typing, PTL DEF Spec

-----------------------------------------------------------------------------
\* What holds of a goroutine that has the registry to itself and whose requests
\* are answered: none of the files that its calls are at is registered yet, and
\* no lookup has failed.
Undisturbed(g) ==
  /\ \A i \in 1..Len(stack[g]) :
       i > 1 \/ pc[g] \in Checked => Head(stack[g][i]) \notin Registered
  /\ err[g] = "none" /\ pc[g] \notin {"failed", "notFound"}
  /\ pc[g] \in Fetching \union {"again"} => sym[g] \in seen

Alone == lost = {} /\ \A g \in Goroutines : Undisturbed(g)

LEMMA AloneFrames ==
  ASSUME NoCircle, TypeOK, Shape, Descent, NEW g \in Goroutines, Undisturbed(g), Step(g),
         NEW i \in 1..Len(stack'[g]), i > 1 \/ pc'[g] \in Checked
  PROVE  Head(stack'[g][i]) \notin Registered'
<1>1. PICK k \in 1..Len(stack[g]) :
         /\ pc[g] \in Fetching /\ (k > 1 \/ pc[g] # "check" \/ Check(g))
         /\ stack'[g][i] = stack[g][k]
         /\ k > 1 \/ pc[g] \in Checked \/ Check(g)
         /\ k > 1 \/ ~Register(g)
  BY FrameFrom
<1>2. Head(stack[g][k]) \notin Registered
  <2>1. CASE k > 1 \/ pc[g] \in Checked
    BY <2>1 DEF Undisturbed
  <2>2. CASE ~(k > 1 \/ pc[g] \in Checked)
    <3>1. Check(g) /\ k = 1 /\ stack[g] \in Seq(Seq(Files)) /\ stack[g] # <<>>
      BY <1>1, <2>2 DEF TypeOK
    <3> QED
      BY <3>1, HeadTailProperties DEF Check, Current
  <2> QED
    BY <2>1, <2>2
<1>3. CASE Register(g)
  <2>1. by' = [by EXCEPT ![Current(g)] = g] /\ pc[g] = "register" /\ k > 1
    BY <1>1, <1>3 DEF Register, Goto
  <2>2. stack[g] \in Seq(Seq(Files)) /\ stack[g] # <<>> /\ 1 \in 1..Len(stack[g]) /\ 1 < k
    <3>1. stack[g] \in Seq(Seq(Files))
      BY DEF TypeOK
    <3> QED
      BY <2>1, <3>1, LenProperties, EmptySeq
  <2>3. Head(stack[g]) = stack[g][1]
    BY <2>2, HeadTailProperties
  <2>4. Current(g) \in Of(stack[g][1])
    BY <2>1, <2>2, <2>3, AtFile DEF Current, Fetching
  <2>5. Of(stack[g][1]) \subseteq Imported(Head(stack[g][k])) /\ Head(stack[g][k]) \in Files
    BY <1>1, <2>1, <2>2, AtFile DEF Descent, Linked
  <2>6. Current(g) # Head(stack[g][k])
    BY <2>4, <2>5, NotItsOwnImport
  <2> QED
    BY <1>1, <1>2, <2>1, <2>5, <2>6 DEF TypeOK, Registered
<1>4. CASE by' = by
  BY <1>1, <1>2, <1>4 DEF Registered
<1> QED
  BY <1>3, <1>4
     DEF Step, Resolve, Lookup, Find, ReadSeen, Mark, FindAgain, Answered, RequestFails, Lock, Check,
         SkipRegistered, Processed, FetchDependency, DependenciesDone, Relock, RelockToFail, Conflict

LEMMA AloneStep ==
  ASSUME NoCircle, Reliable, \A g, h \in Goroutines : g = h,
         TypeOK, Shape, Descent, MarkHasReason, Alone, NEW g \in Goroutines, Step(g)
  PROVE  Alone'
<1>1. Undisturbed(g) /\ lost = {}
  BY DEF Alone
<1>2. ~RequestFails(g)
  BY DEF RequestFails
<1>3. ~RelockToFail(g)
  BY <1>1 DEF RelockToFail, Undisturbed
<1>4. ~Conflict(g)
  <2> SUFFICES ASSUME Conflict(g) PROVE FALSE
    OBVIOUS
  <2>1. pc[g] = "register" /\ Current(g) \in Registered
    BY DEF Conflict
  <2>2. stack[g] \in Seq(Seq(Files)) /\ stack[g] # <<>>
    BY <2>1 DEF TypeOK, Shape, Shaped, Fetching
  <2>3. 1 \in 1..Len(stack[g]) /\ Head(stack[g]) = stack[g][1]
    BY <2>2, LenProperties, EmptySeq, HeadTailProperties
  <2> QED
    BY <1>1, <2>1, <2>3 DEF Undisturbed, Checked, Current
<1>5. lost' = {} /\ err'[g] = "none"
  BY <1>1, <1>2, <1>3, <1>4
     DEF Step, Resolve, Lookup, Find, ReadSeen, Mark, FindAgain, Answered, Lock, Check,
         SkipRegistered, Processed, FetchDependency, DependenciesDone, Relock, Register,
         Undisturbed, TypeOK
<1>6. pc'[g] \in Fetching \union {"again"} => sym'[g] \in seen'
  <2>1. CASE Mark(g) \/ ReadSeen(g)
    BY <1>1, <2>1 DEF Mark, ReadSeen, Goto, Fetching, Undisturbed, TypeOK
  <2>2. CASE Lookup(g) \/ Find(g) \/ FindAgain(g)
    BY <2>2 DEF Lookup, Find, FindAgain, Goto, Fetching, TypeOK
  <2>3. CASE ~(Mark(g) \/ ReadSeen(g) \/ Lookup(g) \/ Find(g) \/ FindAgain(g))
    <3>1. pc[g] \in Fetching /\ sym' = sym /\ seen' = seen
      BY <1>2, <1>3, <1>4, <2>3
         DEF Step, Resolve, Answered, Lock, Check, SkipRegistered, Processed, FetchDependency,
             DependenciesDone, Relock, Register, Goto, Fetching
    <3> QED
      BY <1>1, <3>1 DEF Undisturbed
  <2> QED
    BY <2>1, <2>2, <2>3
\* The mark of a symbol has one reason left: its file is registered.
<1>7. FindAgain(g) => FileOf[sym[g]] \in Registered
  <2> SUFFICES ASSUME FindAgain(g) PROVE FileOf[sym[g]] \in Registered
    OBVIOUS
  <2>1. pc[g] = "again" /\ sym[g] \in seen
    BY <1>1 DEF FindAgain, Goto, Undisturbed
  <2>2. \A h \in Goroutines : pc[h] \notin Fetching
    BY <2>1 DEF Fetching
  <2> QED
    BY <1>1, <2>1, <2>2 DEF MarkHasReason
<1>8. pc'[g] \notin {"failed", "notFound"}
  BY <1>1, <1>2, <1>3, <1>4, <1>7
     DEF Step, Resolve, Lookup, Find, ReadSeen, Mark, FindAgain, Answered, Lock, Check,
         SkipRegistered, Processed, FetchDependency, DependenciesDone, Relock, Register,
         Goto, Undisturbed, TypeOK
<1>9. \A i \in 1..Len(stack'[g]) :
        i > 1 \/ pc'[g] \in Checked => Head(stack'[g][i]) \notin Registered'
  BY <1>1, AloneFrames
<1>10. Undisturbed(g)'
  BY <1>5, <1>6, <1>8, <1>9 DEF Undisturbed
<1> QED
  BY <1>5, <1>10 DEF Alone

\* A lookup that misses is always fetched where nobody else looks types up and
\* the node answers: it takes two goroutines, or a request that fails, to lose a
\* type.  What the run with two goroutines refutes holds for one.
THEOREM AloneNothingIsMissed ==
  ASSUME NoCircle, ImportsOnly, Reliable, \A g, h \in Goroutines : g = h
  PROVE  Spec => []MissIsFetched
<1>1. Init => Alone
  <2> SUFFICES ASSUME Init PROVE Alone
    OBVIOUS
  <2>1. lost = {}
    BY DEF Init
  <2>2. ASSUME NEW g \in Goroutines PROVE Undisturbed(g)
    <3>1. stack[g] = <<>> /\ err[g] = "none" /\ pc[g] = "idle"
      BY DEF Init
    <3>2. 1..Len(stack[g]) = {}
      BY <3>1
    <3> QED
      BY <3>1, <3>2 DEF Undisturbed, Fetching
  <2> QED
    BY <2>1, <2>2 DEF Alone
<1>2. TypeOK /\ Shape /\ Descent /\ MarkHasReason /\ Alone /\ [Next]_vars => Alone'
  <2>1. CASE UNCHANGED vars
    BY <2>1 DEF vars, Alone, Undisturbed, Registered
  <2> QED
    BY <2>1, AloneStep DEF Next, Step
<1>3. Alone => MissIsFetched
  <2> SUFFICES ASSUME Alone, NEW g \in Goroutines PROVE pc[g] # "notFound"
    BY DEF MissIsFetched
  <2>1. Undisturbed(g)
    BY DEF Alone
  <2> QED
    BY <2>1 DEF Undisturbed
<1> QED
  BY <1>1, <1>2, <1>3, DescentKept, Typing, MarksHaveReasons, PTL DEF Spec
=============================================================================
