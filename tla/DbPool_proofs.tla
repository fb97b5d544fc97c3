------------------------------ MODULE DbPool_proofs ------------------------------
(***************************************************************************)
(* Proofs about the pool of connections, for any number of slots, of       *)
(* writers and of scrapes: what a call holds, and that fewer scrapes of    *)
(* locked tokens than slots can never all wait for each other.             *)
(***************************************************************************)
EXTENDS DbPool, FiniteSetTheorems, SequenceTheorems, TLAPS

Places == {"idle", "asking", "open", "askingMore", "openMore", "leaving"}

\* Who waits is asking, and waits once.
Queue ==
  /\ waiting \in Seq(Users)
  /\ \A i \in 1..Len(waiting) : pc[waiting[i]] \in Asking
  /\ \A i, j \in 1..Len(waiting) : waiting[i] = waiting[j] => i = j

Types ==
  /\ main \in {"extracting", "closing", "exited"} /\ cancelled \in BOOLEAN
  /\ pc \in [Users -> Places]
  /\ holder \in [Slots -> Users \union {Nobody}]
  /\ left \in [Users -> SUBSET Addresses]

\* Nobody waits while a slot is free.
NoneIdle == waiting # <<>> => Free = {}

\* Only who may have rows left asks for a second connection.
OnlyLockersAskMore ==
  \A u \in Users : left[u] # {} \/ pc[u] \in {"askingMore", "openMore"} => u \in Lockers

Inv == Types /\ Queue /\ NoneIdle /\ HoldsAsOpen /\ OnlyLockersAskMore

-----------------------------------------------------------------------------
LEMMA Retyped ==
  ASSUME NEW S, NEW T, NEW s \in Seq(S), \A i \in 1..Len(s) : s[i] \in T
  PROVE  s \in Seq(T)
<1>1. SubSeq(s, 1, Len(s)) = s /\ Len(s) \in Int
  BY SubSeqFull, LenProperties
<1> QED
  BY <1>1, SubSeqProperties

LEMMA TypesGiveTypeOK ==
  ASSUME Types, Queue
  PROVE  TypeOK
<1>1. waiting \in Seq({u \in Users : pc[u] \in Asking})
  <2>1. waiting \in Seq(Users) /\ \A i \in 1..Len(waiting) : waiting[i] \in {u \in Users : pc[u] \in Asking}
    BY ElementOfSeq DEF Queue
  <2> QED
    BY <2>1, Retyped
<1> QED
  BY <1>1 DEF Types, TypeOK, Places

\* What a call holds is a finite set of slots, and no two hold the same one.
LEMMA HeldFinite ==
  ASSUME Types, NEW u
  PROVE  IsFiniteSet(Held(u)) /\ Cardinality(Held(u)) \in Nat /\ Held(u) \subseteq Slots
  BY SlotsAssumption, FS_Subset, FS_CardinalityType DEF Held

\* A slot goes from one to another.
LEMMA SlotMoves ==
  ASSUME Types, NEW from, NEW to, from # to, NEW s \in Held(from),
         holder' = [holder EXCEPT ![s] = to]
  PROVE  /\ Held(from)' = Held(from) \ {s} /\ Held(to)' = Held(to) \union {s}
         /\ \A v : v # from /\ v # to => Held(v)' = Held(v)
         /\ Cardinality(Held(from)') = Cardinality(Held(from)) - 1
         /\ Cardinality(Held(to)') = Cardinality(Held(to)) + 1
<1>1. s \in Slots /\ holder[s] = from /\ s \notin Held(to)
  BY DEF Held
<1>2. \A t \in Slots : holder'[t] = IF t = s THEN to ELSE holder[t]
  BY DEF Types
<1>3. Held(from)' = Held(from) \ {s} /\ Held(to)' = Held(to) \union {s}
  BY <1>1, <1>2 DEF Held
<1>4. \A v : v # from /\ v # to => Held(v)' = Held(v)
  <2> TAKE v
  <2>1. HAVE v # from /\ v # to
  <2>2. \A t \in Slots : holder'[t] = v <=> holder[t] = v
    BY <1>1, <1>2, <2>1
  <2> QED
    BY <2>2 DEF Held
<1>5. IsFiniteSet(Held(from)) /\ IsFiniteSet(Held(to))
  BY HeldFinite
<1>6. Cardinality(Held(from) \ {s}) = Cardinality(Held(from)) - 1
  BY <1>5, FS_RemoveElement
<1>7. Cardinality(Held(to) \union {s}) = Cardinality(Held(to)) + 1
  BY <1>1, <1>5, FS_AddElement
<1> QED
  BY <1>3, <1>4, <1>6, <1>7

\* A call asks: it gets a free slot at once, or waits as the last.
LEMMA AskGives ==
  ASSUME Types, Queue, NEW u \in Users, Ask(u), u # Nobody, ~Queued(u)
  PROVE  \/ /\ waiting = <<>> /\ waiting' = <<>>
            /\ \E s \in Free : holder' = [holder EXCEPT ![s] = u]
         \/ /\ waiting # <<>> \/ Free = {}
            /\ holder' = holder /\ waiting' \in Seq(Users) /\ waiting' # <<>>
            /\ Len(waiting) \in Nat /\ Len(waiting') = Len(waiting) + 1
            /\ waiting'[Len(waiting) + 1] = u
            /\ \A i \in 1..Len(waiting) : waiting'[i] = waiting[i]
<1>1. CASE waiting = <<>> /\ Free # {} /\ holder' = [holder EXCEPT ![One(Free)] = u] /\ UNCHANGED waiting
  <2>1. One(Free) \in Free
    BY <1>1 DEF One
  <2> QED
    BY <1>1, <2>1
<1>2. CASE (waiting # <<>> \/ Free = {}) /\ waiting' = Append(waiting, u) /\ UNCHANGED holder
  <2>1. /\ waiting' \in Seq(Users) /\ Len(waiting) \in Nat /\ Len(waiting') = Len(waiting) + 1
        /\ waiting'[Len(waiting) + 1] = u
        /\ \A i \in 1..Len(waiting) : waiting'[i] = waiting[i]
    BY <1>2, AppendProperties, LenProperties DEF Queue
  <2>2. waiting' # <<>>
    BY <2>1, EmptySeq
  <2> QED
    BY <1>2, <2>1, <2>2
<1> QED
  BY <1>1, <1>2 DEF Ask

\* A slot is given back: to the first who waits, or to nobody.
LEMMA ReleaseGives ==
  ASSUME Types, Queue, NEW u \in Users, Release(u), Held(u) # {}
  PROVE  \E s \in Held(u) :
           \/ /\ waiting = <<>> /\ waiting' = <<>>
              /\ holder' = [holder EXCEPT ![s] = Nobody]
           \/ /\ waiting # <<>> /\ Len(waiting) \in Nat \ {0} /\ waiting[1] \in Users
              /\ holder' = [holder EXCEPT ![s] = waiting[1]]
              /\ waiting' \in Seq(Users) /\ Len(waiting') = Len(waiting) - 1
              /\ \A i \in 1..Len(waiting') : waiting'[i] = waiting[i + 1]
<1>1. One(Held(u)) \in Held(u)
  BY DEF One
<1>2. CASE waiting = <<>>
  BY <1>1, <1>2 DEF Release
<1>3. CASE waiting # <<>>
  <2>1. waiting \in Seq(Users)
    BY DEF Queue
  <2>2. /\ Head(waiting) \in Users /\ Tail(waiting) \in Seq(Users)
        /\ Len(Tail(waiting)) = Len(waiting) - 1
        /\ \A i \in 1..Len(Tail(waiting)) : Tail(waiting)[i] = waiting[i + 1]
    BY <1>3, <2>1, HeadTailProperties
  <2>3. Len(waiting) \in Nat \ {0} /\ Head(waiting) = waiting[1]
    BY <1>3, <2>1, EmptySeq
  <2> QED
    BY <1>1, <1>3, <2>2, <2>3 DEF Release
<1> QED
  BY <1>2, <1>3

-----------------------------------------------------------------------------
\* What remains true of queue and holdings when a call asks.
Sound == Queue /\ NoneIdle /\ HoldsAsOpen

LEMMA Asks ==
  ASSUME Inv, NEW u \in Users, pc[u] \in {"idle", "open"}, Ask(u),
         pc' = [pc EXCEPT ![u] = IF pc[u] = "idle" THEN "asking" ELSE "askingMore"]
  PROVE  Sound' /\ holder' \in [Slots -> Users \union {Nobody}]
<1> USE DEF Inv
<1>1. ~Queued(u) /\ u # Nobody /\ \A v \in Users : v # Nobody
  BY UsersAssumption DEF Queued, Queue, Asking, Users
<1>2. /\ pc' \in [Users -> Places] /\ pc'[u] = IF pc[u] = "idle" THEN "asking" ELSE "askingMore"
      /\ \A v \in Users : v # u => pc'[v] = pc[v]
  BY DEF Types, Places
<1>3. /\ Cardinality(Held(u)) = IF pc[u] = "idle" THEN 0 ELSE 1
      /\ \A v \in Users : Cardinality(Held(v)) \in Due(pc[v], Queued(v))
  BY DEF HoldsAsOpen, Due
<1>4. CASE /\ waiting = <<>> /\ waiting' = <<>>
           /\ \E s \in Free : holder' = [holder EXCEPT ![s] = u]
  <2>1. PICK s \in Free : holder' = [holder EXCEPT ![s] = u]
    BY <1>4
  <2>2. s \in Held(Nobody)
    BY DEF Free
  <2>3. /\ Cardinality(Held(u)') = Cardinality(Held(u)) + 1
        /\ \A v : v # Nobody /\ v # u => Held(v)' = Held(v)
    BY <1>1, <2>1, <2>2, SlotMoves
  <2>4. Cardinality(Held(u)') = IF pc[u] = "idle" THEN 1 ELSE 2
    BY <1>3, <2>3
  <2>5. \A v \in Users : ~Queued(v) /\ ~Queued(v)'
    BY <1>4 DEF Queued
  <2>6. HoldsAsOpen'
    <3> SUFFICES ASSUME NEW v \in Users PROVE Cardinality(Held(v)') \in Due(pc'[v], Queued(v)')
      BY DEF HoldsAsOpen
    <3>1. CASE v = u
      BY <1>2, <2>4, <2>5, <3>1 DEF Due
    <3>2. CASE v # u
      <4>1. Held(v)' = Held(v) /\ pc'[v] = pc[v]
        BY <1>1, <1>2, <2>3, <2>5, <3>2
      <4>2. ~Queued(v) /\ ~Queued(v)'
        BY <2>5
      <4> QED
        BY <1>3, <4>1, <4>2 DEF Due
    <3> QED
      BY <3>1, <3>2
  <2>7. Queue' /\ NoneIdle'
    BY <1>4, EmptySeq DEF Queue, NoneIdle
  <2>8. holder' \in [Slots -> Users \union {Nobody}]
    BY <2>1 DEF Types
  <2> QED
    BY <2>6, <2>7, <2>8 DEF Sound
<1>5. CASE /\ waiting # <<>> \/ Free = {}
           /\ holder' = holder /\ waiting' \in Seq(Users) /\ waiting' # <<>>
           /\ Len(waiting) \in Nat /\ Len(waiting') = Len(waiting) + 1
           /\ waiting'[Len(waiting) + 1] = u
           /\ \A i \in 1..Len(waiting) : waiting'[i] = waiting[i]
  <2>1. \A i \in 1..Len(waiting') : i = Len(waiting) + 1 \/ i \in 1..Len(waiting)
    BY <1>5
  <2>2. \A i \in 1..Len(waiting) : i \in 1..Len(waiting') /\ waiting[i] \in Users /\ waiting[i] # u
    BY <1>1, <1>5, ElementOfSeq DEF Queue, Queued
  <2>3. Len(waiting) + 1 \in 1..Len(waiting')
    BY <1>5
  <2>4. \A i \in 1..Len(waiting') : pc'[waiting'[i]] \in Asking
    BY <1>2, <1>5, <2>1, <2>2 DEF Queue, Asking
  <2>5. \A i, j \in 1..Len(waiting') : waiting'[i] = waiting'[j] => i = j
    BY <1>5, <2>1, <2>2 DEF Queue
  <2>6. Queue'
    BY <1>5, <2>4, <2>5 DEF Queue
  <2>7. \A v \in Users : Held(v)' = Held(v) /\ (v # u => Queued(v)' = Queued(v))
    <3> TAKE v \in Users
    <3>1. Held(v)' = Held(v)
      BY <1>5 DEF Held
    <3>2. ASSUME v # u PROVE Queued(v)' = Queued(v)
      BY <1>5, <2>1, <2>2, <3>2 DEF Queued
    <3> QED
      BY <3>1, <3>2
  <2>8. Queued(u)'
    BY <1>5, <2>3 DEF Queued
  <2>9. HoldsAsOpen'
    <3> SUFFICES ASSUME NEW v \in Users PROVE Cardinality(Held(v)') \in Due(pc'[v], Queued(v)')
      BY DEF HoldsAsOpen
    <3>1. CASE v = u
      BY <1>2, <1>3, <2>7, <2>8, <3>1 DEF Due
    <3>2. CASE v # u
      BY <1>2, <1>3, <2>7, <3>2
    <3> QED
      BY <3>1, <3>2
  <2>10. NoneIdle'
    BY <1>5 DEF NoneIdle, Free, Held
  <2> QED
    BY <1>5, <2>6, <2>9, <2>10 DEF Sound, Types
<1> QED
  BY <1>1, <1>4, <1>5, AskGives

\* When a call gives a slot back.
LEMMA Gives ==
  ASSUME Inv, NEW u \in Users, ~Queued(u), Held(u) # {}, Release(u),
         NEW place \in Places \ Asking, pc' = [pc EXCEPT ![u] = place],
         Cardinality(Held(u)) - 1 \in Due(place, FALSE)
  PROVE  Sound' /\ holder' \in [Slots -> Users \union {Nobody}]
<1> USE DEF Inv
<1>1. u # Nobody /\ \A v \in Users : v # Nobody
  BY UsersAssumption DEF Users
<1>2. pc'[u] = place /\ \A v \in Users : v # u => pc'[v] = pc[v]
  BY DEF Types
<1>3. \A v \in Users : Cardinality(Held(v)) \in Due(pc[v], Queued(v))
  BY DEF HoldsAsOpen
<1>4. PICK s \in Held(u) :
           \/ /\ waiting = <<>> /\ waiting' = <<>>
              /\ holder' = [holder EXCEPT ![s] = Nobody]
           \/ /\ waiting # <<>> /\ Len(waiting) \in Nat \ {0} /\ waiting[1] \in Users
              /\ holder' = [holder EXCEPT ![s] = waiting[1]]
              /\ waiting' \in Seq(Users) /\ Len(waiting') = Len(waiting) - 1
              /\ \A i \in 1..Len(waiting') : waiting'[i] = waiting[i + 1]
  BY ReleaseGives
<1>7. CASE /\ waiting = <<>> /\ waiting' = <<>>
           /\ holder' = [holder EXCEPT ![s] = Nobody]
  <2>1. /\ Cardinality(Held(u)') = Cardinality(Held(u)) - 1
        /\ \A v : v # u /\ v # Nobody => Held(v)' = Held(v)
    BY <1>1, <1>7, SlotMoves
  <2>2. \A v \in Users : ~Queued(v) /\ ~Queued(v)'
    BY <1>7 DEF Queued
  <2>3. HoldsAsOpen'
    <3> SUFFICES ASSUME NEW v \in Users PROVE Cardinality(Held(v)') \in Due(pc'[v], Queued(v)')
      BY DEF HoldsAsOpen
    <3>1. CASE v = u
      BY <1>2, <2>1, <2>2, <3>1 DEF Due
    <3>2. CASE v # u
      <4>1. Held(v)' = Held(v) /\ pc'[v] = pc[v]
        BY <1>1, <1>2, <2>1, <2>2, <3>2
      <4>2. ~Queued(v) /\ ~Queued(v)'
        BY <2>2
      <4> QED
        BY <1>3, <4>1, <4>2 DEF Due
    <3> QED
      BY <3>1, <3>2
  <2>4. Queue' /\ NoneIdle'
    BY <1>7, EmptySeq DEF Queue, NoneIdle
  <2>5. holder' \in [Slots -> Users \union {Nobody}]
    BY <1>7 DEF Types
  <2> QED
    BY <2>3, <2>4, <2>5 DEF Sound
<1>8. CASE /\ waiting # <<>> /\ Len(waiting) \in Nat \ {0} /\ waiting[1] \in Users
           /\ holder' = [holder EXCEPT ![s] = waiting[1]]
           /\ waiting' \in Seq(Users) /\ Len(waiting') = Len(waiting) - 1
           /\ \A i \in 1..Len(waiting') : waiting'[i] = waiting[i + 1]
  <2>0. PICK w \in Users : w = waiting[1]
    BY <1>8
  <2>1. Queued(w) /\ w # u /\ pc[w] \in Asking
    BY <1>8, <2>0 DEF Queued, Queue
  <2>2. \A i \in 1..Len(waiting') : i + 1 \in 2..Len(waiting) /\ i + 1 \in 1..Len(waiting) /\ i + 1 # 1
    BY <1>8
  <2>3. \A i \in 1..Len(waiting') : waiting'[i] # w /\ waiting'[i] # u /\ waiting'[i] \in Users
                                    /\ pc'[waiting'[i]] \in Asking
    <3> TAKE i \in 1..Len(waiting')
    <3>1. waiting'[i] = waiting[i + 1] /\ i + 1 \in 1..Len(waiting) /\ i + 1 # 1 /\ 1 \in 1..Len(waiting)
      BY <1>8, <2>2
    <3>2. waiting[i + 1] # w /\ waiting[i + 1] # u /\ waiting[i + 1] \in Users /\ pc[waiting[i + 1]] \in Asking
      BY <2>0, <3>1, ElementOfSeq DEF Queue, Queued
    <3> QED
      BY <1>2, <3>1, <3>2
  <2>4. \A i, j \in 1..Len(waiting') : waiting'[i] = waiting'[j] => i = j
    <3> TAKE i, j \in 1..Len(waiting')
    <3>1. HAVE waiting'[i] = waiting'[j]
    <3>2. i + 1 = j + 1
      BY <1>8, <2>2, <3>1 DEF Queue
    <3> QED
      BY <1>8, <3>2
  <2>5. Queue'
    BY <1>8, <2>3, <2>4 DEF Queue
  <2>6. /\ Cardinality(Held(u)') = Cardinality(Held(u)) - 1
        /\ Cardinality(Held(w)') = Cardinality(Held(w)) + 1
        /\ \A v : v # u /\ v # w => Held(v)' = Held(v)
    <3>1. Types /\ u # w /\ s \in Held(u) /\ holder' = [holder EXCEPT ![s] = w]
      BY <1>8, <2>0, <2>1
    <3> QED
      BY <3>1, SlotMoves
  <2>7. Free' = Free
    BY <1>1, <1>8, <2>6 DEF Free
  <2>8. ~Queued(w)' /\ ~Queued(u)'
    BY <2>3 DEF Queued
  <2>9. ASSUME NEW v \in Users, v # w PROVE Queued(v)' = Queued(v)
    <3>1. Queued(v)' => Queued(v)
      BY <1>8, <2>2 DEF Queued
    <3>2. ASSUME NEW i \in 1..Len(waiting), waiting[i] = v PROVE Queued(v)'
      <4>1. i # 1 /\ i - 1 \in 1..Len(waiting') /\ (i - 1) + 1 = i
        BY <1>8, <2>0, <2>9, <3>2
      <4>2. waiting'[i - 1] = v
        BY <1>8, <3>2, <4>1
      <4> QED
        BY <4>1, <4>2 DEF Queued
    <3> QED
      BY <3>1, <3>2 DEF Queued
  <2>10. w \in Users /\ Cardinality(Held(w)) \in Nat
    BY HeldFinite
  <2>11. HoldsAsOpen'
    <3> SUFFICES ASSUME NEW v \in Users PROVE Cardinality(Held(v)') \in Due(pc'[v], Queued(v)')
      BY DEF HoldsAsOpen
    <3>1. CASE v = u
      BY <1>2, <2>6, <2>8, <3>1 DEF Due
    <3>2. CASE v = w
      <4>1. pc'[v] = pc[v] /\ pc[v] \in Asking /\ Queued(v) /\ ~Queued(v)'
        BY <1>2, <2>1, <2>8, <3>2
      <4>2. Cardinality(Held(v)) \in Due(pc[v], TRUE)
        BY <1>3, <4>1
      <4>3. Cardinality(Held(v)') = Cardinality(Held(v)) + 1
        BY <2>6, <3>2
      <4> QED
        BY <4>1, <4>2, <4>3 DEF Due, Asking
    <3>3. CASE v # u /\ v # w
      BY <1>2, <1>3, <2>6, <2>9, <3>3
    <3> QED
      BY <3>1, <3>2, <3>3
  <2>12. NoneIdle' /\ holder' \in [Slots -> Users \union {Nobody}]
    BY <1>8, <2>7 DEF NoneIdle, Types
  <2> QED
    BY <2>5, <2>11, <2>12 DEF Sound
<1> QED
  BY <1>4, <1>7, <1>8

\* When it only goes on, or starts to leave.
LEMMA GoesOn ==
  ASSUME Inv, NEW u \in Users, ~Queued(u), UNCHANGED <<holder, waiting>>,
         NEW place \in Places \ Asking, pc' = [pc EXCEPT ![u] = place],
         Cardinality(Held(u)) \in Due(place, FALSE)
  PROVE  Sound'
<1> USE DEF Inv
<1>1. pc'[u] = place /\ \A v \in Users : v # u => pc'[v] = pc[v]
  BY DEF Types
<1>2. \A v : Held(v)' = Held(v) /\ Queued(v)' = Queued(v)
  BY DEF Held, Queued
<1>3. HoldsAsOpen'
  <2> SUFFICES ASSUME NEW v \in Users PROVE Cardinality(Held(v)') \in Due(pc'[v], Queued(v)')
    BY DEF HoldsAsOpen
  <2>1. Cardinality(Held(v)) \in Due(pc[v], Queued(v))
    BY DEF HoldsAsOpen
  <2>2. CASE v = u
    BY <1>1, <1>2, <2>2 DEF Due
  <2> QED
    BY <1>1, <1>2, <2>1, <2>2
<1>4. \A i \in 1..Len(waiting) : waiting[i] \in Users /\ waiting[i] # u
  BY ElementOfSeq DEF Queue, Queued
<1>5. Queue' /\ NoneIdle'
  BY <1>1, <1>2, <1>4 DEF Queue, NoneIdle, Free
<1> QED
  BY <1>3, <1>5 DEF Sound

\* A writer leaves the queue: the others keep their order.
LEMMA Shrinks ==
  ASSUME NEW S, NEW q \in Seq(S), NEW i \in 1..Len(q)
  PROVE  LET r == SubSeq(q, 1, i - 1) \o SubSeq(q, i + 1, Len(q))
         IN  /\ r \in Seq(S) /\ Len(r) = Len(q) - 1 /\ Len(q) \in Nat
             /\ \A j \in 1..Len(r) : r[j] = IF j < i THEN q[j] ELSE q[j + 1]
<1> DEFINE a == SubSeq(q, 1, i - 1)
           b == SubSeq(q, i + 1, Len(q))
<1>1. Len(q) \in Nat /\ i \in Nat /\ 1 <= i /\ i <= Len(q)
  BY LenProperties
<1>2. \A j \in 1..Len(q) : q[j] \in S
  BY ElementOfSeq
<1>3. a \in Seq(S) /\ Len(a) = i - 1 /\ \A j \in 1..(i - 1) : a[j] = q[j]
  <2>1. \A j \in 1..(i - 1) : q[j] \in S
    BY <1>1, <1>2
  <2>2. /\ Len(SubSeq(q, 1, i - 1)) = (i - 1) - 1 + 1
        /\ \A k \in 1..((i - 1) - 1 + 1) : SubSeq(q, 1, i - 1)[k] = q[1 + k - 1]
        /\ SubSeq(q, 1, i - 1) \in Seq(S)
    BY <1>1, <2>1, SubSeqProperties
  <2> QED
    BY <1>1, <2>2
<1>4. b \in Seq(S) /\ Len(b) = Len(q) - i /\ \A j \in 1..(Len(q) - i) : b[j] = q[i + j]
  <2>1. \A j \in (i + 1)..Len(q) : q[j] \in S
    BY <1>1, <1>2
  <2>2. /\ Len(SubSeq(q, i + 1, Len(q))) = Len(q) - (i + 1) + 1
        /\ \A k \in 1..(Len(q) - (i + 1) + 1) : SubSeq(q, i + 1, Len(q))[k] = q[(i + 1) + k - 1]
        /\ SubSeq(q, i + 1, Len(q)) \in Seq(S)
    BY <1>1, <2>1, SubSeqProperties
  <2> QED
    BY <1>1, <2>2
<1> HIDE DEF a, b
<1>5. /\ a \o b \in Seq(S) /\ Len(a \o b) = Len(a) + Len(b)
      /\ \A j \in 1..(Len(a) + Len(b)) : (a \o b)[j] = IF j <= Len(a) THEN a[j] ELSE b[j - Len(a)]
  BY <1>3, <1>4, ConcatProperties
<1>6. \A j \in 1..(Len(q) - 1) : (a \o b)[j] = IF j < i THEN q[j] ELSE q[j + 1]
  <2> TAKE j \in 1..(Len(q) - 1)
  <2>1. CASE j < i
    BY <1>1, <1>3, <1>4, <1>5, <2>1
  <2>2. CASE ~(j < i)
    <3>1. j - (i - 1) \in 1..(Len(q) - i) /\ i + (j - (i - 1)) = j + 1 /\ ~(j <= i - 1)
      BY <1>1, <2>2
    <3>2. (a \o b)[j] = b[j - (i - 1)] /\ b[j - (i - 1)] = q[i + (j - (i - 1))]
      BY <1>1, <1>3, <1>4, <1>5, <3>1
    <3> QED
      BY <2>2, <3>1, <3>2
  <2> QED
    BY <2>1, <2>2
<1>7. Len(a \o b) = Len(q) - 1
  BY <1>1, <1>3, <1>4, <1>5
<1>8. a \o b = SubSeq(q, 1, i - 1) \o SubSeq(q, i + 1, Len(q))
  BY DEF a, b
<1> QED
  BY <1>1, <1>5, <1>6, <1>7, <1>8

LEMMA GivesUp ==
  ASSUME Inv, NEW w \in Writers, WriterGivesUp(w)
  PROVE  Sound' /\ holder' = holder
<1> USE DEF Inv
<1>1. PICK i \in 1..Len(waiting) :
         /\ waiting[i] = w
         /\ waiting' = SubSeq(waiting, 1, i - 1) \o SubSeq(waiting, i + 1, Len(waiting))
  BY DEF WriterGivesUp
<1>2. /\ waiting' \in Seq(Users) /\ Len(waiting') = Len(waiting) - 1 /\ Len(waiting) \in Nat
      /\ \A j \in 1..Len(waiting') : waiting'[j] = IF j < i THEN waiting[j] ELSE waiting[j + 1]
  <2>1. waiting \in Seq(Users)
    BY DEF Queue
  <2> QED
    BY <1>1, <2>1, Shrinks
<1>3. pc[w] = "asking" /\ w \in Users
  BY <1>1, UsersAssumption DEF Queue, Asking, OnlyLockersAskMore, Users
<1>4. /\ holder' = holder /\ pc' \in [Users -> Places] /\ pc'[w] = "idle"
      /\ \A v \in Users : v # w => pc'[v] = pc[v]
  BY <1>3 DEF WriterGivesUp, Goes, Types, Places
<1>5. \A v : Held(v)' = Held(v)
  BY <1>4 DEF Held
<1> DEFINE At(j) == IF j < i THEN j ELSE j + 1
<1>6. \A j \in 1..Len(waiting') : At(j) \in 1..Len(waiting) /\ At(j) # i /\ waiting'[j] = waiting[At(j)]
  BY <1>2
<1>7. \A j, k \in 1..Len(waiting') : At(j) = At(k) => j = k
  BY <1>2
<1>8. \A j \in 1..Len(waiting) : j # i => \E k \in 1..Len(waiting') : waiting'[k] = waiting[j]
  <2> TAKE j \in 1..Len(waiting)
  <2>1. HAVE j # i
  <2>2. CASE j < i
    <3>1. j \in 1..Len(waiting')
      BY <1>2, <2>2
    <3> QED
      BY <1>2, <2>2, <3>1
  <2>3. CASE j > i
    <3>1. j - 1 \in 1..Len(waiting') /\ ~(j - 1 < i) /\ (j - 1) + 1 = j
      BY <1>2, <2>3
    <3>2. waiting'[j - 1] = waiting[(j - 1) + 1]
      BY <1>2, <3>1
    <3> QED
      BY <3>1, <3>2
  <2> QED
    BY <2>1, <2>2, <2>3
<1> HIDE DEF At
<1>9. \A j \in 1..Len(waiting') : waiting'[j] # w /\ waiting'[j] \in Users
  <2> TAKE j \in 1..Len(waiting')
  <2>1. waiting'[j] = waiting[At(j)] /\ At(j) \in 1..Len(waiting) /\ At(j) # i
    BY <1>6
  <2>2. waiting[At(j)] \in Users /\ waiting[At(j)] # w
    BY <1>1, <2>1, ElementOfSeq DEF Queue
  <2> QED
    BY <2>1, <2>2
<1>10. Queue'
  <2>1. \A j \in 1..Len(waiting') : pc'[waiting'[j]] \in Asking
    BY <1>4, <1>6, <1>9 DEF Queue
  <2>2. \A j, k \in 1..Len(waiting') : waiting'[j] = waiting'[k] => j = k
    BY <1>6, <1>7 DEF Queue
  <2> QED
    BY <1>2, <2>1, <2>2 DEF Queue
<1>11. NoneIdle'
  <2>1. waiting # <<>> /\ Free' = Free
    BY <1>1, <1>2, <1>4, EmptySeq DEF Free, Held
  <2> QED
    BY <2>1 DEF NoneIdle
<1>12. HoldsAsOpen'
  <2> SUFFICES ASSUME NEW v \in Users PROVE Cardinality(Held(v)') \in Due(pc'[v], Queued(v)')
    BY DEF HoldsAsOpen
  <2>1. Cardinality(Held(v)) \in Due(pc[v], Queued(v)) /\ Held(v)' = Held(v)
    BY <1>5 DEF HoldsAsOpen
  <2>2. CASE v = w
    <3>1. Queued(w)
      BY <1>1 DEF Queued
    <3> QED
      BY <1>3, <1>4, <2>1, <2>2, <3>1 DEF Due
  <2>3. CASE v # w
    <3>1. Queued(v)' => Queued(v)
      BY <1>6 DEF Queued
    <3>2. Queued(v) => Queued(v)'
      BY <1>1, <1>8, <2>3 DEF Queued
    <3>3. pc'[v] = pc[v]
      BY <1>4, <2>3
    <3> QED
      BY <2>1, <3>1, <3>2, <3>3 DEF Due
  <2> QED
    BY <2>2, <2>3
<1> QED
  BY <1>4, <1>10, <1>11, <1>12 DEF Sound

-----------------------------------------------------------------------------
\* A step of one call: at which place it is says what it holds.
LEMMA HeldNow ==
  ASSUME Inv, NEW u \in Users
  PROVE  /\ pc[u] \in {"open", "leaving", "openMore", "idle"} => ~Queued(u)
         /\ pc[u] = "open" => Cardinality(Held(u)) = 1
         /\ pc[u] = "openMore" => Cardinality(Held(u)) = 2
         /\ pc[u] = "leaving" => Cardinality(Held(u)) \in {1, 2}
         /\ pc[u] = "asking" /\ ~Queued(u) => Cardinality(Held(u)) = 1
         /\ pc[u] = "askingMore" /\ ~Queued(u) => Cardinality(Held(u)) = 2
         /\ Cardinality(Held(u)) # 0 => Held(u) # {}
<1>1. pc[u] \in {"open", "leaving", "openMore", "idle"} => ~Queued(u)
  BY DEF Inv, Queue, Queued, Asking
<1>2. Cardinality(Held(u)) \in Due(pc[u], Queued(u))
  BY DEF Inv, HoldsAsOpen
<1>3. Cardinality(Held(u)) # 0 => Held(u) # {}
  BY FS_EmptySet
<1> QED
  BY <1>1, <1>2, <1>3 DEF Due

LEMMA Started ==
  ASSUME Inv, NEW u \in Users, Start(u)
  PROVE  Inv'
<1>1. pc' = [pc EXCEPT ![u] = IF pc[u] = "idle" THEN "asking" ELSE "askingMore"]
  BY DEF Start, Goes
<1>2. Sound' /\ holder' \in [Slots -> Users \union {Nobody}]
  BY <1>1, Asks DEF Start
<1>3. Types'
  BY <1>2 DEF Start, Goes, Inv, Types, Places
<1>4. OnlyLockersAskMore'
  BY DEF Start, Goes, Inv, Types, OnlyLockersAskMore
<1> QED
  BY <1>2, <1>3, <1>4 DEF Inv, Sound

LEMMA Stepped ==
  ASSUME Inv, NEW u \in Users, Step(u)
  PROVE  Inv'
<1>1. Types
  BY DEF Inv
<1>2. CASE u \in Writers /\ WriterGivesUp(u)
  <2>1. Sound' /\ holder' = holder
    BY <1>2, GivesUp
  <2>2. Types'
    BY <1>1, <1>2, <2>1 DEF WriterGivesUp, Goes, Types, Places
  <2>3. OnlyLockersAskMore'
    BY <1>1, <1>2 DEF WriterGivesUp, Goes, Inv, Types, OnlyLockersAskMore
  <2> QED
    BY <2>1, <2>2, <2>3 DEF Inv, Sound
<1>3. CASE Refused(u)
  <2> DEFINE place == IF pc[u] = "asking" THEN "idle" ELSE "leaving"
  <2>1. pc' = [pc EXCEPT ![u] = place] /\ ~Queued(u) /\ pc[u] \in Asking /\ Release(u)
    BY <1>3 DEF Refused, Granted, Goes
  <2>2. Cardinality(Held(u)) - 1 \in Due(place, FALSE) /\ Held(u) # {}
    BY <2>1, HeldNow DEF Asking, Due
  <2>3. place \in Places \ Asking
    BY DEF Places, Asking
  <2> HIDE DEF place
  <2>4. Sound' /\ holder' \in [Slots -> Users \union {Nobody}]
    BY <2>1, <2>2, <2>3, Gives
  <2>5. Types'
    BY <1>1, <1>3, <2>1, <2>3, <2>4 DEF Refused, Types
  <2>6. OnlyLockersAskMore'
    BY <1>1, <1>3 DEF Refused, Goes, Inv, Types, OnlyLockersAskMore
  <2> QED
    BY <2>4, <2>5, <2>6 DEF Inv, Sound
<1>4. CASE Opened(u)
  <2>1. pc' = [pc EXCEPT ![u] = "open"] /\ ~Queued(u) /\ pc[u] = "asking" /\ UNCHANGED <<holder, waiting>>
    BY <1>4 DEF Opened, Granted, Goes
  <2>2. Cardinality(Held(u)) \in Due("open", FALSE) /\ "open" \in Places \ Asking
    BY <2>1, HeldNow DEF Due, Places, Asking
  <2>3. Sound'
    BY <2>1, <2>2, GoesOn
  <2>4. PICK A \in SUBSET Addresses : left' = [left EXCEPT ![u] = IF u \in Lockers THEN A ELSE {}]
    BY <1>4 DEF Opened
  <2>5. Types'
    BY <1>1, <1>4, <2>1, <2>4 DEF Opened, Types, Places
  <2>6. OnlyLockersAskMore'
    BY <1>1, <2>1, <2>4 DEF Inv, Types, OnlyLockersAskMore
  <2> QED
    BY <2>3, <2>5, <2>6 DEF Inv, Sound
<1>5. CASE NextAddress(u)
  <2>1. pc[u] = "open" /\ Ask(u) /\ pc' = [pc EXCEPT ![u] = "askingMore"]
    BY <1>5 DEF NextAddress, Goes
  <2>2. PICK a \in left[u] : left' = [left EXCEPT ![u] = @ \ {a}]
    BY <1>5 DEF NextAddress
  <2>3. Sound' /\ holder' \in [Slots -> Users \union {Nobody}]
    <3>1. pc' = [pc EXCEPT ![u] = IF pc[u] = "idle" THEN "asking" ELSE "askingMore"]
      BY <2>1
    <3> QED
      BY <2>1, <3>1, Asks
  <2>4. Types'
    BY <1>1, <1>5, <2>1, <2>2, <2>3 DEF NextAddress, Types, Places
  <2>5. OnlyLockersAskMore'
    BY <1>1, <2>1, <2>2 DEF Inv, Types, OnlyLockersAskMore
  <2> QED
    BY <2>3, <2>4, <2>5 DEF Inv, Sound
<1>6. CASE MessagesOpened(u)
  <2>1. /\ pc' = [pc EXCEPT ![u] = "openMore"] /\ ~Queued(u) /\ pc[u] = "askingMore"
        /\ UNCHANGED <<main, cancelled, holder, waiting, left>>
    BY <1>6 DEF MessagesOpened, Granted, Goes
  <2>2. Cardinality(Held(u)) \in Due("openMore", FALSE) /\ "openMore" \in Places \ Asking
    BY <2>1, HeldNow DEF Due, Places, Asking
  <2>3. Sound'
    BY <2>1, <2>2, GoesOn
  <2>4. Types'
    BY <1>1, <2>1 DEF Types, Places
  <2>5. OnlyLockersAskMore'
    BY <1>1, <2>1 DEF Inv, Types, OnlyLockersAskMore
  <2> QED
    BY <2>3, <2>4, <2>5 DEF Inv, Sound
<1>7. CASE MessagesRead(u)
  <2>1. /\ pc' = [pc EXCEPT ![u] = "open"] /\ pc[u] = "openMore" /\ Release(u)
        /\ UNCHANGED <<main, cancelled, left>>
    BY <1>7 DEF MessagesRead, Goes
  <2>2. /\ ~Queued(u) /\ Cardinality(Held(u)) - 1 \in Due("open", FALSE) /\ Held(u) # {}
        /\ "open" \in Places \ Asking
    BY <2>1, HeldNow DEF Asking, Due, Places
  <2>3. Sound' /\ holder' \in [Slots -> Users \union {Nobody}]
    BY <2>1, <2>2, Gives
  <2>4. Types'
    BY <1>1, <2>1, <2>3 DEF Types, Places
  <2>5. OnlyLockersAskMore'
    BY <1>1, <2>1 DEF Inv, Types, OnlyLockersAskMore
  <2> QED
    BY <2>3, <2>4, <2>5 DEF Inv, Sound
<1>8. CASE Finished(u)
  <2>1. /\ pc' = [pc EXCEPT ![u] = "idle"] /\ pc[u] = "open" /\ Release(u)
        /\ UNCHANGED <<main, cancelled, left>>
    BY <1>8 DEF Finished, Goes
  <2>2. /\ ~Queued(u) /\ Cardinality(Held(u)) - 1 \in Due("idle", FALSE) /\ Held(u) # {}
        /\ "idle" \in Places \ Asking
    BY <2>1, HeldNow DEF Asking, Due, Places
  <2>3. Sound' /\ holder' \in [Slots -> Users \union {Nobody}]
    BY <2>1, <2>2, Gives
  <2>4. Types'
    BY <1>1, <2>1, <2>3 DEF Types, Places
  <2>5. OnlyLockersAskMore'
    BY <1>1, <2>1 DEF Inv, Types, OnlyLockersAskMore
  <2> QED
    BY <2>3, <2>4, <2>5 DEF Inv, Sound
<1>9. CASE Fails(u)
  <2>1. /\ pc' = [pc EXCEPT ![u] = "leaving"] /\ pc[u] \in {"open", "openMore"}
        /\ UNCHANGED <<main, cancelled, holder, waiting, left>>
    BY <1>9 DEF Fails, Goes
  <2>2. ~Queued(u) /\ Cardinality(Held(u)) \in Due("leaving", FALSE) /\ "leaving" \in Places \ Asking
    BY <2>1, HeldNow DEF Due, Places, Asking
  <2>3. Sound'
    BY <2>1, <2>2, GoesOn
  <2>4. Types'
    BY <1>1, <2>1 DEF Types, Places
  <2>5. OnlyLockersAskMore'
    BY <1>1, <2>1 DEF Inv, Types, OnlyLockersAskMore
  <2> QED
    BY <2>3, <2>4, <2>5 DEF Inv, Sound
<1>10. CASE Closes(u)
  <2> DEFINE place == IF Held(u) = {One(Held(u))} THEN "idle" ELSE "leaving"
  <2>1. /\ pc' = [pc EXCEPT ![u] = place] /\ pc[u] = "leaving" /\ Release(u)
        /\ UNCHANGED <<main, cancelled, left>>
    BY <1>10 DEF Closes, Goes
  <2>2. Cardinality(Held(u)) \in {1, 2} /\ Held(u) # {} /\ ~Queued(u)
    BY <2>1, HeldNow
  <2>3. Held(u) = {One(Held(u))} <=> Cardinality(Held(u)) = 1
    <3>1. Cardinality(Held(u)) = 1 <=> \E x : Held(u) = {x}
      BY <1>1, HeldFinite, FS_Singleton
    <3>2. ASSUME NEW x, Held(u) = {x} PROVE Held(u) = {One(Held(u))}
      BY <3>2 DEF One
    <3> QED
      BY <3>1, <3>2
  <2>5. Cardinality(Held(u)) - 1 \in Due(place, FALSE)
    BY <2>2, <2>3 DEF Due
  <2>6. place \in Places \ Asking
    BY DEF Places, Asking
  <2> HIDE DEF place
  <2>7. Sound' /\ holder' \in [Slots -> Users \union {Nobody}]
    BY <2>1, <2>2, <2>5, <2>6, Gives
  <2>8. Types'
    BY <1>1, <2>1, <2>6, <2>7 DEF Types
  <2>9. OnlyLockersAskMore'
    BY <1>1, <1>10 DEF Closes, Goes, Inv, Types, OnlyLockersAskMore
  <2> QED
    BY <2>7, <2>8, <2>9 DEF Inv, Sound
<1> QED
  BY <1>2, <1>3, <1>4, <1>5, <1>6, <1>7, <1>8, <1>9, <1>10 DEF Step

-----------------------------------------------------------------------------
LEMMA Starts ==
  ASSUME Init
  PROVE  Inv
<1>1. Types /\ OnlyLockersAskMore
  BY DEF Init, Types, Places, OnlyLockersAskMore
<1>2. Queue /\ NoneIdle
  BY EmptySeq DEF Init, Queue, NoneIdle
<1>3. HoldsAsOpen
  <2> SUFFICES ASSUME NEW u \in Users PROVE Cardinality(Held(u)) \in Due(pc[u], Queued(u))
    BY DEF HoldsAsOpen
  <2>1. Held(u) = {}
    BY UsersAssumption DEF Init, Held, Users
  <2> QED
    BY <2>1, FS_EmptySet DEF Init, Due
<1> QED
  BY <1>1, <1>2, <1>3 DEF Inv

\* Each step of the system keeps what the calls hold in order.
LEMMA Invariance == Spec => []Inv
<1>1. Init => Inv
  BY Starts
<1>2. ASSUME Inv, [Next]_vars PROVE Inv'
  <2>1. CASE BeginWrite \/ Scrape
    <3>1. PICK u \in Users : Start(u)
      BY <2>1 DEF BeginWrite, Scrape, Users
    <3> QED
      BY <1>2, <3>1, Started
  <2>2. CASE \E u \in Users : Step(u)
    BY <1>2, <2>2, Stepped
  <2>3. CASE Cancel \/ ExtractReturns \/ CloseReturns \/ Exited \/ UNCHANGED vars
    <3>1. UNCHANGED <<pc, holder, waiting, left>>
      BY <2>3 DEF Cancel, ExtractReturns, CloseReturns, Exited, vars
    <3>2. Types'
      BY <1>2, <2>3, <3>1 DEF Cancel, ExtractReturns, CloseReturns, Exited, vars, Inv, Types
    <3>3. (Queue /\ NoneIdle /\ HoldsAsOpen /\ OnlyLockersAskMore)'
      BY <1>2, <3>1 DEF Inv, Queue, NoneIdle, HoldsAsOpen, OnlyLockersAskMore, Free, Held, Queued
    <3> QED
      BY <3>2, <3>3 DEF Inv
  <2> QED
    BY <1>2, <2>1, <2>2, <2>3 DEF Next
<1> QED
  BY <1>1, <1>2, PTL DEF Spec

LEMMA SomeoneGoesOn ==
  ASSUME Inv
  PROVE  NeverAllWaiting
<1> SUFFICES ASSUME Cardinality(Lockers) < Cardinality(Slots), waiting # <<>>,
                    \A u \in Users : Held(u) # {} => Queued(u)
             PROVE  FALSE
  BY DEF NeverAllWaiting
<1>1. Types /\ Free = {}
  BY DEF Inv, NoneIdle
<1>2. ASSUME NEW s \in Slots
      PROVE  holder[s] \in Lockers /\ Cardinality(Held(holder[s])) = 1
  <2> DEFINE h == holder[s]
  <2>1. h \in Users /\ s \in Held(h)
    BY <1>1 DEF Types, Free, Held
  <2> HIDE DEF h
  <2>2. Queued(h) /\ Cardinality(Held(h)) # 0
    BY <1>1, <2>1, HeldFinite, FS_EmptySet
  <2>3. pc[h] \in Asking /\ Cardinality(Held(h)) \in Due(pc[h], TRUE)
    BY <2>1, <2>2 DEF Inv, Queue, Queued, HoldsAsOpen
  <2>4. pc[h] = "askingMore" /\ Cardinality(Held(h)) = 1
    BY <2>2, <2>3 DEF Due, Asking
  <2> QED
    BY <2>1, <2>4 DEF Inv, OnlyLockersAskMore, h
<1>3. holder \in [Slots -> Lockers]
  BY <1>1, <1>2 DEF Types
<1>4. PICK s \in Slots, t \in Slots : s # t /\ holder[s] = holder[t]
  BY <1>3, SlotsAssumption, FS_PigeonHole
<1>5. s \in Held(holder[s]) /\ t \in Held(holder[s])
  BY <1>4 DEF Held
<1>6. \E x : Held(holder[s]) = {x}
  <2>1. IsFiniteSet(Held(holder[s]))
    BY <1>1, HeldFinite
  <2> QED
    BY <1>2, <2>1, FS_Singleton
<1> QED
  BY <1>4, <1>5, <1>6

\* The state is what the calls can bring it to, and whoever waits is asking.
THEOREM Typing == Spec => []TypeOK
<1>1. Inv => TypeOK
  BY TypesGiveTypeOK DEF Inv
<1> QED
  BY <1>1, Invariance, PTL

\* However its calls fail, are refused or give up, one that has returned
\* has no connection left, and one that goes on has those that it counts on.
THEOREM Holding == Spec => []HoldsAsOpen
<1>1. Inv => HoldsAsOpen
  BY DEF Inv
<1> QED
  BY <1>1, Invariance, PTL

\* Fewer scrapes of locked tokens than connections never all wait.
THEOREM Progress == Spec => []NeverAllWaiting
<1> QED
  BY SomeoneGoesOn, Invariance, PTL
=============================================================================
