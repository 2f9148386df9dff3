------------------------ MODULE DurableObjectsProofs ------------------------
(***************************************************************************)
(* Proofs about the durable containers, the preemptive resources and the   *)
(* durable stores.                                                         *)
(* Containers: what the backend completes ahead of the database can be     *)
(* committed in the order of its events, and nothing waits that fits.      *)
(* Preemptive resources: the two callbacks of a preemption keep the        *)
(* durable owners within the capacity, and no acquisition is left over.    *)
(* Stores: the events that are to be committed lead from the records to    *)
(* the backend, so a fifo store keeps its order and nothing is stuck.      *)
(* With the resources of DurableResourcesProofs these are the four kinds   *)
(* of object that MCDurableObjects puts together.                          *)
(***************************************************************************)
EXTENDS MCDurableObjects, DurableResourcesProofs

-----------------------------------------------------------------------------
(***************************************************************************)
(* Durable containers                                                      *)
(***************************************************************************)

\* Every pending operation is in one place, once: still to be submitted, in one
\* of the queues, or completed with its callback to come.
Held(ps, gs, evs, o) == Occurrences(ps, o) + Occurrences(gs, o) + Occurrences(evs, o)
Placed(td, ps, gs, evs, pending) ==
    \A o \in Operation : Occurrences(td, o) + Held(ps, gs, evs, o) = Occurrences(pending, o)

\* The first of a queue is feasible only while an event of the other kind is to
\* come, which will try it.
Woken(ps, gs, evs, n) ==
    /\ ps # <<>> /\ Fits(Head(ps), n) => \E e \in ToSet(evs) : e.kind = "get"
    /\ gs # <<>> /\ Fits(Head(gs), n) => \E e \in ToSet(evs) : e.kind = "put"

KindsOK(ps, gs) == (\A o \in ToSet(ps) : o.kind = "put") /\ (\A o \in ToSet(gs) : o.kind = "get")

\* The backend is ps, gs and evs with the level l, and the durable level is n.
Backed(n, ps, gs, evs, l) ==
    /\ ps \in Seq(Operation) /\ gs \in Seq(Operation) /\ evs \in Seq(Operation)
    /\ Leads(evs, n, l) /\ KindsOK(ps, gs) /\ Woken(ps, gs, evs, l)

ContInv ==
    /\ ContTypeOK
    /\ \A o \in Operation : Occurrences(intents, o) <= 1
    /\ ~contUp => contTodo = <<>> /\ putters = <<>> /\ getters = <<>> /\ contEvents = <<>>
    /\ contUp => /\ Backed(level, putters, getters, contEvents, liveLevel)
                 /\ Placed(contTodo, putters, getters, contEvents, intents)

-----------------------------------------------------------------------------
(***************************************************************************)
(* Sequences of feasible operations                                        *)
(***************************************************************************)

\* An operation is a put or a get of whole units.
LEMMA OperationFacts ==
    ASSUME NEW o \in Operation
    PROVE  o.kind \in {"put", "get"} /\ o.amount \in Nat
BY ContainerAssumption DEF Operation

\* The levels that a feasible sequence leads between are within the bounds.
LEMMA LeadsBounds ==
    ASSUME NEW q \in Seq(Operation), NEW n, NEW m, Leads(q, n, m)
    PROVE  n \in 0..ContainerCapacity /\ m \in 0..ContainerCapacity
<1>1. Len(q) \in Nat
  BY LenProperties
<1>2. PICK L \in [0..Len(q) -> 0..ContainerCapacity] : L[0] = n /\ L[Len(q)] = m
  BY DEF Leads
<1>3. 0 \in 0..Len(q) /\ Len(q) \in 0..Len(q)
  BY <1>1
<1> QED
  BY <1>2, <1>3

\* No operation, no change.
LEMMA LeadsEmpty ==
    /\ \A n \in 0..ContainerCapacity : Leads(<<>>, n, n)
    /\ \A n, m : Leads(<<>>, n, m) => n = m
<1>1. Len(<<>>) = 0
  BY EmptySeq
<1>2. ASSUME NEW n \in 0..ContainerCapacity PROVE Leads(<<>>, n, n)
  <2> DEFINE L == [i \in 0..0 |-> n]
  <2>1. L \in [0..Len(<<>>) -> 0..ContainerCapacity] /\ L[0] = n /\ L[Len(<<>>)] = n
    BY <1>1
  <2>2. \A i \in 1..Len(<<>>) : FALSE
    BY <1>1
  <2> QED
    BY <2>1, <2>2 DEF Leads
<1>3. \A n, m : Leads(<<>>, n, m) => n = m
  BY <1>1 DEF Leads
<1> QED
  BY <1>2, <1>3

\* The first operation is feasible, and the others lead on from there.
LEMMA LeadsTail ==
    ASSUME NEW q \in Seq(Operation), q # <<>>, NEW n, NEW m, Leads(q, n, m)
    PROVE  /\ Fits(Head(q), n) /\ After(Head(q), n) \in 0..ContainerCapacity
           /\ Leads(Tail(q), After(Head(q), n), m)
<1>1. Len(q) \in Nat \ {0} /\ Head(q) = q[1]
  BY EmptySeq, HeadTailProperties
<1>2. PICK L \in [0..Len(q) -> 0..ContainerCapacity] :
         /\ L[0] = n /\ L[Len(q)] = m
         /\ \A i \in 1..Len(q) : Fits(q[i], L[i - 1]) /\ L[i] = After(q[i], L[i - 1])
  BY DEF Leads
<1>3. Fits(q[1], n) /\ L[1] = After(q[1], n) /\ L[1] \in 0..ContainerCapacity
  <2>1. 1 \in 1..Len(q) /\ 1 - 1 = 0 /\ 1 \in 0..Len(q)
    BY <1>1
  <2>2. Fits(q[1], L[1 - 1]) /\ L[1] = After(q[1], L[1 - 1])
    BY <1>2, <2>1
  <2> QED
    BY <1>2, <2>1, <2>2
<1>4. Leads(Tail(q), L[1], m)
  <2> DEFINE p == Tail(q)
             M == [i \in 0..Len(p) |-> L[i + 1]]
  <2>1. Len(p) = Len(q) - 1 /\ \A i \in 1..Len(p) : p[i] = q[i + 1]
    BY <1>1, EmptySeq, HeadTailProperties
  <2> HIDE DEF p
  <2>2. \A i \in 0..Len(p) : i + 1 \in 0..Len(q)
    BY <1>1, <2>1
  <2>3. M \in [0..Len(p) -> 0..ContainerCapacity]
    BY <1>2, <2>2
  <2>4. M[0] = L[1] /\ M[Len(p)] = m
    <3>1. 0 \in 0..Len(p) /\ Len(p) \in 0..Len(p) /\ Len(p) + 1 = Len(q)
      BY <1>1, <2>1
    <3>2. M[0] = L[0 + 1] /\ M[Len(p)] = L[Len(p) + 1]
      BY <3>1
    <3> QED
      BY <1>2, <3>1, <3>2
  <2>5. \A i \in 1..Len(p) : Fits(p[i], M[i - 1]) /\ M[i] = After(p[i], M[i - 1])
    <3> TAKE i \in 1..Len(p)
    <3>1. i + 1 \in 1..Len(q) /\ (i + 1) - 1 = i /\ i \in 0..Len(p) /\ i - 1 \in 0..Len(p) /\ (i - 1) + 1 = i
      BY <1>1, <2>1
    <3>2. Fits(q[i + 1], L[(i + 1) - 1]) /\ L[i + 1] = After(q[i + 1], L[(i + 1) - 1])
      BY <1>2, <3>1
    <3>3. M[i] = L[i + 1] /\ M[i - 1] = L[(i - 1) + 1] /\ p[i] = q[i + 1]
      BY <2>1, <3>1
    <3> QED
      BY <3>1, <3>2, <3>3
  <2> HIDE DEF M
  <2> QED
    BY <2>3, <2>4, <2>5 DEF Leads, p
<1> QED
  BY <1>1, <1>3, <1>4

\* Feasible sequences are put one after the other.
LEMMA LeadsConcat ==
    ASSUME NEW p \in Seq(Operation), NEW s \in Seq(Operation), NEW n, NEW l, NEW m,
           Leads(p, n, l), Leads(s, l, m)
    PROVE  Leads(p \o s, n, m)
<1> DEFINE a == Len(p)
           b == Len(s)
           q == p \o s
<1>1. /\ a \in Nat /\ b \in Nat /\ Len(q) = a + b
      /\ \A i \in 1..a + b : q[i] = IF i <= a THEN p[i] ELSE s[i - a]
  BY ConcatProperties, LenProperties
<1>2. PICK P \in [0..a -> 0..ContainerCapacity] :
         /\ P[0] = n /\ P[a] = l
         /\ \A i \in 1..a : Fits(p[i], P[i - 1]) /\ P[i] = After(p[i], P[i - 1])
  BY DEF Leads
<1>3. PICK S \in [0..b -> 0..ContainerCapacity] :
         /\ S[0] = l /\ S[b] = m
         /\ \A i \in 1..b : Fits(s[i], S[i - 1]) /\ S[i] = After(s[i], S[i - 1])
  BY DEF Leads
<1> HIDE DEF a, b, q
<1> DEFINE L == [i \in 0..a + b |-> IF i <= a THEN P[i] ELSE S[i - a]]
<1>4. \A i \in 0..a + b : (i <= a => i \in 0..a) /\ (~(i <= a) => i - a \in 0..b)
  BY <1>1
<1>5. L \in [0..a + b -> 0..ContainerCapacity]
  BY <1>2, <1>3, <1>4
<1>6. \A i \in 0..b : a + i \in 0..a + b /\ L[a + i] = S[i]
  <2> TAKE i \in 0..b
  <2>1. a + i \in 0..a + b /\ (a + i <= a <=> i = 0) /\ (a + i) - a = i
    BY <1>1
  <2>2. CASE i = 0
    <3>1. L[a + i] = P[a + i] /\ a + i = a
      BY <1>1, <2>1, <2>2
    <3> QED
      BY <1>2, <1>3, <2>1, <2>2, <3>1
  <2>3. CASE i # 0
    <3>1. L[a + i] = S[(a + i) - a]
      BY <2>1, <2>3
    <3> QED
      BY <2>1, <3>1
  <2> QED
    BY <2>2, <2>3
<1>7. \A i \in 0..a : i \in 0..a + b /\ L[i] = P[i]
  <2>1. \A i \in 0..a : i \in 0..a + b /\ i <= a
    BY <1>1
  <2> QED
    BY <2>1
<1> HIDE DEF L
<1>8. L[0] = n /\ L[a + b] = m
  <2>1. 0 \in 0..a /\ b \in 0..b
    BY <1>1
  <2> QED
    BY <1>2, <1>3, <1>6, <1>7, <2>1
<1>9. \A i \in 1..a + b : Fits(q[i], L[i - 1]) /\ L[i] = After(q[i], L[i - 1])
  <2> TAKE i \in 1..a + b
  <2>1. CASE i <= a
    <3>1. i \in 1..a /\ i \in 0..a /\ i - 1 \in 0..a
      BY <1>1, <2>1
    <3>2. q[i] = p[i] /\ L[i] = P[i] /\ L[i - 1] = P[i - 1]
      BY <1>1, <1>7, <2>1, <3>1
    <3> QED
      BY <1>2, <3>1, <3>2
  <2>2. CASE ~(i <= a)
    <3> DEFINE j == i - a
    <3>1. j \in 1..b /\ j \in 0..b /\ j - 1 \in 0..b /\ a + j = i /\ a + (j - 1) = i - 1
      BY <1>1, <2>2
    <3>2. q[i] = s[j]
      BY <1>1, <2>2
    <3> HIDE DEF j
    <3>3. L[i] = S[j] /\ L[i - 1] = S[j - 1]
      <4>1. L[a + j] = S[j] /\ L[a + (j - 1)] = S[j - 1]
        BY <1>6, <3>1
      <4> QED
        BY <3>1, <4>1
    <3> QED
      BY <1>3, <3>1, <3>2, <3>3
  <2> QED
    BY <2>1, <2>2
<1>10. Leads(q, n, m)
  BY <1>1, <1>5, <1>8, <1>9 DEF Leads
<1> QED
  BY <1>10 DEF q

-----------------------------------------------------------------------------
(***************************************************************************)
(* A trigger                                                               *)
(***************************************************************************)

\* What is served moves from the queue to the events.
LEMMA MoveServed ==
    ASSUME NEW s \in Seq(Operation), NEW t \in Seq(Operation), NEW evs \in Seq(Operation), NEW o
    PROVE  Occurrences(t, o) + Occurrences(evs \o s, o) = Occurrences(s \o t, o) + Occurrences(evs, o)
<1>1. Occurrences(s, o) \in Nat /\ Occurrences(t, o) \in Nat /\ Occurrences(evs, o) \in Nat
  BY OccurrencesType
<1>2. Occurrences(s \o t, o) = Occurrences(s, o) + Occurrences(t, o)
  BY OccurrencesConcat
<1>3. Occurrences(evs \o s, o) = Occurrences(evs, o) + Occurrences(s, o)
  BY OccurrencesConcat
<1> QED
  BY <1>1, <1>2, <1>3

\* A sequence without elements changes nothing.
LEMMA NothingServed ==
    ASSUME NEW s \in Seq(Operation), ToSet(s) = {}, NEW n, NEW m, Leads(s, n, m)
    PROVE  n = m
<1>1. s # <<>> => 1 \in DOMAIN s
  BY TailDrops
<1>2. s = <<>>
  BY <1>1 DEF ToSet
<1> QED
  BY <1>2, LeadsEmpty

\* What the queues and the events hold together stays the same.
LEMMA Totals ==
    ASSUME NEW a, NEW b, NEW c, NEW d, NEW e,
           a \in Nat /\ d \in Nat /\ e \in Nat /\ b \in Nat /\ c \in Nat, b + c = d + e
    PROVE  a + b + c = a + d + e
OBVIOUS

\* After a trigger the queue it served has a head that does not fit, and the
\* other queue is woken by what was served.
LEMMA ServeKeeps ==
    ASSUME NEW kind \in {"put", "get"},
           NEW ps \in Seq(Operation), NEW gs \in Seq(Operation), NEW evs \in Seq(Operation),
           NEW n, Leads(evs, n, liveLevel), KindsOK(ps, gs),
           kind = "put" /\ gs # <<>> /\ Fits(Head(gs), liveLevel) => \E e \in ToSet(evs) : e.kind = "put",
           kind = "get" /\ ps # <<>> /\ Fits(Head(ps), liveLevel) => \E e \in ToSet(evs) : e.kind = "get",
           ServeQueue(kind, ps, gs, evs)
    PROVE  /\ Backed(n, putters', getters', contEvents', liveLevel')
           /\ liveLevel' \in 0..ContainerCapacity
           /\ \A o : Held(putters', getters', contEvents', o) = Held(ps, gs, evs, o)
<1> DEFINE w == IF kind = "put" THEN ps ELSE gs
<1>1. PICK k \in 0..Len(w) :
         /\ liveLevel' \in 0..ContainerCapacity
         /\ Leads(SubSeq(w, 1, k), liveLevel, liveLevel')
         /\ SubSeq(w, k + 1, Len(w)) # <<>> => ~Fits(Head(SubSeq(w, k + 1, Len(w))), liveLevel')
         /\ putters' = IF kind = "put" THEN SubSeq(w, k + 1, Len(w)) ELSE ps
         /\ getters' = IF kind = "put" THEN gs ELSE SubSeq(w, k + 1, Len(w))
         /\ contEvents' = evs \o SubSeq(w, 1, k)
  BY DEF ServeQueue
<1>2. w \in Seq(Operation)
  OBVIOUS
<1> HIDE DEF w
<1>3. PICK s, t : s = SubSeq(w, 1, k) /\ t = SubSeq(w, k + 1, Len(w))
  OBVIOUS
<1>4. s \in Seq(Operation) /\ t \in Seq(Operation) /\ w = s \o t
  BY <1>2, <1>3, Split
<1>5. /\ Leads(s, liveLevel, liveLevel') /\ (t # <<>> => ~Fits(Head(t), liveLevel'))
      /\ putters' = (IF kind = "put" THEN t ELSE ps) /\ getters' = (IF kind = "put" THEN gs ELSE t)
      /\ contEvents' = evs \o s /\ liveLevel' \in 0..ContainerCapacity
  BY <1>1, <1>3
<1>6. PICK u : u = evs \o s
  OBVIOUS
<1>7. u \in Seq(Operation) /\ ToSet(u) = ToSet(evs) \cup ToSet(s)
  <2>1. evs \o s \in Seq(Operation) /\ ToSet(evs \o s) = ToSet(evs) \cup ToSet(s)
    BY <1>4, ConcatFacts
  <2> QED
    BY <1>6, <2>1
<1>8. ToSet(s) \subseteq ToSet(w) /\ ToSet(t) \subseteq ToSet(w)
  <2>1. ToSet(s \o t) = ToSet(s) \cup ToSet(t)
    BY <1>4, ConcatFacts
  <2> QED
    BY <1>4, <2>1
<1>9. Leads(u, n, liveLevel')
  <2>1. Leads(evs \o s, n, liveLevel')
    BY <1>4, <1>5, LeadsConcat
  <2> QED
    BY <1>6, <2>1
<1>10. \A o : Occurrences(t, o) + Occurrences(u, o) = Occurrences(w, o) + Occurrences(evs, o)
  <2>1. \A o : Occurrences(t, o) + Occurrences(evs \o s, o) = Occurrences(s \o t, o) + Occurrences(evs, o)
    BY <1>4, MoveServed
  <2> QED
    BY <1>4, <1>6, <2>1
<1>11. \A o : /\ Occurrences(ps, o) \in Nat /\ Occurrences(gs, o) \in Nat /\ Occurrences(evs, o) \in Nat
             /\ Occurrences(t, o) \in Nat /\ Occurrences(u, o) \in Nat
  BY <1>4, <1>7, OccurrencesType
<1>12. ToSet(s) = {} => liveLevel = liveLevel'
  BY <1>4, <1>5, NothingServed
<1>13. contEvents' = u
  BY <1>5, <1>6
<1>14. CASE kind = "put"
  <2>1. w = ps /\ putters' = t /\ getters' = gs
    BY <1>5, <1>14 DEF w
  <2>2. KindsOK(t, gs) /\ \A e \in ToSet(s) : e.kind = "put"
    BY <1>8, <2>1 DEF KindsOK
  <2>3. Woken(t, gs, u, liveLevel')
    <3>1. ASSUME gs # <<>>, Fits(Head(gs), liveLevel')
          PROVE  \E e \in ToSet(u) : e.kind = "put"
      <4>1. CASE ToSet(s) = {}
        BY <1>7, <1>12, <1>14, <3>1, <4>1
      <4>2. CASE ToSet(s) # {}
        BY <1>7, <2>2, <4>2
      <4> QED
        BY <4>1, <4>2
    <3> QED
      BY <1>5, <3>1 DEF Woken
  <2>4. \A o : Occurrences(t, o) + Occurrences(gs, o) + Occurrences(u, o)
                  = Occurrences(ps, o) + Occurrences(gs, o) + Occurrences(evs, o)
    <3> TAKE o
    <3>1. Occurrences(t, o) + Occurrences(u, o) = Occurrences(w, o) + Occurrences(evs, o)
      BY <1>10
    <3>2. /\ Occurrences(ps, o) \in Nat /\ Occurrences(gs, o) \in Nat /\ Occurrences(evs, o) \in Nat
          /\ Occurrences(t, o) \in Nat /\ Occurrences(u, o) \in Nat
      BY <1>11
    <3>3. Occurrences(t, o) + Occurrences(u, o) = Occurrences(ps, o) + Occurrences(evs, o)
      BY <2>1, <3>1
    <3> QED
      BY <3>2, <3>3
  <2> QED
    BY <1>4, <1>5, <1>7, <1>9, <1>13, <2>1, <2>2, <2>3, <2>4 DEF Backed, Held
<1>15. CASE kind = "get"
  <2>1. w = gs /\ putters' = ps /\ getters' = t
    BY <1>5, <1>15 DEF w
  <2>2. KindsOK(ps, t) /\ \A e \in ToSet(s) : e.kind = "get"
    BY <1>8, <2>1 DEF KindsOK
  <2>3. Woken(ps, t, u, liveLevel')
    <3>1. ASSUME ps # <<>>, Fits(Head(ps), liveLevel')
          PROVE  \E e \in ToSet(u) : e.kind = "get"
      <4>1. CASE ToSet(s) = {}
        BY <1>7, <1>12, <1>15, <3>1, <4>1
      <4>2. CASE ToSet(s) # {}
        BY <1>7, <2>2, <4>2
      <4> QED
        BY <4>1, <4>2
    <3> QED
      BY <1>5, <3>1 DEF Woken
  <2>4. \A o : Occurrences(ps, o) + Occurrences(t, o) + Occurrences(u, o)
                  = Occurrences(ps, o) + Occurrences(gs, o) + Occurrences(evs, o)
    <3> TAKE o
    <3>1. Occurrences(t, o) + Occurrences(u, o) = Occurrences(w, o) + Occurrences(evs, o)
      BY <1>10
    <3>2. /\ Occurrences(ps, o) \in Nat /\ Occurrences(gs, o) \in Nat /\ Occurrences(evs, o) \in Nat
          /\ Occurrences(t, o) \in Nat /\ Occurrences(u, o) \in Nat
      BY <1>11
    <3>3. Occurrences(t, o) + Occurrences(u, o) = Occurrences(gs, o) + Occurrences(evs, o)
      BY <2>1, <3>1
    <3> QED
      BY <3>2, <3>3, Totals
  <2> QED
    BY <1>4, <1>5, <1>7, <1>9, <1>13, <2>1, <2>2, <2>3, <2>4 DEF Backed, Held
<1> QED
  BY <1>14, <1>15

\* An operation that is submitted joins its queue, which is tried at once.
LEMMA SubmitKeeps ==
    ASSUME NEW o \in Operation, Backed(level, putters, getters, contEvents, liveLevel),
           SubmitOperation(o)
    PROVE  /\ Backed(level, putters', getters', contEvents', liveLevel')
           /\ liveLevel' \in 0..ContainerCapacity
           /\ \A x : Held(putters', getters', contEvents', x)
                        = Held(putters, getters, contEvents, x) + (IF o = x THEN 1 ELSE 0)
<1>1. /\ putters \in Seq(Operation) /\ getters \in Seq(Operation) /\ contEvents \in Seq(Operation)
      /\ Leads(contEvents, level, liveLevel) /\ KindsOK(putters, getters)
      /\ Woken(putters, getters, contEvents, liveLevel)
  BY DEF Backed
<1>2. o.kind \in {"put", "get"}
  BY OperationFacts
<1>3. \A x : /\ Occurrences(putters, x) \in Nat /\ Occurrences(getters, x) \in Nat
             /\ Occurrences(contEvents, x) \in Nat
  BY <1>1, OccurrencesType
<1>4. CASE o.kind = "put"
  <2>1. PICK ps : ps = Append(putters, o)
    OBVIOUS
  <2>2. ps \in Seq(Operation) /\ ToSet(ps) = ToSet(putters) \cup {o}
    BY <1>1, <2>1, AppendFacts
  <2>3. KindsOK(ps, getters)
    BY <1>1, <1>4, <2>2 DEF KindsOK
  <2>4. ServeQueue("put", ps, getters, contEvents)
    BY <1>4, <2>1 DEF SubmitOperation
  <2>5. /\ Backed(level, putters', getters', contEvents', liveLevel')
        /\ liveLevel' \in 0..ContainerCapacity
        /\ \A x : Held(putters', getters', contEvents', x) = Held(ps, getters, contEvents, x)
    <3>1. getters # <<>> /\ Fits(Head(getters), liveLevel) => \E e \in ToSet(contEvents) : e.kind = "put"
      BY <1>1 DEF Woken
    <3> QED
      BY <1>1, <2>2, <2>3, <2>4, <3>1, ServeKeeps
  <2>6. ASSUME NEW x
        PROVE  Held(ps, getters, contEvents, x) = Held(putters, getters, contEvents, x) + (IF o = x THEN 1 ELSE 0)
    <3>1. Occurrences(ps, x) = Occurrences(putters, x) + (IF o = x THEN 1 ELSE 0)
      BY <1>1, <2>1, OccurrencesAppend
    <3> QED
      BY <1>3, <3>1 DEF Held
  <2> QED
    BY <2>5, <2>6
<1>5. CASE o.kind = "get"
  <2>1. PICK gs : gs = Append(getters, o)
    OBVIOUS
  <2>2. gs \in Seq(Operation) /\ ToSet(gs) = ToSet(getters) \cup {o}
    BY <1>1, <2>1, AppendFacts
  <2>3. KindsOK(putters, gs)
    BY <1>1, <1>5, <2>2 DEF KindsOK
  <2>4. ServeQueue("get", putters, gs, contEvents)
    BY <1>5, <2>1 DEF SubmitOperation
  <2>5. /\ Backed(level, putters', getters', contEvents', liveLevel')
        /\ liveLevel' \in 0..ContainerCapacity
        /\ \A x : Held(putters', getters', contEvents', x) = Held(putters, gs, contEvents, x)
    <3>1. putters # <<>> /\ Fits(Head(putters), liveLevel) => \E e \in ToSet(contEvents) : e.kind = "get"
      BY <1>1 DEF Woken
    <3> QED
      BY <1>1, <2>2, <2>3, <2>4, <3>1, ServeKeeps
  <2>6. ASSUME NEW x
        PROVE  Held(putters, gs, contEvents, x) = Held(putters, getters, contEvents, x) + (IF o = x THEN 1 ELSE 0)
    <3>1. Occurrences(gs, x) = Occurrences(getters, x) + (IF o = x THEN 1 ELSE 0)
      BY <1>1, <2>1, OccurrencesAppend
    <3> QED
      BY <1>3, <3>1 DEF Held
  <2> QED
    BY <2>5, <2>6
<1> QED
  BY <1>2, <1>4, <1>5

\* An event leaves the backend once the other queue has been tried: the first
\* event of the other kind that the other queue relied on is still to come.
LEMMA EventKeeps ==
    ASSUME Backed(level, putters, getters, contEvents, liveLevel), contEvents # <<>>,
           ServeQueue(IF Head(contEvents).kind = "put" THEN "get" ELSE "put",
                      putters, getters, Tail(contEvents))
    PROVE  /\ Head(contEvents) \in Operation
           /\ After(Head(contEvents), level) \in 0..ContainerCapacity
           /\ Backed(After(Head(contEvents), level), putters', getters', contEvents', liveLevel')
           /\ liveLevel' \in 0..ContainerCapacity
           /\ \A x : Held(putters', getters', contEvents', x)
                        = Held(putters, getters, contEvents, x) - (IF Head(contEvents) = x THEN 1 ELSE 0)
<1>1. /\ putters \in Seq(Operation) /\ getters \in Seq(Operation) /\ contEvents \in Seq(Operation)
      /\ Leads(contEvents, level, liveLevel) /\ KindsOK(putters, getters)
      /\ Woken(putters, getters, contEvents, liveLevel)
  BY DEF Backed
<1>2. PICK o, evs : o = Head(contEvents) /\ evs = Tail(contEvents)
  OBVIOUS
<1>3. evs \in Seq(Operation) /\ Dropped(contEvents, 1, evs) /\ o = contEvents[1] /\ 1 \in DOMAIN contEvents
  BY <1>1, <1>2, TailDrops
<1>4. o \in Operation
  BY <1>1, <1>2, EmptySeq, HeadTailProperties
<1>5. After(o, level) \in 0..ContainerCapacity /\ Leads(evs, After(o, level), liveLevel)
  BY <1>1, <1>2, LeadsTail
<1>6. PICK kind : kind = IF o.kind = "put" THEN "get" ELSE "put"
  OBVIOUS
<1>7. /\ Backed(After(o, level), putters', getters', contEvents', liveLevel')
      /\ liveLevel' \in 0..ContainerCapacity
      /\ \A x : Held(putters', getters', contEvents', x) = Held(putters, getters, evs, x)
  <2>1. \A e : e # o /\ e \in ToSet(contEvents) => e \in ToSet(evs)
    BY <1>1, <1>3, DropFacts
  <2>2. kind = "put" /\ getters # <<>> /\ Fits(Head(getters), liveLevel) => \E e \in ToSet(evs) : e.kind = "put"
    BY <1>1, <1>4, <1>6, <2>1, OperationFacts DEF Woken
  <2>3. kind = "get" /\ putters # <<>> /\ Fits(Head(putters), liveLevel) => \E e \in ToSet(evs) : e.kind = "get"
    BY <1>1, <1>6, <2>1 DEF Woken
  <2>4. ServeQueue(kind, putters, getters, evs) /\ kind \in {"put", "get"}
    BY <1>2, <1>6
  <2> QED
    BY <1>1, <1>3, <1>5, <2>2, <2>3, <2>4, ServeKeeps
<1>8. ASSUME NEW x
      PROVE  Held(putters, getters, evs, x) = Held(putters, getters, contEvents, x) - (IF o = x THEN 1 ELSE 0)
  <2>1. Occurrences(evs, x) = Occurrences(contEvents, x) - (IF o = x THEN 1 ELSE 0)
    BY <1>1, <1>3, OccurrencesDrop
  <2>2. /\ Occurrences(putters, x) \in Nat /\ Occurrences(getters, x) \in Nat
        /\ Occurrences(contEvents, x) \in Nat /\ Occurrences(evs, x) \in Nat
    BY <1>1, <1>3, OccurrencesType
  <2> QED
    BY <2>1, <2>2 DEF Held
<1> QED
  BY <1>2, <1>4, <1>5, <1>7, <1>8

-----------------------------------------------------------------------------
(***************************************************************************)
(* The actions                                                             *)
(***************************************************************************)

\* An empty backend has nothing to commit and keeps nobody waiting.
LEMMA EmptyBackend ==
    ASSUME NEW n \in 0..ContainerCapacity
    PROVE  Backed(n, <<>>, <<>>, <<>>, n) /\ \A x : Occurrences(<<>>, x) = 0 /\ Held(<<>>, <<>>, <<>>, x) = 0
<1>1. <<>> \in Seq(Operation) /\ ToSet(<<>>) = {}
  BY EmptySeq DEF ToSet
<1>2. \A x : Occurrences(<<>>, x) = 0
  BY <1>1, OccurrencesType
<1>3. Leads(<<>>, n, n)
  BY LeadsEmpty
<1> QED
  BY <1>1, <1>2, <1>3 DEF Backed, KindsOK, Woken, Held

\* What the backend holds is counted.
LEMMA HeldType ==
    ASSUME NEW n, NEW ps, NEW gs, NEW evs, NEW l, Backed(n, ps, gs, evs, l), NEW x
    PROVE  Held(ps, gs, evs, x) \in Nat
<1>1. Occurrences(ps, x) \in Nat /\ Occurrences(gs, x) \in Nat /\ Occurrences(evs, x) \in Nat
  BY OccurrencesType DEF Backed
<1> QED
  BY <1>1 DEF Held

\* A new container has nothing pending and no backend.
LEMMA ContainerBegins == ContInit => ContInv
<1> SUFFICES ASSUME ContInit PROVE ContInv
  OBVIOUS
<1> USE ContainerAssumption DEF ContInit
<1>1. <<>> \in Seq(Operation)
  BY EmptySeq
<1>2. 0 \in 0..ContainerCapacity
  OBVIOUS
<1>3. \A o \in Operation : Occurrences(intents, o) <= 1
  BY <1>2, EmptyBackend
<1>4. ContTypeOK
  <2>1. /\ intents \in Seq(Operation) /\ contTodo \in Seq(Operation)
        /\ putters \in Seq(Operation) /\ getters \in Seq(Operation) /\ contEvents \in Seq(Operation)
    BY <1>1, Zenon
  <2>2. level \in 0..ContainerCapacity /\ liveLevel \in 0..ContainerCapacity /\ contCrashes \in 0..ContainerMaxCrashes
    OBVIOUS
  <2>3. completed \subseteq Operation /\ contUp \in BOOLEAN
    OBVIOUS
  <2> QED
    BY <2>1, <2>2, <2>3, Zenon DEF ContTypeOK
<1> QED
  BY <1>3, <1>4, Zenon DEF ContInv

\* A new id is pending once and in the backend once.
LEMMA RequestKeeps ==
    ASSUME ContInv, NEW o \in Operation, RequestOperation(o)
    PROVE  ContInv'
<1>1. /\ ContTypeOK /\ contUp /\ contTodo = <<>>
      /\ Backed(level, putters, getters, contEvents, liveLevel)
      /\ Placed(contTodo, putters, getters, contEvents, intents)
      /\ SubmitOperation(o)
      /\ intents' = Append(intents, o)
      /\ UNCHANGED <<level, completed, contUp, contTodo, contCrashes>>
  BY DEF ContInv, RequestOperation, ContServing
<1>2. /\ Backed(level, putters', getters', contEvents', liveLevel')
      /\ liveLevel' \in 0..ContainerCapacity
      /\ \A x : Held(putters', getters', contEvents', x)
                   = Held(putters, getters, contEvents, x) + (IF o = x THEN 1 ELSE 0)
  BY <1>1, SubmitKeeps
<1>3. intents \in Seq(Operation) /\ contTodo \in Seq(Operation) /\ intents' \in Seq(Operation)
  <2>1. intents \in Seq(Operation) /\ contTodo \in Seq(Operation)
    BY <1>1 DEF ContTypeOK
  <2> QED
    BY <1>1, <2>1, AppendFacts
<1>4. \A x \in Operation : Occurrences(intents', x) = Occurrences(intents, x) + (IF o = x THEN 1 ELSE 0)
  BY <1>1, <1>3, OccurrencesAppend
<1>5. \A x : Occurrences(intents, x) \in Nat /\ Occurrences(contTodo, x) \in Nat
  BY <1>3, OccurrencesType
<1>6. o \notin ToSet(intents) /\ Occurrences(intents, o) = 0
  <2>1. o \notin ToSet(intents)
    BY DEF RequestOperation
  <2> QED
    BY <1>3, <2>1, OccurrencesType
<1>7. \A x \in Operation : Occurrences(intents', x) <= 1
  BY <1>4, <1>5, <1>6 DEF ContInv
<1>8. Placed(contTodo', putters', getters', contEvents', intents')
  <2> SUFFICES ASSUME NEW x \in Operation
               PROVE  Occurrences(contTodo', x) + Held(putters', getters', contEvents', x)
                         = Occurrences(intents', x)
    BY DEF Placed
  <2>1. Occurrences(contTodo, x) + Held(putters, getters, contEvents, x) = Occurrences(intents, x)
    BY <1>1 DEF Placed
  <2>2. Held(putters, getters, contEvents, x) \in Nat /\ Occurrences(contTodo, x) \in Nat
    BY <1>1, <1>5, HeldType
  <2> QED
    BY <1>1, <1>2, <1>4, <2>1, <2>2
<1>9. ContTypeOK'
  BY <1>1, <1>2, <1>3 DEF ContTypeOK, Backed
<1> QED
  BY <1>1, <1>2, <1>7, <1>8, <1>9 DEF ContInv

\* The rebuild hands the next intent to the backend.
LEMMA SubmitIntentKeeps ==
    ASSUME ContInv, SubmitIntent
    PROVE  ContInv'
<1>1. /\ ContTypeOK /\ contUp /\ contTodo # <<>>
      /\ Backed(level, putters, getters, contEvents, liveLevel)
      /\ Placed(contTodo, putters, getters, contEvents, intents)
      /\ SubmitOperation(Head(contTodo)) /\ contTodo' = Tail(contTodo)
      /\ UNCHANGED <<level, intents, completed, contUp, contCrashes>>
  BY DEF ContInv, SubmitIntent, contDurable
<1>2. contTodo \in Seq(Operation)
  BY <1>1 DEF ContTypeOK
<1>3. PICK o : o = Head(contTodo)
  OBVIOUS
<1>4. o \in Operation
  BY <1>1, <1>2, <1>3, EmptySeq, HeadTailProperties
<1>5. /\ Backed(level, putters', getters', contEvents', liveLevel')
      /\ liveLevel' \in 0..ContainerCapacity
      /\ \A x : Held(putters', getters', contEvents', x)
                   = Held(putters, getters, contEvents, x) + (IF o = x THEN 1 ELSE 0)
  BY <1>1, <1>3, <1>4, SubmitKeeps
<1>6. /\ contTodo' \in Seq(Operation) /\ Dropped(contTodo, 1, contTodo')
      /\ o = contTodo[1] /\ 1 \in DOMAIN contTodo
  BY <1>1, <1>2, <1>3, TailDrops
<1>7. \A x \in Operation : Occurrences(contTodo', x) = Occurrences(contTodo, x) - (IF o = x THEN 1 ELSE 0)
  BY <1>2, <1>6, OccurrencesDrop
<1>8. Placed(contTodo', putters', getters', contEvents', intents')
  <2> SUFFICES ASSUME NEW x \in Operation
               PROVE  Occurrences(contTodo', x) + Held(putters', getters', contEvents', x)
                         = Occurrences(intents', x)
    BY DEF Placed
  <2>1. Occurrences(contTodo, x) + Held(putters, getters, contEvents, x) = Occurrences(intents, x)
    BY <1>1 DEF Placed
  <2>2. Held(putters, getters, contEvents, x) \in Nat /\ Occurrences(contTodo, x) \in Nat
    BY <1>1, <1>2, HeldType, OccurrencesType
  <2> QED
    BY <1>1, <1>5, <1>7, <2>1, <2>2
<1>9. ContTypeOK'
  BY <1>1, <1>5, <1>6 DEF ContTypeOK, Backed
<1>10. \A x \in Operation : Occurrences(intents', x) <= 1
  BY <1>1 DEF ContInv
<1> QED
  BY <1>1, <1>5, <1>8, <1>9, <1>10 DEF ContInv

\* A commit takes the operation out of the events and out of the intents.
LEMMA CommitKeeps ==
    ASSUME ContInv, CommitOperation
    PROVE  ContInv'
<1>1. PICK o : o = Head(contEvents)
  OBVIOUS
<1>2. /\ ContTypeOK /\ contUp /\ contTodo = <<>> /\ contEvents # <<>>
      /\ Backed(level, putters, getters, contEvents, liveLevel)
      /\ Placed(contTodo, putters, getters, contEvents, intents)
      /\ ServeQueue(IF Head(contEvents).kind = "put" THEN "get" ELSE "put", putters, getters, Tail(contEvents))
      /\ o \in ToSet(intents)
      /\ level' = After(o, level)
      /\ intents' = RemoveAt(intents, CHOOSE i \in DOMAIN intents : intents[i] = o)
      /\ completed' = completed \cup {o}
      /\ UNCHANGED <<contUp, contTodo, contCrashes>>
  BY <1>1 DEF ContInv, CommitOperation, ContServing
<1>3. /\ o \in Operation /\ level' \in 0..ContainerCapacity
      /\ Backed(level', putters', getters', contEvents', liveLevel')
      /\ liveLevel' \in 0..ContainerCapacity
      /\ \A x : Held(putters', getters', contEvents', x)
                   = Held(putters, getters, contEvents, x) - (IF o = x THEN 1 ELSE 0)
  BY <1>1, <1>2, EventKeeps
<1>4. intents \in Seq(Operation) /\ contTodo \in Seq(Operation)
  BY <1>2 DEF ContTypeOK
<1>5. PICK i \in DOMAIN intents : intents[i] = o /\ intents' = RemoveAt(intents, i)
  BY <1>2 DEF ToSet
<1>6. intents' \in Seq(Operation) /\ Dropped(intents, i, intents')
  <2>1. DOMAIN intents = 1..Len(intents)
    BY <1>4, LenProperties
  <2> QED
    BY <1>4, <1>5, <2>1, Removed DEF Dropped
<1>7. \A x \in Operation : Occurrences(intents', x) = Occurrences(intents, x) - (IF o = x THEN 1 ELSE 0)
  BY <1>4, <1>5, <1>6, OccurrencesDrop
<1>8. \A x : Occurrences(intents, x) \in Nat /\ Occurrences(contTodo, x) \in Nat
  BY <1>4, OccurrencesType
<1>9. Placed(contTodo', putters', getters', contEvents', intents')
  <2> SUFFICES ASSUME NEW x \in Operation
               PROVE  Occurrences(contTodo', x) + Held(putters', getters', contEvents', x)
                         = Occurrences(intents', x)
    BY DEF Placed
  <2>1. Occurrences(contTodo, x) + Held(putters, getters, contEvents, x) = Occurrences(intents, x)
    BY <1>2 DEF Placed
  <2>2. Held(putters, getters, contEvents, x) \in Nat /\ Occurrences(contTodo, x) \in Nat
    BY <1>2, <1>8, HeldType
  <2> QED
    BY <1>2, <1>3, <1>7, <2>1, <2>2
<1>10. \A x \in Operation : Occurrences(intents', x) <= 1
  BY <1>7, <1>8 DEF ContInv
<1>11. ContTypeOK'
  BY <1>2, <1>3, <1>6 DEF ContTypeOK, Backed
<1> QED
  BY <1>2, <1>3, <1>9, <1>10, <1>11 DEF ContInv

\* A rebuild starts from the durable level with everything still to be submitted.
LEMMA RebuildKeeps ==
    ASSUME ContInv, RebuildContainer
    PROVE  ContInv'
<1>1. /\ ContTypeOK /\ contUp' = TRUE
      /\ putters' = <<>> /\ getters' = <<>> /\ contEvents' = <<>>
      /\ liveLevel' = level /\ contTodo' = intents
      /\ UNCHANGED <<level, intents, completed, contCrashes>>
  BY DEF ContInv, RebuildContainer, contDurable
<1>2. level \in 0..ContainerCapacity /\ intents \in Seq(Operation)
  BY <1>1 DEF ContTypeOK
<1>3. Backed(level, <<>>, <<>>, <<>>, level) /\ \A x : Held(<<>>, <<>>, <<>>, x) = 0
  BY <1>2, EmptyBackend
<1>4. Placed(intents, <<>>, <<>>, <<>>, intents)
  <2>1. \A x : Occurrences(intents, x) \in Nat
    BY <1>2, OccurrencesType
  <2> QED
    BY <1>3, <2>1 DEF Placed
<1>5. ContTypeOK'
  BY <1>1, <1>2, <1>3 DEF ContTypeOK, Backed
<1>6. \A x \in Operation : Occurrences(intents', x) <= 1
  BY <1>1 DEF ContInv
<1> QED
  BY <1>1, <1>3, <1>4, <1>5, <1>6 DEF ContInv

\* A crash leaves the records.
LEMMA CrashKeeps ==
    ASSUME ContInv, ContainerCrash
    PROVE  ContInv'
<1>1. /\ ContTypeOK /\ contUp' = FALSE /\ contTodo' = <<>> /\ liveLevel' = 0
      /\ putters' = <<>> /\ getters' = <<>> /\ contEvents' = <<>>
      /\ contCrashes < ContainerMaxCrashes /\ contCrashes' = contCrashes + 1
      /\ UNCHANGED <<level, intents, completed>>
  BY DEF ContInv, ContainerCrash, contDurable
<1>2. <<>> \in Seq(Operation)
  BY EmptySeq
<1>3. ContTypeOK'
  <2>1. /\ intents' \in Seq(Operation) /\ contTodo' \in Seq(Operation)
        /\ putters' \in Seq(Operation) /\ getters' \in Seq(Operation) /\ contEvents' \in Seq(Operation)
    BY <1>1, <1>2, Zenon DEF ContTypeOK
  <2>2. level' \in 0..ContainerCapacity /\ completed' \subseteq Operation
    BY <1>1 DEF ContTypeOK
  <2>3. liveLevel' \in 0..ContainerCapacity /\ contCrashes' \in 0..ContainerMaxCrashes
    BY <1>1, ContainerAssumption DEF ContTypeOK
  <2> QED
    BY <1>1, <2>1, <2>2, <2>3 DEF ContTypeOK
<1>4. \A x \in Operation : Occurrences(intents', x) <= 1
  BY <1>1 DEF ContInv
<1> QED
  BY <1>1, <1>3, <1>4 DEF ContInv

\* Every step of a container keeps its invariant.
LEMMA ContainerSteps == ContInv /\ [ContNext]_contVars => ContInv'
<1> SUFFICES ASSUME ContInv, [ContNext]_contVars PROVE ContInv'
  OBVIOUS
<1>1. ASSUME NEW o \in Operation, RequestOperation(o) PROVE ContInv'
  BY <1>1, RequestKeeps
<1>2. CASE CommitOperation
  BY <1>2, CommitKeeps
<1>3. CASE RebuildContainer
  BY <1>3, RebuildKeeps
<1>4. CASE SubmitIntent
  BY <1>4, SubmitIntentKeeps
<1>5. CASE ContainerCrash
  BY <1>5, CrashKeeps
<1>6. CASE UNCHANGED contVars
  BY <1>6 DEF ContInv, ContTypeOK, contVars, contDurable, contBackend
<1> QED
  BY <1>1, <1>2, <1>3, <1>4, <1>5, <1>6 DEF ContNext

\* The invariant of the durable containers: the events of the backend lead from
\* the durable level to its own, every pending operation is in one place, and an
\* operation that fits is about to be tried.
THEOREM ContainerInvariant == ContSpec => []ContInv
BY ContainerBegins, ContainerSteps, PTL DEF ContSpec

\* What the backend completes ahead of the database can be committed in the order
\* of its events, and when it has nothing left to do every pending operation waits
\* for room or for content (DurableContainerManager.commit and rebuild_backend).
THEOREM CommitsAreFeasible == ContSpec => []ServesExactlyWhatFits
<1>1. ContInv => ServesExactlyWhatFits
  <2> SUFFICES ASSUME ContInv, ContServing PROVE ServesExactlyWhatFits
    BY DEF ServesExactlyWhatFits
  <2>1. /\ contUp /\ contTodo = <<>> /\ intents \in Seq(Operation)
        /\ Backed(level, putters, getters, contEvents, liveLevel)
        /\ Placed(contTodo, putters, getters, contEvents, intents)
        /\ level \in 0..ContainerCapacity
    BY DEF ContInv, ContServing, ContTypeOK
  <2>2. /\ putters \in Seq(Operation) /\ getters \in Seq(Operation)
        /\ Leads(contEvents, level, liveLevel) /\ Woken(putters, getters, contEvents, liveLevel)
    BY <2>1 DEF Backed
  <2>3. ASSUME contEvents = <<>>
        PROVE  /\ ToSet(intents) = ToSet(putters \o getters)
               /\ putters # <<>> => ~Fits(Head(putters), level)
               /\ getters # <<>> => ~Fits(Head(getters), level)
    <3>1. liveLevel = level
      BY <2>2, <2>3, LeadsEmpty
    <3>2. ToSet(contEvents) = {}
      BY <2>3 DEF ToSet
    <3>3. ToSet(putters \o getters) = ToSet(putters) \cup ToSet(getters)
      BY <2>2, ConcatFacts
    <3>4. ASSUME NEW x \in Operation
          PROVE  x \in ToSet(intents) <=> x \in ToSet(putters) \/ x \in ToSet(getters)
      <4>1. Occurrences(contTodo, x) + Held(putters, getters, contEvents, x) = Occurrences(intents, x)
        BY <2>1 DEF Placed
      <4>2. Occurrences(contTodo, x) = 0 /\ Occurrences(contEvents, x) = 0
        BY <2>1, <2>3, EmptyBackend
      <4>3. /\ Occurrences(putters, x) \in Nat /\ (Occurrences(putters, x) = 0 <=> x \notin ToSet(putters))
            /\ Occurrences(getters, x) \in Nat /\ (Occurrences(getters, x) = 0 <=> x \notin ToSet(getters))
            /\ Occurrences(intents, x) = 0 <=> x \notin ToSet(intents)
        BY <2>1, <2>2, OccurrencesType
      <4>4. Occurrences(intents, x) = Occurrences(putters, x) + Occurrences(getters, x)
        BY <4>1, <4>2, <4>3 DEF Held
      <4> QED
        BY <4>3, <4>4
    <3>5. ToSet(intents) \subseteq Operation /\ ToSet(putters) \subseteq Operation /\ ToSet(getters) \subseteq Operation
      BY <2>1, <2>2 DEF ToSet
    <3>6. ToSet(intents) = ToSet(putters) \cup ToSet(getters)
      BY <3>4, <3>5
    <3> QED
      BY <2>2, <3>1, <3>2, <3>3, <3>6 DEF Woken
  <2> QED
    BY <2>2, <2>3 DEF ServesExactlyWhatFits
<1> QED
  BY <1>1, ContainerInvariant, PTL

-----------------------------------------------------------------------------
(***************************************************************************)
(* Preemptive resources                                                    *)
(***************************************************************************)

\* The requests that the records of a sequence are about.
Names(q) == Requests(ToSet(q))

\* A request is named by one record, and a record is there once.
Distinct(S) == \A a, b \in S : a.req = b.req => a = b
Single(q) == Distinct(ToSet(q)) /\ \A a \in ToSet(q) : Once(q, a)

-----------------------------------------------------------------------------
(***************************************************************************)
(* Sequences of records                                                    *)
(***************************************************************************)

\* Who is in the requests of a set of records.
LEMMA RequestsIs ==
    ASSUME NEW S, NEW r
    PROVE  r \in Requests(S) <=> \E x \in S : x.req = r
BY DEF Requests

\* Named is membership of the names.
LEMMA NamedIs ==
    ASSUME NEW q, NEW r
    PROVE  /\ Named(q, r) <=> r \in Names(q)
           /\ r \in Names(q) <=> \E x \in ToSet(q) : x.req = r
BY DEF Named, Names, Requests, ToSet

\* The element at i of q is left out.
LEMMA NamesDropped ==
    ASSUME NEW S, NEW q \in Seq(S), Single(q), NEW i \in DOMAIN q, NEW p \in Seq(S), Dropped(q, i, p)
    PROVE  Single(p) /\ Names(p) = Names(q) \ {q[i].req} /\ ToSet(p) \subseteq ToSet(q)
<1>1. /\ \A a : a # q[i] => (a \in ToSet(p) <=> a \in ToSet(q))
      /\ ToSet(p) \subseteq ToSet(q)
      /\ \A v : Once(q, v) => Once(p, v)
      /\ Once(q, q[i]) => q[i] \notin ToSet(p)
  BY DropFacts
<1>2. q[i] \in ToSet(q)
  BY DEF ToSet
<1>3. q[i] \notin ToSet(p)
  BY <1>1, <1>2 DEF Single
<1>4. Single(p)
  BY <1>1 DEF Single, Distinct
<1>5. ASSUME NEW r PROVE r \in Names(p) <=> r \in Names(q) /\ r # q[i].req
  <2>1. r \in Names(p) => r \in Names(q) /\ r # q[i].req
    BY <1>1, <1>2, <1>3, NamedIs DEF Single, Distinct
  <2>2. r \in Names(q) /\ r # q[i].req => r \in Names(p)
    BY <1>1, NamedIs
  <2> QED
    BY <2>1, <2>2
<1> QED
  BY <1>1, <1>4, <1>5

\* The record of one request is left out.
LEMMA NamesDrop ==
    ASSUME NEW S, NEW q \in Seq(S), Single(q), NEW r \in Names(q)
    PROVE  /\ Drop(q, r) \in Seq(S) /\ Single(Drop(q, r)) /\ Names(Drop(q, r)) = Names(q) \ {r}
           /\ Len(Drop(q, r)) = Len(q) - 1 /\ ToSet(Drop(q, r)) \subseteq ToSet(q)
<1>1. \E i \in DOMAIN q : q[i].req = r
  BY NamedIs DEF Named
<1>2. PICK i \in DOMAIN q : q[i].req = r /\ Drop(q, r) = RemoveAt(q, i)
  BY <1>1 DEF Drop
<1>3. PICK p : p = RemoveAt(q, i)
  OBVIOUS
<1>4. DOMAIN q = 1..Len(q)
  BY LenProperties
<1>5. p \in Seq(S) /\ Dropped(q, i, p) /\ Len(p) = Len(q) - 1
  BY <1>3, <1>4, Removed DEF Dropped
<1> QED
  BY <1>2, <1>3, <1>5, NamesDropped

\* The first record.
LEMMA NamesTail ==
    ASSUME NEW S, NEW q \in Seq(S), Single(q), q # <<>>
    PROVE  /\ Head(q) \in S /\ Head(q) \in ToSet(q) /\ Head(q).req \in Names(q)
           /\ Tail(q) \in Seq(S) /\ Single(Tail(q)) /\ Names(Tail(q)) = Names(q) \ {Head(q).req}
           /\ ToSet(Tail(q)) \subseteq ToSet(q)
<1>1. PICK p : p = Tail(q)
  OBVIOUS
<1>2. p \in Seq(S) /\ Dropped(q, 1, p) /\ Head(q) = q[1] /\ 1 \in DOMAIN q
  BY <1>1, TailDrops
<1>3. Single(p) /\ Names(p) = Names(q) \ {q[1].req} /\ ToSet(p) \subseteq ToSet(q)
  BY <1>2, NamesDropped
<1>4. Head(q) \in ToSet(q)
  BY <1>2 DEF ToSet
<1>5. Head(q) \in S
  BY EmptySeq, HeadTailProperties
<1>6. Head(q).req \in Names(q)
  BY <1>4, NamedIs
<1> QED
  BY <1>1, <1>2, <1>3, <1>4, <1>5, <1>6

\* A record of a new request at the end.
LEMMA NamesAppend ==
    ASSUME NEW S, NEW q \in Seq(S), Single(q), NEW x \in S, x.req \notin Names(q)
    PROVE  /\ Append(q, x) \in Seq(S) /\ Single(Append(q, x)) /\ Names(Append(q, x)) = Names(q) \cup {x.req}
           /\ ToSet(Append(q, x)) = ToSet(q) \cup {x} /\ Len(Append(q, x)) = Len(q) + 1
<1>1. PICK p : p = Append(q, x)
  OBVIOUS
<1>2. /\ p \in Seq(S) /\ ToSet(p) = ToSet(q) \cup {x}
      /\ \A a : a # x /\ Once(q, a) => Once(p, a)
      /\ x \notin ToSet(q) => Once(p, x)
  BY <1>1, AppendFacts
<1>3. x \notin ToSet(q) /\ \A a \in ToSet(q) : a.req # x.req
  BY NamedIs
<1>4. Single(p)
  BY <1>2, <1>3 DEF Single, Distinct
<1>5. Names(p) = Names(q) \cup {x.req}
  <2>1. \A r : r \in Names(p) <=> r \in Names(q) \/ r = x.req
    BY <1>2, NamedIs
  <2> QED
    BY <2>1
<1>6. Len(p) = Len(q) + 1
  BY <1>1, AppendProperties
<1> QED
  BY <1>1, <1>2, <1>4, <1>5, <1>6

\* InsertAt keeps the type.
LEMMA InsertType ==
    ASSUME NEW S, NEW q \in Seq(S), NEW x \in S, NEW i \in 1..Len(q) + 1
    PROVE  InsertAt(q, i, x) \in Seq(S)
<1>1. Len(q) \in Nat
  BY LenProperties
<1>2. SubSeq(q, 1, i - 1) \in Seq(S) /\ SubSeq(q, i, Len(q)) \in Seq(S) /\ <<x>> \in Seq(S)
  BY <1>1
<1> QED
  BY <1>2, ConcatProperties DEF InsertAt

\* A record of a new request in the middle.
LEMMA NamesInsert ==
    ASSUME NEW S, NEW q \in Seq(S), Single(q), NEW x \in S, x.req \notin Names(q), NEW i \in 1..Len(q) + 1
    PROVE  /\ InsertAt(q, i, x) \in Seq(S) /\ Single(InsertAt(q, i, x))
           /\ Names(InsertAt(q, i, x)) = Names(q) \cup {x.req}
           /\ ToSet(InsertAt(q, i, x)) = ToSet(q) \cup {x}
<1>1. PICK p : p = InsertAt(q, i, x)
  OBVIOUS
<1>2. x \notin ToSet(q) /\ \A a \in ToSet(q) : a.req # x.req
  BY NamedIs
<1>3. /\ p \in Seq(S) /\ ToSet(p) = ToSet(q) \cup {x}
      /\ \A a : a # x /\ Once(q, a) => Once(p, a)
      /\ Once(p, x)
  BY <1>1, <1>2, InsertFacts
<1>4. Single(p)
  BY <1>2, <1>3 DEF Single, Distinct
<1>5. Names(p) = Names(q) \cup {x.req}
  <2>1. \A r : r \in Names(p) <=> r \in Names(q) \/ r = x.req
    BY <1>3, NamedIs
  <2> QED
    BY <2>1
<1> QED
  BY <1>1, <1>3, <1>4, <1>5

\* Entry finds the record of a request that has one.
LEMMA EntryIs ==
    ASSUME NEW q, NEW r \in Names(q)
    PROVE  Entry(q, r) \in ToSet(q) /\ Entry(q, r).req = r
BY NamedIs DEF Entry

-----------------------------------------------------------------------------
(***************************************************************************)
(* Counting                                                                *)
(***************************************************************************)

\* The record of a request has one place.
LEMMA SinglePlace ==
    ASSUME NEW q, Single(q), NEW i \in DOMAIN q, NEW j \in DOMAIN q, q[i].req = q[j].req
    PROVE  i = j
BY DEF Single, Distinct, Once, ToSet

\* There are as many names as records.
LEMMA NamesCount ==
    ASSUME NEW S, NEW q \in Seq(S), Single(q)
    PROVE  IsFiniteSet(Names(q)) /\ Cardinality(Names(q)) = Len(q)
<1> DEFINE f == [i \in 1..Len(q) |-> q[i].req]
<1>1. Len(q) \in Nat /\ DOMAIN q = 1..Len(q)
  BY LenProperties
<1>2. \A i, j \in 1..Len(q) : q[i].req = q[j].req => i = j
  BY <1>1, SinglePlace
<1>3. \A r : r \in Names(q) <=> \E i \in 1..Len(q) : q[i].req = r
  BY <1>1, NamedIs DEF Named
<1>4. f \in Bijection(1..Len(q), Names(q))
  <2>1. f \in [1..Len(q) -> Names(q)]
    BY <1>3
  <2>2. f \in Injection(1..Len(q), Names(q))
    BY <1>2, <2>1, Fun_IsInj
  <2>3. f \in Surjection(1..Len(q), Names(q))
    BY <1>3, <2>1, Fun_IsSurj
  <2> QED
    BY <2>2, <2>3 DEF Bijection
<1>5. IsFiniteSet(1..Len(q)) /\ Cardinality(1..Len(q)) = Len(q)
  BY <1>1, FS_Interval
<1> HIDE DEF f
<1> QED
  BY <1>4, <1>5, FS_Bijection DEF ExistsBijection

\* There are as many requests as users.
LEMMA RequestsCount ==
    ASSUME NEW us, IsFiniteSet(us), Distinct(us)
    PROVE  IsFiniteSet(Requests(us)) /\ Cardinality(Requests(us)) = Cardinality(us)
<1> DEFINE f == [x \in us |-> x.req]
<1>1. f \in Bijection(us, Requests(us))
  <2>1. f \in [us -> Requests(us)]
    BY RequestsIs
  <2>2. f \in Injection(us, Requests(us))
    BY <2>1, Fun_IsInj DEF Distinct
  <2>3. f \in Surjection(us, Requests(us))
    BY <2>1, RequestsIs, Fun_IsSurj
  <2> QED
    BY <2>2, <2>3 DEF Bijection
<1> HIDE DEF f
<1> QED
  BY <1>1, FS_Bijection DEF ExistsBijection

\* A set that has everything of another and something else is larger.
LEMMA OneMore ==
    ASSUME NEW A, NEW B, IsFiniteSet(B), A \subseteq B, NEW r \in B, r \notin A
    PROVE  IsFiniteSet(A) /\ Cardinality(A) \in Nat /\ Cardinality(B) \in Nat
           /\ Cardinality(A) < Cardinality(B)
BY FS_Subset, FS_CardinalityType

\* The place at which a sorted sequence takes a record.
LEMMA PlaceIs ==
    ASSUME NEW S, NEW q \in Seq(S), NEW T \in SUBSET (DOMAIN q)
    PROVE  Cardinality(T) + 1 \in 1..Len(q) + 1
<1>1. Len(q) \in Nat /\ DOMAIN q = 1..Len(q)
  BY LenProperties
<1>2. IsFiniteSet(1..Len(q)) /\ Cardinality(1..Len(q)) = Len(q)
  <2>1. PICK n \in Nat : n = Len(q)
    BY <1>1
  <2>2. IsFiniteSet(1..n) /\ Cardinality(1..n) = n
    BY FS_Interval
  <2> QED
    BY <2>1, <2>2
<1>3. IsFiniteSet(T) /\ Cardinality(T) <= Len(q)
  BY <1>1, <1>2, FS_Subset
<1>4. Cardinality(T) \in Nat
  BY <1>3, FS_CardinalityType
<1> QED
  BY <1>1, <1>3, <1>4

\* The users whose key is larger.
Later(us, x) == {y \in us : Key(y) > Key(x)}

\* Keys are integers.
LEMMA KeyInt ==
    ASSUME NEW x \in Asked
    PROVE  Key(x) \in Int
<1>1. x.prio \in Int
  BY PreemptiveAssumption DEF Asked
<1>2. /\ (IF x.late THEN 2 ELSE 0) \in Int
      /\ (IF x.preempt THEN 0 ELSE 1) \in Int
  OBVIOUS
<1> QED
  BY <1>1, <1>2 DEF Key

\* A finite set of users has a last one.
LEMMA LastUserIs ==
    ASSUME NEW us \in SUBSET Asked, IsFiniteSet(us), us # {}
    PROVE  LastUser(us) \in us
<1>1. \A x \in us : IsFiniteSet(Later(us, x)) /\ Cardinality(Later(us, x)) \in Nat
  <2> TAKE x \in us
  <2>1. Later(us, x) \subseteq us
    BY DEF Later
  <2> QED
    BY <2>1, FS_Subset, FS_CardinalityType
<1> DEFINE T == {Cardinality(Later(us, x)) : x \in us}
<1>2. T \in SUBSET Nat /\ T # {}
  BY <1>1
<1>3. PICK n \in T : \A m \in T : n <= m
  <2> HIDE DEF T
  <2> QED
    BY <1>2, Least
<1>4. PICK x \in us : n = Cardinality(Later(us, x))
  OBVIOUS
<1>5. ASSUME NEW y \in us PROVE Key(y) <= Key(x)
  <2> SUFFICES ASSUME Key(y) > Key(x) PROVE FALSE
    BY KeyInt
  <2>1. Later(us, y) \subseteq Later(us, x) /\ y \in Later(us, x) /\ y \notin Later(us, y)
    BY KeyInt DEF Later
  <2>2. Cardinality(Later(us, y)) < Cardinality(Later(us, x))
    BY <1>1, <2>1, OneMore
  <2>3. n <= Cardinality(Later(us, y))
    BY <1>3
  <2> QED
    BY <1>1, <1>4, <2>2, <2>3
<1> QED
  BY <1>5 DEF LastUser

\* Only the empty sequence has no names.
LEMMA NamesNone ==
    ASSUME NEW S, NEW q \in Seq(S)
    PROVE  q = <<>> <=> Names(q) = {}
<1>1. q = <<>> <=> Len(q) = 0
  BY EmptySeq
<1>2. Len(q) \in Nat /\ DOMAIN q = 1..Len(q)
  BY LenProperties
<1>3. \A i \in 1..Len(q) : q[i].req \in Names(q)
  BY <1>2, NamedIs DEF Named
<1>4. \A r \in Names(q) : \E i \in 1..Len(q) : q[i].req = r
  BY <1>2, NamedIs DEF Named
<1>5. Len(q) # 0 => 1 \in 1..Len(q)
  BY <1>2
<1>6. Len(q) = 0 => 1..Len(q) = {}
  BY <1>2
<1> QED
  BY <1>1, <1>3, <1>4, <1>5, <1>6

-----------------------------------------------------------------------------
(***************************************************************************)
(* The units of the backend                                                *)
(***************************************************************************)

\* The users fit in the capacity, and a request has one place.
UnitsOK(q, us) ==
    /\ IsFiniteSet(us) /\ Cardinality(us) <= PreCapacity /\ Distinct(us)
    /\ Single(q)
    /\ Requests(us) \cap Names(q) = {}

\* The head of the queue takes a unit that is free.
LEMMA UserAdded ==
    ASSUME NEW q \in Seq(Asked), NEW us \in SUBSET Asked, UnitsOK(q, us), q # <<>>,
           Cardinality(us) < PreCapacity
    PROVE  LET h == Head(q) IN
           /\ Tail(q) \in Seq(Asked) /\ us \cup {h} \in SUBSET Asked /\ UnitsOK(Tail(q), us \cup {h})
           /\ Requests(us \cup {h}) = Requests(us) \cup {h.req} /\ Names(Tail(q)) = Names(q) \ {h.req}
           /\ h.req \in Names(q) /\ Cardinality(us \cup {h}) = Cardinality(us) + 1
<1> DEFINE h == Head(q)
<1>1. /\ h \in Asked /\ h.req \in Names(q)
      /\ Tail(q) \in Seq(Asked) /\ Single(Tail(q)) /\ Names(Tail(q)) = Names(q) \ {h.req}
  BY NamesTail DEF UnitsOK
<1> HIDE DEF h
<1>2. h.req \notin Requests(us)
  BY <1>1 DEF UnitsOK
<1>3. h \notin us /\ \A x \in us : x.req # h.req
  BY <1>2, RequestsIs
<1>4. PICK u1 : u1 = us \cup {h}
  OBVIOUS
<1>5. IsFiniteSet(u1) /\ Cardinality(u1) = Cardinality(us) + 1
  BY <1>3, <1>4, FS_AddElement DEF UnitsOK
<1>6. \A r : r \in Requests(u1) <=> r \in Requests(us) \/ r = h.req
  BY <1>4, RequestsIs
<1>7. Distinct(u1)
  BY <1>3, <1>4 DEF UnitsOK, Distinct
<1>8. Cardinality(us) \in Nat
  BY FS_CardinalityType DEF UnitsOK
<1>9. Cardinality(u1) <= PreCapacity
  BY <1>5, <1>8, PreemptiveAssumption
<1>10. UnitsOK(Tail(q), u1)
  BY <1>1, <1>5, <1>6, <1>7, <1>9 DEF UnitsOK
<1> QED
  BY <1>1, <1>4, <1>5, <1>6, <1>10 DEF h

\* A user gives its unit back.
LEMMA UserRemoved ==
    ASSUME NEW q \in Seq(Asked), NEW us \in SUBSET Asked, UnitsOK(q, us), NEW v \in us
    PROVE  /\ UnitsOK(q, us \ {v}) /\ Requests(us \ {v}) = Requests(us) \ {v.req}
           /\ Cardinality(us \ {v}) = Cardinality(us) - 1 /\ Cardinality(us) \in Nat
           /\ Cardinality(us) >= 1 /\ v.req \in Requests(us)
<1>1. \A x \in us : x.req = v.req => x = v
  BY DEF UnitsOK, Distinct
<1>2. PICK u1 : u1 = us \ {v}
  OBVIOUS
<1>3. IsFiniteSet(u1) /\ Cardinality(u1) = Cardinality(us) - 1 /\ Cardinality(us) \in Nat /\ Cardinality(u1) \in Nat
  BY <1>2, FS_RemoveElement, FS_CardinalityType DEF UnitsOK
<1>4. \A r : r \in Requests(u1) <=> r \in Requests(us) /\ r # v.req
  BY <1>1, <1>2, RequestsIs
<1>5. Distinct(u1)
  BY <1>2 DEF UnitsOK, Distinct
<1>6. Cardinality(u1) <= PreCapacity /\ Cardinality(us) >= 1
  BY <1>3, PreemptiveAssumption DEF UnitsOK
<1>7. UnitsOK(q, u1)
  BY <1>3, <1>4, <1>5, <1>6 DEF UnitsOK
<1>8. v.req \in Requests(us)
  BY RequestsIs
<1> QED
  BY <1>2, <1>3, <1>4, <1>6, <1>7, <1>8

\* The users that are not about the request of v.
LEMMA OthersAre ==
    ASSUME NEW us, Distinct(us), NEW v \in us
    PROVE  {x \in us : x.req # v.req} = us \ {v}
BY DEF Distinct

\* The head of the queue takes the unit of v.
LEMMA UserReplaced ==
    ASSUME NEW q \in Seq(Asked), NEW us \in SUBSET Asked, UnitsOK(q, us), q # <<>>, NEW v \in us
    PROVE  LET h == Head(q)
               u1 == (us \ {v}) \cup {h}
           IN
           /\ Tail(q) \in Seq(Asked) /\ u1 \in SUBSET Asked /\ UnitsOK(Tail(q), u1)
           /\ Requests(u1) = (Requests(us) \ {v.req}) \cup {h.req} /\ Names(Tail(q)) = Names(q) \ {h.req}
           /\ h.req \in Names(q) /\ v.req \in Requests(us) /\ Cardinality(u1) = Cardinality(us)
<1>1. PICK w : w = us \ {v}
  OBVIOUS
<1>2. /\ UnitsOK(q, w) /\ Requests(w) = Requests(us) \ {v.req}
      /\ Cardinality(w) = Cardinality(us) - 1 /\ Cardinality(us) \in Nat /\ v.req \in Requests(us)
  BY <1>1, UserRemoved
<1>3. w \in SUBSET Asked
  BY <1>1
<1>4. Cardinality(w) < PreCapacity
  BY <1>2, PreemptiveAssumption DEF UnitsOK
<1>5. /\ Tail(q) \in Seq(Asked) /\ w \cup {Head(q)} \in SUBSET Asked /\ UnitsOK(Tail(q), w \cup {Head(q)})
      /\ Requests(w \cup {Head(q)}) = Requests(w) \cup {Head(q).req} /\ Names(Tail(q)) = Names(q) \ {Head(q).req}
      /\ Head(q).req \in Names(q) /\ Cardinality(w \cup {Head(q)}) = Cardinality(w) + 1
  BY <1>2, <1>3, <1>4, UserAdded
<1>6. PICK u1 : u1 = w \cup {Head(q)}
  OBVIOUS
<1>7. u1 = (us \ {v}) \cup {Head(q)}
  BY <1>1, <1>6
<1>8. /\ u1 \in SUBSET Asked /\ UnitsOK(Tail(q), u1)
      /\ Requests(u1) = (Requests(us) \ {v.req}) \cup {Head(q).req} /\ Cardinality(u1) = Cardinality(us)
  <2>1. u1 \in SUBSET Asked /\ UnitsOK(Tail(q), u1) /\ Cardinality(u1) = Cardinality(w) + 1
    BY <1>5, <1>6, Zenon
  <2>2. Requests(u1) = (Requests(us) \ {v.req}) \cup {Head(q).req}
    BY <1>2, <1>5, <1>6, Zenon
  <2> QED
    BY <1>2, <2>1, <2>2
<1> QED
  BY <1>2, <1>5, <1>7, <1>8

\* A new request waits.
LEMMA QueueGrown ==
    ASSUME NEW q \in Seq(Asked), NEW us \in SUBSET Asked, UnitsOK(q, us), NEW x \in Asked,
           x.req \notin Names(q), x.req \notin Requests(us)
    PROVE  /\ ByKey(q, x) \in Seq(Asked) /\ UnitsOK(ByKey(q, x), us)
           /\ Names(ByKey(q, x)) = Names(q) \cup {x.req}
<1>1. PICK i : i = Cardinality({j \in DOMAIN q : Key(q[j]) <= Key(x)}) + 1
  OBVIOUS
<1>2. PICK T \in SUBSET (DOMAIN q) : T = {j \in DOMAIN q : Key(q[j]) <= Key(x)}
  OBVIOUS
<1>3. i \in 1..Len(q) + 1
  BY <1>1, <1>2, PlaceIs
<1>4. ByKey(q, x) = InsertAt(q, i, x)
  BY <1>1, Zenon DEF ByKey
<1> HIDE <1>1, <1>2
<1>5. Single(q)
  BY DEF UnitsOK
<1>6. PICK p : p = InsertAt(q, i, x)
  OBVIOUS
<1>7. p \in Seq(Asked) /\ Single(p) /\ Names(p) = Names(q) \cup {x.req}
  BY <1>3, <1>5, <1>6, NamesInsert
<1> QED
  BY <1>4, <1>6, <1>7 DEF UnitsOK

-----------------------------------------------------------------------------
(***************************************************************************)
(* The events of the backend                                               *)
(***************************************************************************)

Inits == {InitEvent(x) : x \in Asked}
Grants == {GrantEvent(r) : r \in PreRequests}
Interrupts == {Interrupt(v, h) : v, h \in PreRequests}

\* What the events are about.
LEMMA InitIs ==
    ASSUME NEW e \in Inits
    PROVE  e.kind = "init" /\ e.asked \in Asked /\ e.asked.req = e.req /\ e.req \in PreRequests
BY DEF Inits, InitEvent, Asked

\* The event that starts an ask.
LEMMA InitOf ==
    ASSUME NEW x \in Asked
    PROVE  InitEvent(x) \in Inits /\ InitEvent(x).req = x.req
BY DEF Inits, InitEvent

\* What an event of a grant is.
LEMMA GrantIs ==
    ASSUME NEW e \in Grants
    PROVE  e.kind = "grant" /\ e.req \in PreRequests /\ e = GrantEvent(e.req)
BY DEF Grants, GrantEvent

\* The event of a grant.
LEMMA GrantEventIs ==
    ASSUME NEW r \in PreRequests
    PROVE  GrantEvent(r) \in Grants /\ GrantEvent(r).req = r /\ GrantEvent(r).kind = "grant"
BY DEF Grants, GrantEvent

\* The event of a preemption.
LEMMA InterruptOf ==
    ASSUME NEW v \in PreRequests, NEW h \in PreRequests
    PROVE  /\ Interrupt(v, h) \in Interrupts /\ Interrupt(v, h).kind = "interrupt"
           /\ Interrupt(v, h).req = v /\ Interrupt(v, h).by = h
BY DEF Interrupts, Interrupt

\* What an event of a preemption is.
LEMMA InterruptIs ==
    ASSUME NEW e \in Interrupts
    PROVE  e.kind = "interrupt" /\ e.req \in PreRequests /\ e.by \in PreRequests
BY DEF Interrupts, Interrupt

\* The events at the end of a hold and of a freed unit.
LEMMA HoldOf ==
    ASSUME NEW r
    PROVE  HoldEvent(r).kind = "hold" /\ HoldEvent(r).req = r /\ UnitEvent.kind = "release"
BY DEF HoldEvent, UnitEvent

\* What is asked of the backend.
LEMMA AskOf ==
    ASSUME NEW x \in Wanted, NEW late \in BOOLEAN
    PROVE  /\ Ask(x, x.preempt, late) \in Asked /\ Ask(x, x.preempt, late).req = x.req
           /\ Ask(x, FALSE, late) \in Asked /\ Ask(x, FALSE, late).req = x.req
           /\ x.req \in PreRequests
BY DEF Wanted, Asked, Ask

\* Who asks.
LEMMA AskedReq ==
    ASSUME NEW x \in Asked
    PROVE  x.req \in PreRequests
BY DEF Asked

\* A sequence of one event.
LEMMA OneEvent ==
    ASSUME NEW e
    PROVE  /\ <<e>> # <<>> /\ Head(<<e>>) = e /\ Tail(<<e>>) = <<>> /\ ToSet(<<e>>) = {e}
           /\ Append(<<>>, e) = <<e>> /\ Len(<<e>>) = 1 /\ Names(<<e>>) = {e.req} /\ Single(<<e>>)
<1>1. <<e>> # <<>> /\ Head(<<e>>) = e /\ Tail(<<e>>) = <<>> /\ Append(<<>>, e) = <<e>> /\ Len(<<e>>) = 1
  OBVIOUS
<1>2. DOMAIN <<e>> = {1} /\ <<e>>[1] = e
  OBVIOUS
<1>3. PICK q : q = <<e>>
  OBVIOUS
<1>4. ToSet(q) = {e}
  BY <1>2, <1>3 DEF ToSet
<1>5. \A r : r \in Names(q) <=> r = e.req
  BY <1>4, NamedIs
<1>6. Single(q)
  BY <1>2, <1>3, <1>4 DEF Single, Distinct, Once
<1> QED
  BY <1>1, <1>3, <1>4, <1>5, <1>6

\* No event.
LEMMA NoEvent == ToSet(<<>>) = {} /\ Names(<<>>) = {} /\ Single(<<>>)
<1>1. PICK q : q = <<>>
  OBVIOUS
<1>2. DOMAIN q = {}
  BY <1>1
<1>3. ToSet(q) = {}
  BY <1>2 DEF ToSet
<1>4. Names(q) = {}
  BY <1>3, NamedIs
<1>5. Single(q)
  BY <1>3 DEF Single, Distinct
<1> QED
  BY <1>1, <1>3, <1>4, <1>5

\* The head of the queue waits, takes a unit that is free, or takes a user's.
LEMMA TriggerOutcomes ==
    ASSUME NEW q, NEW us \in SUBSET Asked, IsFiniteSet(us), NEW ur, NEW no, PreTrigger(q, us, ur, no)
    PROVE  \/ /\ q = <<>> \/ Cardinality(us) >= PreCapacity
              /\ preQueue' = q /\ preUsers' = us /\ preUrgent' = ur /\ preNormal' = no
           \/ /\ q # <<>> /\ Cardinality(us) < PreCapacity
              /\ preQueue' = Tail(q) /\ preUsers' = us \cup {Head(q)}
              /\ preUrgent' = ur /\ preNormal' = Append(no, GrantEvent(Head(q).req))
           \/ /\ q # <<>> /\ Cardinality(us) >= PreCapacity
              /\ \E v \in us :
                    /\ preQueue' = Tail(q) /\ preUsers' = (us \ {v}) \cup {Head(q)}
                    /\ preUrgent' = Append(ur, Interrupt(v.req, Head(q).req))
                    /\ preNormal' = Append(no, GrantEvent(Head(q).req))
<1>1. Cardinality(us) \in Nat /\ PreCapacity \in Nat /\ PreCapacity >= 1
  BY FS_CardinalityType, PreemptiveAssumption
<1>2. Cardinality(us) >= PreCapacity => LastUser(us) \in us
  <2>1. Cardinality(us) >= PreCapacity => us # {}
    BY <1>1, FS_EmptySet
  <2> QED
    BY <2>1, LastUserIs
<1>3. CASE q = <<>>
  BY <1>3 DEF PreTrigger
<1>4. CASE q # <<>> /\ Cardinality(us) < PreCapacity
  <2>1. ~(Cardinality(us) >= PreCapacity)
    BY <1>1, <1>4
  <2> QED
    BY <1>4, <2>1, Zenon DEF PreTrigger
<1>5. CASE q # <<>> /\ Cardinality(us) >= PreCapacity
  <2>1. ~(Cardinality(us) < PreCapacity)
    BY <1>1, <1>5
  <2>2. PICK v \in us : v = LastUser(us)
    BY <1>2, <1>5
  <2>3. CASE Head(q).preempt /\ Key(v) > Key(Head(q)) /\ Cardinality(us \ {v}) < PreCapacity
    BY <1>5, <2>2, <2>3, Zenon DEF PreTrigger
  <2>4. CASE ~(Head(q).preempt /\ Key(v) > Key(Head(q)) /\ Cardinality(us \ {v}) < PreCapacity)
    BY <1>5, <2>1, <2>2, <2>4, Zenon DEF PreTrigger
  <2> QED
    BY <2>3, <2>4
<1> QED
  BY <1>1, <1>3, <1>4, <1>5

-----------------------------------------------------------------------------
(***************************************************************************)
(* The invariant                                                           *)
(***************************************************************************)

\* A request is demanded or reserved, once, and the reservations fit.
RecordsOK ==
    /\ Single(preDemands) /\ Single(preReserved)
    /\ Names(preDemands) \cap Names(preReserved) = {}
    /\ preReleasing \subseteq Names(preReserved)
    /\ Len(preReserved) <= PreCapacity

\* D demanded, R reserved; Q waiting, U using a unit, I about to ask, G about to
\* be granted, L leased; X displaced, with a loss that is not committed.
Balanced(D, R, Q, U, I, G, L, X) ==
    /\ (U \cup Q) \cap I = {}
    /\ D \cup R = U \cup Q \cup I \cup X
    /\ Q \cap R = {}
    /\ R \ X \subseteq U \cup I
    /\ U = L \cup G /\ L \cap G = {} /\ L \subseteq R

\* A request waits only for a unit that is used.
Full(q, us) == q # <<>> => Cardinality(us) = PreCapacity

\* Reservations ask before demands.  While a reservation has not asked only
\* reservations have units.  Who asks either finds no lease at all, or is alone.
EventsOK(R, q, us, ur, no, L) ==
    /\ ur \in Seq(Inits) /\ Single(ur) /\ no \in Seq(Grants) /\ Single(no)
    /\ \A a, b \in ToSet(ur) : Before(ur, a, b) /\ b.req \in R => a.req \in R
    /\ R \cap Names(ur) # {} => q = <<>> /\ Requests(us) \subseteq R
    /\ ur # <<>> => L = {} \/ (Tail(ur) = <<>> /\ no = <<>>)

\* No preemption, cancellation or release is under way.
Settled ==
    /\ UnitsOK(preQueue, preUsers) /\ Full(preQueue, preUsers)
    /\ Balanced(Names(preDemands), Names(preReserved), Names(preQueue), Requests(preUsers),
                Names(preUrgent), Names(preNormal), preLeased, {})
    /\ EventsOK(Names(preReserved), preQueue, preUsers, preUrgent, preNormal, preLeased)
    /\ tombstones = {} /\ pendingLosses = {}
    /\ preStep # NoStep => Quiet

\* A request that had no lease yet was displaced: the interrupt will raise.
Doomed ==
    /\ preStep = NoStep /\ preLeased = {} /\ IsFiniteSet(preUsers)
    /\ preUrgent \in Seq(Inits \cup Interrupts)
    /\ \E e \in ToSet(preUrgent) : e.kind = "interrupt"

\* The lifecycle of r has not noticed its cancellation.
Cancelled(r) ==
    /\ preStep = NoStep /\ preUrgent = <<>> /\ preNormal = <<GrantEvent(r)>>
    /\ tombstones = {r} /\ pendingLosses = {}
    /\ UnitsOK(preQueue, preUsers) /\ Full(preQueue, preUsers)
    /\ Balanced(Names(preDemands), Names(preReserved), Names(preQueue), Requests(preUsers),
                {}, {}, preLeased, {})

\* The reservation of r is deleted and its hold has not ended.
Ending(r) ==
    /\ preStep = NoStep /\ preUrgent = <<>> /\ preNormal = <<HoldEvent(r)>>
    /\ tombstones = {} /\ pendingLosses = {}
    /\ UnitsOK(preQueue, preUsers) /\ Full(preQueue, preUsers)
    /\ r \in Requests(preUsers) /\ r \notin Names(preReserved) /\ r \notin Names(preDemands)
    /\ Balanced(Names(preDemands), Names(preReserved) \cup {r}, Names(preQueue), Requests(preUsers),
                {}, {}, preLeased, {})

\* A unit is free and its event has not been served.
Freed ==
    /\ preStep = NoStep /\ preUrgent = <<>> /\ preNormal = <<UnitEvent>>
    /\ tombstones = {} /\ pendingLosses = {}
    /\ UnitsOK(preQueue, preUsers) /\ Cardinality(preUsers) < PreCapacity
    /\ preQueue # <<>> => Cardinality(preUsers) + 1 = PreCapacity
    /\ Balanced(Names(preDemands), Names(preReserved), Names(preQueue), Requests(preUsers),
                {}, {}, preLeased, {})

\* h has taken the unit of v: the loss, and then the acquisition, are to come.
Preempting(v, h) ==
    /\ preStep = NoStep /\ preNormal = <<GrantEvent(h)>> /\ tombstones = {}
    /\ \/ preUrgent = <<Interrupt(v, h)>> /\ pendingLosses = {} /\ v \in preLeased
       \/ preUrgent = <<>> /\ pendingLosses = {<<v, h>>} /\ v \notin preLeased
    /\ UnitsOK(preQueue, preUsers) /\ Full(preQueue, preUsers)
    /\ v \in Names(preReserved) /\ v \notin Requests(preUsers) /\ v \notin Names(preQueue)
    /\ h \in Requests(preUsers) /\ h \in Names(preDemands)
    /\ Balanced(Names(preDemands), Names(preReserved), Names(preQueue), Requests(preUsers),
                {}, {h}, preLeased \ {v}, {v})

Phase ==
    \/ Settled \/ Doomed \/ Freed
    \/ \E r \in PreRequests : Cancelled(r) \/ Ending(r)
    \/ \E v, h \in PreRequests : Preempting(v, h)

NoProcess ==
    /\ preStep = NoStep /\ preQueue = <<>> /\ preUsers = {} /\ preUrgent = <<>> /\ preNormal = <<>>
    /\ preLeased = {} /\ tombstones = {} /\ pendingLosses = {} /\ preKnown = {}

PreInv ==
    /\ PreTypeOK /\ RecordsOK
    /\ ~preRunning => NoProcess
    /\ preRunning => preReleasing = (IF preStep = NoStep THEN {} ELSE {preStep})
    /\ preRunning => Phase

-----------------------------------------------------------------------------
\* The empty database has the invariant.
LEMMA PreInitial == PreInit => PreInv
<1> SUFFICES ASSUME PreInit PROVE PreInv
  OBVIOUS
<1>1. PreTypeOK
  <2>1. <<>> \in Seq(Wanted) /\ <<>> \in Seq(Asked) /\ 0 \in 0..PreMaxCrashes
    BY EmptySeq, PreemptiveAssumption
  <2> QED
    BY <2>1, Zenon DEF PreInit, PreTypeOK
<1>2. RecordsOK
  <2>1. Len(<<>>) = 0 /\ 0 <= PreCapacity
    BY PreemptiveAssumption
  <2> QED
    BY <2>1, NoEvent, Zenon DEF PreInit, RecordsOK
<1> QED
  BY <1>1, <1>2, Zenon DEF PreInit, PreInv, NoProcess

\* A process that fails.
LEMMA DeadKeeps ==
    ASSUME PreInv, PreDead, preCrashes' \in 0..PreMaxCrashes
    PROVE  PreInv'
<1>1. PreTypeOK'
  <2>1. <<>> \in Seq(Asked)
    BY EmptySeq
  <2> QED
    BY <2>1, Zenon DEF PreInv, PreTypeOK, PreDead, preDurable
<1>2. RecordsOK'
  BY Zenon DEF PreInv, RecordsOK, PreDead, preDurable
<1>3. NoProcess' /\ ~preRunning'
  BY Zenon DEF NoProcess, PreDead
<1> QED
  BY <1>1, <1>2, <1>3 DEF PreInv

\* A crash, and the two exceptions that end a process.
LEMMA FailureKeeps ==
    ASSUME PreInv, PreCrash \/ InterruptRaises \/ ResultRaises
    PROVE  PreInv'
<1>1. PreDead
  BY DEF PreCrash, InterruptRaises, ResultRaises
<1>2. preCrashes' \in 0..PreMaxCrashes
  BY PreemptiveAssumption DEF PreCrash, InterruptRaises, ResultRaises, PreInv, PreTypeOK
<1> QED
  BY <1>1, <1>2, DeadKeeps

-----------------------------------------------------------------------------
(***************************************************************************)
(* Which phase an event belongs to                                         *)
(***************************************************************************)

\* A lifecycle starts in a settled or in a doomed backend.
LEMMA InitPhase ==
    ASSUME PreInv, UrgentIs("init")
    PROVE  Settled \/ Doomed
<1>1. Phase /\ preUrgent # <<>> /\ Head(preUrgent).kind = "init"
  BY DEF PreInv, UrgentIs, PreIdle
<1>2. ASSUME NEW v \in PreRequests, NEW h \in PreRequests, Preempting(v, h) PROVE FALSE
  <2>1. preUrgent = <<Interrupt(v, h)>>
    BY <1>1, <1>2 DEF Preempting
  <2>2. Head(preUrgent) = Interrupt(v, h)
    BY <2>1, OneEvent
  <2> QED
    BY <1>1, <2>2, InterruptOf
<1> QED
  BY <1>1, <1>2 DEF Phase, Freed, Cancelled, Ending

\* A doomed backend serves an interrupt, or one whose loss can be recorded.
LEMMA InterruptPhase ==
    ASSUME PreInv, UrgentIs("interrupt")
    PROVE  Doomed \/ \E v, h \in PreRequests : Preempting(v, h) /\ preUrgent = <<Interrupt(v, h)>>
<1>1. Phase /\ preUrgent # <<>> /\ Head(preUrgent).kind = "interrupt"
  BY DEF PreInv, UrgentIs, PreIdle
<1>2. ASSUME Settled PROVE FALSE
  <2>1. preUrgent \in Seq(Inits) /\ Single(preUrgent)
    BY <1>2 DEF Settled, EventsOK
  <2>2. Head(preUrgent) \in Inits
    BY <1>1, <2>1, NamesTail
  <2> QED
    BY <1>1, <2>2, InitIs
<1>3. ASSUME NEW v \in PreRequests, NEW h \in PreRequests, Preempting(v, h)
      PROVE  preUrgent = <<Interrupt(v, h)>>
  BY <1>1, <1>3 DEF Preempting
<1> QED
  BY <1>1, <1>2, <1>3 DEF Phase, Freed, Cancelled, Ending

\* A hold has ended, or a unit was given back.
LEMMA HoldPhase ==
    ASSUME PreInv, preRunning, preStep = NoStep, preUrgent = <<>>, preNormal # <<>>
    PROVE  /\ NormalIs("hold") => \E r \in PreRequests : Ending(r)
           /\ NormalIs("release") => Freed
           /\ NormalIs("grant") => \/ Settled
                                   \/ \E r \in PreRequests : Cancelled(r)
                                   \/ \E v, h \in PreRequests : Preempting(v, h) /\ pendingLosses = {<<v, h>>}
<1>1. Phase
  BY DEF PreInv
<1>2. ~Doomed
  BY NoEvent DEF Doomed
<1>3. Settled => Head(preNormal).kind = "grant"
  <2> SUFFICES ASSUME Settled PROVE Head(preNormal).kind = "grant"
    OBVIOUS
  <2>1. preNormal \in Seq(Grants) /\ Single(preNormal)
    BY DEF Settled, EventsOK
  <2>2. Head(preNormal) \in Grants
    BY <2>1, NamesTail
  <2> QED
    BY <2>2, GrantIs
<1>4. ASSUME NEW r \in PreRequests
      PROVE  /\ Cancelled(r) => Head(preNormal).kind = "grant"
             /\ Ending(r) => Head(preNormal).kind = "hold"
  BY OneEvent, HoldOf, GrantEventIs DEF Cancelled, Ending
<1>5. Freed => Head(preNormal).kind = "release"
  BY OneEvent, HoldOf DEF Freed
<1>6. ASSUME NEW v \in PreRequests, NEW h \in PreRequests, Preempting(v, h)
      PROVE  Head(preNormal).kind = "grant" /\ pendingLosses = {<<v, h>>}
  <2>1. preNormal = <<GrantEvent(h)>> /\ pendingLosses = {<<v, h>>}
    BY <1>6, OneEvent DEF Preempting
  <2> QED
    BY <2>1, OneEvent, GrantEventIs
<1> QED
  BY <1>1, <1>2, <1>3, <1>4, <1>5, <1>6 DEF Phase, NormalIs

\* An operation finds the backend without events, and a release its reservation.
LEMMA QuietPhase ==
    ASSUME PreInv, preRunning, Quiet
    PROVE  Settled
<1>1. Phase /\ preUrgent = <<>> /\ preNormal = <<>>
  BY DEF PreInv, Quiet
<1>2. ~Doomed
  BY <1>1, NoEvent DEF Doomed
<1>3. \A e : <<e>> # <<>>
  BY OneEvent
<1> QED
  BY <1>1, <1>2, <1>3, Zenon DEF Phase, Freed, Cancelled, Ending, Preempting

\* A release finds the backend as it was when its intent was written.
LEMMA ReleasePhase ==
    ASSUME PreInv, NEW r \in PreRequests, preStep = r
    PROVE  preRunning /\ Settled /\ Quiet /\ preReleasing = {r}
<1>1. preStep # NoStep
  BY PreemptiveAssumption
<1>2. preRunning /\ Phase /\ preReleasing = {r}
  BY <1>1 DEF PreInv, NoProcess
<1>3. Settled
  BY <1>1, <1>2, Zenon DEF Phase, Doomed, Freed, Cancelled, Ending, Preempting
<1> QED
  BY <1>1, <1>2, <1>3 DEF Settled

-----------------------------------------------------------------------------
(***************************************************************************)
(* The operations                                                          *)
(***************************************************************************)

\* A new demand is alone in asking.
LEMMA PreRequestKeeps ==
    ASSUME PreInv, NEW x \in Wanted, PreRequest(x)
    PROVE  PreInv'
<1> DEFINE D == Names(preDemands)
           R == Names(preReserved)
           a == Ask(x, x.preempt, TRUE)
<1>1. /\ preRunning /\ preStep = NoStep /\ Quiet /\ x.req \notin D /\ x.req \notin R
      /\ PreTypeOK /\ RecordsOK /\ Settled /\ preReleasing = {}
  BY NamedIs, QuietPhase DEF PreRequest, MayCallPreemptive, PreIdle, PreInv
<1>2. PICK T \in SUBSET (DOMAIN preDemands) : T = {i \in DOMAIN preDemands : preDemands[i].prio <= x.prio}
  OBVIOUS
<1>3. PICK n : n = Cardinality(T) + 1
  OBVIOUS
<1>4. n \in 1..Len(preDemands) + 1
  BY <1>1, <1>3, PlaceIs DEF PreTypeOK
<1>5. preDemands' = InsertAt(preDemands, n, x)
  BY <1>2, <1>3 DEF PreRequest
<1> HIDE <1>2, <1>3
<1>6. preDemands' \in Seq(Wanted) /\ Single(preDemands') /\ Names(preDemands') = D \cup {x.req}
  <2>1. preDemands \in Seq(Wanted) /\ Single(preDemands)
    BY <1>1 DEF PreTypeOK, RecordsOK
  <2> QED
    BY <1>1, <1>4, <1>5, <2>1, NamesInsert
<1>7. /\ a \in Asked /\ a.req = x.req
  BY AskOf
<1>8. preUrgent' = <<InitEvent(a)>>
  BY <1>1, OneEvent DEF PreRequest, Quiet
<1>9. UNCHANGED <<preReserved, preReleasing, preResults, preRunning, preStep, preQueue, preUsers,
                  preNormal, preLeased, tombstones, pendingLosses, preKnown, preCrashes>>
  BY DEF PreRequest, handshake
<1> HIDE DEF a
<1>10. PreTypeOK'
  BY <1>1, <1>6, <1>9 DEF PreTypeOK
<1>11. RecordsOK'
  BY <1>1, <1>6, <1>9 DEF RecordsOK
<1>12. preUrgent' \in Seq(Inits) /\ Single(preUrgent') /\ Names(preUrgent') = {x.req} /\ Tail(preUrgent') = <<>>
  <2>1. InitEvent(a) \in Inits /\ InitEvent(a).req = x.req
    BY <1>7, InitOf
  <2>2. preUrgent' \in Seq(Inits)
    BY <1>8, <2>1
  <2> QED
    BY <1>8, <2>1, <2>2, OneEvent
<1>13. preNormal = <<>> /\ preUrgent = <<>>
  BY <1>1 DEF Quiet
<1>14. Balanced(D, R, Names(preQueue), Requests(preUsers), {}, {}, preLeased, {})
  BY <1>1, <1>13, NoEvent DEF Settled
<1>15. Balanced(D \cup {x.req}, R, Names(preQueue), Requests(preUsers), {x.req}, {}, preLeased, {})
  BY <1>1, <1>14 DEF Balanced
<1>16. EventsOK(R, preQueue, preUsers, preUrgent', <<>>, preLeased)
  <2>1. <<>> \in Seq(Grants) /\ Single(<<>>)
    BY EmptySeq, NoEvent
  <2>2. \A u, w \in ToSet(preUrgent') : w.req \notin R
    BY <1>1, <1>12, NamedIs
  <2> QED
    BY <1>1, <1>12, <2>1, <2>2 DEF EventsOK
<1>17. Settled'
  BY <1>1, <1>6, <1>9, <1>12, <1>13, <1>15, <1>16, NoEvent, Zenon DEF Settled
<1> QED
  BY <1>1, <1>9, <1>10, <1>11, <1>17 DEF PreInv, Phase

\* A demand that waits is cancelled.
LEMMA CancelKeeps ==
    ASSUME PreInv, NEW r \in PreRequests, PreCancelPending(r)
    PROVE  PreInv'
<1> DEFINE D == Names(preDemands)
           R == Names(preReserved)
           Q == Names(preQueue)
<1>1. /\ preRunning /\ preStep = NoStep /\ Quiet /\ r \in D /\ r \in Q
      /\ PreTypeOK /\ RecordsOK /\ Settled /\ preReleasing = {}
  BY NamedIs, QuietPhase DEF PreCancelPending, MayCallPreemptive, PreIdle, PreInv
<1>2. preNormal = <<>> /\ preUrgent = <<>> /\ tombstones = {} /\ pendingLosses = {}
  BY <1>1 DEF Quiet, Settled
<1>3. preDemands' \in Seq(Wanted) /\ Single(preDemands') /\ Names(preDemands') = D \ {r}
  BY <1>1, NamesDrop DEF PreTypeOK, RecordsOK, PreCancelPending
<1>4. preQueue' \in Seq(Asked) /\ Single(preQueue') /\ Names(preQueue') = Q \ {r}
  BY <1>1, NamesDrop DEF PreTypeOK, Settled, UnitsOK, PreCancelPending
<1>5. preNormal' = <<GrantEvent(r)>> /\ tombstones' = {r} /\ pendingLosses' = {}
  BY <1>2, OneEvent DEF PreCancelPending
<1>6. UNCHANGED <<preReserved, preReleasing, preResults, preRunning, preStep, preUsers, preUrgent,
                  preLeased, preKnown, preCrashes>>
  BY DEF PreCancelPending
<1>7. PreTypeOK'
  BY <1>1, <1>3, <1>4, <1>5, <1>6 DEF PreTypeOK
<1>8. RecordsOK'
  BY <1>1, <1>3, <1>6 DEF RecordsOK
<1>9. Balanced(D, R, Q, Requests(preUsers), {}, {}, preLeased, {})
  BY <1>1, <1>2, NoEvent DEF Settled
<1>10. r \notin Requests(preUsers) /\ r \notin R
  BY <1>1 DEF Settled, UnitsOK, RecordsOK
<1>11. Balanced(D \ {r}, R, Q \ {r}, Requests(preUsers), {}, {}, preLeased, {})
  BY <1>1, <1>9, <1>10 DEF Balanced
<1>12. UnitsOK(preQueue', preUsers)
  BY <1>1, <1>4 DEF Settled, UnitsOK
<1>13. Full(preQueue', preUsers)
  <2>1. preQueue # <<>>
    BY <1>1, NoEvent
  <2> QED
    BY <1>1, <2>1 DEF Settled, Full
<1>14. Cancelled(r)'
  BY <1>1, <1>2, <1>3, <1>4, <1>5, <1>6, <1>11, <1>12, <1>13, Zenon DEF Cancelled
<1> QED
  BY <1>1, <1>6, <1>7, <1>8, <1>14 DEF PreInv, Phase

\* The intent to release a reservation.
LEMMA IntentKeeps ==
    ASSUME PreInv, NEW r \in PreRequests, PreReleaseIntent(r)
    PROVE  PreInv'
<1>1. /\ preRunning /\ preStep = NoStep /\ Quiet /\ r \in Names(preReserved)
      /\ PreTypeOK /\ RecordsOK /\ Settled /\ preReleasing = {}
  BY NamedIs, QuietPhase DEF PreReleaseIntent, MayCallPreemptive, PreIdle, PreInv
<1>2. preReleasing' = {r} /\ preStep' = r /\ r # NoStep
  BY <1>1, PreemptiveAssumption DEF PreReleaseIntent
<1>3. UNCHANGED <<preDemands, preReserved, preResults, preRunning, preQueue, preUsers, preUrgent, preNormal,
                  preLeased, tombstones, pendingLosses, preKnown, preCrashes>>
  BY DEF PreReleaseIntent, preBackend, handshake
<1>4. PreTypeOK'
  BY <1>1, <1>2, <1>3 DEF PreTypeOK
<1>5. RecordsOK'
  BY <1>1, <1>2, <1>3 DEF RecordsOK
<1>6. Settled'
  BY <1>1, <1>3, Zenon DEF Settled, Quiet
<1> QED
  BY <1>1, <1>2, <1>3, <1>4, <1>5, <1>6 DEF PreInv, Phase

\* The reservation is deleted and its hold is about to end.
LEMMA ReleaseKeeps ==
    ASSUME PreInv, NEW r \in PreRequests, PreFinalizeRelease(r)
    PROVE  PreInv'
<1> DEFINE D == Names(preDemands)
           R == Names(preReserved)
           Q == Names(preQueue)
<1>1. preRunning /\ PreTypeOK /\ RecordsOK /\ Settled /\ Quiet /\ preReleasing = {r}
  BY ReleasePhase DEF PreFinalizeRelease, PreInv
<1>2. preNormal = <<>> /\ preUrgent = <<>> /\ tombstones = {} /\ pendingLosses = {} /\ r \in R
  BY <1>1 DEF Quiet, Settled, RecordsOK
<1>3. /\ preReserved' \in Seq(Wanted) /\ Single(preReserved') /\ Names(preReserved') = R \ {r}
      /\ Len(preReserved') = Len(preReserved) - 1
  BY <1>1, <1>2, NamesDrop DEF PreTypeOK, RecordsOK, PreFinalizeRelease
<1>4. preNormal' = <<HoldEvent(r)>> /\ preReleasing' = {} /\ preStep' = NoStep /\ preKnown' = preKnown \ {r}
  BY <1>1, <1>2, OneEvent DEF PreFinalizeRelease
<1>5. UNCHANGED <<preDemands, preResults, preRunning, preQueue, preUsers, preUrgent, preLeased,
                  tombstones, pendingLosses, preCrashes>>
  BY DEF PreFinalizeRelease
<1>6. PreTypeOK'
  BY <1>1, <1>3, <1>4, <1>5 DEF PreTypeOK
<1>7. RecordsOK'
  <2>1. Len(preReserved') <= PreCapacity
    BY <1>1, <1>3, LenProperties, PreemptiveAssumption DEF RecordsOK, PreTypeOK
  <2> QED
    BY <1>1, <1>3, <1>4, <1>5, <2>1 DEF RecordsOK
<1>8. Balanced(D, R, Q, Requests(preUsers), {}, {}, preLeased, {})
  BY <1>1, <1>2, NoEvent DEF Settled
<1>9. r \in Requests(preUsers) /\ r \notin D
  BY <1>1, <1>2, <1>8 DEF RecordsOK, Balanced
<1>10. (R \ {r}) \cup {r} = R
  BY <1>2
<1>11. Ending(r)'
  BY <1>1, <1>2, <1>3, <1>4, <1>5, <1>8, <1>9, <1>10 DEF Ending, Settled
<1> QED
  BY <1>1, <1>4, <1>5, <1>6, <1>7, <1>11 DEF PreInv, Phase

\* A release that a crash interrupted is finished before the rebuild.
LEMMA InterruptedKeeps ==
    ASSUME PreInv, NEW r \in PreRequests, PreFinalizeInterrupted(r)
    PROVE  PreInv'
<1>1. ~preRunning /\ PreTypeOK /\ RecordsOK /\ NoProcess /\ r \in preReleasing /\ r \in Names(preReserved)
  BY DEF PreFinalizeInterrupted, PreInv, RecordsOK
<1>2. /\ preReserved' \in Seq(Wanted) /\ Single(preReserved') /\ Names(preReserved') = Names(preReserved) \ {r}
      /\ Len(preReserved') = Len(preReserved) - 1
  BY <1>1, NamesDrop DEF PreTypeOK, RecordsOK, PreFinalizeInterrupted
<1>3. preReleasing' = preReleasing \ {r}
  BY DEF PreFinalizeInterrupted
<1>4. UNCHANGED <<preDemands, preResults, preRunning, preStep, preQueue, preUsers, preUrgent, preNormal,
                  preLeased, tombstones, pendingLosses, preKnown, preCrashes>>
  BY DEF PreFinalizeInterrupted, preBackend, handshake
<1>5. PreTypeOK'
  BY <1>1, <1>2, <1>3, <1>4 DEF PreTypeOK
<1>6. RecordsOK'
  <2>1. Len(preReserved') <= PreCapacity
    BY <1>1, <1>2, LenProperties, PreemptiveAssumption DEF RecordsOK, PreTypeOK
  <2> QED
    BY <1>1, <1>2, <1>3, <1>4, <2>1 DEF RecordsOK
<1>7. NoProcess'
  BY <1>1, <1>4, Zenon DEF NoProcess
<1> QED
  BY <1>1, <1>4, <1>5, <1>6, <1>7 DEF PreInv

-----------------------------------------------------------------------------
(***************************************************************************)
(* The events                                                              *)
(***************************************************************************)

\* The hold of a deleted reservation ends.
LEMMA EndHoldKeeps ==
    ASSUME PreInv, EndHold
    PROVE  PreInv'
<1>1. /\ preRunning /\ preStep = NoStep /\ preUrgent = <<>> /\ preNormal # <<>>
      /\ PreTypeOK /\ RecordsOK /\ preReleasing = {}
  BY DEF EndHold, NormalIs, PreIdle, PreInv
<1>2. PICK r \in PreRequests : Ending(r)
  BY <1>1, HoldPhase DEF EndHold
<1>3. Head(preNormal).req = r /\ Tail(preNormal) = <<>>
  BY <1>2, OneEvent, HoldOf DEF Ending
<1>4. /\ UnitsOK(preQueue, preUsers) /\ Full(preQueue, preUsers) /\ tombstones = {} /\ pendingLosses = {}
      /\ r \in Requests(preUsers) /\ r \notin Names(preReserved) /\ r \notin Names(preDemands)
      /\ Balanced(Names(preDemands), Names(preReserved) \cup {r}, Names(preQueue), Requests(preUsers),
                  {}, {}, preLeased, {})
  BY <1>2 DEF Ending
<1>5. PICK v \in preUsers : v.req = r
  BY <1>4, RequestsIs
<1>6. preUsers' = preUsers \ {v}
  <2>1. Distinct(preUsers)
    BY <1>4 DEF UnitsOK
  <2>2. {x \in preUsers : x.req # v.req} = preUsers \ {v}
    BY <2>1, OthersAre
  <2> QED
    BY <1>3, <1>5, <2>2 DEF EndHold
<1>7. preLeased' = preLeased \ {r} /\ preNormal' = <<UnitEvent>>
  BY <1>3, <1>4, OneEvent DEF EndHold
<1>8. UNCHANGED <<preDemands, preReserved, preReleasing, preResults, preRunning, preStep, preQueue,
                  preUrgent, tombstones, pendingLosses, preKnown, preCrashes>>
  BY DEF EndHold, preDurable, handshake
<1>9. PreTypeOK'
  BY <1>1, <1>6, <1>7, <1>8 DEF PreTypeOK
<1>10. RecordsOK'
  BY <1>1, <1>8 DEF RecordsOK
<1>11. /\ UnitsOK(preQueue, preUsers') /\ Requests(preUsers') = Requests(preUsers) \ {r}
       /\ Cardinality(preUsers') = Cardinality(preUsers) - 1 /\ Cardinality(preUsers) \in Nat
  BY <1>1, <1>4, <1>5, <1>6, UserRemoved DEF PreTypeOK
<1>12. Cardinality(preUsers') < PreCapacity /\ (preQueue # <<>> => Cardinality(preUsers') + 1 = PreCapacity)
  BY <1>4, <1>11, PreemptiveAssumption DEF UnitsOK, Full
<1>13. Balanced(Names(preDemands), Names(preReserved), Names(preQueue), Requests(preUsers) \ {r},
                {}, {}, preLeased \ {r}, {})
  <2>1. r \notin Names(preQueue)
    BY <1>4 DEF UnitsOK
  <2> QED
    BY <1>4, <2>1 DEF Balanced
<1>14. Freed'
  BY <1>1, <1>4, <1>7, <1>8, <1>11, <1>12, <1>13, Zenon DEF Freed
<1> QED
  BY <1>1, <1>8, <1>9, <1>10, <1>14 DEF PreInv, Phase

\* EventsOK of a backend in which nobody is about to ask.
LEMMA NobodyAsks ==
    ASSUME NEW R, NEW q, NEW us, NEW no \in Seq(Grants), Single(no), NEW L
    PROVE  EventsOK(R, q, us, <<>>, no, L)
<1>1. <<>> \in Seq(Inits)
  BY EmptySeq
<1> QED
  BY <1>1, NoEvent, Zenon DEF EventsOK

\* The unit goes to the head of the queue, if there is one.
LEMMA UnitFreedKeeps ==
    ASSUME PreInv, UnitFreed
    PROVE  PreInv'
<1> DEFINE h == Head(preQueue).req
<1>1. /\ preRunning /\ preStep = NoStep /\ preUrgent = <<>> /\ preNormal # <<>>
      /\ PreTypeOK /\ RecordsOK /\ preReleasing = {}
  BY DEF UnitFreed, NormalIs, PreIdle, PreInv
<1>2. Freed
  BY <1>1, HoldPhase DEF UnitFreed
<1>3. /\ UnitsOK(preQueue, preUsers) /\ Cardinality(preUsers) < PreCapacity
      /\ tombstones = {} /\ pendingLosses = {}
      /\ preQueue # <<>> => Cardinality(preUsers) + 1 = PreCapacity
      /\ Balanced(Names(preDemands), Names(preReserved), Names(preQueue), Requests(preUsers),
                  {}, {}, preLeased, {})
      /\ Tail(preNormal) = <<>>
  BY <1>2, OneEvent DEF Freed
<1>4. UNCHANGED <<preDemands, preReserved, preReleasing, preResults, preRunning, preStep, preLeased,
                  tombstones, pendingLosses, preKnown, preCrashes>>
  BY DEF UnitFreed, preDurable, handshake
<1>5. RecordsOK'
  BY <1>1, <1>4 DEF RecordsOK
<1>6. PreTrigger(preQueue, preUsers, <<>>, <<>>)
  BY <1>1, <1>3 DEF UnitFreed
<1>7. Cardinality(preUsers) \in Nat /\ PreCapacity \in Nat /\ IsFiniteSet(preUsers) /\ preUsers \in SUBSET Asked
  BY <1>1, <1>3, FS_CardinalityType, PreemptiveAssumption DEF UnitsOK, PreTypeOK
<1>8. \/ /\ preQueue = <<>>
         /\ preQueue' = preQueue /\ preUsers' = preUsers /\ preUrgent' = <<>> /\ preNormal' = <<>>
      \/ /\ preQueue # <<>>
         /\ preQueue' = Tail(preQueue) /\ preUsers' = preUsers \cup {Head(preQueue)}
         /\ preUrgent' = <<>> /\ preNormal' = <<GrantEvent(h)>>
  <2>1. ~(Cardinality(preUsers) >= PreCapacity)
    BY <1>3, <1>7
  <2> QED
    BY <1>6, <1>7, <2>1, TriggerOutcomes, OneEvent
<1>9. CASE preQueue = <<>>
  <2>1. preQueue' = preQueue /\ preUsers' = preUsers /\ preUrgent' = <<>> /\ preNormal' = <<>>
    BY <1>8, <1>9
  <2>2. PreTypeOK'
    BY <1>1, <1>4, <2>1 DEF PreTypeOK
  <2>3. EventsOK(Names(preReserved), preQueue, preUsers, <<>>, <<>>, preLeased)
    BY NobodyAsks, EmptySeq, NoEvent
  <2>4. Settled'
    BY <1>1, <1>3, <1>4, <1>9, <2>1, <2>3, NoEvent, Zenon DEF Settled, Full
  <2> QED
    BY <1>1, <1>4, <1>5, <2>2, <2>4 DEF PreInv, Phase
<1>10. CASE preQueue # <<>>
  <2>1. /\ preQueue' = Tail(preQueue) /\ preUsers' = preUsers \cup {Head(preQueue)}
        /\ preUrgent' = <<>> /\ preNormal' = <<GrantEvent(h)>>
    BY <1>8, <1>10
  <2>2. /\ preQueue' \in Seq(Asked) /\ preUsers' \in SUBSET Asked /\ UnitsOK(preQueue', preUsers')
        /\ Requests(preUsers') = Requests(preUsers) \cup {h} /\ Names(preQueue') = Names(preQueue) \ {h}
        /\ h \in Names(preQueue) /\ Cardinality(preUsers') = PreCapacity
    <3>1. preQueue \in Seq(Asked)
      BY <1>1 DEF PreTypeOK
    <3>2. Cardinality(preUsers') = Cardinality(preUsers) + 1
      BY <1>3, <1>7, <1>10, <2>1, <3>1, UserAdded
    <3>3. /\ preQueue' \in Seq(Asked) /\ preUsers' \in SUBSET Asked /\ UnitsOK(preQueue', preUsers')
          /\ Requests(preUsers') = Requests(preUsers) \cup {h} /\ Names(preQueue') = Names(preQueue) \ {h}
          /\ h \in Names(preQueue)
      BY <1>3, <1>7, <1>10, <2>1, <3>1, UserAdded
    <3> QED
      BY <1>3, <1>10, <3>2, <3>3
  <2>3. PreTypeOK'
    BY <1>1, <1>4, <2>2 DEF PreTypeOK
  <2>4. h \in PreRequests
    <3>1. Head(preQueue) \in preUsers'
      BY <2>1
    <3> QED
      BY <2>2, <3>1, AskedReq
  <2> HIDE DEF h
  <2>5. preNormal' \in Seq(Grants) /\ Single(preNormal') /\ Names(preNormal') = {h}
    <3>1. GrantEvent(h) \in Grants /\ GrantEvent(h).req = h
      BY <2>4, GrantEventIs
    <3>2. preNormal' \in Seq(Grants)
      BY <2>1, <3>1
    <3> QED
      BY <2>1, <3>1, <3>2, OneEvent
  <2>6. EventsOK(Names(preReserved), preQueue', preUsers', <<>>, preNormal', preLeased)
    BY <2>5, NobodyAsks
  <2>7. Balanced(Names(preDemands), Names(preReserved), Names(preQueue) \ {h}, Requests(preUsers) \cup {h},
                 {}, {h}, preLeased, {})
    <3>1. h \notin Requests(preUsers)
      BY <1>3, <2>2 DEF UnitsOK
    <3> QED
      BY <1>3, <2>2, <3>1 DEF Balanced
  <2>8. Settled'
    BY <1>1, <1>3, <1>4, <2>1, <2>2, <2>5, <2>6, <2>7, NoEvent, Zenon DEF Settled, Full
  <2> QED
    BY <1>1, <1>4, <1>5, <2>3, <2>8 DEF PreInv, Phase
<1> QED
  BY <1>9, <1>10

\* The loss arrives.
LEMMA PreemptedKeeps ==
    ASSUME PreInv, RecordPreempted
    PROVE  PreInv'
<1>1. /\ preRunning /\ preStep = NoStep /\ PreTypeOK /\ RecordsOK /\ preReleasing = {}
      /\ UrgentIs("interrupt") /\ Head(preUrgent).req \in preLeased
  BY DEF RecordPreempted, UrgentIs, PreIdle, PreInv
<1>2. PICK v, h \in PreRequests : Preempting(v, h) /\ preUrgent = <<Interrupt(v, h)>>
  BY <1>1, InterruptPhase DEF Doomed
<1>3. Head(preUrgent).req = v /\ Head(preUrgent).by = h /\ Tail(preUrgent) = <<>>
  BY <1>2, OneEvent, InterruptOf
<1>4. preNormal = <<GrantEvent(h)>> /\ pendingLosses = {} /\ v \in preLeased /\ v \in Names(preReserved)
  BY <1>2, OneEvent DEF Preempting
<1>5. HoldEvent(v) \notin ToSet(preNormal)
  <2>1. ToSet(preNormal) = {GrantEvent(h)}
    BY <1>4, OneEvent
  <2>2. GrantEvent(h).kind # HoldEvent(v).kind
    BY GrantEventIs, HoldOf
  <2> QED
    BY <2>1, <2>2
<1>6. preNormal' = preNormal /\ preLeased' = preLeased \ {v} /\ preUrgent' = <<>>
  BY <1>3, <1>5 DEF RecordPreempted
<1>7. pendingLosses' = {<<v, h>>}
  <2>1. Named(preReserved, v)
    BY <1>4, NamedIs
  <2> QED
    BY <1>3, <1>4, <2>1 DEF RecordPreempted
<1>8. UNCHANGED <<preDemands, preReserved, preReleasing, preResults, preRunning, preStep, preQueue,
                  preUsers, tombstones, preKnown, preCrashes>>
  BY DEF RecordPreempted, preDurable
<1>9. PreTypeOK'
  BY <1>1, <1>6, <1>7, <1>8 DEF PreTypeOK
<1>10. RecordsOK'
  BY <1>1, <1>8 DEF RecordsOK
<1>11. (preLeased \ {v}) \ {v} = preLeased \ {v}
  OBVIOUS
<1>12. Preempting(v, h)'
  BY <1>2, <1>6, <1>7, <1>8, <1>11 DEF Preempting
<1> QED
  BY <1>1, <1>8, <1>9, <1>10, <1>12 DEF PreInv, Phase

\* An acquisition of a settled backend.
LEMMA SettledAcquires ==
    ASSUME PreInv, RecordAcquired, Settled
    PROVE  PreInv'
<1> DEFINE D == Names(preDemands)
           R == Names(preReserved)
           Q == Names(preQueue)
           U == Requests(preUsers)
           G == Names(preNormal)
           r == Head(preNormal).req
<1>1. /\ preRunning /\ preStep = NoStep /\ preUrgent = <<>> /\ preNormal # <<>>
      /\ PreTypeOK /\ RecordsOK /\ preReleasing = {}
  BY DEF RecordAcquired, NormalIs, PreIdle, PreInv
<1>2. /\ UnitsOK(preQueue, preUsers) /\ Full(preQueue, preUsers) /\ tombstones = {} /\ pendingLosses = {}
      /\ Balanced(D, R, Q, U, {}, G, preLeased, {})
      /\ preNormal \in Seq(Grants) /\ Single(preNormal)
  BY <1>1, NoEvent DEF Settled, EventsOK
<1>3. /\ Head(preNormal) \in Grants /\ r \in G
      /\ Tail(preNormal) \in Seq(Grants) /\ Single(Tail(preNormal)) /\ Names(Tail(preNormal)) = G \ {r}
  BY <1>1, <1>2, NamesTail
<1>4. r \in PreRequests
  BY <1>3, GrantIs
<1>5. /\ preLeased' = preLeased \cup {r} /\ tombstones' = {} /\ pendingLosses' = {}
      /\ preNormal' = Tail(preNormal) /\ preKnown' = preKnown \cup {r}
      /\ UNCHANGED <<preReleasing, preResults, preRunning, preStep, preQueue, preUsers, preUrgent, preCrashes>>
      /\ \/ r \in R /\ UNCHANGED <<preDemands, preReserved>>
         \/ /\ r \in D /\ r \notin R /\ Len(preReserved) < PreCapacity
            /\ preReserved' = Append(preReserved, Entry(preDemands, r))
            /\ preDemands' = Drop(preDemands, r)
  BY <1>1, <1>2, NamedIs DEF RecordAcquired, CommitNormalGrant, MayPreempt, MayGrantNormally, preDurable, handshake
<1> HIDE DEF r
<1>6. EventsOK(Names(preReserved'), preQueue, preUsers, <<>>, Tail(preNormal), preLeased')
  BY <1>3, NobodyAsks
<1>7. CASE r \in R /\ UNCHANGED <<preDemands, preReserved>>
  <2>1. PreTypeOK'
    BY <1>1, <1>4, <1>5, <1>7 DEF PreTypeOK
  <2>2. RecordsOK'
    BY <1>1, <1>5, <1>7 DEF RecordsOK
  <2>3. Balanced(D, R, Q, U, {}, G \ {r}, preLeased \cup {r}, {})
    BY <1>2, <1>3, <1>7 DEF Balanced
  <2>4. Settled'
    BY <1>1, <1>2, <1>3, <1>5, <1>6, <1>7, <2>3, NoEvent, Zenon DEF Settled
  <2> QED
    BY <1>1, <1>5, <2>1, <2>2, <2>4 DEF PreInv, Phase
<1>8. CASE /\ r \in D /\ r \notin R /\ Len(preReserved) < PreCapacity
           /\ preReserved' = Append(preReserved, Entry(preDemands, r))
           /\ preDemands' = Drop(preDemands, r)
  <2>1. preDemands \in Seq(Wanted) /\ Single(preDemands) /\ preReserved \in Seq(Wanted) /\ Single(preReserved)
    BY <1>1 DEF PreTypeOK, RecordsOK
  <2>2. preDemands' \in Seq(Wanted) /\ Single(preDemands') /\ Names(preDemands') = D \ {r}
    BY <1>8, <2>1, NamesDrop
  <2>3. Entry(preDemands, r).req = r /\ Entry(preDemands, r) \in Wanted
    <3>1. Entry(preDemands, r) \in ToSet(preDemands) /\ Entry(preDemands, r).req = r
      BY <1>8, EntryIs
    <3>2. ToSet(preDemands) \subseteq Wanted
      BY <2>1, LenProperties DEF ToSet
    <3> QED
      BY <3>1, <3>2
  <2>4. /\ preReserved' \in Seq(Wanted) /\ Single(preReserved') /\ Names(preReserved') = R \cup {r}
        /\ Len(preReserved') = Len(preReserved) + 1
    BY <1>8, <2>1, <2>3, NamesAppend
  <2>5. PreTypeOK'
    BY <1>1, <1>4, <1>5, <2>2, <2>4 DEF PreTypeOK
  <2>6. RecordsOK'
    <3>1. Len(preReserved') <= PreCapacity
      BY <1>8, <2>1, <2>4, LenProperties, PreemptiveAssumption
    <3> QED
      BY <1>1, <1>5, <2>2, <2>4, <3>1 DEF RecordsOK
  <2>7. Balanced(D \ {r}, R \cup {r}, Q, U, {}, G \ {r}, preLeased \cup {r}, {})
    <3>1. r \in U /\ r \notin Q
      BY <1>2, <1>3 DEF Balanced, UnitsOK
    <3> QED
      BY <1>2, <1>3, <1>8, <3>1 DEF Balanced
  <2>8. Settled'
    BY <1>1, <1>2, <1>3, <1>5, <1>6, <2>2, <2>4, <2>7, NoEvent, Zenon DEF Settled
  <2> QED
    BY <1>1, <1>5, <2>5, <2>6, <2>8 DEF PreInv, Phase
<1> QED
  BY <1>5, <1>7, <1>8

\* A cancelled request wakes up.
LEMMA CancelledAcquires ==
    ASSUME PreInv, RecordAcquired, NEW c \in PreRequests, Cancelled(c)
    PROVE  PreInv'
<1>1. /\ preRunning /\ preStep = NoStep /\ preUrgent = <<>>
      /\ PreTypeOK /\ RecordsOK /\ preReleasing = {}
  BY DEF RecordAcquired, NormalIs, PreIdle, PreInv
<1>2. Head(preNormal).req = c /\ Tail(preNormal) = <<>> /\ tombstones = {c} /\ pendingLosses = {}
  BY OneEvent, GrantEventIs DEF Cancelled
<1>3. /\ tombstones' = {} /\ preNormal' = <<>>
      /\ UNCHANGED <<preDemands, preReserved, preReleasing, preResults, preLeased, pendingLosses, preKnown,
                     preRunning, preStep, preQueue, preUsers, preUrgent, preCrashes>>
  BY <1>2 DEF RecordAcquired, preDurable, handshake
<1>4. PreTypeOK'
  BY <1>1, <1>3 DEF PreTypeOK
<1>5. RecordsOK'
  BY <1>1, <1>3 DEF RecordsOK
<1>6. EventsOK(Names(preReserved), preQueue, preUsers, <<>>, <<>>, preLeased)
  BY NobodyAsks, EmptySeq, NoEvent
<1>7. Settled'
  BY <1>1, <1>2, <1>3, <1>6, NoEvent, Zenon DEF Settled, Cancelled
<1> QED
  BY <1>1, <1>3, <1>4, <1>5, <1>7 DEF PreInv, Phase

\* The loss has arrived, and now the acquisition: the preemption is committed.
LEMMA PreemptingAcquires ==
    ASSUME PreInv, RecordAcquired, NEW v \in PreRequests, NEW h \in PreRequests, Preempting(v, h),
           pendingLosses = {<<v, h>>}
    PROVE  PreInv'
<1> DEFINE D == Names(preDemands)
           R == Names(preReserved)
           Q == Names(preQueue)
           U == Requests(preUsers)
<1>1. /\ preRunning /\ preStep = NoStep /\ preUrgent = <<>>
      /\ PreTypeOK /\ RecordsOK /\ preReleasing = {}
  BY DEF RecordAcquired, NormalIs, PreIdle, PreInv
<1>2. /\ UnitsOK(preQueue, preUsers) /\ Full(preQueue, preUsers) /\ tombstones = {}
      /\ v \in R /\ v \notin U /\ v \notin Q /\ h \in U /\ h \in D /\ v \notin preLeased
      /\ Balanced(D, R, Q, U, {}, {h}, preLeased \ {v}, {v})
      /\ Head(preNormal).req = h /\ Tail(preNormal) = <<>>
  BY OneEvent, GrantEventIs DEF Preempting
<1>3. h \notin R /\ v \notin D
  BY <1>1, <1>2 DEF RecordsOK
<1>4. ~Named(preReserved, h) /\ MayPreempt(h)
  <2>1. ~Named(preReserved, h) /\ Named(preReserved, v) /\ Named(preDemands, h)
    BY <1>2, <1>3, NamedIs
  <2>2. <<v, h>>[1] = v /\ <<v, h>>[2] = h
    OBVIOUS
  <2> QED
    BY <2>1, <2>2 DEF MayPreempt
<1>5. (CHOOSE x \in pendingLosses : x[2] = h) = <<v, h>>
  <2>1. \A x \in pendingLosses : x = <<v, h>>
    OBVIOUS
  <2>2. \E x \in pendingLosses : x[2] = h
    OBVIOUS
  <2>3. PICK y : y = CHOOSE x \in pendingLosses : x[2] = h
    OBVIOUS
  <2>4. y \in pendingLosses
    BY <2>2, <2>3
  <2> QED
    BY <2>1, <2>3, <2>4
<1>6. /\ preLeased' = preLeased \cup {h} /\ tombstones' = {} /\ CommitPreemption(h)
      /\ preNormal' = <<>>
      /\ UNCHANGED <<preRunning, preStep, preQueue, preUsers, preUrgent, preCrashes>>
  BY <1>2, <1>4 DEF RecordAcquired
<1>7. /\ preReserved' = Append(Drop(preReserved, v), Entry(preDemands, h))
      /\ preDemands' = Drop(preDemands, h)
      /\ preResults' = preResults \cup {<<v, h>>} /\ pendingLosses' = {}
      /\ preKnown' = (preKnown \ {v}) \cup {h} /\ preReleasing' = preReleasing
  <2>1. PICK l : l = <<v, h>>
    OBVIOUS
  <2>2. (CHOOSE x \in pendingLosses : x[2] = h) = l /\ l[1] = v
    BY <1>5, <2>1
  <2>3. pendingLosses \ {l} = {}
    BY <2>1
  <2> QED
    BY <1>6, <2>1, <2>2, <2>3, Zenon DEF CommitPreemption
<1>8. preDemands \in Seq(Wanted) /\ Single(preDemands) /\ preReserved \in Seq(Wanted) /\ Single(preReserved)
  BY <1>1 DEF PreTypeOK, RecordsOK
<1>9. preDemands' \in Seq(Wanted) /\ Single(preDemands') /\ Names(preDemands') = D \ {h}
  BY <1>2, <1>7, <1>8, NamesDrop
<1>10. PICK s : s = Drop(preReserved, v)
  OBVIOUS
<1>11. s \in Seq(Wanted) /\ Single(s) /\ Names(s) = R \ {v} /\ Len(s) = Len(preReserved) - 1
  BY <1>2, <1>8, <1>10, NamesDrop
<1>12. Entry(preDemands, h).req = h /\ Entry(preDemands, h) \in Wanted
  <2>1. Entry(preDemands, h) \in ToSet(preDemands) /\ Entry(preDemands, h).req = h
    BY <1>2, EntryIs
  <2>2. ToSet(preDemands) \subseteq Wanted
    BY <1>8, LenProperties DEF ToSet
  <2> QED
    BY <2>1, <2>2
<1>13. preReserved' = Append(s, Entry(preDemands, h))
  BY <1>7, <1>10
<1>14. /\ preReserved' \in Seq(Wanted) /\ Single(preReserved') /\ Names(preReserved') = (R \ {v}) \cup {h}
       /\ Len(preReserved') = Len(s) + 1
  BY <1>3, <1>11, <1>12, <1>13, NamesAppend
<1>15. Len(preReserved') <= PreCapacity
  <2>1. Len(preReserved) \in Nat /\ Len(preReserved) <= PreCapacity
    BY <1>1, <1>8, LenProperties DEF RecordsOK
  <2> QED
    BY <1>11, <1>14, <2>1
<1>16. PreTypeOK'
  BY <1>1, <1>6, <1>7, <1>9, <1>14 DEF PreTypeOK
<1>17. RecordsOK'
  BY <1>1, <1>7, <1>9, <1>14, <1>15 DEF RecordsOK
<1>18. Balanced(D \ {h}, (R \ {v}) \cup {h}, Q, U, {}, {}, preLeased \cup {h}, {})
  <2>1. h \notin Q
    BY <1>2 DEF UnitsOK
  <2> QED
    BY <1>2, <1>3, <2>1 DEF Balanced
<1>19. EventsOK((R \ {v}) \cup {h}, preQueue, preUsers, <<>>, <<>>, preLeased \cup {h})
  BY NobodyAsks, EmptySeq, NoEvent
<1>20. Settled'
  BY <1>1, <1>2, <1>6, <1>7, <1>9, <1>14, <1>18, <1>19, NoEvent, Zenon DEF Settled
<1> QED
  BY <1>1, <1>6, <1>7, <1>16, <1>17, <1>20 DEF PreInv, Phase

\* An acquisition, in each phase in which there can be one.
LEMMA AcquiredKeeps ==
    ASSUME PreInv, RecordAcquired
    PROVE  PreInv'
<1>1. /\ preRunning /\ preStep = NoStep /\ preUrgent = <<>> /\ preNormal # <<>> /\ NormalIs("grant")
  BY DEF RecordAcquired, NormalIs, PreIdle
<1>2. \/ Settled
      \/ \E r \in PreRequests : Cancelled(r)
      \/ \E v, h \in PreRequests : Preempting(v, h) /\ pendingLosses = {<<v, h>>}
  BY <1>1, HoldPhase
<1> QED
  BY <1>2, SettledAcquires, CancelledAcquires, PreemptingAcquires

\* What is left without the first element.
LEMMA TailKeeps ==
    ASSUME NEW S, NEW q \in Seq(S), q # <<>>
    PROVE  /\ Tail(q) \in Seq(S)
           /\ \A a, b : Before(Tail(q), a, b) => Before(q, a, b)
           /\ \A a : a # Head(q) /\ a \in ToSet(q) => a \in ToSet(Tail(q))
           /\ ToSet(Tail(q)) \subseteq ToSet(q)
<1>1. PICK p : p = Tail(q)
  OBVIOUS
<1>2. p \in Seq(S) /\ Dropped(q, 1, p) /\ Head(q) = q[1] /\ 1 \in DOMAIN q
  BY <1>1, TailDrops
<1> QED
  BY <1>1, <1>2, DropFacts

\* The next lifecycle starts.
LEMMA EventsNext ==
    ASSUME NEW R, NEW q, NEW us, NEW ur, NEW no, NEW L, EventsOK(R, q, us, ur, no, L), ur # <<>>
    PROVE  LET e == Head(ur) IN
           /\ e \in Inits /\ e.req \in Names(ur)
           /\ Tail(ur) \in Seq(Inits) /\ Single(Tail(ur)) /\ Names(Tail(ur)) = Names(ur) \ {e.req}
           /\ \A a, b \in ToSet(Tail(ur)) : Before(Tail(ur), a, b) /\ b.req \in R => a.req \in R
           /\ R \cap Names(Tail(ur)) # {} => e.req \in R
           /\ e.req \in R => q = <<>> /\ Requests(us) \subseteq R
<1> DEFINE e == Head(ur)
<1>1. ur \in Seq(Inits) /\ Single(ur)
  BY DEF EventsOK
<1>2. /\ e \in Inits /\ e \in ToSet(ur) /\ e.req \in Names(ur)
      /\ Tail(ur) \in Seq(Inits) /\ Single(Tail(ur)) /\ Names(Tail(ur)) = Names(ur) \ {e.req}
      /\ ToSet(Tail(ur)) \subseteq ToSet(ur)
  BY <1>1, NamesTail
<1>3. \A a, b : Before(Tail(ur), a, b) => Before(ur, a, b)
  BY <1>1, TailKeeps
<1>4. \A b \in ToSet(Tail(ur)) : Before(ur, e, b)
  BY <1>1, FirstBefore
<1>5. \A a, b \in ToSet(ur) : Before(ur, a, b) /\ b.req \in R => a.req \in R
  BY DEF EventsOK
<1> HIDE DEF e
<1>6. R \cap Names(Tail(ur)) # {} => e.req \in R
  <2> SUFFICES ASSUME NEW r \in R, r \in Names(Tail(ur)) PROVE e.req \in R
    OBVIOUS
  <2>1. PICK b \in ToSet(Tail(ur)) : b.req = r
    BY NamedIs
  <2> QED
    BY <1>2, <1>4, <1>5, <2>1
<1>7. e.req \in R => q = <<>> /\ Requests(us) \subseteq R
  BY <1>2 DEF EventsOK
<1>8. \A a, b \in ToSet(Tail(ur)) : Before(Tail(ur), a, b) /\ b.req \in R => a.req \in R
  BY <1>2, <1>3, <1>5
<1> QED
  BY <1>2, <1>6, <1>7, <1>8 DEF e

\* While a reservation asks there is a unit for it.
LEMMA UnitForReservation ==
    ASSUME PreTypeOK, RecordsOK, UnitsOK(preQueue, preUsers), NEW r \in Names(preReserved),
           r \notin Requests(preUsers), Requests(preUsers) \subseteq Names(preReserved)
    PROVE  Cardinality(preUsers) < PreCapacity
<1>1. IsFiniteSet(Names(preReserved)) /\ Cardinality(Names(preReserved)) = Len(preReserved)
  BY NamesCount DEF PreTypeOK, RecordsOK
<1>2. Cardinality(Requests(preUsers)) = Cardinality(preUsers)
  BY RequestsCount DEF UnitsOK
<1>3. /\ Cardinality(Requests(preUsers)) \in Nat /\ Cardinality(Names(preReserved)) \in Nat
      /\ Cardinality(Requests(preUsers)) < Cardinality(Names(preReserved))
  BY <1>1, OneMore
<1>4. Len(preReserved) <= PreCapacity /\ PreCapacity \in Nat
  BY PreemptiveAssumption DEF RecordsOK
<1> QED
  BY <1>1, <1>2, <1>3, <1>4

\* When all reservations use units and a demand does, there is a reservation to spare.
LEMMA ReservationForUnit ==
    ASSUME PreTypeOK, RecordsOK, UnitsOK(preQueue, preUsers), NEW r \in Requests(preUsers),
           r \notin Names(preReserved), Names(preReserved) \subseteq Requests(preUsers)
    PROVE  Len(preReserved) < PreCapacity
<1>1. Cardinality(Names(preReserved)) = Len(preReserved)
  BY NamesCount DEF PreTypeOK, RecordsOK
<1>2. IsFiniteSet(Requests(preUsers)) /\ Cardinality(Requests(preUsers)) = Cardinality(preUsers)
  BY RequestsCount DEF UnitsOK
<1>3. /\ Cardinality(Requests(preUsers)) \in Nat /\ Cardinality(Names(preReserved)) \in Nat
      /\ Cardinality(Names(preReserved)) < Cardinality(Requests(preUsers))
  BY <1>2, OneMore
<1>4. Cardinality(preUsers) <= PreCapacity /\ PreCapacity \in Nat
  BY PreemptiveAssumption DEF UnitsOK
<1> QED
  BY <1>1, <1>2, <1>3, <1>4

\* A request waits, is granted, or displaces a user, which dooms the backend
\* unless that user has its lease.
LEMMA SettledStarts ==
    ASSUME PreInv, StartLifecycle, Settled
    PROVE  PreInv'
<1> DEFINE D == Names(preDemands)
           R == Names(preReserved)
           Q == Names(preQueue)
           U == Requests(preUsers)
           I == Names(preUrgent)
           G == Names(preNormal)
           x == Head(preUrgent).asked
           r == Head(preUrgent).req
           q == ByKey(preQueue, x)
           h == Head(q).req
           ur == Tail(preUrgent)
<1>1. /\ preRunning /\ preStep = NoStep /\ preUrgent # <<>>
      /\ PreTypeOK /\ RecordsOK /\ preReleasing = {}
  BY DEF StartLifecycle, UrgentIs, PreIdle, PreInv
<1>2. /\ UnitsOK(preQueue, preUsers) /\ Full(preQueue, preUsers) /\ tombstones = {} /\ pendingLosses = {}
      /\ Balanced(D, R, Q, U, I, G, preLeased, {})
      /\ EventsOK(R, preQueue, preUsers, preUrgent, preNormal, preLeased)
      /\ preNormal \in Seq(Grants) /\ Single(preNormal)
      /\ preLeased = {} \/ (ur = <<>> /\ preNormal = <<>>)
  BY <1>1 DEF Settled, EventsOK
<1>3. /\ Head(preUrgent) \in Inits /\ r \in I
      /\ ur \in Seq(Inits) /\ Single(ur) /\ Names(ur) = I \ {r}
      /\ \A a, b \in ToSet(ur) : Before(ur, a, b) /\ b.req \in R => a.req \in R
      /\ R \cap Names(ur) # {} => r \in R
      /\ r \in R => preQueue = <<>> /\ U \subseteq R
  BY <1>1, <1>2, EventsNext
<1>4. x \in Asked /\ x.req = r
  BY <1>3, InitIs
<1>5. r \notin U /\ r \notin Q
  BY <1>2, <1>3 DEF Balanced
<1>6. preQueue \in Seq(Asked) /\ preUsers \in SUBSET Asked /\ IsFiniteSet(preUsers)
      /\ Cardinality(preUsers) \in Nat /\ PreCapacity \in Nat /\ Cardinality(preUsers) <= PreCapacity
  BY <1>1, <1>2, FS_CardinalityType, PreemptiveAssumption DEF PreTypeOK, UnitsOK
<1>7. UNCHANGED <<preDemands, preReserved, preReleasing, preResults, preRunning, preStep, preLeased,
                  tombstones, pendingLosses, preKnown, preCrashes>>
  BY DEF StartLifecycle, preDurable, handshake
<1>8. PreTrigger(q, preUsers, ur, preNormal)
  BY DEF StartLifecycle
<1> HIDE DEF x, r
<1>9. q \in Seq(Asked) /\ UnitsOK(q, preUsers) /\ Names(q) = Q \cup {r}
  BY <1>2, <1>4, <1>5, <1>6, QueueGrown
<1>10. q # <<>>
  BY <1>9, NamesNone
<1> HIDE DEF q, ur, h
<1>11. RecordsOK'
  BY <1>1, <1>7 DEF RecordsOK
<1>12. Cardinality(preUsers) >= PreCapacity => r \notin R /\ R \cap Names(ur) = {}
  <2> SUFFICES ASSUME r \in R PROVE Cardinality(preUsers) < PreCapacity
    BY <1>3, <1>6
  <2> QED
    BY <1>1, <1>2, <1>3, <1>5, UnitForReservation
<1>13. \/ /\ Cardinality(preUsers) >= PreCapacity
          /\ preQueue' = q /\ preUsers' = preUsers /\ preUrgent' = ur /\ preNormal' = preNormal
       \/ /\ Cardinality(preUsers) < PreCapacity
          /\ preQueue' = Tail(q) /\ preUsers' = preUsers \cup {Head(q)}
          /\ preUrgent' = ur /\ preNormal' = Append(preNormal, GrantEvent(h))
       \/ /\ Cardinality(preUsers) >= PreCapacity
          /\ \E v \in preUsers :
                /\ preQueue' = Tail(q) /\ preUsers' = (preUsers \ {v}) \cup {Head(q)}
                /\ preUrgent' = Append(ur, Interrupt(v.req, h))
                /\ preNormal' = Append(preNormal, GrantEvent(h))
  BY <1>6, <1>8, <1>10, TriggerOutcomes DEF h
\* The request waits.
<1>14. CASE /\ Cardinality(preUsers) >= PreCapacity
            /\ preQueue' = q /\ preUsers' = preUsers /\ preUrgent' = ur /\ preNormal' = preNormal
  <2>1. PreTypeOK'
    BY <1>1, <1>7, <1>9, <1>14 DEF PreTypeOK
  <2>2. r \notin R /\ R \cap Names(ur) = {}
    BY <1>12, <1>14
  <2>3. Full(q, preUsers)
    BY <1>6, <1>14 DEF Full
  <2>4. Balanced(D, R, Q \cup {r}, U, I \ {r}, G, preLeased, {})
    BY <1>2, <1>3, <1>5, <2>2 DEF Balanced
  <2>5. EventsOK(R, q, preUsers, ur, preNormal, preLeased)
    BY <1>2, <1>3, <2>2 DEF EventsOK
  <2>6. Settled'
    BY <1>1, <1>2, <1>3, <1>7, <1>9, <1>14, <2>3, <2>4, <2>5, Zenon DEF Settled
  <2> QED
    BY <1>1, <1>7, <1>11, <2>1, <2>6 DEF PreInv, Phase
\* The request takes a unit that is free.
<1>15. CASE /\ Cardinality(preUsers) < PreCapacity
            /\ preQueue' = Tail(q) /\ preUsers' = preUsers \cup {Head(q)}
            /\ preUrgent' = ur /\ preNormal' = Append(preNormal, GrantEvent(h))
  <2>1. Q = {}
    <3>1. preQueue = <<>>
      BY <1>2, <1>6, <1>15 DEF Full
    <3> QED
      BY <3>1, NoEvent
  <2>2. /\ preQueue' \in Seq(Asked) /\ preUsers' \in SUBSET Asked /\ UnitsOK(preQueue', preUsers')
        /\ Requests(preUsers') = U \cup {h} /\ Names(preQueue') = Names(q) \ {h} /\ h \in Names(q)
    BY <1>6, <1>9, <1>10, <1>15, UserAdded DEF h
  <2>3. h = r /\ Names(preQueue') = {}
    BY <1>9, <2>1, <2>2
  <2>4. preQueue' = <<>>
    BY <2>2, <2>3, NamesNone
  <2>5. r \in PreRequests
    BY <1>4, AskedReq
  <2>6. PreTypeOK'
    BY <1>1, <1>7, <2>2 DEF PreTypeOK
  <2>7. r \notin G
    BY <1>2, <1>5 DEF Balanced
  <2>8. preNormal' \in Seq(Grants) /\ Single(preNormal') /\ Names(preNormal') = G \cup {r}
    <3>1. GrantEvent(r) \in Grants /\ GrantEvent(r).req = r
      BY <2>5, GrantEventIs
    <3> QED
      BY <1>2, <1>15, <2>3, <2>7, <3>1, NamesAppend
  <2>9. Balanced(D, R, {}, U \cup {r}, I \ {r}, G \cup {r}, preLeased, {})
    BY <1>2, <1>3, <1>5, <2>1 DEF Balanced
  <2>10. EventsOK(R, <<>>, preUsers', ur, preNormal', preLeased)
    BY <1>2, <1>3, <2>2, <2>3, <2>8 DEF EventsOK
  <2>11. Settled'
    BY <1>1, <1>2, <1>3, <1>7, <1>15, <2>2, <2>3, <2>4, <2>8, <2>9, <2>10, Zenon DEF Settled, Full
  <2> QED
    BY <1>1, <1>7, <1>11, <2>6, <2>11 DEF PreInv, Phase
\* The head of the queue takes the unit of a user.
<1>16. ASSUME NEW v \in preUsers, Cardinality(preUsers) >= PreCapacity,
              preQueue' = Tail(q), preUsers' = (preUsers \ {v}) \cup {Head(q)},
              preUrgent' = Append(ur, Interrupt(v.req, h)),
              preNormal' = Append(preNormal, GrantEvent(h))
       PROVE  PreInv'
  <2>1. r \notin R /\ R \cap Names(ur) = {}
    BY <1>12, <1>16
  <2>2. /\ preQueue' \in Seq(Asked) /\ preUsers' \in SUBSET Asked /\ UnitsOK(preQueue', preUsers')
        /\ Requests(preUsers') = (U \ {v.req}) \cup {h} /\ Names(preQueue') = Names(q) \ {h}
        /\ h \in Names(q) /\ v.req \in U /\ Cardinality(preUsers') = Cardinality(preUsers)
    BY <1>6, <1>9, <1>10, <1>16, UserReplaced DEF h
  <2>3. PreTypeOK'
    BY <1>1, <1>7, <2>2 DEF PreTypeOK
  <2>4. h \in PreRequests /\ v.req \in PreRequests
    <3>1. Head(q) \in preUsers'
      BY <1>16
    <3> QED
      BY <1>6, <2>2, <3>1, AskedReq DEF h
  <2>5. /\ Interrupt(v.req, h) \in Interrupts /\ Interrupt(v.req, h).kind = "interrupt"
    BY <2>4, InterruptOf
  <2>6. CASE preLeased = {}
    <3>1. ur \in Seq(Inits \cup Interrupts)
      BY <1>3, LenProperties
    <3>2. preUrgent' \in Seq(Inits \cup Interrupts) /\ Interrupt(v.req, h) \in ToSet(preUrgent')
      BY <1>16, <2>5, <3>1, AppendFacts
    <3>3. Doomed'
      BY <1>1, <1>7, <2>2, <2>5, <2>6, <3>2 DEF Doomed, UnitsOK
    <3> QED
      BY <1>1, <1>7, <1>11, <2>3, <3>3 DEF PreInv, Phase
  <2>7. CASE ur = <<>> /\ preNormal = <<>>
    <3>1. preUrgent' = <<Interrupt(v.req, h)>> /\ preNormal' = <<GrantEvent(h)>>
      BY <1>16, <2>7, OneEvent
    <3>2. I = {r} /\ G = {}
      BY <1>3, <2>7, NoEvent
    <3>3. h \notin R /\ h \in D /\ h \notin U /\ R \subseteq U /\ U = preLeased
      BY <1>2, <1>3, <1>5, <1>9, <2>1, <2>2, <3>2 DEF Balanced, UnitsOK
    <3>4. v.req \in R /\ v.req \notin Names(q) /\ v.req # h /\ v.req \in preLeased
      BY <1>2, <1>5, <1>9, <2>2, <3>3 DEF Balanced, UnitsOK
    <3>5. Full(preQueue', preUsers')
      BY <1>6, <1>16, <2>2 DEF Full
    <3>6. Balanced(D, R, (Q \cup {r}) \ {h}, (U \ {v.req}) \cup {h}, {}, {h}, preLeased \ {v.req}, {v.req})
      BY <1>2, <1>5, <1>9, <2>1, <2>2, <3>2, <3>3, <3>4 DEF Balanced
    <3>7. PICK w, g \in PreRequests : w = v.req /\ g = h
      BY <2>4
    <3>8. Preempting(w, g)'
      <4>1. v.req \notin Requests(preUsers') /\ v.req \notin Names(preQueue') /\ h \in Requests(preUsers')
        BY <2>2, <3>4
      <4> QED
        BY <1>1, <1>2, <1>7, <1>9, <2>2, <3>1, <3>3, <3>4, <3>5, <3>6, <3>7, <4>1, Zenon DEF Preempting
    <3> QED
      BY <1>1, <1>7, <1>11, <2>3, <3>8 DEF PreInv, Phase
  <2> QED
    BY <1>2, <2>6, <2>7
<1> QED
  BY <1>13, <1>14, <1>15, <1>16

\* A lifecycle that starts before the interrupt has raised.
LEMMA DoomedStarts ==
    ASSUME PreInv, StartLifecycle, Doomed
    PROVE  PreInv'
<1> DEFINE x == Head(preUrgent).asked
           q == ByKey(preQueue, x)
           ur == Tail(preUrgent)
           E == Inits \cup Interrupts
<1>1. /\ preRunning /\ preStep = NoStep /\ preUrgent # <<>> /\ Head(preUrgent).kind = "init"
      /\ PreTypeOK /\ RecordsOK /\ preReleasing = {}
      /\ preUrgent \in Seq(E) /\ IsFiniteSet(preUsers) /\ preLeased = {}
      /\ preQueue \in Seq(Asked) /\ preUsers \in SUBSET Asked
  BY DEF StartLifecycle, UrgentIs, PreIdle, PreInv, Doomed, PreTypeOK
<1>2. PICK e \in ToSet(preUrgent) : e.kind = "interrupt"
  BY DEF Doomed
<1>3. ur \in Seq(E) /\ e \in ToSet(ur)
  BY <1>1, <1>2, TailKeeps
<1>4. x \in Asked
  <2>1. Head(preUrgent) \in E
    BY <1>1, EmptySeq, HeadTailProperties
  <2> QED
    BY <1>1, <2>1, InitIs, InterruptIs
<1>5. UNCHANGED <<preDemands, preReserved, preReleasing, preResults, preRunning, preStep, preLeased,
                  tombstones, pendingLosses, preKnown, preCrashes>>
  BY DEF StartLifecycle, preDurable, handshake
<1>6. PreTrigger(q, preUsers, ur, preNormal)
  BY DEF StartLifecycle
<1> HIDE DEF x
<1>7. q \in Seq(Asked)
  <2>1. PICK T \in SUBSET (DOMAIN preQueue) : T = {j \in DOMAIN preQueue : Key(preQueue[j]) <= Key(x)}
    OBVIOUS
  <2>2. PICK i : i = Cardinality(T) + 1
    OBVIOUS
  <2>3. i \in 1..Len(preQueue) + 1
    BY <1>1, <2>2, PlaceIs
  <2>4. q = InsertAt(preQueue, i, x)
    BY <2>1, <2>2, Zenon DEF ByKey
  <2> HIDE <2>1, <2>2 DEF q
  <2> QED
    BY <1>1, <1>4, <2>3, <2>4, InsertType
<1> HIDE DEF q, ur, E
<1>8. RecordsOK'
  BY <1>1, <1>5 DEF RecordsOK
<1>9. /\ preQueue' \in Seq(Asked) /\ preUsers' \in SUBSET Asked /\ IsFiniteSet(preUsers')
      /\ preUrgent' \in Seq(E) /\ e \in ToSet(preUrgent')
  <2>1. /\ q # <<>> => Head(q) \in Asked /\ Tail(q) \in Seq(Asked)
    BY <1>7, EmptySeq, HeadTailProperties
  <2>2. IsFiniteSet(preUsers \cup {Head(q)})
    BY <1>1, FS_AddElement
  <2>3. ASSUME NEW v \in preUsers, q # <<>>
        PROVE  /\ IsFiniteSet((preUsers \ {v}) \cup {Head(q)})
               /\ Append(ur, Interrupt(v.req, Head(q).req)) \in Seq(E)
               /\ e \in ToSet(Append(ur, Interrupt(v.req, Head(q).req)))
    <3>1. IsFiniteSet(preUsers \ {v})
      BY <1>1, FS_RemoveElement
    <3>2. IsFiniteSet((preUsers \ {v}) \cup {Head(q)})
      BY <3>1, FS_AddElement
    <3>3. Interrupt(v.req, Head(q).req) \in E
      BY <1>1, <2>1, <2>3, AskedReq, InterruptOf DEF E
    <3> QED
      BY <1>3, <3>2, <3>3, AppendFacts
  <2>4. \/ preQueue' = q /\ preUsers' = preUsers /\ preUrgent' = ur
        \/ /\ q # <<>> /\ preQueue' = Tail(q) /\ preUsers' = preUsers \cup {Head(q)} /\ preUrgent' = ur
        \/ /\ q # <<>>
           /\ \E v \in preUsers :
                 /\ preQueue' = Tail(q) /\ preUsers' = (preUsers \ {v}) \cup {Head(q)}
                 /\ preUrgent' = Append(ur, Interrupt(v.req, Head(q).req))
    <3>1. \/ /\ q = <<>> \/ Cardinality(preUsers) >= PreCapacity
             /\ preQueue' = q /\ preUsers' = preUsers /\ preUrgent' = ur /\ preNormal' = preNormal
          \/ /\ q # <<>> /\ Cardinality(preUsers) < PreCapacity
             /\ preQueue' = Tail(q) /\ preUsers' = preUsers \cup {Head(q)}
             /\ preUrgent' = ur /\ preNormal' = Append(preNormal, GrantEvent(Head(q).req))
          \/ /\ q # <<>> /\ Cardinality(preUsers) >= PreCapacity
             /\ \E v \in preUsers :
                   /\ preQueue' = Tail(q) /\ preUsers' = (preUsers \ {v}) \cup {Head(q)}
                   /\ preUrgent' = Append(ur, Interrupt(v.req, Head(q).req))
                   /\ preNormal' = Append(preNormal, GrantEvent(Head(q).req))
      BY <1>1, <1>6, TriggerOutcomes
    <3> QED
      BY <3>1, Zenon
  <2>5. ASSUME NEW v \in preUsers, q # <<>>, preQueue' = Tail(q),
               preUsers' = (preUsers \ {v}) \cup {Head(q)},
               preUrgent' = Append(ur, Interrupt(v.req, Head(q).req))
        PROVE  /\ preQueue' \in Seq(Asked) /\ preUsers' \in SUBSET Asked /\ IsFiniteSet(preUsers')
               /\ preUrgent' \in Seq(E) /\ e \in ToSet(preUrgent')
    BY <1>1, <2>1, <2>3, <2>5
  <2> QED
    BY <1>1, <1>3, <1>7, <2>1, <2>2, <2>4, <2>5
<1>10. PreTypeOK'
  BY <1>1, <1>5, <1>9 DEF PreTypeOK
<1>11. Doomed'
  BY <1>1, <1>2, <1>5, <1>9 DEF Doomed, E
<1> QED
  BY <1>1, <1>5, <1>8, <1>10, <1>11 DEF PreInv, Phase

\* The start of a lifecycle, in both phases.
LEMMA StartKeeps ==
    ASSUME PreInv, StartLifecycle
    PROVE  PreInv'
BY InitPhase, SettledStarts, DoomedStarts DEF StartLifecycle

-----------------------------------------------------------------------------
(***************************************************************************)
(* The rebuild                                                             *)
(***************************************************************************)

\* Two sequences about the same requests.
LEMMA SameNames ==
    ASSUME NEW S, NEW q \in Seq(S), Single(q), NEW T, NEW p \in Seq(T), Len(p) = Len(q),
           \A i \in 1..Len(q) : p[i].req = q[i].req
    PROVE  Single(p) /\ Names(p) = Names(q)
<1>1. DOMAIN q = 1..Len(q) /\ DOMAIN p = 1..Len(q)
  BY LenProperties
<1>2. \A i, j \in 1..Len(q) : q[i].req = q[j].req => i = j
  BY <1>1, SinglePlace
<1>3. \A i, j \in 1..Len(q) : p[i].req = p[j].req => i = j
  BY <1>2
<1>4. Single(p)
  BY <1>1, <1>3 DEF Single, Distinct, Once, ToSet
<1>5. \A r : r \in Names(p) <=> r \in Names(q)
  BY <1>1, NamedIs DEF Named
<1> QED
  BY <1>4, <1>5

\* Sequences about different requests, one after the other.
LEMMA NamesConcat ==
    ASSUME NEW S, NEW p \in Seq(S), NEW s \in Seq(S), Single(p), Single(s), Names(p) \cap Names(s) = {}
    PROVE  /\ p \o s \in Seq(S) /\ Single(p \o s) /\ Names(p \o s) = Names(p) \cup Names(s)
           /\ \A a, b : Before(p \o s, a, b) /\ b.req \in Names(p) => a.req \in Names(p)
<1>1. PICK q : q = p \o s
  OBVIOUS
<1>2. PICK m, n \in Nat : m = Len(p) /\ n = Len(s)
  BY LenProperties
<1>3. /\ q \in Seq(S) /\ DOMAIN p = 1..m /\ DOMAIN s = 1..n /\ DOMAIN q = 1..m + n
      /\ \A i \in 1..m + n : q[i] = IF i <= m THEN p[i] ELSE s[i - m]
  BY <1>1, <1>2, ConcatProperties, LenProperties
<1>4. ToSet(q) = ToSet(p) \cup ToSet(s)
  BY <1>1, ConcatFacts
<1>5. \A r : r \in Names(q) <=> r \in Names(p) \/ r \in Names(s)
  BY <1>4, NamedIs
<1>6. /\ \A i \in 1..m : p[i].req \in Names(p)
      /\ \A i \in 1..n : s[i].req \in Names(s)
  BY <1>3, NamedIs DEF Named
<1>7. /\ \A i, j \in 1..m : p[i].req = p[j].req => i = j
      /\ \A i, j \in 1..n : s[i].req = s[j].req => i = j
  BY <1>3, SinglePlace
<1>8. \A i \in 1..m + n : /\ i <= m => q[i].req = p[i].req /\ i \in 1..m /\ q[i].req \in Names(p)
                          /\ ~(i <= m) => q[i].req = s[i - m].req /\ i - m \in 1..n /\ q[i].req \in Names(s)
  <2> TAKE i \in 1..m + n
  <2>1. i <= m => i \in 1..m /\ q[i] = p[i]
    BY <1>3
  <2>2. ~(i <= m) => i - m \in 1..n /\ q[i] = s[i - m]
    BY <1>3
  <2> QED
    BY <1>6, <2>1, <2>2
<1>9. \A i, j \in 1..m + n : q[i].req = q[j].req => i = j
  <2> TAKE i, j \in 1..m + n
  <2> HAVE q[i].req = q[j].req
  <2>1. (i <= m) <=> (j <= m)
    BY <1>8
  <2>2. CASE i <= m /\ j <= m
    BY <1>7, <1>8, <2>2
  <2>3. CASE ~(i <= m) /\ ~(j <= m)
    <3>1. i - m = j - m
      BY <1>7, <1>8, <2>3
    <3> QED
      BY <3>1
  <2> QED
    BY <2>1, <2>2, <2>3
<1>10. Single(q)
  BY <1>3, <1>9 DEF Single, Distinct, Once, ToSet
<1>11. ASSUME NEW a, NEW b, Before(q, a, b), b.req \in Names(p) PROVE a.req \in Names(p)
  <2>1. PICK i, j \in 1..m + n : i < j /\ q[i] = a /\ q[j] = b
    BY <1>3, <1>11 DEF Before
  <2>2. j <= m
    BY <1>8, <1>11, <2>1
  <2>3. i <= m
    BY <2>1, <2>2
  <2> QED
    BY <1>8, <2>1, <2>3
<1> QED
  BY <1>1, <1>3, <1>5, <1>10, <1>11

\* The reservations are asked for again, and then the demands.
LEMMA PreRebuildKeeps ==
    ASSUME PreInv, PreRebuild
    PROVE  PreInv'
<1> DEFINE D == Names(preDemands)
           R == Names(preReserved)
           rs == [i \in DOMAIN preReserved |-> InitEvent(Ask(preReserved[i], FALSE, FALSE))]
           ds == [i \in DOMAIN preDemands |-> InitEvent(Ask(preDemands[i], preDemands[i].preempt, FALSE))]
<1>1. ~preRunning /\ preReleasing = {} /\ PreTypeOK /\ RecordsOK /\ NoProcess
  BY DEF PreRebuild, PreInv
<1>2. /\ preRunning' = TRUE /\ preUrgent' = rs \o ds
      /\ UNCHANGED <<preDemands, preReserved, preReleasing, preResults, preStep, preQueue, preUsers, preNormal,
                     preLeased, tombstones, pendingLosses, preKnown, preCrashes>>
  BY DEF PreRebuild, preDurable, handshake
<1>3. preDemands \in Seq(Wanted) /\ Single(preDemands) /\ preReserved \in Seq(Wanted) /\ Single(preReserved)
  BY <1>1 DEF PreTypeOK, RecordsOK
<1>4. /\ DOMAIN preReserved = 1..Len(preReserved) /\ Len(preReserved) \in Nat
      /\ DOMAIN preDemands = 1..Len(preDemands) /\ Len(preDemands) \in Nat
      /\ \A i \in 1..Len(preReserved) : preReserved[i] \in Wanted
      /\ \A i \in 1..Len(preDemands) : preDemands[i] \in Wanted
  BY <1>3, LenProperties, ElementOfSeq
<1>5. /\ rs \in Seq(Inits) /\ Len(rs) = Len(preReserved)
      /\ \A i \in 1..Len(preReserved) : rs[i].req = preReserved[i].req
  <2>1. \A i \in 1..Len(preReserved) :
           /\ InitEvent(Ask(preReserved[i], FALSE, FALSE)) \in Inits
           /\ InitEvent(Ask(preReserved[i], FALSE, FALSE)).req = preReserved[i].req
    BY <1>4, AskOf, InitOf
  <2>2. rs \in [1..Len(preReserved) -> Inits] /\ \A i \in 1..Len(preReserved) : rs[i].req = preReserved[i].req
    BY <1>4, <2>1
  <2> HIDE DEF rs
  <2> QED
    BY <1>4, <2>2
<1>6. /\ ds \in Seq(Inits) /\ Len(ds) = Len(preDemands)
      /\ \A i \in 1..Len(preDemands) : ds[i].req = preDemands[i].req
  <2>1. \A i \in 1..Len(preDemands) :
           /\ InitEvent(Ask(preDemands[i], preDemands[i].preempt, FALSE)) \in Inits
           /\ InitEvent(Ask(preDemands[i], preDemands[i].preempt, FALSE)).req = preDemands[i].req
    BY <1>4, AskOf, InitOf
  <2>2. ds \in [1..Len(preDemands) -> Inits] /\ \A i \in 1..Len(preDemands) : ds[i].req = preDemands[i].req
    BY <1>4, <2>1
  <2> HIDE DEF ds
  <2> QED
    BY <1>4, <2>2
<1> HIDE DEF rs, ds
<1>7. Single(rs) /\ Names(rs) = R
  BY <1>3, <1>5, SameNames
<1>8. Single(ds) /\ Names(ds) = D
  BY <1>3, <1>6, SameNames
<1>9. R \cap D = {}
  BY <1>1 DEF RecordsOK
<1>10. PICK ur : ur = rs \o ds
  OBVIOUS
<1>11. /\ ur \in Seq(Inits) /\ Single(ur) /\ Names(ur) = R \cup D
       /\ \A a, b : Before(ur, a, b) /\ b.req \in R => a.req \in R
  BY <1>5, <1>6, <1>7, <1>8, <1>9, <1>10, NamesConcat
<1>12. preQueue = <<>> /\ preUsers = {} /\ preNormal = <<>> /\ preLeased = {} /\ preStep = NoStep
       /\ tombstones = {} /\ pendingLosses = {}
  BY <1>1 DEF NoProcess
<1>13. Requests({}) = {} /\ Names(<<>>) = {}
  BY RequestsIs, NoEvent
<1>14. EventsOK(R, <<>>, {}, ur, <<>>, {})
  <2>1. <<>> \in Seq(Grants) /\ Single(<<>>)
    BY EmptySeq, NoEvent
  <2> QED
    BY <1>11, <1>13, <2>1 DEF EventsOK
<1>15. Balanced(D, R, {}, {}, R \cup D, {}, {}, {})
  BY DEF Balanced
<1>16. UnitsOK(<<>>, {}) /\ Full(<<>>, {})
  <2>1. IsFiniteSet({}) /\ Cardinality({}) <= PreCapacity
    BY FS_EmptySet, PreemptiveAssumption
  <2>2. Single(<<>>) /\ Distinct({})
    BY NoEvent DEF Distinct
  <2> QED
    BY <1>13, <2>1, <2>2, Zenon DEF UnitsOK, Full
<1>17. Settled'
  BY <1>2, <1>10, <1>11, <1>12, <1>13, <1>14, <1>15, <1>16, Zenon DEF Settled
<1>18. PreTypeOK'
  BY <1>1, <1>2 DEF PreTypeOK
<1>19. RecordsOK'
  BY <1>1, <1>2 DEF RecordsOK
<1> QED
  BY <1>1, <1>2, <1>12, <1>17, <1>18, <1>19 DEF PreInv, Phase

-----------------------------------------------------------------------------
(***************************************************************************)
(* The theorems                                                            *)
(***************************************************************************)

\* Every step of a preemptive resource keeps its invariant.
LEMMA PreemptiveSteps == PreInv /\ [PreNext]_preVars => PreInv'
<1> SUFFICES ASSUME PreInv, [PreNext]_preVars PROVE PreInv'
  OBVIOUS
<1>1. CASE UNCHANGED preVars
  <2>1. UNCHANGED <<preDemands, preReserved, preReleasing, preResults, preRunning, preStep, preQueue, preUsers,
                    preUrgent, preNormal, preLeased, tombstones, pendingLosses, preKnown, preCrashes>>
    BY <1>1 DEF preVars, preDurable, preBackend, handshake
  <2> QED
    BY <2>1, Zenon DEF PreInv, PreTypeOK, RecordsOK, NoProcess, Phase, Settled, Doomed, Cancelled, Ending,
                       Freed, Preempting, Quiet
<1>2. CASE PreNext
  BY <1>2, StartKeeps, EndHoldKeeps, UnitFreedKeeps, AcquiredKeeps, PreemptedKeeps, PreRequestKeeps,
     CancelKeeps, IntentKeeps, ReleaseKeeps, InterruptedKeeps, FailureKeeps, PreRebuildKeeps DEF PreNext
<1> QED
  BY <1>1, <1>2

\* The records stay consistent and a running process is in one of the phases:
\* what the backend has and what it is about to do account for every demand and
\* every reservation of the manager.
THEOREM PreemptiveInvariant == PreSpec => []PreInv
BY PreInitial, PreemptiveSteps, PTL DEF PreSpec

\* In a settled backend without events, owners are users and demands wait.
LEMMA PreInvBacked == PreInv => OwnersBacked
<1> SUFFICES ASSUME PreInv PROVE OwnersBacked
  OBVIOUS
<1>1. Len(preReserved) <= PreCapacity
  BY DEF PreInv, RecordsOK
<1>2. ASSUME PreIdle, Quiet
      PROVE  /\ {preReserved[i].req : i \in DOMAIN preReserved} = Requests(preUsers)
             /\ \A i \in DOMAIN preDemands : Named(preQueue, preDemands[i].req)
             /\ preQueue # <<>> => Cardinality(preUsers) = PreCapacity
  <2>1. Settled /\ RecordsOK /\ preUrgent = <<>> /\ preNormal = <<>>
    BY <1>2, QuietPhase DEF PreIdle, PreInv, Quiet
  <2>2. Balanced(Names(preDemands), Names(preReserved), Names(preQueue), Requests(preUsers), {}, {}, preLeased, {})
    BY <2>1, NoEvent DEF Settled
  <2>3. Names(preReserved) = Requests(preUsers)
    BY <2>2 DEF Balanced
  <2>4. Names(preDemands) \subseteq Names(preQueue)
    BY <2>1, <2>2, <2>3 DEF Balanced, RecordsOK
  <2>5. {preReserved[i].req : i \in DOMAIN preReserved} = Names(preReserved)
    BY DEF Names, Requests, ToSet
  <2>6. \A i \in DOMAIN preDemands : Named(preQueue, preDemands[i].req)
    <3> TAKE i \in DOMAIN preDemands
    <3>1. preDemands[i].req \in Names(preDemands)
      BY NamedIs DEF Named
    <3> QED
      BY <2>4, <3>1, NamedIs
  <2> QED
    BY <2>1, <2>3, <2>5, <2>6 DEF Settled, Full
<1> QED
  BY <1>1, <1>2 DEF OwnersBacked

\* In each phase the next acquisition can be committed.
LEMMA PreInvCommits == PreInv => AcquisitionsCommit
<1> SUFFICES ASSUME PreInv, NormalIs("grant")
             PROVE  LET r == Head(preNormal).req IN
                    \/ r \in tombstones \/ Named(preReserved, r)
                    \/ MayPreempt(r) \/ MayGrantNormally(r)
  BY DEF AcquisitionsCommit
<1>1. /\ preRunning /\ preStep = NoStep /\ preUrgent = <<>> /\ preNormal # <<>>
      /\ PreTypeOK /\ RecordsOK /\ preReleasing = {}
  BY DEF NormalIs, PreIdle, PreInv
<1> DEFINE r == Head(preNormal).req
<1>2. CASE Settled
  <2>1. /\ UnitsOK(preQueue, preUsers) /\ preNormal \in Seq(Grants) /\ Single(preNormal)
        /\ Balanced(Names(preDemands), Names(preReserved), Names(preQueue), Requests(preUsers),
                    {}, Names(preNormal), preLeased, {})
    BY <1>1, <1>2, NoEvent DEF Settled, EventsOK
  <2>2. r \in Names(preNormal)
    BY <1>1, <2>1, NamesTail
  <2>3. CASE r \in Names(preReserved)
    BY <2>3, NamedIs
  <2>4. CASE r \notin Names(preReserved)
    <3>1. r \in Requests(preUsers) /\ r \in Names(preDemands) /\ Names(preReserved) \subseteq Requests(preUsers)
      BY <2>1, <2>2, <2>4 DEF Balanced
    <3>2. Len(preReserved) < PreCapacity
      BY <1>1, <2>1, <2>4, <3>1, ReservationForUnit
    <3> QED
      BY <1>1, <3>1, <3>2, NamedIs DEF MayGrantNormally
  <2> QED
    BY <2>3, <2>4
<1>3. ASSUME NEW c \in PreRequests, Cancelled(c) PROVE r \in tombstones
  BY <1>3, OneEvent, GrantEventIs DEF Cancelled
<1>4. ASSUME NEW v \in PreRequests, NEW h \in PreRequests, Preempting(v, h), pendingLosses = {<<v, h>>}
      PROVE  MayPreempt(r)
  <2>1. r = h /\ Named(preReserved, v) /\ Named(preDemands, h)
    BY <1>4, OneEvent, GrantEventIs, NamedIs DEF Preempting
  <2>2. <<v, h>>[1] = v /\ <<v, h>>[2] = h
    OBVIOUS
  <2> QED
    BY <1>4, <2>1, <2>2 DEF MayPreempt
<1> QED
  BY <1>1, <1>2, <1>3, <1>4, HoldPhase

\* The reservations never exceed the capacity, and they are what the backend
\* shows when it has nothing left to do (OwnersBacked).
THEOREM OwnersAreBacked == PreSpec => []OwnersBacked
BY PreemptiveInvariant, PreInvBacked, PTL

\* Every acquisition that reaches the manager can be committed when it arrives.
THEOREM AcquisitionsAreCommitted == PreSpec => []AcquisitionsCommit
BY PreemptiveInvariant, PreInvCommits, PTL

-----------------------------------------------------------------------------
(***************************************************************************)
(* Durable stores                                                          *)
(***************************************************************************)

-----------------------------------------------------------------------------
(***************************************************************************)
(* The events lead from the records to the backend.  S, L and P are the    *)
(* items, the live items and the pending gets.                             *)
(***************************************************************************)

StoreEvent == {PutEvent(i) : i \in StoreItems} \cup {GetEvent(g, i) : g \in StoreGets, i \in StoreItems}

\* What the commit of an event does to the records.  A fifo store takes the
\* oldest get and the oldest item, and stores the oldest intent.
Moves(kind, sq, e, S, L, P, S1, L1, P1) ==
    \/ \E i \in StoreItems :
          /\ e = PutEvent(i) /\ i \in L
          /\ S1 = S \cup {i} /\ L1 = L /\ P1 = P
          /\ (kind = "fifo" /\ i \notin S) => \A x \in L \ S : sq[i] <= sq[x]
    \/ \E g \in StoreGets, i \in StoreItems :
          /\ e = GetEvent(g, i) /\ g \in P /\ i \in S
          /\ S1 = S \ {i} /\ L1 = L \ {i} /\ P1 = P \ {g}
          /\ kind = "fifo" => (\A x \in P : sq[g] <= sq[x]) /\ (\A x \in L : sq[i] <= sq[x])

Follows(kind, sq, evs, S, L, P, S1, L1, P1) ==
    LET n == Len(evs) IN
    \E s, l \in [0..n -> SUBSET StoreItems], p \in [0..n -> SUBSET StoreGets] :
        /\ s[0] = S /\ l[0] = L /\ p[0] = P
        /\ s[n] = S1 /\ l[n] = L1 /\ p[n] = P1
        /\ \A k \in 0..n : Cardinality(s[k]) <= StoreCapacity /\ s[k] \subseteq l[k]
        /\ \A j, k \in 0..n : j <= k => l[k] \subseteq l[j] /\ p[k] \subseteq p[j]
        /\ \A k \in 1..n : Moves(kind, sq, evs[k], s[k - 1], l[k - 1], p[k - 1], s[k], l[k], p[k])

\* Where nothing is to come, the backend is what the records say.
LEMMA FollowsNone ==
    ASSUME NEW kind, NEW sq, NEW S \in SUBSET StoreItems, NEW L \in SUBSET StoreItems, NEW P \in SUBSET StoreGets,
           Cardinality(S) <= StoreCapacity, S \subseteq L
    PROVE  Follows(kind, sq, <<>>, S, L, P, S, L, P)
<1>1. Len(<<>>) = 0
  BY EmptySeq
<1>2. PICK s : s = [k \in 0..0 |-> S]
  OBVIOUS
<1>3. PICK l : l = [k \in 0..0 |-> L]
  OBVIOUS
<1>4. PICK p : p = [k \in 0..0 |-> P]
  OBVIOUS
<1>5. 0..0 = {0} /\ 1..0 = {}
  OBVIOUS
<1>6. /\ s \in [0..0 -> SUBSET StoreItems] /\ l \in [0..0 -> SUBSET StoreItems] /\ p \in [0..0 -> SUBSET StoreGets]
      /\ s[0] = S /\ l[0] = L /\ p[0] = P
  BY <1>2, <1>3, <1>4, <1>5
<1>7. /\ \A k \in 0..0 : Cardinality(s[k]) <= StoreCapacity /\ s[k] \subseteq l[k]
      /\ \A j, k \in 0..0 : j <= k => l[k] \subseteq l[j] /\ p[k] \subseteq p[j]
  BY <1>5, <1>6
<1> QED
  BY <1>1, <1>5, <1>6, <1>7, Zenon DEF Follows

\* Nothing is to come, so the backend is what the records say.
LEMMA FollowsEnd ==
    ASSUME NEW kind, NEW sq, NEW S, NEW L, NEW P, NEW S1, NEW L1, NEW P1,
           Follows(kind, sq, <<>>, S, L, P, S1, L1, P1)
    PROVE  S1 = S /\ L1 = L /\ P1 = P
<1>1. Len(<<>>) = 0
  BY EmptySeq
<1> QED
  BY <1>1 DEF Follows

\* The live items and the pending gets only become fewer.
LEMMA FollowsLess ==
    ASSUME NEW kind, NEW sq, NEW evs \in Seq(StoreEvent), NEW S, NEW L, NEW P, NEW S1, NEW L1, NEW P1,
           Follows(kind, sq, evs, S, L, P, S1, L1, P1)
    PROVE  L1 \subseteq L /\ P1 \subseteq P
<1>1. PICK n \in Nat : n = Len(evs)
  BY LenProperties
<1>2. 0 \in 0..n /\ n \in 0..n /\ 0 <= n
  BY <1>1
<1> QED
  BY <1>1, <1>2 DEF Follows

\* The sets that the events lead between are sets of items and gets.
LEMMA FollowsTypes ==
    ASSUME NEW kind, NEW sq, NEW evs \in Seq(StoreEvent), NEW S, NEW L, NEW P, NEW S1, NEW L1, NEW P1,
           Follows(kind, sq, evs, S, L, P, S1, L1, P1)
    PROVE  /\ S \in SUBSET StoreItems /\ L \in SUBSET StoreItems /\ P \in SUBSET StoreGets
           /\ S1 \in SUBSET StoreItems /\ L1 \in SUBSET StoreItems /\ P1 \in SUBSET StoreGets
<1>1. PICK n \in Nat : n = Len(evs)
  BY LenProperties
<1>2. 0 \in 0..n /\ n \in 0..n /\ 0 <= n
  BY <1>1
<1> QED
  BY <1>1, <1>2 DEF Follows

\* There is room for the items.
LEMMA FollowsFits ==
    ASSUME NEW kind, NEW sq, NEW evs \in Seq(StoreEvent), NEW S, NEW L, NEW P, NEW S1, NEW L1, NEW P1,
           Follows(kind, sq, evs, S, L, P, S1, L1, P1)
    PROVE  /\ Cardinality(S) <= StoreCapacity /\ S \subseteq L
           /\ Cardinality(S1) <= StoreCapacity /\ S1 \subseteq L1
<1>1. PICK n \in Nat : n = Len(evs)
  BY LenProperties
<1>2. 0 \in 0..n /\ n \in 0..n /\ 0 <= n
  BY <1>1
<1> QED
  BY <1>1, <1>2 DEF Follows

\* One more event.
LEMMA FollowsAppend ==
    ASSUME NEW kind, NEW sq, NEW evs \in Seq(StoreEvent), NEW e \in StoreEvent,
           NEW S, NEW L, NEW P, NEW S1, NEW L1, NEW P1, NEW S2, NEW L2, NEW P2,
           Follows(kind, sq, evs, S, L, P, S1, L1, P1),
           Moves(kind, sq, e, S1, L1, P1, S2, L2, P2), Cardinality(S2) <= StoreCapacity
    PROVE  Follows(kind, sq, Append(evs, e), S, L, P, S2, L2, P2)
<1>1. PICK n \in Nat : n = Len(evs)
  BY LenProperties
<1>2. PICK q : q = Append(evs, e)
  OBVIOUS
<1>3. Len(q) = n + 1 /\ q[n + 1] = e /\ \A k \in 1..n : q[k] = evs[k]
  BY <1>1, <1>2, AppendProperties
<1>4. PICK s \in [0..n -> SUBSET StoreItems], l \in [0..n -> SUBSET StoreItems], p \in [0..n -> SUBSET StoreGets] :
        /\ s[0] = S /\ l[0] = L /\ p[0] = P
        /\ s[n] = S1 /\ l[n] = L1 /\ p[n] = P1
        /\ \A k \in 0..n : Cardinality(s[k]) <= StoreCapacity /\ s[k] \subseteq l[k]
        /\ \A j, k \in 0..n : j <= k => l[k] \subseteq l[j] /\ p[k] \subseteq p[j]
        /\ \A k \in 1..n : Moves(kind, sq, evs[k], s[k - 1], l[k - 1], p[k - 1], s[k], l[k], p[k])
  BY <1>1 DEF Follows
<1>5. /\ n \in 0..n /\ \A k \in 0..n + 1 : k \in 0..n \/ k = n + 1
      /\ \A k \in 1..n + 1 : (k \in 1..n /\ k - 1 \in 0..n /\ k \in 0..n /\ k # n + 1 /\ k - 1 # n + 1) \/ k = n + 1
      /\ (n + 1) - 1 = n /\ 0 # n + 1 /\ n # n + 1 /\ n + 1 \in 0..n + 1 /\ 0 \in 0..n + 1
      /\ n \in 0..n + 1
  BY <1>1
<1>6. S1 \in SUBSET StoreItems /\ L1 \in SUBSET StoreItems /\ P1 \in SUBSET StoreGets /\ S1 \subseteq L1
  BY <1>4, <1>5
<1>7. /\ S2 \in SUBSET StoreItems /\ L2 \in SUBSET StoreItems /\ P2 \in SUBSET StoreGets
      /\ S2 \subseteq L2 /\ L2 \subseteq L1 /\ P2 \subseteq P1
  BY <1>6 DEF Moves
<1>8. PICK s2 : s2 = [k \in 0..n + 1 |-> IF k = n + 1 THEN S2 ELSE s[k]]
  OBVIOUS
<1>9. PICK l2 : l2 = [k \in 0..n + 1 |-> IF k = n + 1 THEN L2 ELSE l[k]]
  OBVIOUS
<1>10. PICK p2 : p2 = [k \in 0..n + 1 |-> IF k = n + 1 THEN P2 ELSE p[k]]
  OBVIOUS
<1>11. /\ s2 \in [0..n + 1 -> SUBSET StoreItems] /\ l2 \in [0..n + 1 -> SUBSET StoreItems]
       /\ p2 \in [0..n + 1 -> SUBSET StoreGets]
  BY <1>4, <1>5, <1>7, <1>8, <1>9, <1>10
<1>12. /\ s2[0] = S /\ l2[0] = L /\ p2[0] = P
       /\ s2[n + 1] = S2 /\ l2[n + 1] = L2 /\ p2[n + 1] = P2
       /\ \A k \in 0..n : s2[k] = s[k] /\ l2[k] = l[k] /\ p2[k] = p[k]
  BY <1>1, <1>4, <1>5, <1>8, <1>9, <1>10
<1>13. \A k \in 0..n + 1 : Cardinality(s2[k]) <= StoreCapacity /\ s2[k] \subseteq l2[k]
  BY <1>4, <1>5, <1>7, <1>12
<1>14. \A j, k \in 0..n + 1 : j <= k => l2[k] \subseteq l2[j] /\ p2[k] \subseteq p2[j]
  <2>1. \A j \in 0..n : L2 \subseteq l[j] /\ P2 \subseteq p[j]
    BY <1>4, <1>5, <1>7
  <2>2. \A k \in 0..n : ~(n + 1 <= k)
    BY <1>1
  <2> QED
    BY <1>4, <1>5, <1>12, <2>1, <2>2
<1>15. \A k \in 1..n + 1 : Moves(kind, sq, q[k], s2[k - 1], l2[k - 1], p2[k - 1], s2[k], l2[k], p2[k])
  <2> SUFFICES ASSUME NEW k \in 1..n + 1
               PROVE  Moves(kind, sq, q[k], s2[k - 1], l2[k - 1], p2[k - 1], s2[k], l2[k], p2[k])
    OBVIOUS
  <2>1. CASE k = n + 1
    <3>1. k - 1 = n /\ s2[n] = S1 /\ l2[n] = L1 /\ p2[n] = P1 /\ q[k] = e
      BY <1>3, <1>4, <1>5, <1>12, <2>1
    <3> QED
      BY <1>12, <2>1, <3>1
  <2>2. CASE k # n + 1
    <3>1. k \in 1..n /\ k - 1 \in 0..n /\ k \in 0..n
      BY <1>5, <2>2
    <3> QED
      BY <1>3, <1>4, <1>12, <3>1
  <2> QED
    BY <2>1, <2>2
<1>16. Len(q) = n + 1
  BY <1>3
<1>17. Follows(kind, sq, q, S, L, P, S2, L2, P2)
  BY <1>11, <1>12, <1>13, <1>14, <1>15, <1>16, Zenon DEF Follows
<1> QED
  BY <1>2, <1>17

\* The first event is committed.
LEMMA FollowsTail ==
    ASSUME NEW kind, NEW sq, NEW evs \in Seq(StoreEvent), evs # <<>>,
           NEW S, NEW L, NEW P, NEW S1, NEW L1, NEW P1,
           Follows(kind, sq, evs, S, L, P, S1, L1, P1)
    PROVE  \E S2, L2, P2 : /\ Moves(kind, sq, Head(evs), S, L, P, S2, L2, P2)
                           /\ Follows(kind, sq, Tail(evs), S2, L2, P2, S1, L1, P1)
<1>1. PICK n \in Nat : n = Len(evs) /\ n # 0
  BY LenProperties, EmptySeq
<1>2. PICK q : q = Tail(evs)
  OBVIOUS
<1>3. Len(q) = n - 1 /\ \A k \in 1..n - 1 : q[k] = evs[k + 1]
  BY <1>1, <1>2, TailDrops DEF Dropped
<1>4. PICK s \in [0..n -> SUBSET StoreItems], l \in [0..n -> SUBSET StoreItems], p \in [0..n -> SUBSET StoreGets] :
        /\ s[0] = S /\ l[0] = L /\ p[0] = P
        /\ s[n] = S1 /\ l[n] = L1 /\ p[n] = P1
        /\ \A k \in 0..n : Cardinality(s[k]) <= StoreCapacity /\ s[k] \subseteq l[k]
        /\ \A j, k \in 0..n : j <= k => l[k] \subseteq l[j] /\ p[k] \subseteq p[j]
        /\ \A k \in 1..n : Moves(kind, sq, evs[k], s[k - 1], l[k - 1], p[k - 1], s[k], l[k], p[k])
  BY <1>1 DEF Follows
<1>5. /\ 1 \in 1..n /\ 1 - 1 = 0 /\ (n - 1) + 1 = n /\ 0 \in 0..n - 1 /\ n - 1 \in 0..n - 1 /\ 0 + 1 = 1
      /\ \A k \in 0..n - 1 : k + 1 \in 0..n
      /\ \A k \in 1..n - 1 : k + 1 \in 1..n /\ k \in 0..n - 1 /\ k - 1 \in 0..n - 1 /\ (k + 1) - 1 = k /\ (k - 1) + 1 = k
      /\ \A j, k \in 0..n - 1 : j <= k => j + 1 <= k + 1
  BY <1>1
<1>6. PICK s2 : s2 = [k \in 0..n - 1 |-> s[k + 1]]
  OBVIOUS
<1>7. PICK l2 : l2 = [k \in 0..n - 1 |-> l[k + 1]]
  OBVIOUS
<1>8. PICK p2 : p2 = [k \in 0..n - 1 |-> p[k + 1]]
  OBVIOUS
<1>9. /\ s2 \in [0..n - 1 -> SUBSET StoreItems] /\ l2 \in [0..n - 1 -> SUBSET StoreItems]
      /\ p2 \in [0..n - 1 -> SUBSET StoreGets]
  BY <1>4, <1>5, <1>6, <1>7, <1>8
<1>10. /\ s2[0] = s[1] /\ l2[0] = l[1] /\ p2[0] = p[1]
       /\ s2[n - 1] = S1 /\ l2[n - 1] = L1 /\ p2[n - 1] = P1
       /\ \A k \in 0..n - 1 : s2[k] = s[k + 1] /\ l2[k] = l[k + 1] /\ p2[k] = p[k + 1]
  BY <1>4, <1>5, <1>6, <1>7, <1>8
<1>11. \A k \in 0..n - 1 : Cardinality(s2[k]) <= StoreCapacity /\ s2[k] \subseteq l2[k]
  BY <1>4, <1>5, <1>10
<1>12. \A j, k \in 0..n - 1 : j <= k => l2[k] \subseteq l2[j] /\ p2[k] \subseteq p2[j]
  BY <1>4, <1>5, <1>10
<1>13. \A k \in 1..n - 1 : Moves(kind, sq, q[k], s2[k - 1], l2[k - 1], p2[k - 1], s2[k], l2[k], p2[k])
  <2> SUFFICES ASSUME NEW k \in 1..n - 1
               PROVE  Moves(kind, sq, q[k], s2[k - 1], l2[k - 1], p2[k - 1], s2[k], l2[k], p2[k])
    OBVIOUS
  <2>1. Moves(kind, sq, evs[k + 1], s[k], l[k], p[k], s[k + 1], l[k + 1], p[k + 1])
    BY <1>4, <1>5
  <2>2. /\ q[k] = evs[k + 1] /\ s2[k] = s[k + 1] /\ l2[k] = l[k + 1] /\ p2[k] = p[k + 1]
        /\ s2[k - 1] = s[k] /\ l2[k - 1] = l[k] /\ p2[k - 1] = p[k]
    BY <1>3, <1>5, <1>10
  <2> QED
    BY <2>1, <2>2
<1>14. Follows(kind, sq, q, s[1], l[1], p[1], S1, L1, P1)
  BY <1>3, <1>9, <1>10, <1>11, <1>12, <1>13, Zenon DEF Follows
<1>15. Head(evs) = evs[1]
  BY TailDrops
<1>16. Moves(kind, sq, Head(evs), S, L, P, s[1], l[1], p[1])
  BY <1>4, <1>5, <1>15
<1> QED
  BY <1>2, <1>14, <1>16

\* What is put is live.
LEMMA FollowsHas ==
    ASSUME NEW kind, NEW sq, NEW evs \in Seq(StoreEvent), NEW S, NEW L, NEW P, NEW S1, NEW L1, NEW P1,
           Follows(kind, sq, evs, S, L, P, S1, L1, P1), NEW i \in StoreItems, PutEvent(i) \in ToSet(evs)
    PROVE  i \in L
<1>1. PICK n \in Nat : n = Len(evs) /\ DOMAIN evs = 1..n
  BY LenProperties
<1>2. PICK k \in 1..n : evs[k] = PutEvent(i)
  BY <1>1 DEF ToSet
<1>3. 0 \in 0..n /\ k - 1 \in 0..n /\ 0 <= k - 1
  BY <1>1
<1>4. PICK s \in [0..n -> SUBSET StoreItems], l \in [0..n -> SUBSET StoreItems], p \in [0..n -> SUBSET StoreGets] :
        /\ l[0] = L
        /\ \A j, m \in 0..n : j <= m => l[m] \subseteq l[j]
        /\ \A m \in 1..n : Moves(kind, sq, evs[m], s[m - 1], l[m - 1], p[m - 1], s[m], l[m], p[m])
  BY <1>1 DEF Follows
<1>5. Moves(kind, sq, PutEvent(i), s[k - 1], l[k - 1], p[k - 1], s[k], l[k], p[k])
  BY <1>2, <1>4
<1>6. i \in l[k - 1]
  BY <1>5 DEF Moves, PutEvent, GetEvent
<1> QED
  BY <1>3, <1>4, <1>6

\* More items and gets, all of them later than those before.
LEMMA FollowsMore ==
    ASSUME NEW kind, NEW sq, NEW sq2, NEW evs \in Seq(StoreEvent), NEW S, NEW L, NEW P, NEW S1, NEW L1, NEW P1,
           NEW I \in SUBSET StoreItems, NEW G \in SUBSET StoreGets,
           Follows(kind, sq, evs, S, L, P, S1, L1, P1),
           I \cap L = {}, G \cap P = {},
           \A x \in L \cup P : sq2[x] = sq[x],
           \A x \in L, y \in I : sq2[x] <= sq2[y],
           \A x \in P, y \in G : sq2[x] <= sq2[y]
    PROVE  Follows(kind, sq2, evs, S, L \cup I, P \cup G, S1, L1 \cup I, P1 \cup G)
<1>1. PICK n \in Nat : n = Len(evs)
  BY LenProperties
<1>2. PICK s \in [0..n -> SUBSET StoreItems], l \in [0..n -> SUBSET StoreItems], p \in [0..n -> SUBSET StoreGets] :
        /\ s[0] = S /\ l[0] = L /\ p[0] = P
        /\ s[n] = S1 /\ l[n] = L1 /\ p[n] = P1
        /\ \A k \in 0..n : Cardinality(s[k]) <= StoreCapacity /\ s[k] \subseteq l[k]
        /\ \A j, k \in 0..n : j <= k => l[k] \subseteq l[j] /\ p[k] \subseteq p[j]
        /\ \A k \in 1..n : Moves(kind, sq, evs[k], s[k - 1], l[k - 1], p[k - 1], s[k], l[k], p[k])
  BY <1>1 DEF Follows
<1>3. /\ n \in 0..n /\ 0 \in 0..n /\ \A k \in 0..n : 0 <= k
      /\ \A k \in 1..n : k \in 0..n /\ k - 1 \in 0..n
  BY <1>1
<1>4. \A k \in 0..n : l[k] \subseteq L /\ p[k] \subseteq P
  BY <1>2, <1>3
<1>5. PICK l2 : l2 = [k \in 0..n |-> l[k] \cup I]
  OBVIOUS
<1>6. PICK p2 : p2 = [k \in 0..n |-> p[k] \cup G]
  OBVIOUS
<1>7. l2 \in [0..n -> SUBSET StoreItems] /\ p2 \in [0..n -> SUBSET StoreGets]
  BY <1>2, <1>5, <1>6
<1>8. \A k \in 0..n : l2[k] = l[k] \cup I /\ p2[k] = p[k] \cup G
  BY <1>5, <1>6
<1>9. /\ l2[0] = L \cup I /\ p2[0] = P \cup G /\ l2[n] = L1 \cup I /\ p2[n] = P1 \cup G
      /\ \A k \in 0..n : Cardinality(s[k]) <= StoreCapacity /\ s[k] \subseteq l2[k]
      /\ \A j, k \in 0..n : j <= k => l2[k] \subseteq l2[j] /\ p2[k] \subseteq p2[j]
  BY <1>2, <1>3, <1>8
<1>10. \A k \in 1..n : Moves(kind, sq2, evs[k], s[k - 1], l2[k - 1], p2[k - 1], s[k], l2[k], p2[k])
  <2> SUFFICES ASSUME NEW k \in 1..n
               PROVE  Moves(kind, sq2, evs[k], s[k - 1], l2[k - 1], p2[k - 1], s[k], l2[k], p2[k])
    OBVIOUS
  <2>1. PICK j \in 0..n : j = k - 1
    BY <1>3
  <2>2. Moves(kind, sq, evs[k], s[j], l[j], p[j], s[k], l[k], p[k])
    BY <1>2, <2>1
  <2>3. /\ l[j] \subseteq L /\ p[j] \subseteq P /\ s[j] \subseteq l[j]
        /\ l2[j] = l[j] \cup I /\ p2[j] = p[j] \cup G /\ l2[k] = l[k] \cup I /\ p2[k] = p[k] \cup G
    BY <1>2, <1>3, <1>4, <1>8
  <2>4. ASSUME NEW i \in StoreItems, evs[k] = PutEvent(i), i \in l[j], s[k] = s[j] \cup {i}, l[k] = l[j], p[k] = p[j],
               (kind = "fifo" /\ i \notin s[j]) => \A x \in l[j] \ s[j] : sq[i] <= sq[x]
        PROVE  Moves(kind, sq2, evs[k], s[j], l2[j], p2[j], s[k], l2[k], p2[k])
    <3>1. \A x \in l[j] \ s[j] : sq2[x] = sq[x]
      BY <2>3
    <3>2. sq2[i] = sq[i] /\ \A y \in I : sq2[i] <= sq2[y]
      BY <2>3, <2>4
    <3>3. (kind = "fifo" /\ i \notin s[j]) => \A x \in l2[j] \ s[j] : sq2[i] <= sq2[x]
      BY <2>3, <2>4, <3>1, <3>2
    <3>4. i \in l2[j] /\ l2[k] = l2[j] /\ p2[k] = p2[j]
      BY <2>3, <2>4
    <3> QED
      BY <2>4, <3>3, <3>4, Zenon DEF Moves
  <2>5. ASSUME NEW g \in StoreGets, NEW i \in StoreItems, evs[k] = GetEvent(g, i), g \in p[j], i \in s[j],
               s[k] = s[j] \ {i}, l[k] = l[j] \ {i}, p[k] = p[j] \ {g},
               kind = "fifo" => (\A x \in p[j] : sq[g] <= sq[x]) /\ (\A x \in l[j] : sq[i] <= sq[x])
        PROVE  Moves(kind, sq2, evs[k], s[j], l2[j], p2[j], s[k], l2[k], p2[k])
    <3>1. i \in L /\ g \in P /\ i \notin I /\ g \notin G
      BY <2>3, <2>5
    <3>2. sq2[i] = sq[i] /\ (\A y \in I : sq2[i] <= sq2[y]) /\ sq2[g] = sq[g] /\ \A y \in G : sq2[g] <= sq2[y]
      BY <3>1
    <3>3. kind = "fifo" => (\A x \in p2[j] : sq2[g] <= sq2[x]) /\ (\A x \in l2[j] : sq2[i] <= sq2[x])
      BY <2>3, <2>5, <3>2
    <3>4. g \in p2[j] /\ l2[k] = l2[j] \ {i} /\ p2[k] = p2[j] \ {g}
      BY <2>3, <2>5, <3>1
    <3> QED
      BY <2>5, <3>3, <3>4, Zenon DEF Moves
  <2>6. Moves(kind, sq2, evs[k], s[j], l2[j], p2[j], s[k], l2[k], p2[k])
    BY <2>2, <2>4, <2>5, Zenon DEF Moves
  <2> QED
    BY <2>1, <2>6
<1> QED
  BY <1>1, <1>2, <1>7, <1>9, <1>10, Zenon DEF Follows

-----------------------------------------------------------------------------
\* q is in the order of sq.
SortedBy(sq, q) == \A a, b \in ToSet(q) : Before(q, a, b) => sq[a] < sq[b]

\* The items whose put is still to be committed.
PutItems(evs) == {i \in StoreItems : PutEvent(i) \in ToSet(evs)}

\* The backend and the records agree: nothing is in two places of the backend,
\* and the events that are still to be committed lead from the records to what
\* the backend and the rest T of a rebuild hold.  A fifo store keeps its order.
Agrees(kind, sq, items, puts, gets, evs, S, L, P, T) ==
    /\ sq \in [StoreItems \cup StoreGets -> Nat]
    /\ items \in Seq(StoreItems) /\ puts \in Seq(StoreItems) /\ gets \in Seq(StoreGets) /\ evs \in Seq(StoreEvent)
    /\ AllOnce(items) /\ AllOnce(puts) /\ AllOnce(gets) /\ \A i \in StoreItems : Once(evs, PutEvent(i))
    /\ ToSet(items) \cap ToSet(puts) = {} /\ (ToSet(items) \cup ToSet(puts) \cup ToSet(gets)) \cap T = {}
    /\ PutItems(evs) \cap (ToSet(puts) \cup T) = {}
    /\ Len(items) <= StoreCapacity
    /\ Follows(kind, sq, evs, S, L, P,
               ToSet(items) \cup (S \cap (T \cup ToSet(puts))),
               ToSet(items) \cup ToSet(puts) \cup (T \cap StoreItems),
               ToSet(gets) \cup (T \cap StoreGets))
    /\ kind = "fifo" =>
          /\ SortedBy(sq, items) /\ SortedBy(sq, puts) /\ SortedBy(sq, gets)
          /\ \A a \in ToSet(items), b \in ToSet(puts) : sq[a] < sq[b]
          /\ \A a \in ToSet(items) \cup ToSet(puts), b \in T \cap StoreItems : sq[a] < sq[b]
          /\ \A a \in ToSet(gets), b \in T \cap StoreGets : sq[a] < sq[b]

\* A put waits only if the items and the gets that are still to be committed,
\* each of which will wake one, account for the whole capacity.
PutsWoken(items, puts, gets, P, T) ==
    puts # <<>> => StoreCapacity <= Len(items) + Cardinality(P \ (ToSet(gets) \cup T))

\* A get waits only beside items whose put is still to be committed.
GetsWoken(kind, fl, items, gets, evs) ==
    IF kind = "filter"
    THEN \A g \in ToSet(gets), x \in ToSet(items) : x \in fl[g] => PutEvent(x) \in ToSet(evs)
    ELSE gets # <<>> => Len(items) <= Cardinality(PutItems(evs))

-----------------------------------------------------------------------------
\* Where an item enters the store.
LEMMA Entered ==
    ASSUME NEW q \in Seq(StoreItems), AllOnce(q), NEW v \in StoreItems, v \notin ToSet(q)
    PROVE  /\ Enter(q, v) \in Seq(StoreItems) /\ AllOnce(Enter(q, v)) /\ ToSet(Enter(q, v)) = ToSet(q) \cup {v}
           /\ Len(Enter(q, v)) = Len(q) + 1
           /\ storeKind = "fifo" =>
                 \A a, b : Before(Enter(q, v), a, b) => Before(q, a, b) \/ (a \in ToSet(q) /\ b = v)
<1>1. CASE storeKind # "priority"
  <2>1. Enter(q, v) = Append(q, v)
    BY <1>1 DEF Enter
  <2> QED
    BY <2>1, OnceAppend
<1>2. CASE storeKind = "priority"
  <2>1. PICK K : K = {k \in DOMAIN q : ItemPriority[q[k]] <= ItemPriority[v]}
    OBVIOUS
  <2> Len(q) \in Nat /\ DOMAIN q = 1..Len(q)
    BY LenProperties
  <2>2. IsFiniteSet(1..Len(q)) /\ Cardinality(1..Len(q)) = Len(q)
    BY FS_Interval
  <2>3. K \subseteq 1..Len(q)
    BY <2>1, <2>2
  <2>4. IsFiniteSet(K) /\ Cardinality(K) <= Cardinality(1..Len(q))
    BY <2>2, <2>3, FS_Subset
  <2>5. Cardinality(K) \in Nat /\ Cardinality(K) <= Len(q)
    BY <2>2, <2>4, FS_CardinalityType
  <2>6. PICK j \in 1..Len(q) + 1 : j = Cardinality(K) + 1
    BY <2>2, <2>5
  <2>7. Enter(q, v) = InsertAt(q, j, v)
    BY <1>2, <2>1, <2>6 DEF Enter
  <2>8. storeKind # "fifo"
    BY <1>2
  <2> QED
    BY <2>7, <2>8, OnceInsert
<1> QED
  BY <1>1, <1>2

\* An event is a put or a get.
LEMMA EventIs ==
    /\ \A i \in StoreItems : PutEvent(i) \in StoreEvent
    /\ \A g \in StoreGets, i \in StoreItems : GetEvent(g, i) \in StoreEvent
    /\ \A i, j : PutEvent(i) = PutEvent(j) => i = j
    /\ \A i, j, g : PutEvent(i) # GetEvent(g, j)
  BY DEF PutEvent, GetEvent, StoreEvent

\* One more event, if it is the put of an item that had none.
LEMMA PutItemsMore ==
    ASSUME NEW evs \in Seq(StoreEvent), \A i \in StoreItems : Once(evs, PutEvent(i)),
           NEW v \in StoreItems, v \notin PutItems(evs)
    PROVE  /\ Append(evs, PutEvent(v)) \in Seq(StoreEvent)
           /\ \A i \in StoreItems : Once(Append(evs, PutEvent(v)), PutEvent(i))
           /\ PutItems(Append(evs, PutEvent(v))) = PutItems(evs) \cup {v}
           /\ ToSet(Append(evs, PutEvent(v))) = ToSet(evs) \cup {PutEvent(v)}
<1>1. PICK e \in StoreEvent : e = PutEvent(v)
  BY EventIs
<1>2. PICK q : q = Append(evs, e)
  OBVIOUS
<1>3. e \notin ToSet(evs)
  BY <1>1 DEF PutItems
<1>4. /\ q \in Seq(StoreEvent) /\ ToSet(q) = ToSet(evs) \cup {e}
      /\ \A a : a # e /\ Once(evs, a) => Once(q, a)
      /\ Once(q, e)
  BY <1>2, <1>3, AppendFacts
<1>5. \A i \in StoreItems : Once(q, PutEvent(i))
  BY <1>4
<1>6. PutItems(q) = PutItems(evs) \cup {v}
  BY <1>1, <1>4, EventIs DEF PutItems
<1> QED
  BY <1>1, <1>2, <1>4, <1>5, <1>6

\* One more event, if it is a get.
LEMMA PutItemsSame ==
    ASSUME NEW evs \in Seq(StoreEvent), \A i \in StoreItems : Once(evs, PutEvent(i)),
           NEW g \in StoreGets, NEW v \in StoreItems
    PROVE  /\ Append(evs, GetEvent(g, v)) \in Seq(StoreEvent)
           /\ \A i \in StoreItems : Once(Append(evs, GetEvent(g, v)), PutEvent(i))
           /\ PutItems(Append(evs, GetEvent(g, v))) = PutItems(evs)
           /\ ToSet(Append(evs, GetEvent(g, v))) = ToSet(evs) \cup {GetEvent(g, v)}
<1>1. PICK e \in StoreEvent : e = GetEvent(g, v) /\ \A i : PutEvent(i) # e
  BY EventIs
<1>2. PICK q : q = Append(evs, e)
  OBVIOUS
<1>3. /\ q \in Seq(StoreEvent) /\ ToSet(q) = ToSet(evs) \cup {e}
      /\ \A a : a # e /\ Once(evs, a) => Once(q, a)
  BY <1>2, AppendFacts
<1>4. \A i \in StoreItems : Once(q, PutEvent(i))
  BY <1>1, <1>3
<1>5. PutItems(q) = PutItems(evs)
  BY <1>1, <1>3 DEF PutItems
<1> QED
  BY <1>1, <1>2, <1>3, <1>4, <1>5

\* The first put can be served: it is an item that is put back, or all of them are.
CanPut(items, puts, S, T) ==
    /\ puts # <<>> /\ Len(items) < StoreCapacity
    /\ S \cap (T \cup ToSet(puts)) = {} \/ Head(puts) \in S

\* The item i is put from the one backend to the other.
Stored(items, evs, is, es, i) ==
    /\ Len(is) = Len(items) + 1 /\ ToSet(is) = ToSet(items) \cup {i}
    /\ PutItems(es) = PutItems(evs) \cup {i} /\ i \notin PutItems(evs)

\* The first put of the queue is served.
LEMMA PutServed ==
    ASSUME NEW sq, NEW items, NEW puts, NEW gets, NEW evs, NEW S, NEW L, NEW P, NEW T,
           Agrees(storeKind, sq, items, puts, gets, evs, S, L, P, T), CanPut(items, puts, S, T),
           NEW i, i = Head(puts), NEW is, is = Enter(items, i), NEW ps, ps = Tail(puts),
           NEW es, es = Append(evs, PutEvent(i))
    PROVE  Stored(items, evs, is, es, i) /\ Agrees(storeKind, sq, is, ps, gets, es, S, L, P, T)
<1> /\ sq \in [StoreItems \cup StoreGets -> Nat]
    /\ items \in Seq(StoreItems) /\ puts \in Seq(StoreItems) /\ gets \in Seq(StoreGets) /\ evs \in Seq(StoreEvent)
    /\ puts # <<>> /\ Len(items) < StoreCapacity
  BY DEF Agrees, CanPut
<1>1. i \in StoreItems /\ i \in ToSet(puts)
  BY OnceTail DEF Agrees
<1>2. ps \in Seq(StoreItems)
  BY OnceTail DEF Agrees
<1>3. /\ AllOnce(ps) /\ ToSet(ps) = ToSet(puts) \ {i}
      /\ \A a, b : Before(ps, a, b) => Before(puts, a, b)
      /\ \A b \in ToSet(ps) : Before(puts, i, b)
  BY <1>1, <1>2, OnceTail DEF Agrees
<1>4. i \notin ToSet(items) /\ i \notin PutItems(evs) /\ AllOnce(items) /\ i \notin T
  BY <1>1 DEF Agrees
<1>5. is \in Seq(StoreItems)
  BY <1>1, <1>4, Entered
<1>6. /\ AllOnce(is) /\ ToSet(is) = ToSet(items) \cup {i} /\ Len(is) = Len(items) + 1
      /\ storeKind = "fifo" => \A a, b : Before(is, a, b) => Before(items, a, b) \/ (a \in ToSet(items) /\ b = i)
  BY <1>1, <1>4, Entered
<1>7. es \in Seq(StoreEvent)
  BY <1>1, <1>4, PutItemsMore DEF Agrees
<1>8. (\A j \in StoreItems : Once(es, PutEvent(j))) /\ PutItems(es) = PutItems(evs) \cup {i}
  BY <1>1, <1>4, PutItemsMore DEF Agrees
<1>9. PICK S1, L1, P1 :
        /\ S1 = ToSet(items) \cup (S \cap (T \cup ToSet(puts)))
        /\ L1 = ToSet(items) \cup ToSet(puts) \cup (T \cap StoreItems)
        /\ P1 = ToSet(gets) \cup (T \cap StoreGets)
  OBVIOUS
<1>10. PICK S2 : S2 = S1 \cup {i}
  OBVIOUS
<1>11. /\ S2 = ToSet(is) \cup (S \cap (T \cup ToSet(ps)))
       /\ L1 = ToSet(is) \cup ToSet(ps) \cup (T \cap StoreItems)
  BY <1>1, <1>3, <1>6, <1>9, <1>10
<1>12. Follows(storeKind, sq, evs, S, L, P, S1, L1, P1)
  BY <1>9 DEF Agrees
<1>13. ToSet(puts) \subseteq StoreItems /\ ToSet(items) \subseteq StoreItems
  BY ElementOfSeq, LenProperties DEF ToSet
<1>14. Moves(storeKind, sq, PutEvent(i), S1, L1, P1, S2, L1, P1)
  <2>1. i \in L1
    BY <1>1, <1>9
  <2>2. ASSUME storeKind = "fifo", NEW x \in L1 \ S1 PROVE sq[i] <= sq[x]
    <3>1. x \in ToSet(puts) \cup (T \cap StoreItems)
      BY <1>9
    <3>2. x = i \/ Before(puts, i, x) \/ x \in T \cap StoreItems
      BY <1>3, <3>1
    <3>3. Before(puts, i, x) => sq[i] < sq[x]
      BY <1>1, <2>2, BeforeIn DEF Agrees, SortedBy
    <3>4. x \in T \cap StoreItems => sq[i] < sq[x]
      BY <1>1, <2>2 DEF Agrees
    <3>5. x \in StoreItems
      BY <1>13, <3>1
    <3>6. sq[i] \in Nat /\ sq[x] \in Nat
      BY <3>5
    <3> QED
      BY <3>2, <3>3, <3>4, <3>6
  <2> QED
    BY <1>1, <1>10, <2>1, <2>2 DEF Moves
<1>15. Cardinality(S2) <= StoreCapacity
  <2>1. CASE i \in S
    <3>1. S2 = S1
      BY <1>1, <1>9, <1>10, <2>1
    <3> QED
      BY <1>12, <3>1, FollowsFits
  <2>2. CASE S \cap (T \cup ToSet(puts)) = {}
    <3>1. S2 = ToSet(is)
      BY <1>6, <1>9, <1>10, <2>2
    <3>2. Cardinality(ToSet(is)) = Len(items) + 1
      BY <1>5, <1>6, OnceCount
    <3> QED
      BY <3>1, <3>2, StoreAssumption, LenProperties
  <2> QED
    BY <1>1, <2>1, <2>2 DEF CanPut
<1>16. Follows(storeKind, sq, es, S, L, P, S2, L1, P1)
  BY <1>1, <1>12, <1>14, <1>15, FollowsAppend, EventIs
<1>17. ASSUME storeKind = "fifo"
       PROVE  /\ SortedBy(sq, is) /\ SortedBy(sq, ps)
              /\ \A a \in ToSet(is), b \in ToSet(ps) : sq[a] < sq[b]
              /\ \A a \in ToSet(is) \cup ToSet(ps), b \in T \cap StoreItems : sq[a] < sq[b]
  <2>1. SortedBy(sq, is)
    BY <1>1, <1>6, <1>17, BeforeIn DEF Agrees, SortedBy
  <2>2. SortedBy(sq, ps)
    BY <1>3, <1>17 DEF Agrees, SortedBy
  <2>3. \A a \in ToSet(is), b \in ToSet(ps) : sq[a] < sq[b]
    BY <1>1, <1>3, <1>6, <1>17 DEF Agrees, SortedBy
  <2>4. \A a \in ToSet(is) \cup ToSet(ps), b \in T \cap StoreItems : sq[a] < sq[b]
    BY <1>1, <1>3, <1>6, <1>17 DEF Agrees
  <2> QED
    BY <2>1, <2>2, <2>3, <2>4
<1>18. /\ ToSet(is) \cap ToSet(ps) = {} /\ (ToSet(is) \cup ToSet(ps) \cup ToSet(gets)) \cap T = {}
       /\ PutItems(es) \cap (ToSet(ps) \cup T) = {}
  BY <1>1, <1>3, <1>4, <1>6, <1>8 DEF Agrees
<1>19. Len(is) <= StoreCapacity
  BY <1>6, StoreAssumption, LenProperties
<1>20. /\ AllOnce(gets)
       /\ storeKind = "fifo" => SortedBy(sq, gets) /\ \A a \in ToSet(gets), b \in T \cap StoreGets : sq[a] < sq[b]
  BY DEF Agrees
<1>21. Agrees(storeKind, sq, is, ps, gets, es, S, L, P, T)
  BY <1>2, <1>3, <1>5, <1>6, <1>7, <1>8, <1>9, <1>11, <1>16, <1>17, <1>18, <1>19, <1>20, Zenon DEF Agrees
<1> QED
  BY <1>2, <1>4, <1>5, <1>6, <1>7, <1>8, <1>21 DEF Stored

\* What is in the queues and in the events comes from finite sets.
LEMMA StoreCounts ==
    ASSUME NEW gets, NEW evs, NEW P \in SUBSET StoreGets, NEW T
    PROVE  /\ IsFiniteSet(P \ (ToSet(gets) \cup T)) /\ Cardinality(P \ (ToSet(gets) \cup T)) \in Nat
           /\ IsFiniteSet(PutItems(evs)) /\ Cardinality(PutItems(evs)) \in Nat
<1>1. PICK A, B : A = P \ (ToSet(gets) \cup T) /\ B = PutItems(evs)
  OBVIOUS
<1>2. A \subseteq StoreGets /\ B \subseteq StoreItems
  BY <1>1 DEF PutItems
<1>3. IsFiniteSet(A) /\ IsFiniteSet(B)
  BY <1>2, StoreAssumption, FS_Subset
<1> QED
  BY <1>1, <1>3, FS_CardinalityType

\* The backend has no more than the records say.
LEMMA AgreesLess ==
    ASSUME NEW kind, NEW sq, NEW items, NEW puts, NEW gets, NEW evs, NEW S, NEW L, NEW P, NEW T,
           Agrees(kind, sq, items, puts, gets, evs, S, L, P, T)
    PROVE  /\ ToSet(items) \cup ToSet(puts) \cup (T \cap StoreItems) \subseteq L
           /\ ToSet(gets) \cup (T \cap StoreGets) \subseteq P
<1>1. PICK S1, L1, P1 :
        /\ S1 = ToSet(items) \cup (S \cap (T \cup ToSet(puts)))
        /\ L1 = ToSet(items) \cup ToSet(puts) \cup (T \cap StoreItems)
        /\ P1 = ToSet(gets) \cup (T \cap StoreGets)
  OBVIOUS
<1>2. Follows(kind, sq, evs, S, L, P, S1, L1, P1)
  BY <1>1 DEF Agrees
<1>3. evs \in Seq(StoreEvent)
  BY DEF Agrees
<1> QED
  BY <1>1, <1>2, <1>3, FollowsLess

\* The records are sets of items and gets.
LEMMA AgreesTypes ==
    ASSUME NEW kind, NEW sq, NEW items, NEW puts, NEW gets, NEW evs, NEW S, NEW L, NEW P, NEW T,
           Agrees(kind, sq, items, puts, gets, evs, S, L, P, T)
    PROVE  /\ S \in SUBSET StoreItems /\ L \in SUBSET StoreItems /\ P \in SUBSET StoreGets
<1>1. PICK S1, L1, P1 :
        /\ S1 = ToSet(items) \cup (S \cap (T \cup ToSet(puts)))
        /\ L1 = ToSet(items) \cup ToSet(puts) \cup (T \cap StoreItems)
        /\ P1 = ToSet(gets) \cup (T \cap StoreGets)
  OBVIOUS
<1>2. Follows(kind, sq, evs, S, L, P, S1, L1, P1)
  BY <1>1 DEF Agrees
<1>3. evs \in Seq(StoreEvent)
  BY DEF Agrees
<1> QED
  BY <1>2, <1>3, FollowsTypes

\* Committed items are live, and what is to be in the store fits.
LEMMA AgreesFits ==
    ASSUME NEW kind, NEW sq, NEW items, NEW puts, NEW gets, NEW evs, NEW S, NEW L, NEW P, NEW T,
           Agrees(kind, sq, items, puts, gets, evs, S, L, P, T)
    PROVE  S \subseteq L /\ Cardinality(ToSet(items) \cup (S \cap (T \cup ToSet(puts)))) <= StoreCapacity
<1>1. PICK S1, L1, P1 :
        /\ S1 = ToSet(items) \cup (S \cap (T \cup ToSet(puts)))
        /\ L1 = ToSet(items) \cup ToSet(puts) \cup (T \cap StoreItems)
        /\ P1 = ToSet(gets) \cup (T \cap StoreGets)
  OBVIOUS
<1>2. Follows(kind, sq, evs, S, L, P, S1, L1, P1)
  BY <1>1 DEF Agrees
<1>3. evs \in Seq(StoreEvent)
  BY DEF Agrees
<1>4. Cardinality(S1) <= StoreCapacity /\ S \subseteq L
  BY <1>2, <1>3, FollowsFits
<1> QED
  BY <1>1, <1>4

\* What the puts that are to be committed put is live.
LEMMA AgreesHas ==
    ASSUME NEW kind, NEW sq, NEW items, NEW puts, NEW gets, NEW evs, NEW S, NEW L, NEW P, NEW T,
           Agrees(kind, sq, items, puts, gets, evs, S, L, P, T)
    PROVE  PutItems(evs) \subseteq L
<1>1. PICK S1, L1, P1 :
        /\ S1 = ToSet(items) \cup (S \cap (T \cup ToSet(puts)))
        /\ L1 = ToSet(items) \cup ToSet(puts) \cup (T \cap StoreItems)
        /\ P1 = ToSet(gets) \cup (T \cap StoreGets)
  OBVIOUS
<1>2. Follows(kind, sq, evs, S, L, P, S1, L1, P1)
  BY <1>1 DEF Agrees
<1>3. evs \in Seq(StoreEvent)
  BY DEF Agrees
<1> QED
  BY <1>2, <1>3, FollowsHas DEF PutItems

\* A backend is a record of these fields.
Of(items, puts, gets, evs) == [items |-> items, puts |-> puts, gets |-> gets, events |-> evs]

\* The backend is in order.
BackendOK(kind, sq, fl, items, puts, gets, evs, S, L, P, T) ==
    /\ Agrees(kind, sq, items, puts, gets, evs, S, L, P, T)
    /\ PutsWoken(items, puts, gets, P, T)
    /\ GetsWoken(kind, fl, items, gets, evs)

\* It is, but for the first put, which a trigger is to serve.
PutReady(kind, sq, fl, items, puts, gets, evs, S, L, P, T) ==
    /\ Agrees(kind, sq, items, puts, gets, evs, S, L, P, T)
    /\ GetsWoken(kind, fl, items, gets, evs)
    /\ puts # <<>> /\ Tail(puts) # <<>> =>
          StoreCapacity <= Len(items) + 1 + Cardinality(P \ (ToSet(gets) \cup T))
    /\ S \cap (T \cup ToSet(puts)) = {} \/ (puts # <<>> /\ Head(puts) \in S)

\* A first put that is put back is served.
PutBack(puts, S, b) == puts # <<>> /\ Head(puts) \in S => b.puts = Tail(puts)

\* A trigger of the puts.
LEMMA TriggerPutKeeps ==
    ASSUME NEW sq, NEW fl, NEW items, NEW puts, NEW gets, NEW evs, NEW S, NEW L, NEW P, NEW T,
           PutReady(storeKind, sq, fl, items, puts, gets, evs, S, L, P, T),
           NEW b, b = TriggerPut(Of(items, puts, gets, evs))
    PROVE  /\ BackendOK(storeKind, sq, fl, b.items, b.puts, b.gets, b.events, S, L, P, T)
           /\ b.gets = gets /\ ToSet(b.puts) \subseteq ToSet(puts)
           /\ PutBack(puts, S, b)
<1> /\ Agrees(storeKind, sq, items, puts, gets, evs, S, L, P, T)
    /\ items \in Seq(StoreItems) /\ puts \in Seq(StoreItems) /\ gets \in Seq(StoreGets) /\ evs \in Seq(StoreEvent)
  BY DEF Agrees, PutReady
<1>1. Len(items) \in Nat /\ StoreCapacity \in Nat
  BY LenProperties, StoreAssumption
<1>2. P \in SUBSET StoreGets
  BY AgreesTypes
<1>3. PICK n \in Nat : n = Cardinality(P \ (ToSet(gets) \cup T))
  BY <1>2, StoreCounts
<1>4. CASE puts # <<>> /\ Len(items) < StoreCapacity
  <2>1. PICK i, is, ps, es : i = Head(puts) /\ is = Enter(items, i) /\ ps = Tail(puts) /\ es = Append(evs, PutEvent(i))
    OBVIOUS
  <2>2. b.gets = gets /\ b.puts = ps /\ b.items = is /\ b.events = es
    BY <1>4, <2>1 DEF TriggerPut, Of
  <2>3. CanPut(items, puts, S, T)
    BY <1>4 DEF CanPut, PutReady
  <2>4. Stored(items, evs, is, es, i) /\ Agrees(storeKind, sq, is, ps, gets, es, S, L, P, T)
    BY <2>1, <2>3, PutServed
  <2>5. PutsWoken(is, ps, gets, P, T)
    BY <1>1, <1>3, <1>4, <2>1, <2>4 DEF PutsWoken, Stored, PutReady
  <2>6. GetsWoken(storeKind, fl, is, gets, es)
    <3>1. CASE storeKind = "filter"
      <4>1. \A x \in StoreItems : PutEvent(x) \in ToSet(evs) => PutEvent(x) \in ToSet(es)
        BY <2>4 DEF Stored, PutItems
      <4>2. PutEvent(i) \in ToSet(es)
        BY <2>4 DEF PutItems, Stored
      <4>3. ToSet(items) \subseteq StoreItems
        BY AgreesTypes, AgreesLess
      <4> QED
        BY <2>4, <3>1, <4>1, <4>2, <4>3 DEF GetsWoken, Stored, PutReady
    <3>2. CASE storeKind # "filter"
      <4>1. Cardinality(PutItems(es)) = Cardinality(PutItems(evs)) + 1 /\ Cardinality(PutItems(evs)) \in Nat
        BY <1>2, <2>4, StoreCounts, FS_AddElement DEF Stored
      <4> QED
        BY <1>1, <2>4, <3>2, <4>1 DEF GetsWoken, Stored, PutReady
    <3> QED
      BY <3>1, <3>2
  <2>7. ToSet(ps) \subseteq ToSet(puts)
    BY <1>4, <2>1, OnceTail DEF Agrees
  <2> QED
    BY <2>1, <2>2, <2>4, <2>5, <2>6, <2>7 DEF BackendOK, PutBack
<1>5. CASE ~(puts # <<>> /\ Len(items) < StoreCapacity)
  <2>1. b.gets = gets /\ b.puts = puts /\ b.items = items /\ b.events = evs
    BY <1>5 DEF TriggerPut, Of
  <2>2. PutsWoken(items, puts, gets, P, T)
    BY <1>1, <1>3, <1>5 DEF PutsWoken
  <2>3. ~(puts # <<>> /\ Head(puts) \in S)
    <3> SUFFICES ASSUME puts # <<>>, Head(puts) \in S PROVE FALSE
      OBVIOUS
    <3>1. PICK i : i = Head(puts) /\ i \in ToSet(puts)
      BY OnceTail DEF Agrees
    <3>2. i \notin ToSet(items) /\ i \in S
      BY <3>1 DEF Agrees
    <3>3. PICK S1 : S1 = ToSet(items) \cup (S \cap (T \cup ToSet(puts)))
      OBVIOUS
    <3>4. Cardinality(S1) <= StoreCapacity
      BY <3>3, AgreesFits
    <3>5. S \subseteq StoreItems /\ L \subseteq StoreItems
      BY AgreesTypes
    <3>6. ToSet(items) \cup ToSet(puts) \subseteq L
      BY AgreesLess
    <3>7. S1 \subseteq StoreItems
      BY <3>3, <3>5, <3>6
    <3>8. IsFiniteSet(S1)
      BY <3>7, StoreAssumption, FS_Subset
    <3>9. PICK U : U = ToSet(items) \cup {i}
      OBVIOUS
    <3>10. U \subseteq S1
      BY <3>1, <3>2, <3>3, <3>9
    <3>11. IsFiniteSet(ToSet(items)) /\ Cardinality(ToSet(items)) = Len(items)
      BY OnceCount DEF Agrees
    <3>12. Cardinality(U) = Len(items) + 1
      BY <3>2, <3>9, <3>11, FS_AddElement
    <3>13. Cardinality(U) <= Cardinality(S1) /\ Cardinality(S1) \in Nat
      BY <3>8, <3>10, FS_Subset, FS_CardinalityType
    <3> QED
      BY <1>1, <1>5, <3>4, <3>12, <3>13
  <2>4. GetsWoken(storeKind, fl, items, gets, evs)
    BY DEF PutReady
  <2> QED
    BY <2>1, <2>2, <2>3, <2>4 DEF BackendOK, PutBack
<1> QED
  BY <1>4, <1>5

-----------------------------------------------------------------------------
\* The get g can be served.  A fifo store serves the first one with anything.
CanGet(kind, fl, items, gets, g) ==
    /\ g \in ToSet(gets) /\ Matches(fl, g, items) # {}
    /\ kind = "fifo" => g = Head(gets) /\ fl[g] = StoreItems

\* The backend after some get was tried: an item and its get may be gone.
Served(items, puts, gets, evs, c) ==
    /\ c.puts = puts /\ ToSet(c.items) \subseteq ToSet(items) /\ PutItems(c.events) = PutItems(evs)
    /\ ToSet(c.gets) \subseteq ToSet(gets)

\* An item was taken for the get g.
Took(items, gets, g, c) == Len(c.items) = Len(items) - 1 /\ ToSet(c.gets) = ToSet(gets) \ {g}

\* c is the backend after g was served, or tried.
ServesTo(fl, items, puts, gets, evs, g, c) == c = ServeGet(fl, Of(items, puts, gets, evs), g)
TriesTo(fl, items, puts, gets, evs, g, c) == c = TryGet(fl, Of(items, puts, gets, evs), g)

\* The first item that a get accepts.
LEMMA FirstMatch ==
    ASSUME NEW items \in Seq(StoreItems), NEW fl, NEW g, Matches(fl, g, items) # {},
           NEW k, k = Min(Matches(fl, g, items))
    PROVE  k \in 1..Len(items) /\ items[k] \in fl[g] /\ \A j \in 1..Len(items) : items[j] \in fl[g] => k <= j
<1>1. Len(items) \in Nat /\ DOMAIN items = 1..Len(items)
  BY LenProperties
<1>2. PICK M : M = Matches(fl, g, items)
  OBVIOUS
<1>3. M \subseteq Nat /\ M # {}
  BY <1>1, <1>2 DEF Matches
<1>4. \E x \in M : \A y \in M : x <= y
  BY <1>3, Least
<1>5. k \in M /\ \A y \in M : k <= y
  BY <1>2, <1>4 DEF Min
<1> QED
  BY <1>1, <1>2, <1>5 DEF Matches

\* A get is served.
LEMMA GetServed ==
    ASSUME NEW sq, NEW fl, NEW items, NEW puts, NEW gets, NEW evs, NEW S, NEW L, NEW P, NEW T, NEW g,
           Agrees(storeKind, sq, items, puts, gets, evs, S, L, P, T), CanGet(storeKind, fl, items, gets, g),
           NEW c, ServesTo(fl, items, puts, gets, evs, g, c)
    PROVE  /\ Agrees(storeKind, sq, c.items, c.puts, c.gets, c.events, S, L, P, T)
           /\ Served(items, puts, gets, evs, c)
           /\ Took(items, gets, g, c)
<1> /\ sq \in [StoreItems \cup StoreGets -> Nat]
    /\ items \in Seq(StoreItems) /\ puts \in Seq(StoreItems) /\ gets \in Seq(StoreGets) /\ evs \in Seq(StoreEvent)
    /\ AllOnce(items) /\ AllOnce(gets) /\ AllOnce(puts)
  BY DEF Agrees
<1>1. PICK k : k = Min(Matches(fl, g, items))
  OBVIOUS
<1>2. k \in 1..Len(items) /\ items[k] \in fl[g] /\ \A j \in 1..Len(items) : items[j] \in fl[g] => k <= j
  BY <1>1, FirstMatch DEF CanGet
<1>3. PICK x : x = items[k]
  OBVIOUS
<1>4. PICK is : is = RemoveAt(items, k)
  OBVIOUS
<1>5. /\ is \in Seq(StoreItems) /\ AllOnce(is) /\ ToSet(is) = ToSet(items) \ {x} /\ Len(is) = Len(items) - 1
      /\ \A a, b : Before(is, a, b) => Before(items, a, b)
      /\ x \in ToSet(items)
  BY <1>2, <1>3, <1>4, OnceRemove
<1>6. PICK m : m = CHOOSE j \in DOMAIN gets : gets[j] = g
  OBVIOUS
<1>7. m \in 1..Len(gets) /\ gets[m] = g
  BY <1>6, LenProperties DEF CanGet, ToSet
<1>8. PICK gs : gs = RemoveAt(gets, m)
  OBVIOUS
<1>9. /\ gs \in Seq(StoreGets) /\ AllOnce(gs) /\ ToSet(gs) = ToSet(gets) \ {g}
      /\ \A a, b : Before(gs, a, b) => Before(gets, a, b)
  BY <1>7, <1>8, OnceRemove
<1>10. ToSet(items) \subseteq StoreItems /\ ToSet(gets) \subseteq StoreGets /\ ToSet(puts) \subseteq StoreItems
  BY ElementOfSeq, LenProperties DEF ToSet
<1>11. x \in StoreItems /\ g \in StoreGets
  BY <1>5, <1>10 DEF CanGet
<1>12. PICK es : es = Append(evs, GetEvent(g, x))
  OBVIOUS
<1>13. /\ es \in Seq(StoreEvent) /\ \A i \in StoreItems : Once(es, PutEvent(i))
       /\ PutItems(es) = PutItems(evs)
  BY <1>11, <1>12, PutItemsSame DEF Agrees
<1>14. c.items = is /\ c.puts = puts /\ c.gets = gs /\ c.events = es
  BY <1>1, <1>3, <1>4, <1>6, <1>8, <1>12 DEF ServeGet, Of, ServesTo
<1>15. PICK S1, L1, P1 :
        /\ S1 = ToSet(items) \cup (S \cap (T \cup ToSet(puts)))
        /\ L1 = ToSet(items) \cup ToSet(puts) \cup (T \cap StoreItems)
        /\ P1 = ToSet(gets) \cup (T \cap StoreGets)
  OBVIOUS
<1>16. PICK S2, L2, P2 : S2 = S1 \ {x} /\ L2 = L1 \ {x} /\ P2 = P1 \ {g}
  OBVIOUS
<1>17. x \notin T /\ x \notin ToSet(puts) /\ g \notin T /\ g \in ToSet(gets)
  BY <1>5 DEF Agrees, CanGet
<1>18. /\ S2 = ToSet(is) \cup (S \cap (T \cup ToSet(puts)))
       /\ L2 = ToSet(is) \cup ToSet(puts) \cup (T \cap StoreItems)
       /\ P2 = ToSet(gs) \cup (T \cap StoreGets)
  BY <1>5, <1>9, <1>15, <1>16, <1>17
<1>19. Follows(storeKind, sq, evs, S, L, P, S1, L1, P1)
  BY <1>15 DEF Agrees
<1>20. ASSUME storeKind = "fifo"
       PROVE  (\A y \in P1 : sq[g] <= sq[y]) /\ (\A y \in L1 : sq[x] <= sq[y])
  <2>1. ASSUME NEW y \in P1 PROVE sq[g] <= sq[y]
    <3>1. g = Head(gets) /\ gets # <<>>
      BY <1>17, <1>20, NoneIn DEF CanGet
    <3>2. y = g \/ y \in ToSet(Tail(gets)) \/ y \in T \cap StoreGets
      BY <1>15, <3>1, OnceTail
    <3>3. y \in ToSet(Tail(gets)) => Before(gets, g, y)
      BY <3>1, OnceTail
    <3>4. Before(gets, g, y) => sq[g] < sq[y]
      BY <1>20, BeforeIn DEF Agrees, SortedBy
    <3>5. y \in T \cap StoreGets => sq[g] < sq[y]
      BY <1>17, <1>20 DEF Agrees
    <3>6. sq[g] \in Nat /\ sq[y] \in Nat
      BY <1>10, <1>11, <1>15
    <3> QED
      BY <3>2, <3>3, <3>4, <3>5, <3>6
  <2>2. ASSUME NEW y \in L1 PROVE sq[x] <= sq[y]
    <3>1. fl[g] = StoreItems /\ Len(items) \in Nat /\ DOMAIN items = 1..Len(items)
      BY <1>20, LenProperties DEF CanGet
    <3>2. ASSUME y \in ToSet(items), y # x PROVE Before(items, x, y)
      <4>1. PICK j \in 1..Len(items) : items[j] = y
        BY <3>1, <3>2 DEF ToSet
      <4>2. k <= j /\ j # k
        BY <1>2, <1>3, <3>1, <3>2, <4>1, <1>10
      <4>3. k < j
        BY <1>2, <3>1, <4>2
      <4> QED
        BY <1>2, <1>3, <3>1, <4>1, <4>3 DEF Before
    <3>3. Before(items, x, y) => sq[x] < sq[y]
      BY <1>20, BeforeIn DEF Agrees, SortedBy
    <3>4. y \in ToSet(puts) \/ y \in T \cap StoreItems => sq[x] < sq[y]
      BY <1>5, <1>20 DEF Agrees
    <3>5. sq[x] \in Nat /\ sq[y] \in Nat
      BY <1>10, <1>11, <1>15
    <3> QED
      BY <1>15, <3>2, <3>3, <3>4, <3>5
  <2> QED
    BY <2>1, <2>2
<1>21. x \in S1 /\ g \in P1
  BY <1>5, <1>15, <1>17
<1>22. Moves(storeKind, sq, GetEvent(g, x), S1, L1, P1, S2, L2, P2)
  BY <1>11, <1>16, <1>20, <1>21 DEF Moves
<1>23. Cardinality(S2) <= StoreCapacity
  <2>1. Cardinality(S1) <= StoreCapacity
    BY <1>19, FollowsFits
  <2>2. S1 \in SUBSET StoreItems
    BY <1>19, FollowsTypes
  <2>3. IsFiniteSet(S1)
    BY <2>2, StoreAssumption, FS_Subset
  <2>4. Cardinality(S2) <= Cardinality(S1) /\ Cardinality(S1) \in Nat /\ IsFiniteSet(S2)
    BY <1>16, <2>3, FS_Subset, FS_CardinalityType
  <2>5. Cardinality(S2) \in Nat /\ StoreCapacity \in Nat
    BY <2>4, FS_CardinalityType, StoreAssumption
  <2> QED
    BY <2>1, <2>4, <2>5
<1>24. Follows(storeKind, sq, es, S, L, P, S2, L2, P2)
  BY <1>11, <1>12, <1>19, <1>22, <1>23, FollowsAppend, EventIs
<1>25. ASSUME storeKind = "fifo"
       PROVE  /\ SortedBy(sq, is) /\ SortedBy(sq, puts) /\ SortedBy(sq, gs)
              /\ \A a \in ToSet(is), b \in ToSet(puts) : sq[a] < sq[b]
              /\ \A a \in ToSet(is) \cup ToSet(puts), b \in T \cap StoreItems : sq[a] < sq[b]
              /\ \A a \in ToSet(gs), b \in T \cap StoreGets : sq[a] < sq[b]
  <2>1. SortedBy(sq, is) /\ SortedBy(sq, gs) /\ SortedBy(sq, puts)
    BY <1>5, <1>9, <1>25 DEF Agrees, SortedBy
  <2>2. /\ \A a \in ToSet(is), b \in ToSet(puts) : sq[a] < sq[b]
        /\ \A a \in ToSet(is) \cup ToSet(puts), b \in T \cap StoreItems : sq[a] < sq[b]
        /\ \A a \in ToSet(gs), b \in T \cap StoreGets : sq[a] < sq[b]
    BY <1>5, <1>9, <1>25 DEF Agrees
  <2> QED
    BY <2>1, <2>2
<1>26. /\ ToSet(is) \cap ToSet(puts) = {} /\ (ToSet(is) \cup ToSet(puts) \cup ToSet(gs)) \cap T = {}
       /\ PutItems(es) \cap (ToSet(puts) \cup T) = {}
  BY <1>5, <1>9, <1>13 DEF Agrees
<1>27. Len(is) <= StoreCapacity
  BY <1>5, StoreAssumption, LenProperties DEF Agrees
<1>28. Agrees(storeKind, sq, is, puts, gs, es, S, L, P, T)
  BY <1>5, <1>9, <1>13, <1>18, <1>24, <1>25, <1>26, <1>27, Zenon DEF Agrees
<1>29. Served(items, puts, gets, evs, c)
  BY <1>5, <1>9, <1>13, <1>14 DEF Served
<1>30. Took(items, gets, g, c)
  BY <1>5, <1>9, <1>14 DEF Took
<1> QED
  BY <1>14, <1>28, <1>29, <1>30

IsBackend(b) == b = Of(b.items, b.puts, b.gets, b.events)

\* The get g may be tried.
CanTry(kind, fl, gets, g) == g \in ToSet(gets) /\ (kind = "fifo" => g = Head(gets) /\ fl[g] = StoreItems)

\* The get g was tried: it is gone with an item, or it accepts none.
Tried(fl, items, gets, g, c) ==
    /\ ToSet(gets) \ {g} \subseteq ToSet(c.gets)
    /\ g \in ToSet(c.gets) => \A x \in ToSet(c.items) : x \notin fl[g]
    /\ \/ Matches(fl, g, items) = {} /\ c.items = items /\ c.gets = gets
       \/ Matches(fl, g, items) # {} /\ Took(items, gets, g, c)

\* A get is tried: it is served, or nothing changes.
LEMMA TryKeeps ==
    ASSUME NEW sq, NEW fl, NEW items, NEW puts, NEW gets, NEW evs, NEW S, NEW L, NEW P, NEW T, NEW g,
           Agrees(storeKind, sq, items, puts, gets, evs, S, L, P, T), PutsWoken(items, puts, gets, P, T),
           CanTry(storeKind, fl, gets, g),
           NEW c, TriesTo(fl, items, puts, gets, evs, g, c)
    PROVE  /\ IsBackend(c)
           /\ Agrees(storeKind, sq, c.items, c.puts, c.gets, c.events, S, L, P, T)
           /\ PutsWoken(c.items, c.puts, c.gets, P, T)
           /\ Served(items, puts, gets, evs, c) /\ Tried(fl, items, gets, g, c)
<1> items \in Seq(StoreItems) /\ gets \in Seq(StoreGets) /\ Len(items) \in Nat /\ DOMAIN items = 1..Len(items)
  BY LenProperties DEF Agrees
<1>1. CASE Matches(fl, g, items) = {}
  <2>1. c = Of(items, puts, gets, evs)
    BY <1>1 DEF TryGet, Of, TriesTo
  <2>2. c.items = items /\ c.puts = puts /\ c.gets = gets /\ c.events = evs /\ IsBackend(c)
    BY <2>1 DEF IsBackend, Of
  <2>3. \A x \in ToSet(items) : x \notin fl[g]
    BY <1>1 DEF Matches, ToSet
  <2>4. Served(items, puts, gets, evs, c) /\ Tried(fl, items, gets, g, c)
    BY <1>1, <2>2, <2>3 DEF Served, Tried
  <2> QED
    BY <2>2, <2>4
<1>2. CASE Matches(fl, g, items) # {}
  <2>1. ServesTo(fl, items, puts, gets, evs, g, c)
    BY <1>2 DEF TryGet, Of, TriesTo, ServesTo
  <2>2. CanGet(storeKind, fl, items, gets, g)
    BY <1>2 DEF CanGet, CanTry
  <2>3. /\ Agrees(storeKind, sq, c.items, c.puts, c.gets, c.events, S, L, P, T)
        /\ Served(items, puts, gets, evs, c)
        /\ Took(items, gets, g, c)
    BY <2>1, <2>2, GetServed
  <2>4. IsBackend(c)
    BY <2>1 DEF ServeGet, IsBackend, Of, ServesTo
  <2>5. Tried(fl, items, gets, g, c)
    BY <1>2, <2>3 DEF Tried, Took
  <2>6. PutsWoken(c.items, c.puts, c.gets, P, T)
    <3>1. PICK A, B : A = P \ (ToSet(gets) \cup T) /\ B = P \ (ToSet(c.gets) \cup T)
      OBVIOUS
    <3>2. g \in ToSet(gets) /\ g \notin T
      BY DEF CanTry, Agrees
    <3>3. g \in P
      BY <3>2, AgreesLess
    <3>4. B = A \cup {g} /\ g \notin A
      BY <2>3, <3>1, <3>2, <3>3 DEF Took
    <3>5. P \in SUBSET StoreGets
      BY AgreesTypes
    <3>6. IsFiniteSet(A) /\ Cardinality(A) \in Nat
      BY <3>1, <3>5, StoreCounts
    <3>7. Cardinality(B) = Cardinality(A) + 1
      BY <3>4, <3>6, FS_AddElement
    <3>8. c.puts = puts
      BY <2>3 DEF Served
    <3> QED
      <4>1. puts # <<>> => StoreCapacity <= Len(items) + Cardinality(A)
        BY <3>1 DEF PutsWoken
      <4>2. Len(c.items) = Len(items) - 1 /\ StoreCapacity \in Nat
        BY <2>3, StoreAssumption DEF Took
      <4>3. puts # <<>> => StoreCapacity <= Len(c.items) + Cardinality(B)
        <5>1. PICK x, y, u, v : x = Len(items) /\ y = Len(c.items) /\ u = Cardinality(A) /\ v = Cardinality(B)
          OBVIOUS
        <5>2. x \in Nat /\ u \in Nat /\ StoreCapacity \in Nat /\ y = x - 1 /\ v = u + 1
          BY <3>6, <3>7, <4>2, <5>1
        <5>3. x + u = y + v
          BY <5>2
        <5> QED
          BY <4>1, <5>1, <5>3
      <4> QED
        BY <3>1, <3>8, <4>3 DEF PutsWoken
  <2> QED
    BY <2>3, <2>4, <2>5, <2>6
<1> QED
  BY <1>1, <1>2

-----------------------------------------------------------------------------
\* The backends f[k] after the first k gets of b were tried.
IsPass(fl, b, f, n) == f = [k \in 0..n |-> IF k = 0 THEN b ELSE TryGet(fl, f[k - 1], b.gets[k])]

\* There is such a function.
LEMMA PassExists ==
    ASSUME NEW fl, NEW b, NEW n \in Nat
    PROVE  \E f : IsPass(fl, b, f, n)
<1> DEFINE Lacking == {k \in Nat : ~\E f : IsPass(fl, b, f, k)}
<1> SUFFICES ASSUME Lacking # {} PROVE FALSE
  OBVIOUS
<1>1. PICK m \in Lacking : \A k \in Lacking : m <= k
  BY Least
<1>2. m # 0
  <2>1. PICK f : f = [k \in 0..0 |-> b]
    OBVIOUS
  <2>2. f = [k \in 0..0 |-> IF k = 0 THEN b ELSE TryGet(fl, f[k - 1], b.gets[k])]
    BY <2>1
  <2> QED
    BY <2>2 DEF IsPass
<1>3. m - 1 \in Nat /\ ~(m <= m - 1) /\ m \in Nat
  BY <1>2
<1>4. PICK f : IsPass(fl, b, f, m - 1)
  BY <1>1, <1>3
<1>5. PICK h : h = [k \in 0..m |-> IF k = m THEN TryGet(fl, f[m - 1], b.gets[m]) ELSE f[k]]
  OBVIOUS
<1>6. \A k \in 0..m - 1 : f[k] = IF k = 0 THEN b ELSE TryGet(fl, f[k - 1], b.gets[k])
  BY <1>4 DEF IsPass
<1>7. /\ \A k \in 0..m : k # m => k \in 0..m - 1
      /\ \A k \in 0..m : k # 0 => k - 1 \in 0..m /\ k - 1 # m
  BY <1>3
<1>8. \A k \in 0..m - 1 : h[k] = f[k]
  BY <1>3, <1>5
<1>9. \A k \in 0..m : h[k] = IF k = 0 THEN b ELSE TryGet(fl, h[k - 1], b.gets[k])
  <2> SUFFICES ASSUME NEW k \in 0..m PROVE h[k] = IF k = 0 THEN b ELSE TryGet(fl, h[k - 1], b.gets[k])
    OBVIOUS
  <2>1. CASE k = m
    <3>1. h[k - 1] = f[m - 1]
      BY <1>3, <1>8, <2>1
    <3> QED
      BY <1>2, <1>5, <2>1, <3>1
  <2>2. CASE k # m
    <3>1. k \in 0..m - 1
      BY <1>7, <2>2
    <3>2. k # 0 => h[k - 1] = f[k - 1]
      BY <1>3, <1>8, <3>1
    <3> QED
      BY <1>6, <1>8, <3>1, <3>2
  <2> QED
    BY <2>1, <2>2
<1>10. h = [k \in 0..m |-> IF k = 0 THEN b ELSE TryGet(fl, h[k - 1], b.gets[k])]
  BY <1>5, <1>9
<1> QED
  BY <1>3, <1>10 DEF IsPass

\* The backend after each get of the queue was tried.
LEMMA TriedGetsIs ==
    ASSUME NEW fl, NEW b, NEW n \in Nat, n = Len(b.gets)
    PROVE  IsPass(fl, b, TriedGets(fl, b), n)
<1>1. \E f : IsPass(fl, b, f, n)
  BY PassExists
<1>2. TriedGets(fl, b) = CHOOSE f : f = [k \in 0..Len(b.gets) |-> IF k = 0 THEN b ELSE TryGet(fl, f[k - 1], b.gets[k])]
  BY DEF TriedGets
<1>3. TriedGets(fl, b) = CHOOSE f : IsPass(fl, b, f, n)
  BY <1>2 DEF IsPass
<1> QED
  BY <1>1, <1>3

\* Somewhere in a pass of a filter store: the gets so far are gone or accept
\* nothing, the others are still to be tried.
Passing(sq, fl, b, S, L, P, T, c, k) ==
    /\ IsBackend(c)
    /\ Agrees(storeKind, sq, c.items, c.puts, c.gets, c.events, S, L, P, T)
    /\ PutsWoken(c.items, c.puts, c.gets, P, T)
    /\ Served(b.items, b.puts, b.gets, b.events, c)
    /\ \A j \in 1..Len(b.gets) :
          IF j <= k THEN b.gets[j] \in ToSet(c.gets) => \A x \in ToSet(c.items) : x \notin fl[b.gets[j]]
                    ELSE b.gets[j] \in ToSet(c.gets)

\* The next get of a pass is tried.
LEMMA PassStep ==
    ASSUME NEW sq, NEW fl, NEW b, NEW S, NEW L, NEW P, NEW T, storeKind = "filter", AllOnce(b.gets),
           NEW n \in Nat, n = Len(b.gets), DOMAIN b.gets = 1..n, NEW k \in 1..n,
           NEW c, Passing(sq, fl, b, S, L, P, T, c, k - 1),
           NEW d, d = TryGet(fl, c, b.gets[k])
    PROVE  Passing(sq, fl, b, S, L, P, T, d, k)
<1>1. PICK g : g = b.gets[k]
  OBVIOUS
<1>2. ~(k <= k - 1) /\ \A j \in 1..n : j <= k - 1 <=> (j <= k /\ j # k)
  OBVIOUS
<1>3. g \in ToSet(c.gets)
  BY <1>1, <1>2 DEF Passing
<1>4. CanTry(storeKind, fl, c.gets, g)
  BY <1>3 DEF CanTry
<1>5. TriesTo(fl, c.items, c.puts, c.gets, c.events, g, d)
  <2>1. c = Of(c.items, c.puts, c.gets, c.events)
    BY DEF Passing, IsBackend
  <2> QED
    BY <1>1, <2>1 DEF TriesTo
<1>6. /\ Agrees(storeKind, sq, c.items, c.puts, c.gets, c.events, S, L, P, T)
      /\ PutsWoken(c.items, c.puts, c.gets, P, T)
      /\ Served(b.items, b.puts, b.gets, b.events, c)
  BY DEF Passing
<1>7. /\ IsBackend(d)
      /\ Agrees(storeKind, sq, d.items, d.puts, d.gets, d.events, S, L, P, T)
      /\ PutsWoken(d.items, d.puts, d.gets, P, T)
      /\ Served(c.items, c.puts, c.gets, c.events, d) /\ Tried(fl, c.items, c.gets, g, d)
  BY <1>4, <1>5, <1>6, TryKeeps
<1>8. Served(b.items, b.puts, b.gets, b.events, d)
  BY <1>6, <1>7 DEF Served
<1>9. ASSUME NEW j \in 1..n
      PROVE  IF j <= k THEN b.gets[j] \in ToSet(d.gets) => \A x \in ToSet(d.items) : x \notin fl[b.gets[j]]
                       ELSE b.gets[j] \in ToSet(d.gets)
  <2>1. CASE j = k
    BY <1>1, <1>7, <2>1 DEF Tried
  <2>2. CASE j <= k /\ j # k
    <3>1. b.gets[j] \in ToSet(c.gets) => \A x \in ToSet(c.items) : x \notin fl[b.gets[j]]
      BY <1>2, <2>2 DEF Passing
    <3> QED
      BY <1>7, <2>2, <3>1 DEF Served
  <2>3. CASE ~(j <= k)
    <3>1. b.gets[j] \in ToSet(c.gets)
      BY <1>2, <2>3 DEF Passing
    <3>2. b.gets[j] # g
      <4>1. j # k
        BY <2>3
      <4> QED
        BY <1>1, <4>1 DEF AllOnce, Once, ToSet
    <3> QED
      BY <1>7, <2>3, <3>1, <3>2 DEF Tried
  <2> QED
    BY <2>1, <2>2, <2>3
<1> QED
  BY <1>7, <1>8, <1>9 DEF Passing

\* A whole pass.
LEMMA PassKeeps ==
    ASSUME NEW sq, NEW fl, NEW b, NEW S, NEW L, NEW P, NEW T, storeKind = "filter", AllOnce(b.gets),
           NEW n \in Nat, n = Len(b.gets), DOMAIN b.gets = 1..n,
           Passing(sq, fl, b, S, L, P, T, b, 0)
    PROVE  Passing(sq, fl, b, S, L, P, T, TriedGets(fl, b)[n], n)
<1>1. PICK f : f = TriedGets(fl, b)
  OBVIOUS
<1>2. IsPass(fl, b, f, n)
  BY <1>1, TriedGetsIs
<1>3. \A k \in 0..n : f[k] = IF k = 0 THEN b ELSE TryGet(fl, f[k - 1], b.gets[k])
  BY <1>2 DEF IsPass
<1> DEFINE Not == {k \in 0..n : ~Passing(sq, fl, b, S, L, P, T, f[k], k)}
<1>4. ASSUME Not # {} PROVE FALSE
  <2>1. Not \in SUBSET Nat
    OBVIOUS
  <2>2. PICK m \in Not : \A k \in Not : m <= k
    BY <1>4, <2>1, Least
  <2>3. m # 0
    <3>1. f[0] = b
      BY <1>3
    <3> QED
      BY <2>2, <3>1
  <2>4. m \in 1..n /\ m - 1 \in 0..n /\ ~(m <= m - 1)
    BY <2>2, <2>3
  <2>5. Passing(sq, fl, b, S, L, P, T, f[m - 1], m - 1)
    BY <2>2, <2>4
  <2>6. f[m] = TryGet(fl, f[m - 1], b.gets[m])
    BY <1>3, <2>3, <2>4
  <2>7. Passing(sq, fl, b, S, L, P, T, f[m], m)
    BY <2>4, <2>5, <2>6, PassStep
  <2> QED
    BY <2>2, <2>7
<1>5. n \in 0..n
  OBVIOUS
<1> QED
  BY <1>1, <1>4, <1>5

\* The backend is in order but for the first get, which a trigger is to serve.
GetReady(kind, sq, fl, items, puts, gets, evs, S, L, P, T) ==
    /\ Agrees(kind, sq, items, puts, gets, evs, S, L, P, T)
    /\ PutsWoken(items, puts, gets, P, T)
    /\ kind # "filter" =>
          /\ \A g \in ToSet(gets) : fl[g] = StoreItems
          /\ gets # <<>> /\ Tail(gets) # <<>> => Len(items) <= Cardinality(PutItems(evs)) + 1

\* A trigger of the gets.
LEMMA TriggerGetKeeps ==
    ASSUME NEW sq, NEW fl, NEW items, NEW puts, NEW gets, NEW evs, NEW S, NEW L, NEW P, NEW T,
           GetReady(storeKind, sq, fl, items, puts, gets, evs, S, L, P, T),
           NEW c, c = TriggerGet(fl, Of(items, puts, gets, evs))
    PROVE  /\ BackendOK(storeKind, sq, fl, c.items, c.puts, c.gets, c.events, S, L, P, T)
           /\ c.puts = puts /\ ToSet(c.gets) \subseteq ToSet(gets)
<1> PICK b : b = Of(items, puts, gets, evs)
  OBVIOUS
<1>1. b.items = items /\ b.puts = puts /\ b.gets = gets /\ b.events = evs /\ IsBackend(b)
  BY DEF Of, IsBackend
<1>2. /\ Agrees(storeKind, sq, items, puts, gets, evs, S, L, P, T)
      /\ PutsWoken(items, puts, gets, P, T)
      /\ items \in Seq(StoreItems) /\ gets \in Seq(StoreGets) /\ AllOnce(gets) /\ AllOnce(items)
  BY DEF GetReady, Agrees
<1>3. PICK n \in Nat : n = Len(gets) /\ DOMAIN gets = 1..n
  BY <1>2, LenProperties
<1>4. CASE storeKind = "filter"
  <2>1. Served(items, puts, gets, evs, b)
    BY <1>1 DEF Served
  <2>2. \A j \in 1..n : ~(j <= 0) /\ gets[j] \in ToSet(gets)
    BY <1>3 DEF ToSet
  <2>3. Passing(sq, fl, b, S, L, P, T, b, 0)
    BY <1>1, <1>2, <1>3, <2>1, <2>2 DEF Passing
  <2>4. c = TriedGets(fl, b)[n]
    BY <1>1, <1>3, <1>4 DEF TriggerGet
  <2>5. Passing(sq, fl, b, S, L, P, T, c, n)
    BY <1>1, <1>2, <1>3, <1>4, <2>3, <2>4, PassKeeps
  <2>6. /\ Agrees(storeKind, sq, c.items, c.puts, c.gets, c.events, S, L, P, T)
        /\ PutsWoken(c.items, c.puts, c.gets, P, T)
        /\ c.puts = puts /\ ToSet(c.gets) \subseteq ToSet(gets)
    BY <1>1, <2>5 DEF Passing, Served
  <2>7. ASSUME NEW g \in ToSet(c.gets), NEW x \in ToSet(c.items) PROVE x \notin fl[g]
    <3>1. PICK j \in 1..n : gets[j] = g
      BY <1>3, <2>6 DEF ToSet
    <3>2. j <= n
      BY <3>1
    <3> QED
      BY <1>1, <1>3, <2>5, <2>7, <3>1, <3>2 DEF Passing
  <2>8. GetsWoken(storeKind, fl, c.items, c.gets, c.events)
    BY <1>4, <2>7 DEF GetsWoken
  <2> QED
    BY <2>6, <2>8 DEF BackendOK
<1>5. CASE storeKind # "filter" /\ gets = <<>>
  <2>1. c = b
    BY <1>1, <1>5 DEF TriggerGet
  <2>2. GetsWoken(storeKind, fl, items, gets, evs)
    BY <1>5 DEF GetsWoken
  <2> QED
    BY <1>1, <1>2, <2>1, <2>2 DEF BackendOK
<1>6. CASE storeKind # "filter" /\ gets # <<>>
  <2>1. PICK g : g = Head(gets) /\ g \in ToSet(gets)
    BY <1>2, <1>6, OnceTail
  <2>2. fl[g] = StoreItems
    BY <1>6, <2>1 DEF GetReady
  <2>3. CanTry(storeKind, fl, gets, g)
    BY <2>1, <2>2 DEF CanTry
  <2>4. TriesTo(fl, items, puts, gets, evs, g, c)
    BY <1>1, <1>6, <2>1 DEF TriesTo, TriggerGet
  <2>5. /\ Agrees(storeKind, sq, c.items, c.puts, c.gets, c.events, S, L, P, T)
        /\ PutsWoken(c.items, c.puts, c.gets, P, T)
        /\ Served(items, puts, gets, evs, c) /\ Tried(fl, items, gets, g, c)
    BY <1>2, <2>3, <2>4, TryKeeps
  <2>6. Len(items) \in Nat /\ DOMAIN items = 1..Len(items)
    BY <1>2, LenProperties
  <2>7. P \in SUBSET StoreGets
    BY <1>2, AgreesTypes
  <2>8. PICK m \in Nat : m = Cardinality(PutItems(evs)) /\ m = Cardinality(PutItems(c.events))
    BY <2>5, <2>7, StoreCounts DEF Served
  <2>9. c.gets # <<>> => Len(c.items) <= m
    <3>1. CASE Matches(fl, g, items) = {} /\ c.items = items
      <4>1. \A j \in 1..Len(items) : items[j] \in StoreItems
        BY <1>2, ElementOfSeq
      <4>2. 1 \notin 1..Len(items)
        BY <2>2, <2>6, <3>1, <4>1 DEF Matches
      <4>3. Len(items) = 0
        BY <2>6, <4>2
      <4> QED
        BY <3>1, <4>3
    <3>2. CASE Took(items, gets, g, c)
      <4> SUFFICES ASSUME c.gets # <<>> PROVE Len(c.items) <= m
        OBVIOUS
      <4>1. c.gets \in Seq(StoreGets)
        BY <2>5 DEF Agrees
      <4>2. ToSet(c.gets) # {}
        BY <4>1, NoneIn
      <4>3. Tail(gets) \in Seq(StoreGets) /\ ToSet(Tail(gets)) = ToSet(gets) \ {g}
        BY <1>2, <1>6, <2>1, OnceTail
      <4>4. ToSet(Tail(gets)) # {}
        BY <3>2, <4>2, <4>3 DEF Took
      <4>5. Tail(gets) # <<>>
        BY <4>3, <4>4, NoneIn
      <4>6. Len(items) <= m + 1
        BY <1>6, <2>8, <4>5 DEF GetReady
      <4>7. Len(c.items) = Len(items) - 1
        BY <3>2 DEF Took
      <4>8. PICK x, y : x = Len(items) /\ y = Len(c.items)
        OBVIOUS
      <4>9. x \in Nat /\ y = x - 1 /\ x <= m + 1
        BY <2>6, <4>6, <4>7, <4>8
      <4>10. y <= m
        BY <4>9
      <4> QED
        BY <4>8, <4>10
    <3> QED
      BY <2>5, <3>1, <3>2 DEF Tried
  <2>10. GetsWoken(storeKind, fl, c.items, c.gets, c.events)
    BY <1>6, <2>8, <2>9 DEF GetsWoken
  <2> QED
    BY <2>5, <2>10 DEF BackendOK, Served
<1> QED
  BY <1>4, <1>5, <1>6

-----------------------------------------------------------------------------
(***************************************************************************)
(* The order of a rebuild                                                  *)
(***************************************************************************)

\* The members in the order R.
LEMMA OrderedIs ==
    ASSUME NEW S, IsFiniteSet(S), NEW R, Orders(R, S), NEW q, q = Ordered(S, R)
    PROVE  /\ q \in Seq(S) /\ ToSet(q) = S /\ AllOnce(q)
           /\ \A a, b : Before(q, a, b) => <<a, b>> \in R
<1>1. PICK n \in Nat : n = Cardinality(S)
  BY FS_CardinalityType
<1>2. PICK r : r = [x \in S |-> Cardinality(Lower(S, R, x))]
  OBVIOUS
<1>3. \A x \in S : r[x] \in 0..n - 1
  BY <1>1, <1>2, RankBound
<1>4. \A x, y \in S : <<x, y>> \in R => r[x] < r[y]
  BY <1>2, RankLess
<1>5. \A k \in 1..n : \E x \in S : r[x] = k - 1
  <2> SUFFICES ASSUME NEW k \in 1..n PROVE \E x \in S : r[x] = k - 1
    OBVIOUS
  <2>1. PICK m \in 0..n - 1 : m = k - 1
    OBVIOUS
  <2>2. \E x \in S : Cardinality(Lower(S, R, x)) = m
    BY <1>1, <2>1, RankOnto
  <2> QED
    BY <1>2, <2>1, <2>2
<1>6. q = [k \in 1..n |-> CHOOSE x \in S : r[x] = k - 1]
  <2>1. \A x \in S : r[x] = Cardinality({y \in S : <<y, x>> \in R})
    BY <1>2 DEF Lower
  <2>2. \A k \in 1..n : (CHOOSE x \in S : Cardinality({y \in S : <<y, x>> \in R}) = k - 1)
                            = CHOOSE x \in S : r[x] = k - 1
    BY <2>1
  <2>3. q = [k \in 1..n |-> CHOOSE x \in S : Cardinality({y \in S : <<y, x>> \in R}) = k - 1]
    BY <1>1, Zenon DEF Ordered
  <2> QED
    BY <2>2, <2>3, Zenon
<1>7. \A k \in 1..n : q[k] \in S /\ r[q[k]] = k - 1
  BY <1>5, <1>6
<1>8. q \in [1..n -> S]
  BY <1>6, <1>7
<1>9. q \in Seq(S) /\ Len(q) = n /\ DOMAIN q = 1..n
  BY <1>8
<1>10. \A x, y \in S : r[x] = r[y] => x = y
  <2> SUFFICES ASSUME NEW x \in S, NEW y \in S, r[x] = r[y], x # y PROVE FALSE
    OBVIOUS
  <2>1. r[x] \in Int /\ r[y] \in Int
    BY <1>3
  <2>2. <<x, y>> \in R \/ <<y, x>> \in R
    BY DEF Orders
  <2> QED
    BY <1>4, <2>1, <2>2
<1>11. ToSet(q) = S
  <2>1. ASSUME NEW x \in S PROVE x \in ToSet(q)
    <3>1. PICK k \in 1..n : k = r[x] + 1 /\ r[x] = k - 1
      BY <1>3
    <3>2. q[k] = x
      BY <1>7, <1>10, <3>1
    <3> QED
      BY <1>9, <3>2 DEF ToSet
  <2> QED
    BY <1>7, <1>9, <2>1 DEF ToSet
<1>12. AllOnce(q)
  <2> SUFFICES ASSUME NEW i \in 1..n, NEW j \in 1..n, q[i] = q[j] PROVE i = j
    BY <1>9 DEF AllOnce, Once
  <2>1. i - 1 = j - 1
    BY <1>7
  <2> QED
    BY <2>1
<1>13. ASSUME NEW a, NEW b, Before(q, a, b) PROVE <<a, b>> \in R
  <2>1. PICK i \in 1..n, j \in 1..n : i < j /\ q[i] = a /\ q[j] = b
    BY <1>9, <1>13 DEF Before
  <2>2. a \in S /\ b \in S /\ r[a] = i - 1 /\ r[b] = j - 1
    BY <1>7, <2>1
  <2>3. a # b /\ ~(r[b] < r[a])
    BY <2>1, <2>2
  <2> QED
    BY <1>4, <2>2, <2>3 DEF Orders
<1> QED
  BY <1>9, <1>11, <1>12, <1>13

-----------------------------------------------------------------------------
(***************************************************************************)
(* Submissions                                                             *)
(***************************************************************************)

\* A fifo store gets items and gets in their order.
Foremost(kind, sq, x, T) ==
    kind = "fifo" => \A y \in T : y # x /\ (x \in StoreItems <=> y \in StoreItems) => sq[x] < sq[y]

\* The sequence sq2 is sq with a new number for x, greater than the others.
Numbers(sq, sq2, L, P, x) ==
    /\ sq2 \in [StoreItems \cup StoreGets -> Nat]
    /\ \A y \in L \cup P : sq2[y] = sq[y] /\ sq2[y] < sq2[x]

\* Something new is accepted, and still to be submitted.
LEMMA NewKeeps ==
    ASSUME NEW kind, NEW sq, NEW sq2, NEW fl, NEW fl2, NEW items, NEW puts, NEW gets, NEW evs, NEW S, NEW L, NEW P,
           BackendOK(kind, sq, fl, items, puts, gets, evs, S, L, P, {}),
           NEW x \in StoreItems \cup StoreGets, x \notin L, x \notin P, Numbers(sq, sq2, L, P, x),
           \A g \in StoreGets : g # x => fl2[g] = fl[g],
           NEW L2, L2 = L \cup ({x} \cap StoreItems), NEW P2, P2 = P \cup ({x} \cap StoreGets)
    PROVE  BackendOK(kind, sq2, fl2, items, puts, gets, evs, S, L2, P2, {x})
<1> PICK I, G : I = {x} \cap StoreItems /\ G = {x} \cap StoreGets
  OBVIOUS
<1>1. Agrees(kind, sq, items, puts, gets, evs, S, L, P, {})
  BY DEF BackendOK
<1>2. /\ items \in Seq(StoreItems) /\ puts \in Seq(StoreItems) /\ gets \in Seq(StoreGets) /\ evs \in Seq(StoreEvent)
      /\ sq2 \in [StoreItems \cup StoreGets -> Nat]
      /\ AllOnce(items) /\ AllOnce(puts) /\ AllOnce(gets) /\ \A i \in StoreItems : Once(evs, PutEvent(i))
      /\ Len(items) <= StoreCapacity
  BY <1>1 DEF Agrees, Numbers
<1>3. S \in SUBSET StoreItems /\ L \in SUBSET StoreItems /\ P \in SUBSET StoreGets
  BY <1>1, AgreesTypes
<1>4. S \subseteq L
  BY <1>1, AgreesFits
<1>5. ToSet(items) \subseteq L /\ ToSet(puts) \subseteq L /\ ToSet(gets) \subseteq P
  BY <1>1, AgreesLess
<1>6. PutItems(evs) \subseteq L
  BY <1>1, AgreesHas
<1>7. PICK S1, L1, P1 : /\ S1 = ToSet(items) \cup (S \cap ToSet(puts))
                        /\ L1 = ToSet(items) \cup ToSet(puts) /\ P1 = ToSet(gets)
  OBVIOUS
<1>8. Follows(kind, sq, evs, S, L, P, S1, L1, P1)
  <2>1. /\ S1 = ToSet(items) \cup (S \cap ({} \cup ToSet(puts)))
        /\ L1 = ToSet(items) \cup ToSet(puts) \cup ({} \cap StoreItems)
        /\ P1 = ToSet(gets) \cup ({} \cap StoreGets)
    BY <1>7
  <2> QED
    BY <1>1, <2>1, Zenon DEF Agrees
<1>9. Follows(kind, sq2, evs, S, L2, P2, S1, L1 \cup I, P1 \cup G)
  <2>1. I \cap L = {} /\ G \cap P = {} /\ I \in SUBSET StoreItems /\ G \in SUBSET StoreGets
    OBVIOUS
  <2>2. \A y \in L \cup P : sq2[y] = sq[y]
    BY DEF Numbers
  <2>3. \A y \in L \cup P : sq2[y] \in Nat /\ sq2[x] \in Nat /\ sq2[y] < sq2[x]
    BY <1>2, <1>3 DEF Numbers
  <2>4. (\A y \in L, z \in I : sq2[y] <= sq2[z]) /\ (\A y \in P, z \in G : sq2[y] <= sq2[z])
    BY <2>3
  <2> QED
    BY <1>2, <1>8, <2>1, <2>2, <2>4, FollowsMore
<1>10. /\ S1 = ToSet(items) \cup (S \cap ({x} \cup ToSet(puts)))
       /\ L1 \cup I = ToSet(items) \cup ToSet(puts) \cup ({x} \cap StoreItems)
       /\ P1 \cup G = ToSet(gets) \cup ({x} \cap StoreGets)
  BY <1>4, <1>7
<1>11. /\ ToSet(items) \cap ToSet(puts) = {} /\ (ToSet(items) \cup ToSet(puts) \cup ToSet(gets)) \cap {x} = {}
       /\ PutItems(evs) \cap (ToSet(puts) \cup {x}) = {}
  BY <1>1, <1>5, <1>6 DEF Agrees
<1>12. ASSUME kind = "fifo"
       PROVE  /\ SortedBy(sq2, items) /\ SortedBy(sq2, puts) /\ SortedBy(sq2, gets)
              /\ \A a \in ToSet(items), b \in ToSet(puts) : sq2[a] < sq2[b]
              /\ \A a \in ToSet(items) \cup ToSet(puts), b \in {x} \cap StoreItems : sq2[a] < sq2[b]
              /\ \A a \in ToSet(gets), b \in {x} \cap StoreGets : sq2[a] < sq2[b]
  <2>1. SortedBy(sq2, items) /\ SortedBy(sq2, puts) /\ SortedBy(sq2, gets)
    BY <1>1, <1>5, <1>12 DEF Agrees, SortedBy, Numbers
  <2>2. \A a \in ToSet(items), b \in ToSet(puts) : sq2[a] < sq2[b]
    BY <1>1, <1>5, <1>12 DEF Agrees, Numbers
  <2>3. /\ \A a \in ToSet(items) \cup ToSet(puts), b \in {x} \cap StoreItems : sq2[a] < sq2[b]
        /\ \A a \in ToSet(gets), b \in {x} \cap StoreGets : sq2[a] < sq2[b]
    BY <1>5 DEF Numbers
  <2> QED
    BY <2>1, <2>2, <2>3
<1>13. Agrees(kind, sq2, items, puts, gets, evs, S, L2, P2, {x})
  BY <1>2, <1>9, <1>10, <1>11, <1>12, Zenon DEF Agrees
<1>14. PutsWoken(items, puts, gets, P2, {x})
  <2>1. P2 \ (ToSet(gets) \cup {x}) = P \ (ToSet(gets) \cup {})
    OBVIOUS
  <2> QED
    BY <2>1 DEF PutsWoken, BackendOK
<1>15. GetsWoken(kind, fl2, items, gets, evs)
  <2>1. \A g \in ToSet(gets) : fl2[g] = fl[g]
    BY <1>3, <1>5
  <2> QED
    BY <2>1 DEF GetsWoken, BackendOK
<1> QED
  BY <1>13, <1>14, <1>15 DEF BackendOK

\* An item of T is put.  Items that are put back come before all else.
LEMMA SubmitPut ==
    ASSUME NEW kind, NEW sq, NEW items, NEW puts, NEW gets, NEW evs, NEW S, NEW L, NEW P, NEW T,
           Agrees(kind, sq, items, puts, gets, evs, S, L, P, T),
           NEW i \in StoreItems, i \in T, Foremost(kind, sq, i, T),
           NEW T2, T2 = T \ {i}, NEW ps, ps = Append(puts, i)
    PROVE  Agrees(kind, sq, items, ps, gets, evs, S, L, P, T2)
<1>1. /\ sq \in [StoreItems \cup StoreGets -> Nat]
      /\ items \in Seq(StoreItems) /\ puts \in Seq(StoreItems) /\ gets \in Seq(StoreGets) /\ evs \in Seq(StoreEvent)
      /\ AllOnce(items) /\ AllOnce(puts) /\ AllOnce(gets) /\ \A j \in StoreItems : Once(evs, PutEvent(j))
      /\ Len(items) <= StoreCapacity
  BY DEF Agrees
<1>2. i \notin ToSet(puts) /\ i \notin ToSet(items) /\ i \notin ToSet(gets)
  BY DEF Agrees
<1>3. /\ ps \in Seq(StoreItems) /\ AllOnce(ps) /\ ToSet(ps) = ToSet(puts) \cup {i}
      /\ \A a, b : Before(ps, a, b) <=> Before(puts, a, b) \/ (a \in ToSet(puts) /\ b = i)
  BY <1>1, <1>2, OnceAppend
<1>4. /\ ToSet(items) \cup (S \cap (T2 \cup ToSet(ps))) = ToSet(items) \cup (S \cap (T \cup ToSet(puts)))
      /\ ToSet(items) \cup ToSet(ps) \cup (T2 \cap StoreItems) = ToSet(items) \cup ToSet(puts) \cup (T \cap StoreItems)
      /\ T2 \cap StoreGets = T \cap StoreGets
  BY <1>3, StoreAssumption
<1>5. Follows(kind, sq, evs, S, L, P, ToSet(items) \cup (S \cap (T2 \cup ToSet(ps))),
              ToSet(items) \cup ToSet(ps) \cup (T2 \cap StoreItems), ToSet(gets) \cup (T2 \cap StoreGets))
  BY <1>4, Zenon DEF Agrees
<1>6. /\ ToSet(items) \cap ToSet(ps) = {} /\ (ToSet(items) \cup ToSet(ps) \cup ToSet(gets)) \cap T2 = {}
      /\ PutItems(evs) \cap (ToSet(ps) \cup T2) = {}
  BY <1>2, <1>3 DEF Agrees
<1>7. ASSUME kind = "fifo"
      PROVE  /\ SortedBy(sq, items) /\ SortedBy(sq, ps) /\ SortedBy(sq, gets)
             /\ \A a \in ToSet(items), b \in ToSet(ps) : sq[a] < sq[b]
             /\ \A a \in ToSet(items) \cup ToSet(ps), b \in T2 \cap StoreItems : sq[a] < sq[b]
             /\ \A a \in ToSet(gets), b \in T2 \cap StoreGets : sq[a] < sq[b]
  <2>1. \A a \in ToSet(items) \cup ToSet(puts) : sq[a] < sq[i]
    BY <1>7 DEF Agrees
  <2>2. SortedBy(sq, ps)
    BY <1>3, <1>7, <2>1, BeforeIn DEF Agrees, SortedBy
  <2>3. SortedBy(sq, items) /\ SortedBy(sq, gets)
    BY <1>7 DEF Agrees
  <2>4. \A a \in ToSet(items), b \in ToSet(ps) : sq[a] < sq[b]
    BY <1>3, <1>7, <2>1 DEF Agrees
  <2>5. \A b \in T2 \cap StoreItems : sq[i] < sq[b]
    BY <1>7 DEF Foremost
  <2>6. \A a \in ToSet(items) \cup ToSet(ps), b \in T2 \cap StoreItems : sq[a] < sq[b]
    BY <1>3, <1>7, <2>5 DEF Agrees
  <2>7. \A a \in ToSet(gets), b \in T2 \cap StoreGets : sq[a] < sq[b]
    BY <1>7 DEF Agrees
  <2> QED
    BY <2>2, <2>3, <2>4, <2>6, <2>7
<1> QED
  BY <1>1, <1>3, <1>5, <1>6, <1>7, Zenon DEF Agrees

\* A get of T is asked for.
LEMMA SubmitGet ==
    ASSUME NEW kind, NEW sq, NEW items, NEW puts, NEW gets, NEW evs, NEW S, NEW L, NEW P, NEW T,
           Agrees(kind, sq, items, puts, gets, evs, S, L, P, T),
           NEW g \in StoreGets, g \in T, Foremost(kind, sq, g, T),
           NEW T2, T2 = T \ {g}, NEW gs, gs = Append(gets, g)
    PROVE  Agrees(kind, sq, items, puts, gs, evs, S, L, P, T2)
<1>1. /\ sq \in [StoreItems \cup StoreGets -> Nat]
      /\ items \in Seq(StoreItems) /\ puts \in Seq(StoreItems) /\ gets \in Seq(StoreGets) /\ evs \in Seq(StoreEvent)
      /\ AllOnce(items) /\ AllOnce(puts) /\ AllOnce(gets) /\ \A j \in StoreItems : Once(evs, PutEvent(j))
      /\ Len(items) <= StoreCapacity
  BY DEF Agrees
<1>2. g \notin ToSet(puts) /\ g \notin ToSet(items) /\ g \notin ToSet(gets)
  BY DEF Agrees
<1>3. /\ gs \in Seq(StoreGets) /\ AllOnce(gs) /\ ToSet(gs) = ToSet(gets) \cup {g}
      /\ \A a, b : Before(gs, a, b) <=> Before(gets, a, b) \/ (a \in ToSet(gets) /\ b = g)
  BY <1>1, <1>2, OnceAppend
<1>4. S \subseteq StoreItems
  BY AgreesTypes
<1>5. /\ S \cap (T2 \cup ToSet(puts)) = S \cap (T \cup ToSet(puts))
      /\ T2 \cap StoreItems = T \cap StoreItems
      /\ ToSet(gs) \cup (T2 \cap StoreGets) = ToSet(gets) \cup (T \cap StoreGets)
  BY <1>3, <1>4, StoreAssumption
<1>6. Follows(kind, sq, evs, S, L, P, ToSet(items) \cup (S \cap (T2 \cup ToSet(puts))),
              ToSet(items) \cup ToSet(puts) \cup (T2 \cap StoreItems), ToSet(gs) \cup (T2 \cap StoreGets))
  BY <1>5, Zenon DEF Agrees
<1>7. /\ ToSet(items) \cap ToSet(puts) = {} /\ (ToSet(items) \cup ToSet(puts) \cup ToSet(gs)) \cap T2 = {}
      /\ PutItems(evs) \cap (ToSet(puts) \cup T2) = {}
  BY <1>2, <1>3 DEF Agrees
<1>8. ASSUME kind = "fifo"
      PROVE  /\ SortedBy(sq, items) /\ SortedBy(sq, puts) /\ SortedBy(sq, gs)
             /\ \A a \in ToSet(items), b \in ToSet(puts) : sq[a] < sq[b]
             /\ \A a \in ToSet(items) \cup ToSet(puts), b \in T2 \cap StoreItems : sq[a] < sq[b]
             /\ \A a \in ToSet(gs), b \in T2 \cap StoreGets : sq[a] < sq[b]
  <2>1. \A a \in ToSet(gets) : sq[a] < sq[g]
    BY <1>8 DEF Agrees
  <2>2. SortedBy(sq, gs)
    BY <1>3, <1>8, <2>1, BeforeIn DEF Agrees, SortedBy
  <2>3. SortedBy(sq, items) /\ SortedBy(sq, puts)
    BY <1>8 DEF Agrees
  <2>4. \A b \in T2 \cap StoreGets : sq[g] < sq[b]
    BY <1>8, StoreAssumption DEF Foremost
  <2>5. \A a \in ToSet(gs), b \in T2 \cap StoreGets : sq[a] < sq[b]
    BY <1>3, <1>8, <2>4 DEF Agrees
  <2>6. /\ \A a \in ToSet(items), b \in ToSet(puts) : sq[a] < sq[b]
        /\ \A a \in ToSet(items) \cup ToSet(puts), b \in T2 \cap StoreItems : sq[a] < sq[b]
    BY <1>8 DEF Agrees
  <2> QED
    BY <2>2, <2>3, <2>5, <2>6
<1> QED
  BY <1>1, <1>3, <1>6, <1>7, <1>8, Zenon DEF Agrees

\* The item i is the next of T to be put, or the get g to be asked for.
NextPut(kind, sq, i, puts, S, T) ==
    /\ i \in StoreItems /\ i \in T /\ Foremost(kind, sq, i, T)
    /\ S \cap (T \cup ToSet(puts)) = {} \/ (puts = <<>> /\ i \in S)
NextGet(kind, sq, fl, g, T) ==
    /\ g \in StoreGets /\ g \in T /\ Foremost(kind, sq, g, T)
    /\ kind # "filter" => \A h \in StoreGets : fl[h] = StoreItems

\* What a put and a get make of the backend.
PutsTo(items, puts, gets, evs, i, b) == b = TriggerPut(Of(items, Append(puts, i), gets, evs))
GetsTo(fl, items, puts, gets, evs, g, b) == b = TriggerGet(fl, Of(items, puts, Append(gets, g), evs))

\* The puts that wait after i was put.
PutsAfter(puts, S, i, ps) == ToSet(ps) \subseteq ToSet(puts) \cup {i} /\ (i \in S => ps = <<>>)

\* The backend's part of a put.
LEMMA PutStoreKeeps ==
    ASSUME NEW sq, NEW fl, NEW items, NEW puts, NEW gets, NEW evs, NEW S, NEW L, NEW P, NEW T,
           BackendOK(storeKind, sq, fl, items, puts, gets, evs, S, L, P, T),
           NEW i, NextPut(storeKind, sq, i, puts, S, T), NEW b, PutsTo(items, puts, gets, evs, i, b)
    PROVE  /\ BackendOK(storeKind, sq, fl, b.items, b.puts, b.gets, b.events, S, L, P, T \ {i})
           /\ b.gets = gets /\ PutsAfter(puts, S, i, b.puts)
<1> PICK T2, ps : T2 = T \ {i} /\ ps = Append(puts, i)
  OBVIOUS
<1> i \in StoreItems /\ i \in T /\ Foremost(storeKind, sq, i, T) /\ b = TriggerPut(Of(items, ps, gets, evs))
  BY DEF NextPut, PutsTo
<1> S \cap (T \cup ToSet(puts)) = {} \/ (puts = <<>> /\ i \in S)
  BY DEF NextPut
<1>1. Agrees(storeKind, sq, items, puts, gets, evs, S, L, P, T)
  BY DEF BackendOK
<1>2. Agrees(storeKind, sq, items, ps, gets, evs, S, L, P, T2)
  BY <1>1, SubmitPut
<1>3. /\ items \in Seq(StoreItems) /\ puts \in Seq(StoreItems) /\ gets \in Seq(StoreGets) /\ evs \in Seq(StoreEvent)
      /\ AllOnce(puts)
  BY <1>1 DEF Agrees
<1>4. i \notin ToSet(puts)
  BY <1>1 DEF Agrees
<1>5. ps \in Seq(StoreItems) /\ ToSet(ps) = ToSet(puts) \cup {i} /\ Len(ps) = Len(puts) + 1
  BY <1>3, <1>4, OnceAppend
<1>6. Len(puts) \in Nat /\ Len(items) \in Nat /\ StoreCapacity \in Nat
  BY <1>3, LenProperties, StoreAssumption
<1>7. ps # <<>>
  BY <1>5, <1>6, EmptySeq
<1>8. Tail(ps) \in Seq(StoreItems) /\ Len(Tail(ps)) = Len(puts)
  BY <1>5, <1>6, <1>7, HeadTailProperties
<1>9. Tail(ps) # <<>> => puts # <<>>
  BY <1>3, <1>8, EmptySeq
<1>10. puts = <<>> => Head(ps) = i /\ Tail(ps) = <<>>
  <2> SUFFICES ASSUME puts = <<>> PROVE Head(ps) = i /\ Tail(ps) = <<>>
    OBVIOUS
  <2>1. Len(puts) = 0
    BY EmptySeq
  <2>2. Tail(ps) = <<>>
    BY <1>8, <2>1, EmptySeq
  <2>3. Head(ps) \in ToSet(ps)
    BY <1>2, <1>5, <1>7, OnceTail DEF Agrees
  <2>4. ToSet(puts) = {}
    BY <1>3, NoneIn
  <2> QED
    BY <1>5, <2>2, <2>3, <2>4
<1>11. P \in SUBSET StoreGets
  BY <1>1, AgreesTypes
<1>12. P \ (ToSet(gets) \cup T2) = P \ (ToSet(gets) \cup T)
  BY <1>11, StoreAssumption
<1>13. PICK n \in Nat : n = Cardinality(P \ (ToSet(gets) \cup T)) /\ n = Cardinality(P \ (ToSet(gets) \cup T2))
  BY <1>11, <1>12, StoreCounts
<1>14. ps # <<>> /\ Tail(ps) # <<>> => StoreCapacity <= Len(items) + 1 + Cardinality(P \ (ToSet(gets) \cup T2))
  <2>1. puts # <<>> => StoreCapacity <= Len(items) + n
    BY <1>13 DEF PutsWoken, BackendOK
  <2> QED
    BY <1>6, <1>9, <1>13, <2>1
<1>15. S \cap (T2 \cup ToSet(ps)) = {} \/ (ps # <<>> /\ Head(ps) \in S)
  BY <1>5, <1>7, <1>10
<1>16. GetsWoken(storeKind, fl, items, gets, evs)
  BY DEF BackendOK
<1>17. PutReady(storeKind, sq, fl, items, ps, gets, evs, S, L, P, T2)
  BY <1>2, <1>14, <1>15, <1>16, Zenon DEF PutReady
<1>18. /\ BackendOK(storeKind, sq, fl, b.items, b.puts, b.gets, b.events, S, L, P, T2)
       /\ b.gets = gets /\ ToSet(b.puts) \subseteq ToSet(ps)
       /\ ps # <<>> /\ Head(ps) \in S => b.puts = Tail(ps)
  <2>1. BackendOK(storeKind, sq, fl, b.items, b.puts, b.gets, b.events, S, L, P, T2)
    BY <1>17, TriggerPutKeeps
  <2>2. b.gets = gets
    BY <1>17, TriggerPutKeeps
  <2>3. ToSet(b.puts) \subseteq ToSet(ps)
    BY <1>17, TriggerPutKeeps
  <2>4. PutBack(ps, S, b)
    BY <1>17, TriggerPutKeeps
  <2> QED
    BY <2>1, <2>2, <2>3, <2>4 DEF PutBack
<1>19. i \in S => puts = <<>>
  BY <1>5
<1> QED
  BY <1>5, <1>7, <1>10, <1>18, <1>19 DEF PutsAfter

\* The backend's part of a get.
LEMMA GetStoreKeeps ==
    ASSUME NEW sq, NEW fl, NEW items, NEW puts, NEW gets, NEW evs, NEW S, NEW L, NEW P, NEW T,
           BackendOK(storeKind, sq, fl, items, puts, gets, evs, S, L, P, T),
           NEW g, NextGet(storeKind, sq, fl, g, T), NEW b, GetsTo(fl, items, puts, gets, evs, g, b)
    PROVE  /\ BackendOK(storeKind, sq, fl, b.items, b.puts, b.gets, b.events, S, L, P, T \ {g})
           /\ b.puts = puts
<1> PICK T2, gs : T2 = T \ {g} /\ gs = Append(gets, g)
  OBVIOUS
<1> g \in StoreGets /\ g \in T /\ Foremost(storeKind, sq, g, T) /\ b = TriggerGet(fl, Of(items, puts, gs, evs))
  BY DEF NextGet, GetsTo
<1> storeKind # "filter" => \A h \in StoreGets : fl[h] = StoreItems
  BY DEF NextGet
<1>1. Agrees(storeKind, sq, items, puts, gets, evs, S, L, P, T)
  BY DEF BackendOK
<1>2. Agrees(storeKind, sq, items, puts, gs, evs, S, L, P, T2)
  BY <1>1, SubmitGet
<1>3. /\ items \in Seq(StoreItems) /\ puts \in Seq(StoreItems) /\ gets \in Seq(StoreGets) /\ evs \in Seq(StoreEvent)
      /\ AllOnce(gets)
  BY <1>1 DEF Agrees
<1>4. g \notin ToSet(gets)
  BY <1>1 DEF Agrees
<1>5. gs \in Seq(StoreGets) /\ ToSet(gs) = ToSet(gets) \cup {g} /\ Len(gs) = Len(gets) + 1
  BY <1>3, <1>4, OnceAppend
<1>6. Len(gets) \in Nat /\ Len(items) \in Nat /\ StoreCapacity \in Nat
  BY <1>3, LenProperties, StoreAssumption
<1>7. gs # <<>>
  BY <1>5, <1>6, EmptySeq
<1>8. Tail(gs) \in Seq(StoreGets) /\ Len(Tail(gs)) = Len(gets)
  BY <1>5, <1>6, <1>7, HeadTailProperties
<1>9. Tail(gs) # <<>> => gets # <<>>
  BY <1>3, <1>8, EmptySeq
<1>10. P \ (ToSet(gs) \cup T2) = P \ (ToSet(gets) \cup T)
  BY <1>5
<1>11. PutsWoken(items, puts, gs, P, T2)
  BY <1>10 DEF PutsWoken, BackendOK
<1>12. P \in SUBSET StoreGets
  BY <1>1, AgreesTypes
<1>13. PICK n \in Nat : n = Cardinality(PutItems(evs))
  BY <1>12, StoreCounts
<1>14. storeKind # "filter" /\ gs # <<>> /\ Tail(gs) # <<>> => Len(items) <= Cardinality(PutItems(evs)) + 1
  BY <1>6, <1>9, <1>13 DEF GetsWoken, BackendOK
<1>15. storeKind # "filter" => \A h \in ToSet(gs) : fl[h] = StoreItems
  BY <1>5, ElementOfSeq, LenProperties DEF ToSet
<1>16. GetReady(storeKind, sq, fl, items, puts, gs, evs, S, L, P, T2)
  BY <1>2, <1>11, <1>14, <1>15, Zenon DEF GetReady
<1> QED
  BY <1>16, TriggerGetKeeps

-----------------------------------------------------------------------------
(***************************************************************************)
(* Commits                                                                 *)
(***************************************************************************)

\* What is left of the events.
LEMMA RestOfEvents ==
    ASSUME NEW evs \in Seq(StoreEvent), evs # <<>>, NEW e, e = Head(evs), NEW es, es = Tail(evs),
           \A i \in StoreItems : Once(evs, PutEvent(i))
    PROVE  /\ e \in StoreEvent /\ es \in Seq(StoreEvent) /\ \A i \in StoreItems : Once(es, PutEvent(i))
           /\ \A i \in StoreItems : PutEvent(i) \in ToSet(es) <=> PutEvent(i) \in ToSet(evs) /\ e # PutEvent(i)
<1>1. es \in Seq(StoreEvent) /\ Dropped(evs, 1, es) /\ e = evs[1] /\ 1 \in DOMAIN evs
  BY TailDrops
<1>2. /\ \A a : a # evs[1] => (a \in ToSet(es) <=> a \in ToSet(evs))
      /\ \A v : Once(evs, v) => Once(es, v)
      /\ Once(evs, evs[1]) => evs[1] \notin ToSet(es)
  BY <1>1, DropFacts
<1>3. e \in StoreEvent /\ evs[1] \in ToSet(evs)
  BY <1>1, ElementOfSeq, LenProperties DEF ToSet
<1> QED
  BY <1>1, <1>2, <1>3

\* The commit of a put in the records.
PutCommits(kind, sq, i, S, L) ==
    /\ i \in StoreItems /\ i \in L /\ Cardinality(S \cup {i}) <= StoreCapacity
    /\ kind = "fifo" /\ i \notin S => \A x \in L \ S : sq[i] <= sq[x]

\* The first event is the put of i, and its commit makes b of the backend.
CommitsPut(kind, fl, items, puts, gets, evs, i, b) ==
    /\ evs # <<>> /\ Head(evs) = PutEvent(i) /\ b = TriggerGet(fl, Of(items, puts, gets, Tail(evs)))
    /\ kind # "filter" => \A h \in StoreGets : fl[h] = StoreItems

\* The backend's part of the commit of a put.
LEMMA CommitPutBackend ==
    ASSUME NEW sq, NEW fl, NEW items, NEW puts, NEW gets, NEW evs, NEW S, NEW L, NEW P,
           BackendOK(storeKind, sq, fl, items, puts, gets, evs, S, L, P, {}),
           NEW i, NEW b, CommitsPut(storeKind, fl, items, puts, gets, evs, i, b)
    PROVE  /\ PutCommits(storeKind, sq, i, S, L)
           /\ BackendOK(storeKind, sq, fl, b.items, b.puts, b.gets, b.events, S \cup {i}, L, P, {})
           /\ b.puts = puts /\ i \notin ToSet(puts)
<1> PICK S2 : S2 = S \cup {i}
  OBVIOUS
<1> /\ evs # <<>> /\ Head(evs) = PutEvent(i) /\ b = TriggerGet(fl, Of(items, puts, gets, Tail(evs)))
    /\ storeKind # "filter" => \A h \in StoreGets : fl[h] = StoreItems
  BY DEF CommitsPut
<1>1. Agrees(storeKind, sq, items, puts, gets, evs, S, L, P, {})
  BY DEF BackendOK
<1>2. /\ sq \in [StoreItems \cup StoreGets -> Nat]
      /\ items \in Seq(StoreItems) /\ puts \in Seq(StoreItems) /\ gets \in Seq(StoreGets) /\ evs \in Seq(StoreEvent)
      /\ AllOnce(items) /\ AllOnce(puts) /\ AllOnce(gets) /\ \A j \in StoreItems : Once(evs, PutEvent(j))
      /\ Len(items) <= StoreCapacity
  BY <1>1 DEF Agrees
<1>3. PICK es : es = Tail(evs)
  OBVIOUS
<1>4. /\ PutEvent(i) \in StoreEvent /\ es \in Seq(StoreEvent) /\ \A j \in StoreItems : Once(es, PutEvent(j))
      /\ \A j \in StoreItems : PutEvent(j) \in ToSet(es) <=> PutEvent(j) \in ToSet(evs) /\ PutEvent(i) # PutEvent(j)
  BY <1>2, <1>3, RestOfEvents
<1>5. PICK S1, L1, P1 : S1 = ToSet(items) \cup (S \cap ({} \cup ToSet(puts)))
                        /\ L1 = ToSet(items) \cup ToSet(puts) \cup ({} \cap StoreItems)
                        /\ P1 = ToSet(gets) \cup ({} \cap StoreGets)
  OBVIOUS
<1>6. Follows(storeKind, sq, evs, S, L, P, S1, L1, P1)
  BY <1>1, <1>5 DEF Agrees
<1>7. PICK Sn, Ln, Pn : /\ Moves(storeKind, sq, Head(evs), S, L, P, Sn, Ln, Pn)
                        /\ Follows(storeKind, sq, es, Sn, Ln, Pn, S1, L1, P1)
  BY <1>2, <1>3, <1>6, FollowsTail
<1>8. /\ i \in StoreItems /\ i \in L /\ Sn = S2 /\ Ln = L /\ Pn = P
      /\ storeKind = "fifo" /\ i \notin S => \A x \in L \ S : sq[i] <= sq[x]
  BY <1>7 DEF Moves, PutEvent, GetEvent
<1>9. PutItems(es) = PutItems(evs) \ {i} /\ i \in PutItems(evs)
  <2>1. Head(evs) \in ToSet(evs)
    BY <1>2, TailDrops DEF ToSet
  <2> QED
    BY <1>4, <1>8, <2>1, EventIs DEF PutItems
<1>10. i \notin ToSet(puts)
  BY <1>1, <1>9 DEF Agrees
<1>11. Follows(storeKind, sq, es, S2, L, P, S1, L1, P1)
  BY <1>7, <1>8
<1>12. Cardinality(S2) <= StoreCapacity
  <2>1. Cardinality(Sn) <= StoreCapacity
    BY <1>4, <1>7, FollowsFits
  <2> QED
    BY <1>8, <2>1
<1>13. S1 = ToSet(items) \cup (S2 \cap ({} \cup ToSet(puts)))
  BY <1>5, <1>10
<1>14. /\ ToSet(items) \cap ToSet(puts) = {} /\ (ToSet(items) \cup ToSet(puts) \cup ToSet(gets)) \cap {} = {}
       /\ PutItems(es) \cap (ToSet(puts) \cup {}) = {}
  BY <1>1, <1>9 DEF Agrees
<1>15. storeKind = "fifo" =>
          /\ SortedBy(sq, items) /\ SortedBy(sq, puts) /\ SortedBy(sq, gets)
          /\ \A a \in ToSet(items), c \in ToSet(puts) : sq[a] < sq[c]
          /\ \A a \in ToSet(items) \cup ToSet(puts), c \in {} \cap StoreItems : sq[a] < sq[c]
          /\ \A a \in ToSet(gets), c \in {} \cap StoreGets : sq[a] < sq[c]
  BY <1>1 DEF Agrees
<1>16. Agrees(storeKind, sq, items, puts, gets, es, S2, L, P, {})
  BY <1>2, <1>4, <1>5, <1>11, <1>13, <1>14, <1>15, Zenon DEF Agrees
<1>17. PutsWoken(items, puts, gets, P, {})
  BY DEF BackendOK
<1>18. P \in SUBSET StoreGets
  BY <1>1, AgreesTypes
<1>19. PICK m \in Nat : m = Cardinality(PutItems(es))
  BY <1>18, StoreCounts
<1>20. Cardinality(PutItems(evs)) = m + 1
  <2>1. IsFiniteSet(PutItems(es))
    BY <1>18, StoreCounts
  <2>2. PutItems(evs) = PutItems(es) \cup {i} /\ i \notin PutItems(es)
    BY <1>9
  <2> QED
    BY <1>19, <2>1, <2>2, FS_AddElement
<1>21. storeKind # "filter" /\ gets # <<>> /\ Tail(gets) # <<>> => Len(items) <= Cardinality(PutItems(es)) + 1
  BY <1>19, <1>20 DEF GetsWoken, BackendOK
<1>22. storeKind # "filter" => \A h \in ToSet(gets) : fl[h] = StoreItems
  BY <1>2, ElementOfSeq, LenProperties DEF ToSet
<1>23. GetReady(storeKind, sq, fl, items, puts, gets, es, S2, L, P, {})
  BY <1>16, <1>17, <1>21, <1>22, Zenon DEF GetReady
<1>24. BackendOK(storeKind, sq, fl, b.items, b.puts, b.gets, b.events, S2, L, P, {}) /\ b.puts = puts
  BY <1>3, <1>23, TriggerGetKeeps
<1>25. PutCommits(storeKind, sq, i, S, L)
  BY <1>8, <1>12 DEF PutCommits
<1> QED
  BY <1>10, <1>24, <1>25

\* The commit of a get in the records.
GetCommits(kind, sq, g, i, S, L, P) ==
    /\ g \in StoreGets /\ g \in P /\ i \in StoreItems /\ i \in S
    /\ kind = "fifo" => (\A x \in P : sq[g] <= sq[x]) /\ (\A x \in L : sq[i] <= sq[x])

\* The first event is that g has got i, and its commit makes b of the backend.
CommitsGet(items, puts, gets, evs, g, i, b) ==
    evs # <<>> /\ Head(evs) = GetEvent(g, i) /\ b = TriggerPut(Of(items, puts, gets, Tail(evs)))

\* The backend's part of the commit of a get.
LEMMA CommitGetBackend ==
    ASSUME NEW sq, NEW fl, NEW items, NEW puts, NEW gets, NEW evs, NEW S, NEW L, NEW P,
           BackendOK(storeKind, sq, fl, items, puts, gets, evs, S, L, P, {}), ToSet(puts) \cap S = {},
           NEW g, NEW i, NEW b, CommitsGet(items, puts, gets, evs, g, i, b)
    PROVE  /\ GetCommits(storeKind, sq, g, i, S, L, P)
           /\ BackendOK(storeKind, sq, fl, b.items, b.puts, b.gets, b.events, S \ {i}, L \ {i}, P \ {g}, {})
           /\ ToSet(b.puts) \subseteq ToSet(puts)
<1> PICK S2, L2, P2 : S2 = S \ {i} /\ L2 = L \ {i} /\ P2 = P \ {g}
  OBVIOUS
<1> evs # <<>> /\ Head(evs) = GetEvent(g, i) /\ b = TriggerPut(Of(items, puts, gets, Tail(evs)))
  BY DEF CommitsGet
<1>1. Agrees(storeKind, sq, items, puts, gets, evs, S, L, P, {})
  BY DEF BackendOK
<1>2. /\ sq \in [StoreItems \cup StoreGets -> Nat]
      /\ items \in Seq(StoreItems) /\ puts \in Seq(StoreItems) /\ gets \in Seq(StoreGets) /\ evs \in Seq(StoreEvent)
      /\ AllOnce(items) /\ AllOnce(puts) /\ AllOnce(gets) /\ \A j \in StoreItems : Once(evs, PutEvent(j))
      /\ Len(items) <= StoreCapacity
  BY <1>1 DEF Agrees
<1>3. PICK es : es = Tail(evs)
  OBVIOUS
<1>4. /\ es \in Seq(StoreEvent) /\ \A j \in StoreItems : Once(es, PutEvent(j))
      /\ \A j \in StoreItems : PutEvent(j) \in ToSet(es) <=> PutEvent(j) \in ToSet(evs) /\ GetEvent(g, i) # PutEvent(j)
  BY <1>2, <1>3, RestOfEvents
<1>5. PICK S1, L1, P1 : S1 = ToSet(items) \cup (S \cap ({} \cup ToSet(puts)))
                        /\ L1 = ToSet(items) \cup ToSet(puts) \cup ({} \cap StoreItems)
                        /\ P1 = ToSet(gets) \cup ({} \cap StoreGets)
  OBVIOUS
<1>6. Follows(storeKind, sq, evs, S, L, P, S1, L1, P1)
  BY <1>1, <1>5 DEF Agrees
<1>7. PICK Sn, Ln, Pn : /\ Moves(storeKind, sq, Head(evs), S, L, P, Sn, Ln, Pn)
                        /\ Follows(storeKind, sq, es, Sn, Ln, Pn, S1, L1, P1)
  BY <1>2, <1>3, <1>6, FollowsTail
<1>8. /\ g \in StoreGets /\ g \in P /\ i \in StoreItems /\ i \in S /\ Sn = S2 /\ Ln = L2 /\ Pn = P2
      /\ storeKind = "fifo" => (\A x \in P : sq[g] <= sq[x]) /\ (\A x \in L : sq[i] <= sq[x])
  BY <1>7 DEF Moves, PutEvent, GetEvent
<1>9. PutItems(es) = PutItems(evs)
  BY <1>4, EventIs DEF PutItems
<1>10. Follows(storeKind, sq, es, S2, L2, P2, S1, L1, P1)
  BY <1>7, <1>8
<1>11. S1 = ToSet(items) \cup (S2 \cap ({} \cup ToSet(puts)))
  BY <1>5
<1>12. /\ ToSet(items) \cap ToSet(puts) = {} /\ (ToSet(items) \cup ToSet(puts) \cup ToSet(gets)) \cap {} = {}
       /\ PutItems(es) \cap (ToSet(puts) \cup {}) = {}
  BY <1>1, <1>9 DEF Agrees
<1>13. storeKind = "fifo" =>
          /\ SortedBy(sq, items) /\ SortedBy(sq, puts) /\ SortedBy(sq, gets)
          /\ \A a \in ToSet(items), c \in ToSet(puts) : sq[a] < sq[c]
          /\ \A a \in ToSet(items) \cup ToSet(puts), c \in {} \cap StoreItems : sq[a] < sq[c]
          /\ \A a \in ToSet(gets), c \in {} \cap StoreGets : sq[a] < sq[c]
  BY <1>1 DEF Agrees
<1>14. Agrees(storeKind, sq, items, puts, gets, es, S2, L2, P2, {})
  BY <1>2, <1>4, <1>5, <1>10, <1>11, <1>12, <1>13, Zenon DEF Agrees
<1>15. GetsWoken(storeKind, fl, items, gets, es)
  <2>1. ToSet(items) \subseteq StoreItems
    BY <1>2, ElementOfSeq, LenProperties DEF ToSet
  <2>2. \A x \in ToSet(items) : PutEvent(x) \in ToSet(evs) => PutEvent(x) \in ToSet(es)
    BY <1>4, <2>1, EventIs
  <2> QED
    BY <1>9, <2>2 DEF GetsWoken, BackendOK
<1>16. P \in SUBSET StoreGets
  BY <1>1, AgreesTypes
<1>17. PICK A, B : A = P \ (ToSet(gets) \cup {}) /\ B = P2 \ (ToSet(gets) \cup {})
  OBVIOUS
<1>18. IsFiniteSet(A) /\ Cardinality(A) \in Nat /\ IsFiniteSet(B) /\ Cardinality(B) \in Nat
  BY <1>16, <1>17, StoreCounts
<1>19. Cardinality(A) <= Cardinality(B) + 1
  <2>1. A \subseteq B \cup {g}
    BY <1>17
  <2>2. IsFiniteSet(B \cup {g}) /\ Cardinality(B \cup {g}) <= Cardinality(B) + 1
    <3>1. IsFiniteSet(B \cup {g})
      BY <1>18, FS_AddElement
    <3>2. Cardinality(B \cup {g}) = IF g \in B THEN Cardinality(B) ELSE Cardinality(B) + 1
      BY <1>18, FS_AddElement
    <3> QED
      BY <1>18, <3>1, <3>2
  <2>3. Cardinality(A) <= Cardinality(B \cup {g}) /\ Cardinality(B \cup {g}) \in Nat
    BY <2>1, <2>2, FS_Subset, FS_CardinalityType
  <2> QED
    BY <1>18, <2>2, <2>3
<1>20. puts # <<>> /\ Tail(puts) # <<>> => StoreCapacity <= Len(items) + 1 + Cardinality(B)
  <2>1. puts # <<>> => StoreCapacity <= Len(items) + Cardinality(A)
    BY <1>17 DEF PutsWoken, BackendOK
  <2>2. Len(items) \in Nat /\ StoreCapacity \in Nat
    BY <1>2, LenProperties, StoreAssumption
  <2> QED
    BY <1>18, <1>19, <2>1, <2>2
<1>21. S2 \cap ({} \cup ToSet(puts)) = {}
  OBVIOUS
<1>22. PutReady(storeKind, sq, fl, items, puts, gets, es, S2, L2, P2, {})
  BY <1>14, <1>15, <1>17, <1>20, <1>21, Zenon DEF PutReady
<1>23. BackendOK(storeKind, sq, fl, b.items, b.puts, b.gets, b.events, S2, L2, P2, {})
  BY <1>3, <1>22, TriggerPutKeeps
<1>24. ToSet(b.puts) \subseteq ToSet(puts)
  BY <1>3, <1>22, TriggerPutKeeps
<1>25. GetCommits(storeKind, sq, g, i, S, L, P)
  BY <1>8 DEF GetCommits
<1> QED
  BY <1>23, <1>24, <1>25

-----------------------------------------------------------------------------
(***************************************************************************)
(* The invariant of the stores                                             *)
(***************************************************************************)

Committed == {i \in StoreItems : itemPhase[i] = "item"}
LiveItems == {i \in StoreItems : Live(i)}
Pending == {g \in StoreGets : getPhase[g] = "pending"}
AskedGets == {g \in StoreGets : getPhase[g] # "new"}
Started == {i \in StoreItems : itemPhase[i] # "new"} \cup AskedGets

\* What the database keeps: S, L and A are the items, the live items and the
\* gets ever asked for, and n things were started.  The items fit, a fifo store
\* commits them in order, no two that are compared have the same sequence, and
\* only a filter store has filters.
Kept(kind, sq, fl, S, L, A, n) ==
    /\ S \subseteq L /\ Cardinality(S) <= StoreCapacity
    /\ kind = "fifo" => \A x \in S, y \in L \ S : sq[x] < sq[y]
    /\ \A x, y \in L \cup A : sq[x] = sq[y] => x = y
    /\ \A x \in StoreItems \cup StoreGets : sq[x] <= n
    /\ kind # "filter" => \A g \in StoreGets : fl[g] = StoreItems

\* What a rebuild has left: committed items first, before anything waits, and
\* for a fifo store items and gets in their order.
RebuildOK(kind, sq, puts, gets, S, td) ==
    /\ td \in Seq(StoreItems \cup StoreGets) /\ AllOnce(td)
    /\ ToSet(puts) \cap S = {}
    /\ \A a, b : Before(td, a, b) =>
          /\ b \in S => a \in S
          /\ (kind = "fifo" /\ (a \in StoreItems <=> b \in StoreItems)) => sq[a] < sq[b]
    /\ ToSet(td) \cap S # {} => puts = <<>> /\ gets = <<>>

\* The inductive invariant of the stores.
StoreInv ==
    /\ StoreTypeOK /\ storeKind \in StoreKinds
    /\ Kept(storeKind, sequence, filterOf, Committed, LiveItems, AskedGets, Cardinality(Started))
    /\ storeUp =>
          /\ BackendOK(storeKind, sequence, filterOf, inStore, putQueue, getQueue, storeEvents,
                       Committed, LiveItems, Pending, ToSet(todo))
          /\ RebuildOK(storeKind, sequence, putQueue, getQueue, Committed, todo)
    /\ ~storeUp => todo = <<>> /\ inStore = <<>> /\ putQueue = <<>> /\ getQueue = <<>> /\ storeEvents = <<>>

\* The next sequence number is greater than those of what is live and of every
\* get, and no greater than needed.
LEMMA NextSequenceIs ==
    ASSUME StoreTypeOK, NEW n \in Nat, \A x \in StoreItems \cup StoreGets : sequence[x] <= n
    PROVE  /\ NextSequence \in Nat /\ NextSequence <= n + 1
           /\ \A y \in LiveItems \cup StoreGets : sequence[y] < NextSequence
<1>1. \A x \in StoreItems \cup StoreGets : sequence[x] \in Nat
  BY DEF StoreTypeOK
<1>2. PICK M : M = {0} \cup {sequence[i] : i \in {x \in StoreItems : Live(x)}} \cup {sequence[g] : g \in StoreGets}
  OBVIOUS
<1>3. M \in SUBSET Nat /\ M # {} /\ \A y \in M : y <= n
  BY <1>1, <1>2
<1>4. PICK m \in Nat : m = Max(M) /\ m \in M /\ \A y \in M : y <= m
  BY <1>3, Greatest
<1>5. NextSequence = 1 + m /\ m <= n
  BY <1>2, <1>3, <1>4 DEF NextSequence
<1>6. \A y \in LiveItems \cup StoreGets : sequence[y] \in M
  BY <1>2 DEF LiveItems
<1>7. \A y \in LiveItems \cup StoreGets : sequence[y] \in Nat
  BY <1>1 DEF LiveItems
<1> QED
  BY <1>4, <1>5, <1>6, <1>7

\* There is a number for each that is started.
LEMMA StartedCounts ==
    /\ IsFiniteSet(Started) /\ Cardinality(Started) \in Nat
    /\ Cardinality(StoreItems \cup StoreGets) \in Nat
    /\ Cardinality(Started) <= Cardinality(StoreItems \cup StoreGets)
<1>1. PICK A, B : A = Started /\ B = StoreItems \cup StoreGets
  OBVIOUS
<1>2. IsFiniteSet(B)
  BY <1>1, StoreAssumption, FS_Union
<1>3. A \subseteq B
  BY <1>1 DEF Started, AskedGets
<1>4. IsFiniteSet(A) /\ Cardinality(A) <= Cardinality(B)
  BY <1>2, <1>3, FS_Subset
<1> QED
  BY <1>1, <1>2, <1>4, FS_CardinalityType

\* What is started gets the next sequence number.
LEMMA NumbersNext ==
    ASSUME StoreInv, NEW x \in StoreItems \cup StoreGets, x \notin Started,
           NEW sq, sq = [sequence EXCEPT ![x] = NextSequence],
           NEW n, n = Cardinality(Started \cup {x})
    PROVE  /\ Numbers(sequence, sq, LiveItems, Pending, x)
           /\ sq \in [StoreItems \cup StoreGets -> 0..Cardinality(StoreItems \cup StoreGets)]
           /\ \A y \in StoreItems \cup StoreGets : sq[y] <= n
           /\ \A y, z \in LiveItems \cup AskedGets \cup {x} : sq[y] = sq[z] => y = z
<1>1. PICK m \in Nat : m = Cardinality(Started)
  BY StartedCounts
<1>2. n = m + 1
  BY <1>1, StartedCounts, FS_AddElement
<1>3. PICK N \in Nat : N = Cardinality(StoreItems \cup StoreGets) /\ n <= N
  <2>1. PICK A, B : A = Started \cup {x} /\ B = StoreItems \cup StoreGets
    OBVIOUS
  <2>2. IsFiniteSet(B)
    BY <2>1, StoreAssumption, FS_Union
  <2>3. A \subseteq B
    BY <2>1 DEF Started, AskedGets
  <2>4. Cardinality(A) <= Cardinality(B) /\ Cardinality(B) \in Nat
    BY <2>2, <2>3, FS_Subset, FS_CardinalityType
  <2> QED
    BY <2>1, <2>4
<1>4. StoreTypeOK /\ \A y \in StoreItems \cup StoreGets : sequence[y] <= m
  BY <1>1 DEF StoreInv, Kept
<1>5. PICK k \in Nat : k = NextSequence /\ k <= m + 1 /\ \A y \in LiveItems \cup StoreGets : sequence[y] < k
  BY <1>4, NextSequenceIs
<1>6. sequence \in [StoreItems \cup StoreGets -> Nat]
  BY <1>3, <1>4 DEF StoreTypeOK
<1>7. /\ sq[x] = k /\ \A y \in StoreItems \cup StoreGets : y # x => sq[y] = sequence[y]
      /\ sq \in [StoreItems \cup StoreGets -> Nat]
  BY <1>5, <1>6
<1>8. \A y \in StoreItems \cup StoreGets : sq[y] <= n
  BY <1>2, <1>4, <1>5, <1>6, <1>7
<1>9. sq \in [StoreItems \cup StoreGets -> 0..N]
  <2>1. n \in Nat
    BY <1>2
  <2>2. \A y \in StoreItems \cup StoreGets : sq[y] \in 0..N
    BY <1>3, <1>7, <1>8, <2>1
  <2> QED
    BY <1>7, <2>2
<1>10. /\ x \notin LiveItems /\ x \notin AskedGets /\ Pending \subseteq AskedGets
       /\ LiveItems \subseteq StoreItems /\ AskedGets \subseteq StoreGets
  BY DEF Started, LiveItems, Live, AskedGets, Pending
<1>11. Numbers(sequence, sq, LiveItems, Pending, x)
  BY <1>5, <1>7, <1>10 DEF Numbers
<1>12. \A y \in LiveItems \cup AskedGets : y # x /\ sq[y] = sequence[y] /\ sq[y] < sq[x] /\ sq[y] \in Nat
  BY <1>5, <1>6, <1>7, <1>10
<1>13. \A y, z \in LiveItems \cup AskedGets : sequence[y] = sequence[z] => y = z
  BY DEF StoreInv, Kept
<1>14. \A y, z \in LiveItems \cup AskedGets \cup {x} : sq[y] = sq[z] => y = z
  BY <1>7, <1>12, <1>13
<1> QED
  BY <1>3, <1>8, <1>9, <1>11, <1>14

\* While the process serves, nothing is left of a rebuild.
LEMMA ServingIs ==
    ASSUME StoreInv, Serving
    PROVE  /\ storeUp /\ todo = <<>> /\ ToSet(todo) = {}
           /\ BackendOK(storeKind, sequence, filterOf, inStore, putQueue, getQueue, storeEvents,
                        Committed, LiveItems, Pending, {})
           /\ ToSet(putQueue) \cap Committed = {}
<1>1. storeUp /\ todo = <<>>
  BY DEF Serving
<1>2. ToSet(todo) = {}
  BY <1>1, NoEvent
<1> QED
  BY <1>1, <1>2 DEF StoreInv, RebuildOK

\* Nothing is left of a rebuild.
LEMMA NothingLeft ==
    ASSUME NEW kind, NEW sq, NEW puts, NEW gets, NEW S, ToSet(puts) \cap S = {}
    PROVE  RebuildOK(kind, sq, puts, gets, S, <<>>)
<1>1. <<>> \in Seq(StoreItems \cup StoreGets)
  BY EmptySeq
<1>2. ToSet(<<>>) = {}
  BY NoEvent
<1> QED
  BY <1>1, <1>2, NothingOnce DEF RebuildOK

\* The types of a backend.
LEMMA BackendTypes ==
    ASSUME NEW kind, NEW sq, NEW fl, NEW items, NEW puts, NEW gets, NEW evs, NEW S, NEW L, NEW P, NEW T,
           BackendOK(kind, sq, fl, items, puts, gets, evs, S, L, P, T)
    PROVE  items \in Seq(StoreItems) /\ puts \in Seq(StoreItems) /\ gets \in Seq(StoreGets) /\ evs \in Seq(StoreEvent)
  BY DEF BackendOK, Agrees

\* A put.
LEMMA PutKeeps ==
    ASSUME StoreInv, NEW i \in StoreItems, Put(i)
    PROVE  StoreInv'
<1>1. PICK S, L, P, A, I, n :
        /\ S = Committed /\ L = LiveItems /\ P = Pending /\ A = AskedGets
        /\ I = Started /\ n = Cardinality(Started \cup {i})
  OBVIOUS
<1>2. PICK kind, sq, fl, items, puts, gets, evs :
        /\ kind = storeKind /\ sq = sequence /\ fl = filterOf
        /\ items = inStore /\ puts = putQueue /\ gets = getQueue /\ evs = storeEvents
  OBVIOUS
<1>3. PICK sq2 : sq2 = [sequence EXCEPT ![i] = NextSequence]
  OBVIOUS
<1>4. PICK b : b = TriggerPut(Of(items, Append(puts, i), gets, evs))
  OBVIOUS
<1>5. /\ itemPhase[i] = "new" /\ itemPhase' = [itemPhase EXCEPT ![i] = "intent"]
      /\ sequence' = sq2 /\ Serving
      /\ UNCHANGED <<storeKind, getPhase, filterOf, selection, storeUp, todo, storeCrashes>>
  BY <1>3 DEF Put
<1>6. inStore' = b.items /\ putQueue' = b.puts /\ getQueue' = b.gets /\ storeEvents' = b.events
  <2>1. [Backend(storeEvents) EXCEPT !.puts = Append(@, i)] = Of(items, Append(puts, i), gets, evs)
    BY <1>2 DEF Backend, Of
  <2>2. PutStore(i)
    BY DEF Put
  <2> QED
    BY <1>4, <2>1, <2>2 DEF PutStore, SetBackend
<1>7. /\ StoreTypeOK /\ storeKind \in StoreKinds /\ Kept(kind, sq, fl, S, L, A, Cardinality(I))
      /\ BackendOK(kind, sq, fl, items, puts, gets, evs, S, L, P, {}) /\ ToSet(puts) \cap S = {}
      /\ todo = <<>> /\ ToSet(todo) = {} /\ storeUp
  BY <1>1, <1>2, <1>5, ServingIs DEF StoreInv
<1>8. /\ S \subseteq StoreItems /\ L \subseteq StoreItems /\ P \subseteq StoreGets /\ A \subseteq StoreGets
      /\ i \notin S /\ i \notin L /\ i \notin P /\ i \notin A /\ i \notin Started
  BY <1>1, <1>5, StoreAssumption DEF Committed, LiveItems, Live, Pending, AskedGets, Started
<1>9. Committed' = S /\ LiveItems' = L \cup {i} /\ Pending' = P /\ AskedGets' = A /\ Started' = Started \cup {i}
  BY <1>1, <1>5, <1>7 DEF Committed, LiveItems, Live, Pending, AskedGets, Started, StoreTypeOK
<1>10. /\ Numbers(sq, sq2, L, P, i)
       /\ sq2 \in [StoreItems \cup StoreGets -> 0..Cardinality(StoreItems \cup StoreGets)]
       /\ \A y \in StoreItems \cup StoreGets : sq2[y] <= n
       /\ \A y, z \in L \cup A \cup {i} : sq2[y] = sq2[z] => y = z
  <2>1. Numbers(sequence, sq2, LiveItems, Pending, i)
    BY <1>1, <1>3, <1>8, NumbersNext
  <2>2. sq2 \in [StoreItems \cup StoreGets -> 0..Cardinality(StoreItems \cup StoreGets)]
    BY <1>1, <1>3, <1>8, NumbersNext
  <2>3. \A y \in StoreItems \cup StoreGets : sq2[y] <= n
    BY <1>1, <1>3, <1>8, NumbersNext
  <2>4. \A y, z \in LiveItems \cup AskedGets \cup {i} : sq2[y] = sq2[z] => y = z
    BY <1>1, <1>3, <1>8, NumbersNext
  <2> QED
    BY <1>1, <1>2, <2>1, <2>2, <2>3, <2>4, Zenon
<1>11. BackendOK(kind, sq2, fl, items, puts, gets, evs, S, L \cup {i}, P, {i})
  <2>1. L \cup {i} = L \cup ({i} \cap StoreItems) /\ P = P \cup ({i} \cap StoreGets)
    BY StoreAssumption
  <2> QED
    BY <1>7, <1>8, <1>10, <2>1, NewKeeps
<1>12. /\ BackendOK(kind, sq2, fl, b.items, b.puts, b.gets, b.events, S, L \cup {i}, P, {})
       /\ ToSet(b.puts) \subseteq ToSet(puts) \cup {i}
  <2>1. NextPut(storeKind, sq2, i, puts, S, {i}) /\ {i} \ {i} = {}
    BY <1>7, <1>8 DEF Foremost, NextPut
  <2>2. PutsTo(items, puts, gets, evs, i, b)
    BY <1>4 DEF PutsTo
  <2>3. /\ BackendOK(storeKind, sq2, fl, b.items, b.puts, b.gets, b.events, S, L \cup {i}, P, {i} \ {i})
        /\ PutsAfter(puts, S, i, b.puts)
    BY <1>2, <1>11, <2>1, <2>2, PutStoreKeeps, Zenon
  <2> QED
    BY <1>2, <2>1, <2>3 DEF PutsAfter
<1>13. Kept(kind, sq2, fl, S, L \cup {i}, A, n)
  <2>1. \A y \in L : sq2[y] = sq[y] /\ sq2[y] < sq2[i]
    BY <1>10 DEF Numbers
  <2>2. kind = "fifo" => \A x \in S, y \in (L \cup {i}) \ S : sq2[x] < sq2[y]
    BY <1>7, <2>1 DEF Kept
  <2>3. \A y, z \in (L \cup {i}) \cup A : sq2[y] = sq2[z] => y = z
    BY <1>10
  <2> QED
    BY <1>7, <1>10, <2>2, <2>3 DEF Kept
<1>14. StoreTypeOK'
  <2>1. b.items \in Seq(StoreItems) /\ b.puts \in Seq(StoreItems) /\ b.gets \in Seq(StoreGets)
    BY <1>12, BackendTypes
  <2>2. itemPhase' \in [StoreItems -> {"new", "intent", "item", "consumed"}]
    BY <1>5, <1>7 DEF StoreTypeOK
  <2> QED
    BY <1>5, <1>6, <1>7, <1>10, <2>1, <2>2 DEF StoreTypeOK
<1>15. RebuildOK(kind, sq2, b.puts, b.gets, S, <<>>)
  BY <1>7, <1>8, <1>12, NothingLeft
<1>16. /\ storeKind' = kind /\ sequence' = sq2 /\ filterOf' = fl /\ storeUp' /\ todo' = <<>> /\ ToSet(todo') = {}
       /\ Cardinality(Started') = n /\ storeKind' \in StoreKinds
  BY <1>1, <1>2, <1>5, <1>7, <1>9
<1> QED
  BY <1>6, <1>9, <1>12, <1>13, <1>14, <1>15, <1>16, Zenon DEF StoreInv

\* A get.
LEMMA GetKeeps ==
    ASSUME StoreInv, NEW g \in StoreGets, NEW accepted \in StoreFilters, Get(g, accepted)
    PROVE  StoreInv'
<1>1. PICK S, L, P, A, I, n :
        /\ S = Committed /\ L = LiveItems /\ P = Pending /\ A = AskedGets
        /\ I = Started /\ n = Cardinality(Started \cup {g})
  OBVIOUS
<1>2. PICK kind, sq, fl, items, puts, gets, evs :
        /\ kind = storeKind /\ sq = sequence /\ fl = filterOf
        /\ items = inStore /\ puts = putQueue /\ gets = getQueue /\ evs = storeEvents
  OBVIOUS
<1>3. PICK sq2, fl2 : sq2 = [sequence EXCEPT ![g] = NextSequence] /\ fl2 = [filterOf EXCEPT ![g] = accepted]
  OBVIOUS
<1>4. PICK b : b = TriggerGet(fl2, Of(items, puts, Append(gets, g), evs))
  OBVIOUS
<1>5. /\ getPhase[g] = "new" /\ getPhase' = [getPhase EXCEPT ![g] = "pending"]
      /\ sequence' = sq2 /\ filterOf' = fl2 /\ Serving
      /\ accepted = StoreItems \/ storeKind = "filter"
      /\ UNCHANGED <<storeKind, itemPhase, selection, storeUp, todo, storeCrashes>>
  BY <1>3 DEF Get
<1>6. inStore' = b.items /\ putQueue' = b.puts /\ getQueue' = b.gets /\ storeEvents' = b.events
  <2>1. [Backend(storeEvents) EXCEPT !.gets = Append(@, g)] = Of(items, puts, Append(gets, g), evs)
    BY <1>2 DEF Backend, Of
  <2>2. GetStore(fl2, g)
    BY <1>5 DEF Get
  <2> QED
    BY <1>4, <2>1, <2>2 DEF GetStore, SetBackend
<1>7. /\ StoreTypeOK /\ storeKind \in StoreKinds /\ Kept(kind, sq, fl, S, L, A, Cardinality(I))
      /\ BackendOK(kind, sq, fl, items, puts, gets, evs, S, L, P, {}) /\ ToSet(puts) \cap S = {}
      /\ todo = <<>> /\ ToSet(todo) = {} /\ storeUp
  BY <1>1, <1>2, <1>5, ServingIs DEF StoreInv
<1>8. /\ S \subseteq StoreItems /\ L \subseteq StoreItems /\ P \subseteq StoreGets /\ A \subseteq StoreGets
      /\ g \notin S /\ g \notin L /\ g \notin P /\ g \notin A /\ g \notin Started
  BY <1>1, <1>5, StoreAssumption DEF Committed, LiveItems, Live, Pending, AskedGets, Started
<1>9. /\ Committed' = S /\ LiveItems' = L /\ Pending' = P \cup {g} /\ AskedGets' = A \cup {g}
      /\ Started' = Started \cup {g}
  BY <1>1, <1>5, <1>7 DEF Committed, LiveItems, Live, Pending, AskedGets, Started, StoreTypeOK
<1>10. /\ Numbers(sq, sq2, L, P, g)
       /\ sq2 \in [StoreItems \cup StoreGets -> 0..Cardinality(StoreItems \cup StoreGets)]
       /\ \A y \in StoreItems \cup StoreGets : sq2[y] <= n
       /\ \A y, z \in L \cup A \cup {g} : sq2[y] = sq2[z] => y = z
  <2>1. Numbers(sequence, sq2, LiveItems, Pending, g)
    BY <1>1, <1>3, <1>8, NumbersNext
  <2>2. sq2 \in [StoreItems \cup StoreGets -> 0..Cardinality(StoreItems \cup StoreGets)]
    BY <1>1, <1>3, <1>8, NumbersNext
  <2>3. \A y \in StoreItems \cup StoreGets : sq2[y] <= n
    BY <1>1, <1>3, <1>8, NumbersNext
  <2>4. \A y, z \in LiveItems \cup AskedGets \cup {g} : sq2[y] = sq2[z] => y = z
    BY <1>1, <1>3, <1>8, NumbersNext
  <2> QED
    BY <1>1, <1>2, <2>1, <2>2, <2>3, <2>4, Zenon
<1>11. /\ fl2 \in [StoreGets -> SUBSET StoreItems] /\ \A h \in StoreGets : h # g => fl2[h] = fl[h]
       /\ kind # "filter" => \A h \in StoreGets : fl2[h] = StoreItems
  <2>1. fl \in [StoreGets -> SUBSET StoreItems] /\ accepted \in SUBSET StoreItems
    BY <1>2, <1>7, StoreAssumption DEF StoreTypeOK
  <2>2. kind # "filter" => \A h \in StoreGets : fl[h] = StoreItems
    BY <1>7 DEF Kept
  <2> QED
    BY <1>2, <1>3, <1>5, <2>1, <2>2
<1>12. BackendOK(kind, sq2, fl2, items, puts, gets, evs, S, L, P \cup {g}, {g})
  <2>1. L = L \cup ({g} \cap StoreItems) /\ P \cup {g} = P \cup ({g} \cap StoreGets)
    BY StoreAssumption
  <2> QED
    BY <1>7, <1>8, <1>10, <1>11, <2>1, NewKeeps
<1>13. /\ BackendOK(kind, sq2, fl2, b.items, b.puts, b.gets, b.events, S, L, P \cup {g}, {})
       /\ b.puts = puts
  <2>1. NextGet(storeKind, sq2, fl2, g, {g}) /\ {g} \ {g} = {}
    BY <1>2, <1>11 DEF Foremost, NextGet
  <2>2. GetsTo(fl2, items, puts, gets, evs, g, b)
    BY <1>4 DEF GetsTo
  <2>3. BackendOK(storeKind, sq2, fl2, items, puts, gets, evs, S, L, P \cup {g}, {g})
    BY <1>2, <1>12
  <2>4. /\ BackendOK(storeKind, sq2, fl2, b.items, b.puts, b.gets, b.events, S, L, P \cup {g}, {g} \ {g})
        /\ b.puts = puts
    BY <2>1, <2>2, <2>3, GetStoreKeeps
  <2> QED
    BY <1>2, <2>1, <2>4
<1>14. Kept(kind, sq2, fl2, S, L, A \cup {g}, n)
  <2>1. \A y \in L : sq2[y] = sq[y]
    BY <1>10 DEF Numbers
  <2>2. kind = "fifo" => \A x \in S, y \in L \ S : sq2[x] < sq2[y]
    BY <1>7, <2>1 DEF Kept
  <2>3. \A y, z \in L \cup (A \cup {g}) : sq2[y] = sq2[z] => y = z
    BY <1>10
  <2> QED
    BY <1>7, <1>10, <1>11, <2>2, <2>3 DEF Kept
<1>15. StoreTypeOK'
  <2>1. b.items \in Seq(StoreItems) /\ b.puts \in Seq(StoreItems) /\ b.gets \in Seq(StoreGets)
    BY <1>13, BackendTypes
  <2>2. getPhase' \in [StoreGets -> {"new", "pending", "done"}]
    BY <1>5, <1>7 DEF StoreTypeOK
  <2> QED
    BY <1>5, <1>6, <1>7, <1>10, <1>11, <2>1, <2>2 DEF StoreTypeOK
<1>16. RebuildOK(kind, sq2, b.puts, b.gets, S, <<>>)
  BY <1>7, <1>13, NothingLeft
<1>17. /\ storeKind' = kind /\ sequence' = sq2 /\ filterOf' = fl2 /\ storeUp' /\ todo' = <<>> /\ ToSet(todo') = {}
       /\ Cardinality(Started') = n /\ storeKind' \in StoreKinds
  BY <1>1, <1>2, <1>5, <1>7, <1>9
<1> QED
  BY <1>6, <1>9, <1>13, <1>14, <1>15, <1>16, <1>17, Zenon DEF StoreInv

\* The commit of a put.
LEMMA CommitPutKeeps ==
    ASSUME StoreInv, CommitPut
    PROVE  StoreInv'
<1>1. PICK S, L, P, A, n :
        /\ S = Committed /\ L = LiveItems /\ P = Pending /\ A = AskedGets /\ n = Cardinality(Started)
  OBVIOUS
<1>2. PICK kind, sq, fl, items, puts, gets, evs :
        /\ kind = storeKind /\ sq = sequence /\ fl = filterOf
        /\ items = inStore /\ puts = putQueue /\ gets = getQueue /\ evs = storeEvents
  OBVIOUS
<1>3. PICK i, b : i = Head(storeEvents)[2] /\ b = TriggerGet(fl, Of(items, puts, gets, Tail(evs)))
  OBVIOUS
<1>4. /\ Serving /\ evs # <<>> /\ Head(evs)[1] = "put"
      /\ itemPhase' = [itemPhase EXCEPT ![i] = IF @ = "intent" THEN "item" ELSE @]
      /\ UNCHANGED <<storeKind, getPhase, filterOf, selection, sequence, storeUp, todo, storeCrashes>>
  BY <1>2, <1>3 DEF CommitPut
<1>5. inStore' = b.items /\ putQueue' = b.puts /\ getQueue' = b.gets /\ storeEvents' = b.events
  <2>1. Backend(Tail(storeEvents)) = Of(items, puts, gets, Tail(evs))
    BY <1>2 DEF Backend, Of
  <2>2. SetBackend(TriggerGet(filterOf, Backend(Tail(storeEvents))))
    BY DEF CommitPut
  <2> QED
    BY <1>2, <1>3, <2>1, <2>2 DEF SetBackend
<1>6. /\ StoreTypeOK /\ storeKind \in StoreKinds /\ Kept(kind, sq, fl, S, L, A, n)
      /\ BackendOK(kind, sq, fl, items, puts, gets, evs, S, L, P, {}) /\ ToSet(puts) \cap S = {}
      /\ todo = <<>> /\ ToSet(todo) = {} /\ storeUp
  BY <1>1, <1>2, <1>4, ServingIs DEF StoreInv
<1>7. Head(evs) = PutEvent(i)
  <2>1. evs \in Seq(StoreEvent)
    BY <1>6, BackendTypes
  <2>2. Head(evs) \in StoreEvent
    BY <1>4, <2>1, EmptySeq, HeadTailProperties
  <2> QED
    BY <1>2, <1>3, <1>4, <2>2 DEF StoreEvent, PutEvent, GetEvent
<1>8. /\ PutCommits(kind, sq, i, S, L)
      /\ BackendOK(kind, sq, fl, b.items, b.puts, b.gets, b.events, S \cup {i}, L, P, {})
      /\ b.puts = puts /\ i \notin ToSet(puts)
  <2>1. kind # "filter" => \A h \in StoreGets : fl[h] = StoreItems
    BY <1>6 DEF Kept
  <2>2. /\ CommitsPut(storeKind, fl, items, puts, gets, evs, i, b)
        /\ BackendOK(storeKind, sq, fl, items, puts, gets, evs, S, L, P, {})
    BY <1>2, <1>3, <1>4, <1>6, <1>7, <2>1 DEF CommitsPut
  <2>3. /\ PutCommits(storeKind, sq, i, S, L)
        /\ BackendOK(storeKind, sq, fl, b.items, b.puts, b.gets, b.events, S \cup {i}, L, P, {})
        /\ b.puts = puts /\ i \notin ToSet(puts)
    BY <2>2, CommitPutBackend
  <2> QED
    BY <1>2, <2>3
<1>9. i \in StoreItems /\ i \in L /\ itemPhase[i] \in {"intent", "item"}
  BY <1>1, <1>8 DEF PutCommits, LiveItems, Live
<1>10. itemPhase' = [itemPhase EXCEPT ![i] = "item"]
  BY <1>4, <1>6, <1>9 DEF StoreTypeOK
<1>11. Committed' = S \cup {i} /\ LiveItems' = L /\ Pending' = P /\ AskedGets' = A /\ Started' = Started
  BY <1>1, <1>4, <1>6, <1>9, <1>10 DEF Committed, LiveItems, Live, Pending, AskedGets, Started, StoreTypeOK
<1>12. Kept(kind, sq, fl, S \cup {i}, L, A, n)
  <2>1. S \cup {i} \subseteq L /\ Cardinality(S \cup {i}) <= StoreCapacity
    BY <1>6, <1>8 DEF Kept, PutCommits
  <2>2. ASSUME kind = "fifo", NEW x \in S \cup {i}, NEW y \in L \ (S \cup {i}) PROVE sq[x] < sq[y]
    <3>1. CASE x \in S
      BY <1>6, <2>2, <3>1 DEF Kept
    <3>2. CASE x = i /\ i \notin S
      <4>1. sq[i] <= sq[y]
        BY <1>8, <2>2, <3>2 DEF PutCommits
      <4>2. sq[i] # sq[y]
        BY <1>6, <1>9, <2>2 DEF Kept
      <4>3. sq[i] \in Int /\ sq[y] \in Int
        BY <1>1, <1>2, <1>6, <1>9 DEF StoreTypeOK, LiveItems
      <4> QED
        BY <3>2, <4>1, <4>2, <4>3
    <3> QED
      BY <3>1, <3>2
  <2> QED
    BY <1>6, <2>1, <2>2 DEF Kept
<1>13. StoreTypeOK'
  <2>1. b.items \in Seq(StoreItems) /\ b.puts \in Seq(StoreItems) /\ b.gets \in Seq(StoreGets)
    BY <1>8, BackendTypes
  <2>2. itemPhase' \in [StoreItems -> {"new", "intent", "item", "consumed"}]
    BY <1>6, <1>10 DEF StoreTypeOK
  <2> QED
    BY <1>4, <1>5, <1>6, <2>1, <2>2 DEF StoreTypeOK
<1>14. RebuildOK(kind, sq, b.puts, b.gets, S \cup {i}, <<>>)
  BY <1>6, <1>8, NothingLeft
<1>15. /\ storeKind' = kind /\ sequence' = sq /\ filterOf' = fl /\ storeUp' /\ todo' = <<>> /\ ToSet(todo') = {}
       /\ Cardinality(Started') = n /\ storeKind' \in StoreKinds
  BY <1>1, <1>2, <1>4, <1>6, <1>11
<1> QED
  BY <1>5, <1>8, <1>11, <1>12, <1>13, <1>14, <1>15, Zenon DEF StoreInv

\* The commit of a get.  What it finds in the records is what it needs.
LEMMA CommitGetIs ==
    ASSUME StoreInv, Serving, storeEvents # <<>>, Head(storeEvents)[1] = "get",
           NEW g, g = Head(storeEvents)[2], NEW i, i = Head(storeEvents)[3],
           NEW b, b = TriggerPut(Backend(Tail(storeEvents)))
    PROVE  /\ GetCommits(storeKind, sequence, g, i, Committed, LiveItems, Pending)
           /\ BackendOK(storeKind, sequence, filterOf, b.items, b.puts, b.gets, b.events,
                        Committed \ {i}, LiveItems \ {i}, Pending \ {g}, {})
           /\ ToSet(b.puts) \subseteq ToSet(putQueue)
<1>1. /\ BackendOK(storeKind, sequence, filterOf, inStore, putQueue, getQueue, storeEvents,
                   Committed, LiveItems, Pending, {})
      /\ ToSet(putQueue) \cap Committed = {}
  BY ServingIs
<1>2. Head(storeEvents) = GetEvent(g, i)
  <2>1. storeEvents \in Seq(StoreEvent)
    BY <1>1, BackendTypes
  <2>2. Head(storeEvents) \in StoreEvent
    BY <2>1, EmptySeq, HeadTailProperties
  <2> QED
    BY <2>2 DEF StoreEvent, PutEvent, GetEvent
<1>3. CommitsGet(inStore, putQueue, getQueue, storeEvents, g, i, b)
  BY <1>2 DEF CommitsGet, Backend, Of
<1> QED
  BY <1>1, <1>3, CommitGetBackend

\* The commit of a get keeps the invariant.
LEMMA CommitGetKeeps ==
    ASSUME StoreInv, CommitGet
    PROVE  StoreInv'
<1>1. PICK S, L, P, A, n :
        /\ S = Committed /\ L = LiveItems /\ P = Pending /\ A = AskedGets /\ n = Cardinality(Started)
  OBVIOUS
<1>2. PICK kind, sq, fl, puts : kind = storeKind /\ sq = sequence /\ fl = filterOf /\ puts = putQueue
  OBVIOUS
<1>3. PICK g, i, b : g = Head(storeEvents)[2] /\ i = Head(storeEvents)[3] /\ b = TriggerPut(Backend(Tail(storeEvents)))
  OBVIOUS
<1>4. /\ Serving /\ storeEvents # <<>> /\ Head(storeEvents)[1] = "get"
      /\ itemPhase' = [itemPhase EXCEPT ![i] = "consumed"]
      /\ getPhase' = [getPhase EXCEPT ![g] = "done"]
      /\ selection' = [selection EXCEPT ![g] = i]
      /\ inStore' = b.items /\ putQueue' = b.puts /\ getQueue' = b.gets /\ storeEvents' = b.events
      /\ UNCHANGED <<storeKind, filterOf, sequence, storeUp, todo, storeCrashes>>
  BY <1>3 DEF CommitGet, SetBackend
<1>5. /\ GetCommits(kind, sq, g, i, S, L, P)
      /\ BackendOK(kind, sq, fl, b.items, b.puts, b.gets, b.events, S \ {i}, L \ {i}, P \ {g}, {})
      /\ ToSet(b.puts) \subseteq ToSet(puts)
  BY <1>1, <1>2, <1>3, <1>4, CommitGetIs, Zenon
<1>6. /\ StoreTypeOK /\ storeKind \in StoreKinds /\ Kept(kind, sq, fl, S, L, A, n)
      /\ ToSet(puts) \cap S = {} /\ todo = <<>> /\ ToSet(todo) = {} /\ storeUp
  BY <1>1, <1>2, <1>4, ServingIs DEF StoreInv
<1>7. /\ g \in StoreGets /\ g \in P /\ i \in StoreItems /\ i \in S
      /\ S \subseteq StoreItems
  BY <1>1, <1>5 DEF GetCommits, Committed
<1>8. Committed' = S \ {i} /\ LiveItems' = L \ {i} /\ Pending' = P \ {g} /\ AskedGets' = A /\ Started' = Started
  BY <1>1, <1>4, <1>6, <1>7 DEF Committed, LiveItems, Live, Pending, AskedGets, Started, StoreTypeOK
<1>9. Kept(kind, sq, fl, S \ {i}, L \ {i}, A, n)
  <2>1. Cardinality(S \ {i}) <= StoreCapacity
    <3>1. IsFiniteSet(S)
      BY <1>7, StoreAssumption, FS_Subset
    <3>2. PICK S2 : S2 = S \ {i} /\ S2 \subseteq S
      OBVIOUS
    <3>3. IsFiniteSet(S2) /\ Cardinality(S2) <= Cardinality(S)
      BY <3>1, <3>2, FS_Subset
    <3>4. Cardinality(S) \in Nat /\ Cardinality(S2) \in Nat /\ StoreCapacity \in Nat
      BY <3>1, <3>3, FS_CardinalityType, StoreAssumption
    <3>5. Cardinality(S) <= StoreCapacity
      BY <1>6 DEF Kept
    <3> QED
      BY <3>2, <3>3, <3>4, <3>5
  <2> QED
    BY <1>6, <1>7, <2>1 DEF Kept
<1>10. StoreTypeOK'
  <2>1. b.items \in Seq(StoreItems) /\ b.puts \in Seq(StoreItems) /\ b.gets \in Seq(StoreGets)
    BY <1>5, BackendTypes
  <2>2. /\ itemPhase' \in [StoreItems -> {"new", "intent", "item", "consumed"}]
        /\ getPhase' \in [StoreGets -> {"new", "pending", "done"}]
        /\ selection' \in [StoreGets -> StoreItems \cup {"none"}]
    BY <1>4, <1>6, <1>7 DEF StoreTypeOK
  <2> QED
    BY <1>4, <1>6, <2>1, <2>2 DEF StoreTypeOK
<1>11. RebuildOK(kind, sq, b.puts, b.gets, S \ {i}, <<>>)
  BY <1>5, <1>6, NothingLeft
<1>12. /\ storeKind' = kind /\ sequence' = sq /\ filterOf' = fl /\ storeUp' /\ todo' = <<>> /\ ToSet(todo') = {}
       /\ Cardinality(Started') = n /\ storeKind' \in StoreKinds
  BY <1>1, <1>2, <1>4, <1>6, <1>8
<1> QED
  BY <1>4, <1>5, <1>8, <1>9, <1>10, <1>11, <1>12, Zenon DEF StoreInv

\* A crash keeps the records.
LEMMA StoreCrashKeeps ==
    ASSUME StoreInv, StoreCrash
    PROVE  StoreInv'
<1>1. /\ UNCHANGED <<storeKind, itemPhase, getPhase, filterOf, selection, sequence>> /\ storeUp' = FALSE
      /\ todo' = <<>> /\ inStore' = <<>> /\ putQueue' = <<>> /\ getQueue' = <<>> /\ storeEvents' = <<>>
      /\ storeCrashes < StoreMaxCrashes /\ storeCrashes' = storeCrashes + 1
  BY DEF StoreCrash, storeDurable
<1>2. Committed' = Committed /\ LiveItems' = LiveItems /\ AskedGets' = AskedGets /\ Started' = Started
  BY <1>1 DEF Committed, LiveItems, Live, AskedGets, Started
<1>3. StoreTypeOK'
  <2>1. <<>> \in Seq(StoreItems) /\ <<>> \in Seq(StoreGets)
    BY EmptySeq
  <2>2. storeCrashes' \in 0..StoreMaxCrashes
    BY <1>1, StoreAssumption DEF StoreInv, StoreTypeOK
  <2>3. StoreTypeOK
    BY DEF StoreInv
  <2> QED
    BY <1>1, <2>1, <2>2, <2>3 DEF StoreTypeOK
<1> QED
  BY <1>1, <1>2, <1>3 DEF StoreInv

\* No two of Q have the same sequence.
Apart(sq, Q) == \A x, y \in Q : sq[x] = sq[y] => x = y

\* Sorting by sequence.
LEMMA InSequenceIs ==
    ASSUME sequence \in [StoreItems \cup StoreGets -> Nat],
           NEW Q, Q \subseteq StoreItems \cup StoreGets, IsFiniteSet(Q), Apart(sequence, Q),
           NEW q, q = InSequence(Q)
    PROVE  /\ q \in Seq(Q) /\ ToSet(q) = Q /\ AllOnce(q)
           /\ \A a, b : Before(q, a, b) => sequence[a] < sequence[b]
<1>1. PICK R : R = {p \in Q \X Q : sequence[p[1]] < sequence[p[2]]}
  OBVIOUS
<1>2. \A x, y : <<x, y>> \in R <=> x \in Q /\ y \in Q /\ sequence[x] < sequence[y]
  BY <1>1
<1>3. \A x \in Q : sequence[x] \in Nat
  OBVIOUS
<1>4. Orders(R, Q)
  <2>1. \A x \in Q : <<x, x>> \notin R
    BY <1>2, <1>3
  <2>2. \A x, y, z \in Q : <<x, y>> \in R /\ <<y, z>> \in R => <<x, z>> \in R
    BY <1>2, <1>3
  <2>3. ASSUME NEW x \in Q, NEW y \in Q, x # y PROVE <<x, y>> \in R \/ <<y, x>> \in R
    <3>1. sequence[x] # sequence[y]
      BY <2>3 DEF Apart
    <3>2. sequence[x] < sequence[y] \/ sequence[y] < sequence[x]
      BY <1>3, <3>1
    <3> QED
      BY <1>2, <3>2
  <2> QED
    BY <2>1, <2>2, <2>3 DEF Orders
<1>5. q = Ordered(Q, R)
  BY <1>1 DEF InSequence
<1>6. /\ q \in Seq(Q) /\ ToSet(q) = Q /\ AllOnce(q)
      /\ \A a, b : Before(q, a, b) => <<a, b>> \in R
  BY <1>4, <1>5, OrderedIs
<1> QED
  BY <1>2, <1>6

\* Sorting the items that are put back.
LEMMA OrderedItemsIs ==
    ASSUME sequence \in [StoreItems \cup StoreGets -> Nat], Apart(sequence, Committed),
           NEW q, q = OrderedItems
    PROVE  /\ q \in Seq(Committed) /\ ToSet(q) = Committed /\ AllOnce(q)
           /\ storeKind = "fifo" => \A a, b : Before(q, a, b) => sequence[a] < sequence[b]
<1>1. PICK S : S = Committed
  OBVIOUS
<1>2. S \subseteq StoreItems /\ IsFiniteSet(S) /\ Apart(sequence, S)
  BY <1>1, StoreAssumption, FS_Subset DEF Committed
<1>3. CASE storeKind # "priority"
  <2>1. q = InSequence(S)
    BY <1>1, <1>3 DEF OrderedItems, Committed
  <2>2. /\ q \in Seq(S) /\ ToSet(q) = S /\ AllOnce(q)
        /\ \A a, b : Before(q, a, b) => sequence[a] < sequence[b]
    BY <1>2, <2>1, InSequenceIs
  <2> QED
    BY <1>1, <2>2
<1>4. CASE storeKind = "priority"
  <2>1. PICK R : R = {p \in S \X S :
             \/ ItemPriority[p[1]] < ItemPriority[p[2]]
             \/ ItemPriority[p[1]] = ItemPriority[p[2]] /\ sequence[p[1]] < sequence[p[2]]}
    OBVIOUS
  <2>2. \A x, y : <<x, y>> \in R <=>
             /\ x \in S /\ y \in S
             /\ \/ ItemPriority[x] < ItemPriority[y]
                \/ ItemPriority[x] = ItemPriority[y] /\ sequence[x] < sequence[y]
    BY <2>1
  <2>3. \A x \in S : sequence[x] \in Nat /\ ItemPriority[x] \in Int
    BY <1>2, StoreAssumption
  <2>4. Orders(R, S)
    <3>1. \A x \in S : <<x, x>> \notin R
      BY <2>2, <2>3
    <3>2. \A x, y, z \in S : <<x, y>> \in R /\ <<y, z>> \in R => <<x, z>> \in R
      BY <2>2, <2>3
    <3>3. ASSUME NEW x \in S, NEW y \in S, x # y PROVE <<x, y>> \in R \/ <<y, x>> \in R
      <4>1. sequence[x] # sequence[y]
        BY <1>2, <3>3 DEF Apart
      <4>2. \/ ItemPriority[x] < ItemPriority[y] \/ ItemPriority[y] < ItemPriority[x]
            \/ ItemPriority[x] = ItemPriority[y] /\ ItemPriority[y] = ItemPriority[x]
               /\ (sequence[x] < sequence[y] \/ sequence[y] < sequence[x])
        BY <2>3, <4>1
      <4> QED
        BY <2>2, <4>2
    <3> QED
      BY <3>1, <3>2, <3>3 DEF Orders
  <2>5. q = Ordered(S, R)
    BY <1>1, <1>4, <2>1 DEF OrderedItems, Committed
  <2>6. q \in Seq(S) /\ ToSet(q) = S /\ AllOnce(q)
    BY <1>2, <2>4, <2>5, OrderedIs
  <2> QED
    BY <1>1, <1>4, <2>6
<1> QED
  BY <1>3, <1>4

\* A new process has an empty backend and all of it to rebuild.
LEMMA NothingYet ==
    ASSUME NEW kind, NEW sq \in [StoreItems \cup StoreGets -> Nat], NEW fl,
           NEW S \in SUBSET StoreItems, NEW L \in SUBSET StoreItems, NEW P \in SUBSET StoreGets,
           S \subseteq L, Cardinality(S) <= StoreCapacity, NEW T, T = L \cup P
    PROVE  BackendOK(kind, sq, fl, <<>>, <<>>, <<>>, <<>>, S, L, P, T)
<1>1. PICK q : q = <<>>
  OBVIOUS
<1>2. q \in Seq(StoreItems) /\ q \in Seq(StoreGets) /\ q \in Seq(StoreEvent)
  BY <1>1, EmptySeq
<1>3. /\ ToSet(q) = {} /\ DOMAIN q = {} /\ AllOnce(q) /\ Len(q) = 0 /\ \A a, b : ~Before(q, a, b)
  BY <1>1, NoEvent, NothingOnce
<1>4. (\A i \in StoreItems : Once(q, PutEvent(i))) /\ PutItems(q) = {}
  BY <1>3 DEF Once, PutItems
<1>5. Follows(kind, sq, q, S, L, P, S, L, P)
  BY <1>1, FollowsNone
<1>6. /\ ToSet(q) \cup (S \cap (T \cup ToSet(q))) = S
      /\ ToSet(q) \cup ToSet(q) \cup (T \cap StoreItems) = L
      /\ ToSet(q) \cup (T \cap StoreGets) = P
  BY <1>3, StoreAssumption
<1>7. Follows(kind, sq, q, S, L, P, ToSet(q) \cup (S \cap (T \cup ToSet(q))),
              ToSet(q) \cup ToSet(q) \cup (T \cap StoreItems), ToSet(q) \cup (T \cap StoreGets))
  BY <1>5, <1>6, Zenon
<1>8. /\ ToSet(q) \cap ToSet(q) = {} /\ (ToSet(q) \cup ToSet(q) \cup ToSet(q)) \cap T = {}
      /\ PutItems(q) \cap (ToSet(q) \cup T) = {}
      /\ Len(q) <= StoreCapacity
  BY <1>3, <1>4, StoreAssumption
<1>9. /\ SortedBy(sq, q)
      /\ \A a \in ToSet(q), b \in ToSet(q) : sq[a] < sq[b]
      /\ \A a \in ToSet(q) \cup ToSet(q), b \in T \cap StoreItems : sq[a] < sq[b]
      /\ \A a \in ToSet(q), b \in T \cap StoreGets : sq[a] < sq[b]
  BY <1>3 DEF SortedBy
<1>10. Agrees(kind, sq, q, q, q, q, S, L, P, T)
  BY <1>2, <1>3, <1>4, <1>7, <1>8, <1>9, Zenon DEF Agrees
<1>11. PutsWoken(q, q, q, P, T) /\ GetsWoken(kind, fl, q, q, q)
  BY <1>1, <1>3 DEF PutsWoken, GetsWoken
<1> QED
  BY <1>1, <1>10, <1>11 DEF BackendOK

\* A rebuild begins.
LEMMA BeginRebuildKeeps ==
    ASSUME StoreInv, BeginRebuild
    PROVE  StoreInv'
<1>1. PICK S, L, P, A, n :
        /\ S = Committed /\ L = LiveItems /\ P = Pending /\ A = AskedGets /\ n = Cardinality(Started)
  OBVIOUS
<1>2. PICK kind, sq, fl : kind = storeKind /\ sq = sequence /\ fl = filterOf
  OBVIOUS
<1>3. PICK I : I = {i \in StoreItems : itemPhase[i] = "intent"}
  OBVIOUS
<1>4. PICK q1, q2 : q1 = OrderedItems /\ q2 = InSequence(I \cup P)
  OBVIOUS
<1>5. /\ ~storeUp /\ storeUp' = TRUE /\ todo' = q1 \o q2
      /\ UNCHANGED <<storeKind, itemPhase, getPhase, filterOf, selection, sequence>>
      /\ UNCHANGED <<inStore, putQueue, getQueue, storeEvents, storeCrashes>>
  BY <1>1, <1>3, <1>4 DEF BeginRebuild, storeDurable, storeBackend, Pending
<1>6. /\ StoreTypeOK /\ storeKind \in StoreKinds /\ Kept(kind, sq, fl, S, L, A, n)
      /\ inStore = <<>> /\ putQueue = <<>> /\ getQueue = <<>> /\ storeEvents = <<>>
  BY <1>1, <1>2, <1>5 DEF StoreInv
<1>7. /\ S \in SUBSET StoreItems /\ L \in SUBSET StoreItems /\ P \in SUBSET StoreGets /\ P \subseteq A
      /\ L = S \cup I /\ S \cap I = {} /\ I \subseteq StoreItems /\ I = L \ S
  BY <1>1, <1>3 DEF Committed, LiveItems, Live, Pending, AskedGets
<1>8. sq \in [StoreItems \cup StoreGets -> Nat]
  BY <1>2, <1>6 DEF StoreTypeOK
<1>9. Apart(sq, S) /\ Apart(sq, I \cup P)
  BY <1>6, <1>7 DEF Kept, Apart
<1>10. /\ q1 \in Seq(S) /\ ToSet(q1) = S /\ AllOnce(q1)
       /\ kind = "fifo" => \A a, b : Before(q1, a, b) => sq[a] < sq[b]
  BY <1>1, <1>2, <1>4, <1>8, <1>9, OrderedItemsIs
<1>11. /\ q2 \in Seq(I \cup P) /\ ToSet(q2) = I \cup P /\ AllOnce(q2)
       /\ \A a, b : Before(q2, a, b) => sq[a] < sq[b]
  <2>1. PICK Q : Q = I \cup P
    OBVIOUS
  <2>2. Q \subseteq StoreItems \cup StoreGets
    BY <1>7, <2>1
  <2>3. IsFiniteSet(Q)
    <3>1. IsFiniteSet(I) /\ IsFiniteSet(P)
      BY <1>7, StoreAssumption, FS_Subset
    <3> QED
      BY <2>1, <3>1, FS_Union
  <2> QED
    BY <1>2, <1>4, <1>8, <1>9, <2>1, <2>2, <2>3, InSequenceIs
<1>12. PICK td : td = q1 \o q2
  OBVIOUS
<1>13. q1 \in Seq(StoreItems \cup StoreGets) /\ q2 \in Seq(StoreItems \cup StoreGets)
  BY <1>7, <1>10, <1>11
<1>14. ToSet(q1) \cap ToSet(q2) = {}
  BY <1>7, <1>10, <1>11, StoreAssumption
<1>15. /\ td \in Seq(StoreItems \cup StoreGets) /\ ToSet(td) = L \cup P /\ AllOnce(td)
       /\ \A a, b : Before(td, a, b) =>
              Before(q1, a, b) \/ Before(q2, a, b) \/ (a \in S /\ b \in I \cup P)
  <2>1. /\ td \in Seq(StoreItems \cup StoreGets) /\ ToSet(td) = ToSet(q1) \cup ToSet(q2) /\ AllOnce(td)
        /\ \A a, b : Before(td, a, b) =>
              Before(q1, a, b) \/ Before(q2, a, b) \/ (a \in ToSet(q1) /\ b \in ToSet(q2))
    BY <1>10, <1>11, <1>12, <1>13, <1>14, OnceConcat
  <2> QED
    BY <1>7, <1>10, <1>11, <2>1
<1>16. BackendOK(kind, sq, fl, <<>>, <<>>, <<>>, <<>>, S, L, P, ToSet(td))
  <2>1. S \subseteq L /\ Cardinality(S) <= StoreCapacity
    BY <1>6 DEF Kept
  <2> QED
    BY <1>7, <1>8, <1>15, <2>1, NothingYet
<1>17. RebuildOK(kind, sq, <<>>, <<>>, S, td)
  <2>1. ToSet(<<>>) \cap S = {}
    BY NoEvent
  <2>2. ASSUME NEW a, NEW b, Before(td, a, b)
        PROVE  /\ b \in S => a \in S
               /\ (kind = "fifo" /\ (a \in StoreItems <=> b \in StoreItems)) => sq[a] < sq[b]
    <3>1. CASE Before(q1, a, b)
      BY <1>10, <3>1, BeforeIn
    <3>2. CASE Before(q2, a, b)
      <4>1. b \in I \cup P
        BY <1>11, <3>2, BeforeIn
      <4> QED
        BY <1>7, <1>11, <3>2, <4>1, StoreAssumption
    <3>3. CASE a \in S /\ b \in I \cup P
      BY <1>6, <1>7, <3>3, StoreAssumption DEF Kept
    <3> QED
      BY <1>15, <2>2, <3>1, <3>2, <3>3
  <2> QED
    BY <1>15, <2>1, <2>2 DEF RebuildOK
<1>18. /\ Committed' = S /\ LiveItems' = L /\ Pending' = P /\ AskedGets' = A /\ Started' = Started
  BY <1>1, <1>5 DEF Committed, LiveItems, Live, Pending, AskedGets, Started
<1>19. StoreTypeOK'
  BY <1>5, <1>6 DEF StoreTypeOK
<1>20. /\ storeKind' = kind /\ sequence' = sq /\ filterOf' = fl /\ storeUp' /\ todo' = td
       /\ inStore' = <<>> /\ putQueue' = <<>> /\ getQueue' = <<>> /\ storeEvents' = <<>>
       /\ Cardinality(Started') = n /\ storeKind' \in StoreKinds
  BY <1>1, <1>2, <1>5, <1>6, <1>12, <1>18
<1> QED
  BY <1>6, <1>16, <1>17, <1>18, <1>19, <1>20, Zenon DEF StoreInv

\* The first of what a rebuild has left is the next to be submitted.
LEMMA HeadIsNext ==
    ASSUME StoreInv, todo # <<>>, NEW x, x = Head(todo), NEW T, T = ToSet(todo)
    PROVE  /\ x \in StoreItems \cup StoreGets /\ x \in T /\ storeUp
           /\ Tail(todo) \in Seq(StoreItems \cup StoreGets) /\ AllOnce(Tail(todo)) /\ ToSet(Tail(todo)) = T \ {x}
           /\ Foremost(storeKind, sequence, x, T)
           /\ T \cap Committed # {} => x \in Committed /\ putQueue = <<>> /\ getQueue = <<>>
           /\ \A a, b : Before(Tail(todo), a, b) => Before(todo, a, b)
<1>1. storeUp /\ RebuildOK(storeKind, sequence, putQueue, getQueue, Committed, todo)
  BY DEF StoreInv
<1>2. todo \in Seq(StoreItems \cup StoreGets) /\ AllOnce(todo)
  BY <1>1 DEF RebuildOK
<1>3. /\ x \in StoreItems \cup StoreGets /\ x \in T
      /\ Tail(todo) \in Seq(StoreItems \cup StoreGets) /\ AllOnce(Tail(todo)) /\ ToSet(Tail(todo)) = T \ {x}
      /\ \A a, b : Before(Tail(todo), a, b) => Before(todo, a, b)
      /\ \A b \in ToSet(Tail(todo)) : Before(todo, x, b)
  BY <1>2, OnceTail
<1>4. \A y \in T : y # x => Before(todo, x, y)
  BY <1>3
<1>5. Foremost(storeKind, sequence, x, T)
  BY <1>1, <1>4 DEF Foremost, RebuildOK
<1>6. T \cap Committed # {} => x \in Committed /\ putQueue = <<>> /\ getQueue = <<>>
  BY <1>1, <1>4 DEF RebuildOK
<1> QED
  BY <1>1, <1>3, <1>5, <1>6

\* The rebuild submits something.
LEMMA SubmitNextKeeps ==
    ASSUME StoreInv, SubmitNext
    PROVE  StoreInv'
<1>1. PICK S, L, P, A, n :
        /\ S = Committed /\ L = LiveItems /\ P = Pending /\ A = AskedGets /\ n = Cardinality(Started)
  OBVIOUS
<1>2. PICK kind, sq, fl, items, puts, gets, evs, td :
        /\ kind = storeKind /\ sq = sequence /\ fl = filterOf /\ td = todo
        /\ items = inStore /\ puts = putQueue /\ gets = getQueue /\ evs = storeEvents
  OBVIOUS
<1>3. PICK x, T, rest : x = Head(todo) /\ T = ToSet(todo) /\ rest = Tail(todo)
  OBVIOUS
<1>4. /\ todo # <<>> /\ todo' = rest
      /\ UNCHANGED <<storeKind, itemPhase, getPhase, filterOf, selection, sequence, storeUp, storeCrashes>>
  BY <1>3 DEF SubmitNext, storeDurable
<1>5. /\ x \in StoreItems \cup StoreGets /\ x \in T /\ storeUp
      /\ rest \in Seq(StoreItems \cup StoreGets) /\ AllOnce(rest) /\ ToSet(rest) = T \ {x}
      /\ Foremost(kind, sq, x, T)
      /\ T \cap S # {} => x \in S /\ puts = <<>> /\ gets = <<>>
      /\ \A a, b : Before(rest, a, b) => Before(td, a, b)
  BY <1>1, <1>2, <1>3, <1>4, HeadIsNext
<1>6. /\ StoreTypeOK /\ storeKind \in StoreKinds /\ Kept(kind, sq, fl, S, L, A, n)
      /\ BackendOK(kind, sq, fl, items, puts, gets, evs, S, L, P, T)
      /\ RebuildOK(kind, sq, puts, gets, S, td)
  BY <1>1, <1>2, <1>3, <1>5 DEF StoreInv
<1>7. S \subseteq StoreItems /\ ToSet(puts) \cap S = {}
  BY <1>1, <1>6 DEF Committed, RebuildOK
<1>8. PICK b : /\ inStore' = b.items /\ putQueue' = b.puts /\ getQueue' = b.gets /\ storeEvents' = b.events
               /\ BackendOK(kind, sq, fl, b.items, b.puts, b.gets, b.events, S, L, P, T \ {x})
               /\ ToSet(b.puts) \cap S = {}
               /\ (T \ {x}) \cap S # {} => b.puts = <<>> /\ b.gets = <<>>
  <2>1. CASE x \in StoreItems
    <3>1. PICK b : b = TriggerPut(Of(items, Append(puts, x), gets, evs))
      OBVIOUS
    <3>2. inStore' = b.items /\ putQueue' = b.puts /\ getQueue' = b.gets /\ storeEvents' = b.events
      <4>1. [Backend(storeEvents) EXCEPT !.puts = Append(@, x)] = Of(items, Append(puts, x), gets, evs)
        BY <1>2 DEF Backend, Of
      <4>2. PutStore(x)
        BY <1>3, <2>1 DEF SubmitNext
      <4> QED
        BY <3>1, <4>1, <4>2 DEF PutStore, SetBackend
    <3>3. /\ NextPut(storeKind, sq, x, puts, S, T) /\ PutsTo(items, puts, gets, evs, x, b)
          /\ BackendOK(storeKind, sq, fl, items, puts, gets, evs, S, L, P, T)
      <4>1. S \cap (T \cup ToSet(puts)) = {} \/ (puts = <<>> /\ x \in S)
        BY <1>5, <1>7
      <4> QED
        BY <1>2, <1>5, <1>6, <2>1, <3>1, <4>1 DEF NextPut, PutsTo
    <3>4. /\ BackendOK(storeKind, sq, fl, b.items, b.puts, b.gets, b.events, S, L, P, T \ {x})
          /\ b.gets = gets /\ PutsAfter(puts, S, x, b.puts)
      BY <3>3, PutStoreKeeps
    <3>5. ToSet(b.puts) \cap S = {}
      <4>1. CASE x \in S
        BY <3>4, <4>1, NoEvent DEF PutsAfter
      <4>2. CASE x \notin S
        BY <1>7, <3>4, <4>2 DEF PutsAfter
      <4> QED
        BY <4>1, <4>2
    <3>6. (T \ {x}) \cap S # {} => b.puts = <<>> /\ b.gets = <<>>
      BY <1>5, <3>4 DEF PutsAfter
    <3> QED
      BY <1>2, <3>2, <3>4, <3>5, <3>6
  <2>2. CASE x \notin StoreItems
    <3>1. PICK b : b = TriggerGet(fl, Of(items, puts, Append(gets, x), evs))
      OBVIOUS
    <3>2. inStore' = b.items /\ putQueue' = b.puts /\ getQueue' = b.gets /\ storeEvents' = b.events
      <4>1. [Backend(storeEvents) EXCEPT !.gets = Append(@, x)] = Of(items, puts, Append(gets, x), evs)
        BY <1>2 DEF Backend, Of
      <4>2. GetStore(filterOf, x)
        BY <1>3, <2>2 DEF SubmitNext
      <4> QED
        BY <1>2, <3>1, <4>1, <4>2 DEF GetStore, SetBackend
    <3>3. /\ NextGet(storeKind, sq, fl, x, T) /\ GetsTo(fl, items, puts, gets, evs, x, b)
          /\ BackendOK(storeKind, sq, fl, items, puts, gets, evs, S, L, P, T)
      <4>1. kind # "filter" => \A h \in StoreGets : fl[h] = StoreItems
        BY <1>6 DEF Kept
      <4> QED
        BY <1>2, <1>5, <1>6, <2>2, <3>1, <4>1 DEF NextGet, GetsTo
    <3>4. /\ BackendOK(storeKind, sq, fl, b.items, b.puts, b.gets, b.events, S, L, P, T \ {x})
          /\ b.puts = puts
      <4>1. BackendOK(storeKind, sq, fl, b.items, b.puts, b.gets, b.events, S, L, P, T \ {x})
        BY <3>3, GetStoreKeeps
      <4>2. b.puts = puts
        BY <3>3, <4>1, GetStoreKeeps, SMTT(60)
      <4> QED
        BY <4>1, <4>2
    <3>5. T \cap S = {}
      BY <1>5, <1>7, <2>2
    <3> QED
      BY <1>2, <1>7, <3>2, <3>4, <3>5
  <2> QED
    BY <2>1, <2>2
<1>9. RebuildOK(kind, sq, b.puts, b.gets, S, rest)
  BY <1>5, <1>6, <1>8 DEF RebuildOK
<1>10. /\ Committed' = S /\ LiveItems' = L /\ Pending' = P /\ AskedGets' = A /\ Started' = Started
  BY <1>1, <1>4 DEF Committed, LiveItems, Live, Pending, AskedGets, Started
<1>11. StoreTypeOK'
  <2>1. b.items \in Seq(StoreItems) /\ b.puts \in Seq(StoreItems) /\ b.gets \in Seq(StoreGets)
    BY <1>8, BackendTypes
  <2> QED
    BY <1>4, <1>6, <1>8, <2>1 DEF StoreTypeOK
<1>12. /\ storeKind' = kind /\ sequence' = sq /\ filterOf' = fl /\ storeUp' /\ todo' = rest
       /\ Cardinality(Started') = n /\ storeKind' \in StoreKinds /\ ToSet(todo') = T \ {x}
  BY <1>1, <1>2, <1>4, <1>5, <1>6, <1>10
<1> QED
  BY <1>6, <1>8, <1>9, <1>10, <1>11, <1>12, Zenon DEF StoreInv

\* Nothing exists at first.
LEMMA StoreInitInv ==
    ASSUME StoreInit
    PROVE  StoreInv
<1>1. StoreTypeOK
  <2>1. <<>> \in Seq(StoreItems) /\ <<>> \in Seq(StoreGets)
    BY EmptySeq
  <2>2. 0 \in 0..Cardinality(StoreItems \cup StoreGets) /\ 0 \in 0..StoreMaxCrashes
    BY StartedCounts, StoreAssumption
  <2> QED
    BY <2>1, <2>2 DEF StoreInit, StoreTypeOK
<1>2. Committed = {} /\ LiveItems = {} /\ AskedGets = {}
  BY DEF StoreInit, Committed, LiveItems, Live, AskedGets
<1>3. Cardinality(Committed) <= StoreCapacity
  BY <1>2, FS_EmptySet, StoreAssumption
<1>4. Kept(storeKind, sequence, filterOf, Committed, LiveItems, AskedGets, Cardinality(Started))
  BY <1>2, <1>3, StartedCounts DEF Kept, StoreInit
<1> QED
  BY <1>1, <1>4 DEF StoreInv, StoreInit

\* Every step keeps the invariant.
LEMMA StoreNextInv ==
    ASSUME StoreInv, [StoreNext]_storeVars
    PROVE  StoreInv'
<1>1. ASSUME NEW i \in StoreItems, Put(i) PROVE StoreInv'
  BY <1>1, PutKeeps
<1>2. ASSUME NEW g \in StoreGets, NEW accepted \in StoreFilters, Get(g, accepted) PROVE StoreInv'
  BY <1>2, GetKeeps
<1>3. CASE CommitPut
  BY <1>3, CommitPutKeeps
<1>4. CASE CommitGet
  BY <1>4, CommitGetKeeps
<1>5. CASE BeginRebuild
  BY <1>5, BeginRebuildKeeps
<1>6. CASE SubmitNext
  BY <1>6, SubmitNextKeeps
<1>7. CASE StoreCrash
  BY <1>7, StoreCrashKeeps
<1>8. CASE UNCHANGED storeVars
  <2>1. /\ UNCHANGED <<storeKind, itemPhase, getPhase, filterOf, selection, sequence, storeUp, todo>>
        /\ UNCHANGED <<inStore, putQueue, getQueue, storeEvents, storeCrashes>>
    BY <1>8 DEF storeVars, storeDurable, storeBackend
  <2>2. StoreTypeOK' <=> StoreTypeOK
    BY <2>1 DEF StoreTypeOK
  <2>3. /\ Committed' = Committed /\ LiveItems' = LiveItems /\ Pending' = Pending
        /\ AskedGets' = AskedGets /\ Started' = Started
    BY <2>1 DEF Committed, LiveItems, Live, Pending, AskedGets, Started
  <2> QED
    BY <2>1, <2>2, <2>3 DEF StoreInv
<1> QED
  BY <1>1, <1>2, <1>3, <1>4, <1>5, <1>6, <1>7, <1>8 DEF StoreNext, StoreServe

\* What a store has when its backend has nothing left to do.
LEMMA AtRest ==
    ASSUME StoreInv, Serving, storeEvents = <<>>
    PROVE  /\ ToSet(inStore) = Committed /\ ToSet(putQueue) = LiveItems \ Committed /\ ToSet(getQueue) = Pending
           /\ \A i \in Committed, g \in Pending : i \notin filterOf[g]
           /\ putQueue # <<>> => Len(inStore) = StoreCapacity
<1>1. PICK S, L, P : S = Committed /\ L = LiveItems /\ P = Pending
  OBVIOUS
<1>2. /\ Agrees(storeKind, sequence, inStore, putQueue, getQueue, storeEvents, S, L, P, {})
      /\ PutsWoken(inStore, putQueue, getQueue, P, {})
      /\ GetsWoken(storeKind, filterOf, inStore, getQueue, storeEvents)
      /\ ToSet(putQueue) \cap S = {}
  BY <1>1, ServingIs DEF BackendOK
<1>3. PICK S1, L1, P1 : /\ S1 = ToSet(inStore) \cup (S \cap ({} \cup ToSet(putQueue)))
                        /\ L1 = ToSet(inStore) \cup ToSet(putQueue) \cup ({} \cap StoreItems)
                        /\ P1 = ToSet(getQueue) \cup ({} \cap StoreGets)
  OBVIOUS
<1>4. Follows(storeKind, sequence, <<>>, S, L, P, S1, L1, P1)
  BY <1>2, <1>3 DEF Agrees
<1>5. S1 = S /\ L1 = L /\ P1 = P
  BY <1>4, FollowsEnd
<1>6. ToSet(inStore) = S /\ ToSet(putQueue) = L \ S /\ ToSet(getQueue) = P
  BY <1>2, <1>3, <1>5
<1>7. inStore \in Seq(StoreItems) /\ getQueue \in Seq(StoreGets) /\ Len(inStore) <= StoreCapacity
  BY <1>2 DEF Agrees
<1>8. ToSet(storeEvents) = {} /\ PutItems(storeEvents) = {}
  BY NoEvent DEF PutItems
<1>9. ASSUME NEW i \in S, NEW g \in P PROVE i \notin filterOf[g]
  <2>1. CASE storeKind = "filter"
    BY <1>2, <1>6, <1>8, <2>1 DEF GetsWoken
  <2>2. CASE storeKind # "filter"
    <3>1. getQueue # <<>> /\ inStore # <<>>
      BY <1>6, <1>7, NoneIn
    <3>2. Len(inStore) <= 0
      BY <1>2, <1>8, <2>2, <3>1, FS_EmptySet DEF GetsWoken
    <3>3. Len(inStore) \in Nat /\ Len(inStore) # 0
      BY <1>7, <3>1, EmptySeq, LenProperties
    <3> QED
      BY <3>2, <3>3
  <2> QED
    BY <2>1, <2>2
<1>10. putQueue # <<>> => Len(inStore) = StoreCapacity
  <2>1. P \ (ToSet(getQueue) \cup {}) = {}
    BY <1>6
  <2>2. Cardinality(P \ (ToSet(getQueue) \cup {})) = 0
    BY <2>1, FS_EmptySet
  <2>3. Len(inStore) \in Nat /\ StoreCapacity \in Nat
    BY <1>7, LenProperties, StoreAssumption
  <2>4. putQueue # <<>> => StoreCapacity <= Len(inStore) + 0
    BY <1>2, <2>2 DEF PutsWoken
  <2> QED
    BY <1>7, <2>3, <2>4
<1> QED
  BY <1>1, <1>6, <1>9, <1>10

\* The invariant rules out a store that is stuck.
LEMMA InvNothingStuck ==
    ASSUME StoreInv
    PROVE  NothingStuck
<1>1. Cardinality(Committed) <= StoreCapacity
  BY DEF StoreInv, Kept
<1>2. ASSUME Serving, storeEvents = <<>>
      PROVE  /\ \A i \in StoreItems, g \in StoreGets :
                  itemPhase[i] = "item" /\ getPhase[g] = "pending" => i \notin filterOf[g]
             /\ putQueue # <<>> => Len(inStore) = StoreCapacity
             /\ \A i \in StoreItems :
                  /\ itemPhase[i] = "intent" <=> i \in ToSet(putQueue)
                  /\ itemPhase[i] = "item" <=> i \in ToSet(inStore)
  <2>1. /\ ToSet(inStore) = Committed /\ ToSet(putQueue) = LiveItems \ Committed
        /\ \A i \in Committed, g \in Pending : i \notin filterOf[g]
        /\ putQueue # <<>> => Len(inStore) = StoreCapacity
    BY <1>2, AtRest
  <2> QED
    BY <2>1 DEF Committed, LiveItems, Live, Pending
<1> QED
  BY <1>1, <1>2 DEF NothingStuck, Committed

\* A get that is done took what the order of a fifo store says.
LEMMA FifoStep ==
    ASSUME StoreInv, [StoreNext]_storeVars, storeKind = "fifo",
           NEW h \in StoreGets, getPhase[h] = "pending", getPhase'[h] = "done"
    PROVE  /\ \A g \in StoreGets : getPhase[g] = "pending" => sequence[h] <= sequence[g]
           /\ \A i \in StoreItems : Live(i) => sequence[selection'[h]] <= sequence[i]
<1>1. CommitGet
  <2>1. ~(getPhase' = getPhase)
    OBVIOUS
  <2>2. ASSUME NEW g \in StoreGets, NEW accepted \in StoreFilters, Get(g, accepted) PROVE FALSE
    <3>1. getPhase' = [getPhase EXCEPT ![g] = "pending"] /\ getPhase \in [StoreGets -> {"new", "pending", "done"}]
      BY <2>2 DEF Get, StoreInv, StoreTypeOK
    <3> QED
      BY <3>1
  <2> QED
    BY <2>1, <2>2 DEF StoreNext, StoreServe, Put, CommitPut, BeginRebuild, SubmitNext, StoreCrash,
                     storeVars, storeDurable
<1>2. PICK g, i, b : g = Head(storeEvents)[2] /\ i = Head(storeEvents)[3] /\ b = TriggerPut(Backend(Tail(storeEvents)))
  OBVIOUS
<1>3. /\ Serving /\ storeEvents # <<>> /\ Head(storeEvents)[1] = "get"
      /\ getPhase' = [getPhase EXCEPT ![g] = "done"]
      /\ selection' = [selection EXCEPT ![g] = i]
  BY <1>1, <1>2 DEF CommitGet
<1>4. GetCommits(storeKind, sequence, g, i, Committed, LiveItems, Pending)
  BY <1>2, <1>3, CommitGetIs
<1>5. g = h /\ selection'[h] = i
  BY <1>3 DEF StoreInv, StoreTypeOK
<1> QED
  BY <1>4, <1>5 DEF GetCommits, Pending, LiveItems

\* The records and the backend of a store always agree: the events that are
\* still to be committed lead from the one to the other, and whatever waits has
\* a reason to (DurableStoreManager with its SimPy store).
THEOREM StoreInvariant == StoreSpec => []StoreInv
<1>1. StoreInit => StoreInv
  BY StoreInitInv
<1>2. StoreInv /\ [StoreNext]_storeVars => StoreInv'
  BY StoreNextInv
<1> QED
  BY <1>1, <1>2, PTL DEF StoreSpec

\* The types of the stores' state.
THEOREM StoreTypes == StoreSpec => []StoreTypeOK
<1>1. StoreInv => StoreTypeOK
  BY DEF StoreInv
<1> QED
  BY <1>1, StoreInvariant, PTL

\* The items in the database never exceed the capacity, so a rebuild never
\* raises, and a backend with nothing left to do leaves no get beside an item it
\* accepts and no put beside room.
THEOREM StoresNeverStick == StoreSpec => []NothingStuck
<1>1. StoreInv => NothingStuck
  BY InvNothingStuck
<1> QED
  BY <1>1, StoreInvariant, PTL

\* A fifo store delivers the oldest item to the oldest get, also after crashes
\* and although the sequence numbers of consumed items are given out again.
THEOREM FifoHolds == StoreSpec => FifoDelivery
<1>1. StoreInv /\ [StoreNext]_storeVars =>
        [storeKind = "fifo" =>
          \A h \in StoreGets :
              getPhase[h] = "pending" /\ getPhase'[h] = "done" =>
                  /\ \A g \in StoreGets : getPhase[g] = "pending" => sequence[h] <= sequence[g]
                  /\ \A i \in StoreItems :
                        Live(i) => sequence[selection'[h]] <= sequence[i]]_storeVars
  BY FifoStep
<1> QED
  BY <1>1, StoreInvariant, PTL DEF StoreSpec, FifoDelivery

-----------------------------------------------------------------------------
(***************************************************************************)
(* The four kinds of object together                                       *)
(***************************************************************************)

ObjectsInv == ResInv /\ PreInv /\ StoreInv /\ ContInv

\* A step of one object leaves the others alone.
LEMMA ObjectSteps ==
    ASSUME [Next]_vars
    PROVE  [ResNext]_resVars /\ [PreNext]_preVars /\ [StoreNext]_storeVars /\ [ContNext]_contVars
<1>1. CASE UNCHANGED vars
  BY <1>1 DEF vars
<1>2. CASE Next
  BY <1>2 DEF Next, ResourceStep, PreemptiveStep, StoreStep, ContainerStep
<1> QED
  BY <1>1, <1>2

\* Each of the four managers keeps its invariant when they are put together.
THEOREM ObjectsInvariant == Spec => []ObjectsInv
<1>1. Init => ObjectsInv
  BY InitInv, PreInitial, StoreInitInv, ContainerBegins DEF Init, ObjectsInv
<1>2. ObjectsInv /\ [Next]_vars => ObjectsInv'
  BY ObjectSteps, NextInv, PreemptiveSteps, StoreNextInv, ContainerSteps DEF ObjectsInv
<1> QED
  BY <1>1, <1>2, PTL DEF Spec

\* The types of the four managers, in memory and in the database: crashes and
\* rebuilds included, no queue, record or lease ever holds anything else.
THEOREM ObjectsTypes == Spec => []TypeOK
<1>1. ObjectsInv => TypeOK
  BY DEF ObjectsInv, TypeOK, ResInv, PreInv, StoreInv, ContInv
<1> QED
  BY <1>1, ObjectsInvariant, PTL

=============================================================================
