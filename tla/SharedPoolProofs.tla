-------------------------- MODULE SharedPoolProofs --------------------------
EXTENDS SharedPool, FiniteSetTheorems, SequenceTheorems, WellFoundedInduction, TLAPS

\* A nonempty set of numbers has a least element.
LEMMA Least ==
    ASSUME NEW T \in SUBSET Nat, T # {}
    PROVE  \E x \in T : \A y \in T : x <= y
<1>1. PICK x \in T : \A y \in T : ~(<<y, x>> \in OpToRel(<, Nat))
  BY WFMin, NatLessThanWellFounded
<1>2. \A y \in T : ~(y < x)
  <2> SUFFICES ASSUME NEW y \in T, y < x PROVE FALSE
    OBVIOUS
  <2>1. <<y, x>> \in OpToRel(<, Nat)
    BY Zenon DEF OpToRel
  <2> QED
    BY <1>1, <2>1
<1> QED
  BY <1>2, SMT

\* The ranks number the elements of a finite set.
LEMMA RankNth ==
    ASSUME NEW S \in SUBSET Nat, IsFiniteSet(S)
    PROVE  /\ \A k \in S : Rank(S, k) \in 1..Cardinality(S) /\ Nth(S, Rank(S, k)) = k
           /\ \A n \in 1..Cardinality(S) : Nth(S, n) \in S /\ Rank(S, Nth(S, n)) = n
<1>1. Cardinality(S) \in Nat
  BY FS_CardinalityType
<1>2. \A k \in S : Rank(S, k) \in 1..Cardinality(S)
  <2> SUFFICES ASSUME NEW k \in S PROVE Rank(S, k) \in 1..Cardinality(S)
    OBVIOUS
  <2>1. {j \in S : j <= k} \subseteq S /\ {k} \subseteq {j \in S : j <= k}
    OBVIOUS
  <2>2. IsFiniteSet({j \in S : j <= k})
    BY <2>1, FS_Subset
  <2>3. Cardinality({j \in S : j <= k}) <= Cardinality(S)
    BY <2>1, FS_Subset
  <2>4. Cardinality({k}) <= Cardinality({j \in S : j <= k})
    BY <2>1, <2>2, FS_Subset
  <2>5. Cardinality({k}) = 1
    BY FS_Singleton
  <2>6. Cardinality({j \in S : j <= k}) \in Nat
    BY <2>2, FS_CardinalityType
  <2> QED
    BY <1>1, <2>3, <2>4, <2>5, <2>6 DEF Rank
<1>3. \A k, m \in S : Rank(S, k) = Rank(S, m) => k = m
  <2>1. \A k, m \in S : k < m => Rank(S, k) < Rank(S, m)
    <3> SUFFICES ASSUME NEW k \in S, NEW m \in S, k < m PROVE Rank(S, k) < Rank(S, m)
      OBVIOUS
    <3> DEFINE A == {j \in S : j <= k}
               B == {j \in S : j <= m}
    <3>1. A \subseteq B /\ m \in B /\ m \notin A /\ B \subseteq S
      <4>1. k \in Nat /\ m \in Nat /\ \A j \in S : j \in Nat
        OBVIOUS
      <4>2. \A j \in S : j <= k => j <= m
        BY <4>1
      <4>3. m \notin A /\ B \subseteq S
        BY <4>1
      <4>4. m \in B
        BY <4>1
      <4> QED
        BY <4>2, <4>3, <4>4
    <3>2. IsFiniteSet(B)
      BY <3>1, FS_Subset
    <3>3. IsFiniteSet(A)
      BY <3>1, <3>2, FS_Subset
    <3> HIDE DEF A, B
    <3>4. Cardinality(A \cup {m}) = Cardinality(A) + 1
      BY <3>1, <3>3, FS_AddElement
    <3>5. Cardinality(A \cup {m}) <= Cardinality(B)
      <4>1. A \cup {m} \subseteq B
        BY <3>1
      <4> QED
        BY <4>1, <3>2, FS_Subset
    <3>6. Cardinality(A) \in Nat /\ Cardinality(B) \in Nat
      BY <3>2, <3>3, FS_CardinalityType
    <3> QED
      BY <3>4, <3>5, <3>6 DEF A, B, Rank
  <2> QED
    BY <2>1, <1>2, <1>1
<1>4. \A k \in S : Nth(S, Rank(S, k)) = k
  BY <1>3 DEF Nth
<1> DEFINE f == [k \in S |-> Rank(S, k)]
<1>5. f \in Injection(S, 1..Cardinality(S))
  BY <1>2, <1>3 DEF Injection, IsInjective
<1>6. IsFiniteSet(1..Cardinality(S)) /\ Cardinality(1..Cardinality(S)) = Cardinality(S)
  BY <1>1, FS_Interval
<1>7. f \in Surjection(S, 1..Cardinality(S))
  BY <1>5, <1>6, FS_Injection
<1>8. \A n \in 1..Cardinality(S) : \E k \in S : Rank(S, k) = n
  BY <1>7 DEF Surjection
<1>9. \A n \in 1..Cardinality(S) : Nth(S, n) \in S /\ Rank(S, Nth(S, n)) = n
  BY <1>8 DEF Nth
<1> QED
  BY <1>2, <1>4, <1>9

-----------------------------------------------------------------------------
(***************************************************************************)
(* The source of an organization                                           *)
(***************************************************************************)

Items(o) == DOMAIN Work[o].items
Stations(o) == ToSet(Work[o].stations)
Slots(o) == SlotsOf(o) \cup {0}

Asks(o) == [item : Items(o), source : Stations(o), target : Stations(o)]
Works(o) == [item : Items(o), source : Stations(o), target : Stations(o), start : Nat]

Actions(o) ==
    [at : Nat, kind : {"arrival"}, of : Items(o)]
        \cup [at : Nat, kind : {"execution"}, of : SlotsOf(o)]
        \cup [at : Nat, kind : {"coordination"}, of : {0}]

Sources(o) ==
    [clock : Nat, step : Nat, actions : Seq(Actions(o)),
     active : [Slots(o) -> Works(o) \cup {Free}],
     execution : Seq(Asks(o)), coordination : Seq(Asks(o)),
     finished : SUBSET (Items(o) \X Stations(o)),
     received : SUBSET (Items(o) \X Stations(o) \X Stations(o))]

Completes(a, k) == a.kind # "arrival" /\ a.of = k

\* A slot is taken exactly while the completion of its work is scheduled, once.
SlotActions(s) ==
    /\ \A k \in DOMAIN s.active : \A i \in DOMAIN s.actions :
          Completes(s.actions[i], k) => s.active[k] # Free
    /\ \A k \in DOMAIN s.active :
          s.active[k] # Free => \E i \in DOMAIN s.actions : Completes(s.actions[i], k)
    /\ \A k \in DOMAIN s.active : \A i, j \in DOMAIN s.actions :
          Completes(s.actions[i], k) /\ Completes(s.actions[j], k) => i = j

SourceOK(o, s) == s \in Sources(o) /\ SlotActions(s)

LEMMA WorkTyped ==
    ASSUME NEW o \in Orgs
    PROVE  /\ Work[o].stations \in Seq(Stations(o))
           /\ Work[o].edges \subseteq Stations(o) \X Stations(o)
           /\ Work[o].items \in Seq([at : Nat, service : [Stations(o) -> Nat]])
           /\ Items(o) \subseteq Nat \ {0}
           /\ Work[o].latency \in Nat
           /\ SlotsOf(o) = 1..Len(Work[o].slots) /\ Len(Work[o].slots) \in Nat
           /\ IsFiniteSet(SlotsOf(o)) /\ SlotsOf(o) \subseteq Nat \ {0}
           /\ \A j, k \in SlotsOf(o) : Work[o].slots[j] = Work[o].slots[k] => j = k
           /\ \A k \in SlotsOf(o) : Work[o].slots[k] # WholePool
<1>1. /\ Work[o].stations \in Seq(Stations(o))
      /\ Work[o].edges \subseteq Stations(o) \X Stations(o)
      /\ Work[o].items \in Seq([at : Nat, service : [Stations(o) -> Nat]])
      /\ Work[o].latency \in Nat
      /\ Work[o].slots \in Seq(ToSet(Work[o].slots))
      /\ WholePool \notin ToSet(Work[o].slots)
      /\ \A j, k \in SlotsOf(o) : Work[o].slots[j] = Work[o].slots[k] => j = k
  BY WorkAssumption, Zenon DEF Stations, SlotsOf
<1>2. SlotsOf(o) = 1..Len(Work[o].slots) /\ Len(Work[o].slots) \in Nat
  BY <1>1, LenProperties DEF SlotsOf
<1>3. Items(o) \subseteq Nat \ {0}
  <2>1. Items(o) = 1..Len(Work[o].items) /\ Len(Work[o].items) \in Nat
    BY <1>1, LenProperties DEF Items
  <2> QED
    BY <2>1
<1>4. IsFiniteSet(SlotsOf(o)) /\ SlotsOf(o) \subseteq Nat \ {0}
  <2>1. IsFiniteSet(1..Len(Work[o].slots))
    BY <1>2, FS_Interval
  <2> QED
    BY <1>2, <2>1
<1>5. \A k \in SlotsOf(o) : Work[o].slots[k] # WholePool
  BY <1>1 DEF SlotsOf, ToSet
<1> QED
  BY <1>1, <1>2, <1>3, <1>4, <1>5

LEMMA NotFree ==
    ASSUME NEW o \in Orgs, NEW x \in Works(o)
    PROVE  x # Free
<1>1. x.item # 0
  BY WorkTyped DEF Works
<1> QED
  BY <1>1 DEF Free

LEMMA Removed ==
    ASSUME NEW S, NEW q \in Seq(S), NEW i \in 1..Len(q)
    PROVE  /\ RemoveAt(q, i) \in Seq(S)
           /\ Len(RemoveAt(q, i)) = Len(q) - 1
           /\ \A j \in 1..(Len(q) - 1) :
                 RemoveAt(q, i)[j] = IF j < i THEN q[j] ELSE q[j + 1]
<1>1. Len(q) \in Nat
  BY LenProperties
<1>2. /\ SubSeq(q, 1, i - 1) \in Seq(S) /\ Len(SubSeq(q, 1, i - 1)) = i - 1
      /\ \A j \in 1..(i - 1) : SubSeq(q, 1, i - 1)[j] = q[j]
  BY <1>1
<1>3. /\ SubSeq(q, i + 1, Len(q)) \in Seq(S) /\ Len(SubSeq(q, i + 1, Len(q))) = Len(q) - i
      /\ \A j \in 1..(Len(q) - i) : SubSeq(q, i + 1, Len(q))[j] = q[i + j]
  BY <1>1
<1> DEFINE a == SubSeq(q, 1, i - 1)
           b == SubSeq(q, i + 1, Len(q))
<1>4. /\ a \o b \in Seq(S) /\ Len(a \o b) = Len(a) + Len(b)
      /\ \A j \in 1..(Len(a) + Len(b)) : (a \o b)[j] = IF j <= Len(a) THEN a[j] ELSE b[j - Len(a)]
  <2> HIDE DEF a, b
  <2>1. a \in Seq(S) /\ b \in Seq(S)
    BY <1>2, <1>3 DEF a, b
  <2> QED
    BY <2>1, ConcatProperties
<1>5. RemoveAt(q, i) = a \o b
  BY DEF RemoveAt
<1> HIDE DEF a, b
<1>6. /\ Len(a) = i - 1 /\ Len(b) = Len(q) - i
      /\ \A j \in 1..(i - 1) : a[j] = q[j]
      /\ \A j \in 1..(Len(q) - i) : b[j] = q[i + j]
  BY <1>2, <1>3 DEF a, b
<1>7. \A j \in 1..(Len(q) - 1) : (a \o b)[j] = IF j < i THEN q[j] ELSE q[j + 1]
  <2> SUFFICES ASSUME NEW j \in 1..(Len(q) - 1)
               PROVE  (a \o b)[j] = IF j < i THEN q[j] ELSE q[j + 1]
    OBVIOUS
  <2>1. CASE j < i
    BY <2>1, <1>1, <1>4, <1>6
  <2>2. CASE ~(j < i)
    <3>1. j - (i - 1) \in 1..(Len(q) - i) /\ i + (j - (i - 1)) = j + 1
      BY <2>2, <1>1
    <3>2. (a \o b)[j] = b[j - (i - 1)]
      BY <2>2, <1>1, <1>4, <1>6
    <3> QED
      BY <2>2, <3>1, <3>2, <1>6
  <2> QED
    BY <2>1, <2>2
<1> QED
  BY <1>1, <1>4, <1>5, <1>6, <1>7

\* The next action is the one that NextIndex names.
LEMMA NextIs ==
    ASSUME NEW o \in Orgs, NEW s \in Sources(o), s.actions # <<>>
    PROVE  /\ NextIndex(s) \in 1..Len(s.actions) /\ NextIndex(s) \in DOMAIN s.actions
           /\ NextAction(s) = s.actions[NextIndex(s)] /\ NextAction(s) \in Actions(o)
<1> DEFINE q == s.actions
<1>1. q \in Seq(Actions(o)) /\ Len(q) \in Nat /\ DOMAIN q = 1..Len(q)
  BY LenProperties DEF Sources
<1>2. DOMAIN q # {}
  <2>1. Len(q) # 0
    BY <1>1, EmptySeq
  <2>2. 1 \in 1..Len(q)
    BY <1>1, <2>1
  <2> QED
    BY <1>1, <2>2, Zenon
<1>3. \A i \in DOMAIN q : q[i] \in Actions(o) /\ q[i].at \in Nat
  <2>1. \A i \in DOMAIN q : q[i] \in Actions(o)
    BY <1>1
  <2> QED
    BY <2>1 DEF Actions
<1> DEFINE times == {q[i].at : i \in DOMAIN q}
<1>4. PICK u \in times : \A y \in times : u <= y
  <2>1. times \in SUBSET Nat /\ times # {}
    BY <1>2, <1>3
  <2> HIDE DEF times
  <2> QED
    BY <2>1, Least
<1> DEFINE first == {i \in DOMAIN q : q[i].at = u}
<1>5. PICK m \in first : \A y \in first : m <= y
  <2>1. first \in SUBSET Nat /\ first # {}
    BY <1>1, <1>4
  <2> HIDE DEF first
  <2> QED
    BY <2>1, Least
<1>6. m \in DOMAIN q /\ \A j \in DOMAIN q : q[m].at < q[j].at \/ (q[m].at = q[j].at /\ m <= j)
  <2>1. m \in DOMAIN q /\ q[m].at = u
    BY <1>5
  <2> SUFFICES ASSUME NEW j \in DOMAIN q, ~(q[m].at < q[j].at)
               PROVE  q[m].at = q[j].at /\ m <= j
    BY <2>1
  <2>2. u <= q[j].at
    BY <1>4
  <2>3. q[j].at = u
    BY <2>1, <2>2, <1>3
  <2>4. j \in first
    BY <2>3
  <2> QED
    BY <2>1, <2>3, <2>4, <1>5
<1>7. NextIndex(s) \in DOMAIN q
  <2>1. \E i \in DOMAIN s.actions : \A j \in DOMAIN s.actions :
            \/ s.actions[i].at < s.actions[j].at
            \/ s.actions[i].at = s.actions[j].at /\ i <= j
    BY <1>6, Zenon
  <2> QED
    BY <2>1, Zenon DEF NextIndex
<1> QED
  BY <1>1, <1>3, <1>7 DEF NextAction

LEMMA InOrderTyped ==
    ASSUME NEW o \in Orgs, NEW T
    PROVE  \E n \in Nat : InOrder(o, T) \in [1..n -> Stations(o)]
<1> DEFINE places == {n \in DOMAIN Work[o].stations : Work[o].stations[n] \in T}
<1>1. Work[o].stations \in Seq(Stations(o)) /\ DOMAIN Work[o].stations = 1..Len(Work[o].stations)
      /\ Len(Work[o].stations) \in Nat
  BY WorkTyped, LenProperties
<1>2. places \subseteq 1..Len(Work[o].stations) /\ places \in SUBSET Nat /\ IsFiniteSet(places)
  <2>1. places \subseteq 1..Len(Work[o].stations) /\ IsFiniteSet(1..Len(Work[o].stations))
    BY <1>1, FS_Interval
  <2>2. IsFiniteSet(places)
    BY <2>1, FS_Subset
  <2> QED
    BY <2>1, <2>2
<1>3. Cardinality(places) \in Nat
  BY <1>2, FS_CardinalityType
<1>4. \A n \in 1..Cardinality(places) : Nth(places, n) \in places
  <2> HIDE DEF places
  <2> QED
    BY <1>2, RankNth
<1>5. \A n \in places : Work[o].stations[n] \in Stations(o)
  BY <1>1
<1>6. InOrder(o, T) = [n \in 1..Cardinality(places) |-> Work[o].stations[Nth(places, n)]]
  BY DEF InOrder
<1> QED
  BY <1>3, <1>4, <1>5, <1>6

\* The concatenation of a sequence of requests with requests made from stations.
LEMMA AskedTyped ==
    ASSUME NEW S, NEW q \in Seq(S), NEW f, NEW n \in Nat, f \in [1..n -> S]
    PROVE  q \o f \in Seq(S)
<1>1. f \in Seq(S)
  <2>1. Seq(S) = UNION {[1..m -> S] : m \in Nat}
    BY SeqDef
  <2>2. [1..n -> S] \in {[1..m -> S] : m \in Nat}
    OBVIOUS
  <2> QED
    BY <2>1, <2>2, Zenon
<1> QED
  BY <1>1, ConcatProperties

LEMMA BeginIs ==
    ASSUME NEW o \in Orgs, NEW s \in Sources(o), s.actions # <<>>
    PROVE  /\ Begin(s) \in Sources(o)
           /\ Begin(s).step = s.step + 1 /\ Begin(s).clock = NextAction(s).at
           /\ Begin(s).actions = RemoveAt(s.actions, NextIndex(s))
           /\ Begin(s).active = s.active
<1>1. NextIndex(s) \in 1..Len(s.actions) /\ NextAction(s) \in Actions(o)
  BY NextIs
<1>2. RemoveAt(s.actions, NextIndex(s)) \in Seq(Actions(o))
  <2>1. s.actions \in Seq(Actions(o))
    BY DEF Sources
  <2> QED
    BY <1>1, <2>1, Removed
<1>3. NextAction(s).at \in Nat /\ s.step \in Nat
  BY <1>1 DEF Actions, Sources
<1> DEFINE q == RemoveAt(s.actions, NextIndex(s))
           u == NextAction(s).at
           n == s.step + 1
<1>4. Begin(s) = [s EXCEPT !.actions = q, !.clock = u, !.step = n]
  BY DEF Begin
<1>5. q \in Seq(Actions(o)) /\ u \in Nat /\ n \in Nat
  BY <1>2, <1>3
<1> HIDE DEF q, u, n
<1>6. /\ Begin(s) \in Sources(o) /\ Begin(s).step = n /\ Begin(s).clock = u
      /\ Begin(s).actions = q /\ Begin(s).active = s.active
  BY <1>4, <1>5 DEF Sources
<1> QED
  BY <1>6 DEF q, u, n

LEMMA ArriveIs ==
    ASSUME NEW o \in Orgs, NEW s \in Sources(o), NEW i \in Items(o)
    PROVE  LET t == Arrive(o, s, i) IN
           /\ t \in Sources(o) /\ t.step = s.step /\ t.clock = s.clock
           /\ t.actions = s.actions /\ t.active = s.active
<1> DEFINE roots == InOrder(o, {t \in ToSet(Work[o].stations) : Incoming(o, t) = {}})
           more == [n \in DOMAIN roots |-> Request(i, roots[n], roots[n])]
<1>1. PICK n \in Nat : roots \in [1..n -> Stations(o)]
  BY InOrderTyped
<1>2. more \in [1..n -> Asks(o)]
  BY <1>1 DEF Request, Asks
<1>3. s.execution \in Seq(Asks(o))
  BY DEF Sources
<1>4. s.execution \o more \in Seq(Asks(o))
  <2> HIDE DEF more
  <2> QED
    BY <1>2, <1>3, AskedTyped
<1>5. Arrive(o, s, i) = [s EXCEPT !.execution = s.execution \o more]
  BY DEF Arrive
<1> HIDE DEF more
<1> QED
  BY <1>4, <1>5 DEF Sources

LEMMA FinishExecutionIs ==
    ASSUME NEW o \in Orgs, NEW s \in Sources(o), NEW k \in SlotsOf(o), s.active[k] # Free
    PROVE  LET t == FinishExecution(o, s, k) IN
           /\ t \in Sources(o) /\ t.step = s.step /\ t.clock = s.clock
           /\ t.actions = s.actions /\ t.active = [s.active EXCEPT ![k] = Free]
<1> DEFINE a == s.active[k]
           next == InOrder(o, {t \in ToSet(Work[o].stations) : <<a.target, t>> \in Work[o].edges})
           more == [n \in DOMAIN next |-> Request(a.item, a.target, next[n])]
<1>1. PICK n \in Nat : next \in [1..n -> Stations(o)]
  BY InOrderTyped
<1>2. a \in Works(o)
  BY DEF Sources, Slots
<1>3. more \in [1..n -> Asks(o)]
  BY <1>1, <1>2 DEF Request, Asks, Works
<1>4. s.coordination \in Seq(Asks(o))
  BY DEF Sources
<1>5. s.coordination \o more \in Seq(Asks(o))
  <2> HIDE DEF more
  <2> QED
    BY <1>3, <1>4, AskedTyped
<1>6. FinishExecution(o, s, k)
        = [s EXCEPT !.active[k] = Free, !.finished = s.finished \cup {<<a.item, a.target>>},
                    !.coordination = s.coordination \o more]
  BY DEF FinishExecution
<1>7. s.finished \cup {<<a.item, a.target>>} \in SUBSET (Items(o) \X Stations(o))
  BY <1>2 DEF Sources, Works
<1>8. [s.active EXCEPT ![k] = Free] \in [Slots(o) -> Works(o) \cup {Free}]
  BY DEF Sources, Slots
<1> HIDE DEF more, next, a
<1> QED
  BY <1>5, <1>6, <1>7, <1>8 DEF Sources

LEMMA FinishCoordinationIs ==
    ASSUME NEW o \in Orgs, NEW s \in Sources(o), s.active[0] # Free
    PROVE  LET t == FinishCoordination(o, s) IN
           /\ t \in Sources(o) /\ t.step = s.step /\ t.clock = s.clock
           /\ t.actions = s.actions /\ t.active = [s.active EXCEPT ![0] = Free]
<1> DEFINE a == s.active[0]
           got == s.received \cup {<<a.item, a.source, a.target>>}
           complete == \A p \in Incoming(o, a.target) : <<a.item, p, a.target>> \in got
           queue == IF complete THEN Append(s.execution, Request(a.item, a.target, a.target))
                    ELSE s.execution
<1>2. a \in Works(o)
  BY DEF Sources, Slots
<1>3. got \in SUBSET (Items(o) \X Stations(o) \X Stations(o))
  BY <1>2 DEF Sources, Works
<1>4. queue \in Seq(Asks(o))
  <2>1. s.execution \in Seq(Asks(o)) /\ Request(a.item, a.target, a.target) \in Asks(o)
    BY <1>2 DEF Sources, Works, Request, Asks
  <2>2. Append(s.execution, Request(a.item, a.target, a.target)) \in Seq(Asks(o))
    BY <2>1, AppendProperties
  <2> QED
    BY <2>1, <2>2
<1>5. [s.active EXCEPT ![0] = Free] \in [Slots(o) -> Works(o) \cup {Free}]
  BY DEF Sources, Slots
<1>6. FinishCoordination(o, s) = [s EXCEPT !.active[0] = Free, !.received = got, !.execution = queue]
  BY DEF FinishCoordination
<1> HIDE DEF queue, got, a
<1> QED
  BY <1>3, <1>4, <1>5, <1>6 DEF Sources

\* The action that is due has been carried out, and nothing is given out yet.
Acted(o, s) == Act(o, Begin(s), NextAction(s))

LEMMA ActedIs ==
    ASSUME NEW o \in Orgs, NEW s, SourceOK(o, s), s.actions # <<>>
    PROVE  LET t == Acted(o, s)  a == NextAction(s) IN
           /\ t \in Sources(o) /\ t.step = s.step + 1 /\ t.clock = a.at
           /\ t.actions = RemoveAt(s.actions, NextIndex(s))
           /\ t.active = [k \in Slots(o) |-> IF Completes(a, k) THEN Free ELSE s.active[k]]
<1> DEFINE a == NextAction(s)
           b == Begin(s)
<1>1. s \in Sources(o)
  BY DEF SourceOK
<1>2. b \in Sources(o) /\ b.step = s.step + 1 /\ b.clock = a.at
      /\ b.actions = RemoveAt(s.actions, NextIndex(s)) /\ b.active = s.active
  BY <1>1, BeginIs
<1>3. a \in Actions(o) /\ NextIndex(s) \in DOMAIN s.actions /\ a = s.actions[NextIndex(s)]
  BY <1>1, NextIs
<1>4. Acted(o, s) = Act(o, b, a)
  BY DEF Acted
<1>5. s.active \in [Slots(o) -> Works(o) \cup {Free}] /\ DOMAIN s.active = Slots(o)
  BY <1>1 DEF Sources
<1>6. \A k \in Slots(o) : Completes(a, k) => s.active[k] # Free
  BY <1>3, <1>5 DEF SourceOK, SlotActions
<1> HIDE DEF a, b
<1>7. CASE a.kind = "arrival"
  <2>1. a.of \in Items(o)
    BY <1>3, <1>7 DEF Actions
  <2>2. Act(o, b, a) = Arrive(o, b, a.of)
    BY <1>7 DEF Act
  <2>3. \A k \in Slots(o) : ~Completes(a, k)
    BY <1>7 DEF Completes
  <2>4. s.active = [k \in Slots(o) |-> IF Completes(a, k) THEN Free ELSE s.active[k]]
    BY <2>3, <1>5
  <2> QED
    BY <1>2, <1>4, <2>1, <2>2, <2>4, ArriveIs DEF a
<1>8. CASE a.kind = "execution"
  <2>1. a.of \in SlotsOf(o)
    BY <1>3, <1>8 DEF Actions
  <2>2. Act(o, b, a) = FinishExecution(o, b, a.of)
    BY <1>8 DEF Act
  <2>3. s.active[a.of] # Free
    BY <1>6, <1>8, <2>1 DEF Completes, Slots
  <2>4. [s.active EXCEPT ![a.of] = Free]
          = [k \in Slots(o) |-> IF Completes(a, k) THEN Free ELSE s.active[k]]
    BY <1>8, <1>5 DEF Completes
  <2>5. LET t == FinishExecution(o, b, a.of) IN
        /\ t \in Sources(o) /\ t.step = b.step /\ t.clock = b.clock
        /\ t.actions = b.actions /\ t.active = [b.active EXCEPT ![a.of] = Free]
    BY <1>2, <2>1, <2>3, FinishExecutionIs
  <2> QED
    BY <1>2, <1>4, <2>2, <2>4, <2>5 DEF a
<1>9. CASE a.kind = "coordination"
  <2>1. a.of = 0
    BY <1>3, <1>9 DEF Actions
  <2>2. Act(o, b, a) = FinishCoordination(o, b)
    BY <1>9 DEF Act
  <2>3. s.active[0] # Free
    BY <1>6, <1>9, <2>1 DEF Completes, Slots
  <2>4. [s.active EXCEPT ![0] = Free]
          = [k \in Slots(o) |-> IF Completes(a, k) THEN Free ELSE s.active[k]]
    BY <1>9, <1>5, <2>1 DEF Completes
  <2> QED
    BY <1>2, <1>4, <2>1, <2>2, <2>3, <2>4, FinishCoordinationIs DEF a
<1> QED
  BY <1>3, <1>7, <1>8, <1>9 DEF Actions

\* Carrying out an action frees its slot and uses up its completion.
LEMMA ActedOK ==
    ASSUME NEW o \in Orgs, NEW s, SourceOK(o, s), s.actions # <<>>
    PROVE  SourceOK(o, Acted(o, s))
<1> DEFINE a == NextAction(s)
           m == NextIndex(s)
           n == Len(s.actions)
           q == Acted(o, s).actions
           act == Acted(o, s).active
<1>1. s \in Sources(o) /\ s.actions \in Seq(Actions(o)) /\ SlotActions(s) /\ DOMAIN s.active = Slots(o)
  BY DEF SourceOK, Sources
<1>2. m \in 1..n /\ a = s.actions[m] /\ n \in Nat /\ DOMAIN s.actions = 1..n
  BY <1>1, NextIs, LenProperties
<1>3. q = RemoveAt(s.actions, m) /\ Acted(o, s) \in Sources(o)
      /\ act = [k \in Slots(o) |-> IF Completes(a, k) THEN Free ELSE s.active[k]]
  BY ActedIs
<1>4. /\ q \in Seq(Actions(o)) /\ Len(q) = n - 1
      /\ \A j \in 1..(n - 1) : q[j] = IF j < m THEN s.actions[j] ELSE s.actions[j + 1]
  <2> HIDE DEF m
  <2>1. m \in 1..Len(s.actions)
    BY <1>2
  <2>2. /\ RemoveAt(s.actions, m) \in Seq(Actions(o)) /\ Len(RemoveAt(s.actions, m)) = n - 1
        /\ \A j \in 1..(n - 1) :
              RemoveAt(s.actions, m)[j] = IF j < m THEN s.actions[j] ELSE s.actions[j + 1]
    BY <1>1, <2>1, Removed
  <2> QED
    BY <1>3, <2>2
<1>5. DOMAIN q = 1..(n - 1)
  BY <1>4, LenProperties
<1> DEFINE old(j) == IF j < m THEN j ELSE j + 1
<1>6. \A j \in DOMAIN q : old(j) \in DOMAIN s.actions /\ old(j) # m /\ q[j] = s.actions[old(j)]
  BY <1>2, <1>4, <1>5
<1>7. \A i \in DOMAIN s.actions : i # m => \E j \in DOMAIN q : old(j) = i
  <2> SUFFICES ASSUME NEW i \in 1..n, i # m PROVE \E j \in 1..(n - 1) : old(j) = i
    BY <1>2, <1>5
  <2>1. CASE i < m
    BY <2>1, <1>2
  <2>2. CASE i > m
    <3>1. i - 1 \in 1..(n - 1) /\ old(i - 1) = i
      BY <2>2, <1>2
    <3> QED
      BY <3>1
  <2> QED
    BY <2>1, <2>2, <1>2
<1>8. \A i, j \in DOMAIN q : old(i) = old(j) => i = j
  BY <1>2, <1>5
<1>9. DOMAIN act = Slots(o) /\ \A k \in Slots(o) : act[k] = IF Completes(a, k) THEN Free ELSE s.active[k]
  BY <1>3
<1> HIDE DEF a, m, n, q, act, old
<1>10. \A k \in Slots(o) : \A i \in DOMAIN q : Completes(q[i], k) => act[k] # Free
  <2> SUFFICES ASSUME NEW k \in Slots(o), NEW i \in DOMAIN q, Completes(q[i], k) PROVE act[k] # Free
    OBVIOUS
  <2>1. Completes(s.actions[old(i)], k) /\ old(i) \in DOMAIN s.actions /\ old(i) # m
    BY <1>6
  <2>2. s.active[k] # Free /\ ~Completes(a, k)
    BY <1>1, <1>2, <2>1, Zenon DEF SlotActions
  <2> QED
    BY <1>9, <2>2
<1>11. \A k \in Slots(o) : act[k] # Free => \E i \in DOMAIN q : Completes(q[i], k)
  <2> SUFFICES ASSUME NEW k \in Slots(o), act[k] # Free PROVE \E i \in DOMAIN q : Completes(q[i], k)
    OBVIOUS
  <2>1. s.active[k] # Free /\ ~Completes(a, k)
    BY <1>9
  <2>2. PICK i \in DOMAIN s.actions : Completes(s.actions[i], k)
    BY <1>1, <2>1, Zenon DEF SlotActions
  <2>3. i # m
    BY <1>2, <2>1, <2>2
  <2> QED
    BY <1>6, <1>7, <2>2, <2>3
<1>12. \A k \in Slots(o) : \A i, j \in DOMAIN q : Completes(q[i], k) /\ Completes(q[j], k) => i = j
  <2> SUFFICES ASSUME NEW k \in Slots(o), NEW i \in DOMAIN q, NEW j \in DOMAIN q,
                      Completes(q[i], k), Completes(q[j], k)
               PROVE  old(i) = old(j)
    BY <1>8
  <2> QED
    BY <1>1, <1>6, Zenon DEF SlotActions
<1> QED
  BY <1>3, <1>9, <1>10, <1>11, <1>12 DEF SourceOK, SlotActions, q, act

LEMMA BegunTyped ==
    ASSUME NEW o \in Orgs, NEW s, s.clock \in Nat, NEW r \in Asks(o)
    PROVE  Begun(s, r) \in Works(o) /\ Begun(s, r).start = s.clock /\ Begun(s, r) # Free
<1>1. Begun(s, r) \in Works(o) /\ Begun(s, r).start = s.clock
  BY DEF Begun, Asks, Works
<1> QED
  BY <1>1, NotFree

LEMMA FreeTyped ==
    ASSUME NEW o \in Orgs, NEW s \in Sources(o)
    PROVE  LET free == FreeSlots(o, s)  n == Executions(o, s) IN
           /\ free \subseteq SlotsOf(o) /\ free \in SUBSET Nat /\ IsFiniteSet(free) /\ 0 \notin free
           /\ n \in Nat /\ n <= Cardinality(free) /\ n <= Len(s.execution)
           /\ Cardinality(free) \in Nat /\ Len(s.execution) \in Nat
           /\ \A i \in 1..n : Nth(free, i) \in free /\ Rank(free, Nth(free, i)) = i
           /\ \A k \in free : Rank(free, k) \in Nat \ {0} /\ Nth(free, Rank(free, k)) = k
<1> DEFINE free == FreeSlots(o, s)
           n == Executions(o, s)
<1>1. free \subseteq SlotsOf(o)
  BY DEF FreeSlots
<1>2. free \in SUBSET Nat /\ IsFiniteSet(free) /\ 0 \notin free
  <2>1. IsFiniteSet(SlotsOf(o)) /\ SlotsOf(o) \subseteq Nat \ {0}
    BY WorkTyped
  <2> HIDE DEF free
  <2>2. IsFiniteSet(free)
    BY <1>1, <2>1, FS_Subset
  <2> QED
    BY <1>1, <2>1, <2>2
<1>3. Cardinality(free) \in Nat /\ Len(s.execution) \in Nat
  <2>1. s.execution \in Seq(Asks(o))
    BY DEF Sources
  <2> QED
    BY <1>2, <2>1, FS_CardinalityType, LenProperties
<1>4. n \in Nat /\ n <= Cardinality(free) /\ n <= Len(s.execution)
  BY <1>3 DEF Executions
<1> HIDE DEF free, n
<1>5. /\ \A k \in free : Rank(free, k) \in 1..Cardinality(free) /\ Nth(free, Rank(free, k)) = k
      /\ \A i \in 1..Cardinality(free) : Nth(free, i) \in free /\ Rank(free, Nth(free, i)) = i
  BY <1>2, RankNth
<1>6. \A i \in 1..n : i \in 1..Cardinality(free)
  BY <1>3, <1>4
<1>7. \A k \in free : Rank(free, k) \in Nat \ {0}
  BY <1>3, <1>5
<1> QED
  BY <1>1, <1>2, <1>3, <1>4, <1>5, <1>6, <1>7 DEF free, n

\* What Dispatch schedules.
Scheduled(o, s) ==
    [i \in 1..Executions(o, s) |->
        [at |-> s.clock + Work[o].items[s.execution[i].item].service[s.execution[i].target],
         kind |-> "execution", of |-> Nth(FreeSlots(o, s), i)]]

Handoff(s) == s.active[0] = Free /\ s.coordination # <<>>

HandoffScheduled(o, s) ==
    IF Handoff(s)
    THEN <<[at |-> s.clock + Work[o].latency, kind |-> "coordination", of |-> 0]>>
    ELSE <<>>

GivenOut(o, s, k) == k \in FreeSlots(o, s) /\ Rank(FreeSlots(o, s), k) <= Executions(o, s)

Dispatched(o, s) ==
    [k \in Slots(o) |->
        IF GivenOut(o, s, k) THEN Begun(s, s.execution[Rank(FreeSlots(o, s), k)])
        ELSE IF k = 0 /\ Handoff(s) THEN Begun(s, Head(s.coordination))
        ELSE s.active[k]]

LEMMA ScheduledTyped ==
    ASSUME NEW o \in Orgs, NEW s \in Sources(o)
    PROVE  /\ Scheduled(o, s) \in Seq(Actions(o)) /\ Len(Scheduled(o, s)) = Executions(o, s)
           /\ HandoffScheduled(o, s) \in Seq(Actions(o))
           /\ Len(HandoffScheduled(o, s)) = IF Handoff(s) THEN 1 ELSE 0
           /\ Handoff(s) => HandoffScheduled(o, s)[1]
                              = [at |-> s.clock + Work[o].latency, kind |-> "coordination", of |-> 0]
<1> DEFINE free == FreeSlots(o, s)
           n == Executions(o, s)
<1>1. /\ n \in Nat /\ n <= Len(s.execution) /\ Len(s.execution) \in Nat
      /\ \A i \in 1..n : Nth(free, i) \in SlotsOf(o)
  BY FreeTyped
<1>2. s.execution \in Seq(Asks(o)) /\ s.clock \in Nat
  BY DEF Sources
<1>3. \A i \in 1..n : i \in DOMAIN s.execution /\ s.execution[i] \in Asks(o)
  BY <1>1, <1>2
<1>4. \A r \in Asks(o) : Work[o].items[r.item].service[r.target] \in Nat
  <2> SUFFICES ASSUME NEW r \in Asks(o) PROVE Work[o].items[r.item].service[r.target] \in Nat
    OBVIOUS
  <2>1. r.item \in Items(o) /\ r.target \in Stations(o)
    BY DEF Asks
  <2>2. Work[o].items[r.item] \in [at : Nat, service : [Stations(o) -> Nat]]
    <3>1. Work[o].items \in Seq([at : Nat, service : [Stations(o) -> Nat]])
      BY WorkTyped
    <3>2. r.item \in 1..Len(Work[o].items)
      BY <2>1, <3>1, LenProperties DEF Items
    <3> QED
      BY <3>1, <3>2, ElementOfSeq
  <2> QED
    BY <2>1, <2>2
<1> HIDE DEF free, n
<1>5. \A i \in 1..n : Scheduled(o, s)[i] \in Actions(o)
  <2> SUFFICES ASSUME NEW i \in 1..n PROVE Scheduled(o, s)[i] \in Actions(o)
    OBVIOUS
  <2> DEFINE d == Work[o].items[s.execution[i].item].service[s.execution[i].target]
  <2>1. Scheduled(o, s)[i] = [at |-> s.clock + d, kind |-> "execution", of |-> Nth(free, i)]
    BY DEF Scheduled, free, n
  <2>2. d \in Nat
    BY <1>3, <1>4
  <2> HIDE DEF d
  <2> QED
    BY <1>1, <1>2, <2>1, <2>2 DEF Actions
<1>6. Scheduled(o, s) \in [1..n -> Actions(o)]
  BY <1>5 DEF Scheduled, n
<1>7. Scheduled(o, s) \in Seq(Actions(o)) /\ Len(Scheduled(o, s)) = n
  BY <1>1, <1>6
<1>8. [at |-> s.clock + Work[o].latency, kind |-> "coordination", of |-> 0] \in Actions(o)
  <2>1. s.clock + Work[o].latency \in Nat
    <3>1. Work[o].latency \in Nat
      BY WorkTyped
    <3> QED
      BY <1>2, <3>1
  <2> QED
    BY <2>1 DEF Actions
<1>9. /\ HandoffScheduled(o, s) \in Seq(Actions(o))
      /\ Len(HandoffScheduled(o, s)) = IF Handoff(s) THEN 1 ELSE 0
      /\ Handoff(s) => HandoffScheduled(o, s)[1]
                         = [at |-> s.clock + Work[o].latency, kind |-> "coordination", of |-> 0]
  BY <1>8 DEF HandoffScheduled
<1> QED
  BY <1>7, <1>9 DEF n

LEMMA DispatchedTyped ==
    ASSUME NEW o \in Orgs, NEW s \in Sources(o)
    PROVE  LET act == Dispatched(o, s) IN
           /\ act \in [Slots(o) -> Works(o) \cup {Free}]
           /\ \A k \in Slots(o) : s.active[k] # Free => act[k] = s.active[k]
           /\ \A k \in Slots(o) : GivenOut(o, s, k) => act[k] # Free
           /\ Handoff(s) => act[0] # Free
           /\ \A k \in Slots(o) :
                 s.active[k] = Free =>
                     \/ act[k] = Free
                     \/ act[k].start = s.clock /\ (GivenOut(o, s, k) \/ (k = 0 /\ Handoff(s)))
<1> DEFINE free == FreeSlots(o, s)
           act == Dispatched(o, s)
<1>1. /\ s.execution \in Seq(Asks(o)) /\ s.coordination \in Seq(Asks(o)) /\ s.clock \in Nat
      /\ s.active \in [Slots(o) -> Works(o) \cup {Free}]
  BY DEF Sources
<1>2. DOMAIN act = Slots(o)
  BY DEF Dispatched
<1>3. ASSUME NEW k \in Slots(o), GivenOut(o, s, k)
      PROVE  act[k] \in Works(o) /\ act[k] # Free /\ act[k].start = s.clock /\ s.active[k] = Free
  <2>1. k \in free /\ Rank(free, k) \in 1..Len(s.execution)
    BY <1>3, FreeTyped DEF GivenOut
  <2>2. s.execution[Rank(free, k)] \in Asks(o)
    BY <1>1, <2>1, ElementOfSeq
  <2>3. act[k] = Begun(s, s.execution[Rank(free, k)])
    BY <1>3 DEF Dispatched
  <2>4. s.active[k] = Free
    BY <2>1 DEF FreeSlots
  <2> QED
    BY <1>1, <2>2, <2>3, <2>4, BegunTyped
<1>4. ASSUME Handoff(s)
      PROVE  act[0] \in Works(o) /\ act[0] # Free /\ act[0].start = s.clock /\ s.active[0] = Free
  <2>1. s.coordination # <<>> /\ s.active[0] = Free
    BY <1>4 DEF Handoff
  <2>2. Head(s.coordination) \in Asks(o)
    BY <1>1, <2>1, HeadTailProperties
  <2>3. ~GivenOut(o, s, 0)
    BY FreeTyped DEF GivenOut
  <2>4. act[0] = Begun(s, Head(s.coordination))
    BY <1>4, <2>3 DEF Dispatched, Slots
  <2> QED
    BY <1>1, <2>1, <2>2, <2>4, BegunTyped
<1>5. ASSUME NEW k \in Slots(o), ~GivenOut(o, s, k), ~(k = 0 /\ Handoff(s))
      PROVE  act[k] = s.active[k]
  BY <1>5 DEF Dispatched
<1>6. \A k \in Slots(o) : act[k] \in Works(o) \cup {Free}
  BY <1>1, <1>3, <1>4, <1>5
<1> HIDE DEF act
<1>7. act \in [Slots(o) -> Works(o) \cup {Free}]
  <2>1. act = [k \in Slots(o) |-> act[k]]
    BY <1>2 DEF act, Dispatched
  <2> QED
    BY <1>6, <2>1
<1> QED
  BY <1>3, <1>4, <1>5, <1>7 DEF act

LEMMA DispatchIs ==
    ASSUME NEW o \in Orgs, NEW s \in Sources(o)
    PROVE  LET t == Dispatch(o, s) IN
           /\ t \in Sources(o) /\ t.step = s.step /\ t.clock = s.clock
           /\ t.active = Dispatched(o, s)
           /\ t.actions = s.actions \o Scheduled(o, s) \o HandoffScheduled(o, s)
<1> DEFINE n == Executions(o, s)
           more == SubSeq(s.execution, n + 1, Len(s.execution))
           left == IF Handoff(s) THEN Tail(s.coordination) ELSE s.coordination
           act == Dispatched(o, s)
           q == s.actions \o Scheduled(o, s) \o HandoffScheduled(o, s)
<1>1. /\ s.execution \in Seq(Asks(o)) /\ s.coordination \in Seq(Asks(o))
      /\ s.actions \in Seq(Actions(o)) /\ DOMAIN s.active = Slots(o)
  BY DEF Sources
<1>2. n \in Nat /\ n <= Len(s.execution) /\ Len(s.execution) \in Nat
  BY FreeTyped
<1>3. more \in Seq(Asks(o))
  <2> HIDE DEF n
  <2> QED
    BY <1>1, <1>2
<1>4. left \in Seq(Asks(o))
  <2>1. CASE Handoff(s)
    BY <1>1, <2>1, HeadTailProperties DEF Handoff
  <2> QED
    BY <1>1, <2>1
<1>5. q \in Seq(Actions(o))
  <2>1. s.actions \o Scheduled(o, s) \in Seq(Actions(o))
    BY <1>1, ScheduledTyped, ConcatProperties
  <2> QED
    BY <2>1, ScheduledTyped, ConcatProperties
<1>6. act \in [Slots(o) -> Works(o) \cup {Free}]
  BY DispatchedTyped
<1>7. Dispatch(o, s) = [s EXCEPT !.execution = more, !.coordination = left,
                                 !.active = act, !.actions = q]
  BY <1>1 DEF Dispatch, Dispatched, Scheduled, HandoffScheduled, Handoff, GivenOut
<1> HIDE DEF n, more, left, act, q
<1>8. LET t == Dispatch(o, s) IN
      /\ t \in Sources(o) /\ t.step = s.step /\ t.clock = s.clock /\ t.active = act /\ t.actions = q
  BY <1>3, <1>4, <1>5, <1>6, <1>7 DEF Sources
<1> QED
  BY <1>8 DEF act, q

LEMMA Concatenated ==
    ASSUME NEW S, NEW u \in Seq(S), NEW v \in Seq(S)
    PROVE  /\ u \o v \in Seq(S) /\ Len(u \o v) = Len(u) + Len(v)
           /\ \A i \in 1..(Len(u) + Len(v)) :
                 (u \o v)[i] = IF i <= Len(u) THEN u[i] ELSE v[i - Len(u)]
BY ConcatProperties

\* Where the actions of Dispatch come from: those that were there, one for each slot
\* that is given out, in the order of the slots, and one for a handoff.
LEMMA DispatchActions ==
    ASSUME NEW o \in Orgs, NEW s \in Sources(o)
    PROVE  LET q == Dispatch(o, s).actions
               m == Len(s.actions)  n == Executions(o, s)
               h == IF Handoff(s) THEN 1 ELSE 0
           IN  /\ m \in Nat /\ n \in Nat /\ DOMAIN s.actions = 1..m /\ DOMAIN q = 1..(m + n + h)
               /\ \A i \in 1..m : q[i] = s.actions[i]
               /\ \A i \in 1..n : q[m + i].kind = "execution" /\ q[m + i].of = Nth(FreeSlots(o, s), i)
               /\ Handoff(s) => q[m + n + 1].kind = "coordination" /\ q[m + n + 1].of = 0
<1> DEFINE a == s.actions
           e == Scheduled(o, s)
           h == HandoffScheduled(o, s)
           q == Dispatch(o, s).actions
           m == Len(s.actions)
           n == Executions(o, s)
<1>1. a \in Seq(Actions(o)) /\ m \in Nat /\ DOMAIN a = 1..m
  BY LenProperties DEF Sources
<1>2. /\ e \in Seq(Actions(o)) /\ Len(e) = n /\ h \in Seq(Actions(o))
      /\ Len(h) = IF Handoff(s) THEN 1 ELSE 0
      /\ Handoff(s) => h[1] = [at |-> s.clock + Work[o].latency, kind |-> "coordination", of |-> 0]
  BY ScheduledTyped
<1>3. n \in Nat
  BY FreeTyped
<1>4. q = (a \o e) \o h
  BY DispatchIs
<1>5. \A i \in 1..n : e[i].kind = "execution" /\ e[i].of = Nth(FreeSlots(o, s), i)
  BY DEF Scheduled
<1> HIDE DEF a, e, h, q, m, n
<1>6. /\ a \o e \in Seq(Actions(o)) /\ Len(a \o e) = m + n
      /\ \A i \in 1..(m + n) : (a \o e)[i] = IF i <= m THEN a[i] ELSE e[i - m]
  BY <1>1, <1>2, ConcatProperties DEF a, m
<1>7. /\ q \in Seq(Actions(o)) /\ Len(q) = m + n + Len(h)
      /\ \A i \in 1..(m + n + Len(h)) : q[i] = IF i <= m + n THEN (a \o e)[i] ELSE h[i - (m + n)]
  <2> DEFINE ae == a \o e
  <2>1. ae \in Seq(Actions(o)) /\ Len(ae) = m + n /\ q = ae \o h
    BY <1>4, <1>6
  <2> HIDE DEF ae
  <2>2. /\ ae \o h \in Seq(Actions(o)) /\ Len(ae \o h) = Len(ae) + Len(h)
        /\ \A i \in 1..(Len(ae) + Len(h)) :
              (ae \o h)[i] = IF i <= Len(ae) THEN ae[i] ELSE h[i - Len(ae)]
    <3>1. ae \in Seq(Actions(o)) /\ h \in Seq(Actions(o))
      BY <1>2, <2>1
    <3> QED
      BY <3>1, Concatenated
  <2> QED
    BY <2>1, <2>2 DEF ae
<1>8. DOMAIN q = 1..(m + n + Len(h))
  BY <1>7, LenProperties
<1>9. \A i \in 1..m : q[i] = a[i]
  BY <1>1, <1>2, <1>3, <1>6, <1>7
<1>10. \A i \in 1..n : q[m + i] = e[i]
  <2> SUFFICES ASSUME NEW i \in 1..n PROVE q[m + i] = e[i]
    OBVIOUS
  <2>1. m + i \in 1..(m + n) /\ m + i \in 1..(m + n + Len(h)) /\ ~(m + i <= m) /\ (m + i) - m = i
    BY <1>1, <1>2, <1>3
  <2> QED
    BY <2>1, <1>1, <1>3, <1>6, <1>7
<1>11. ASSUME Handoff(s) PROVE q[m + n + 1] = h[1]
  <2>1. /\ m + n + 1 \in 1..(m + n + Len(h)) /\ ~(m + n + 1 <= m + n)
        /\ (m + n + 1) - (m + n) = 1
    BY <1>1, <1>2, <1>3, <1>11
  <2> QED
    BY <2>1, <1>7
<1> QED
  BY <1>1, <1>2, <1>3, <1>5, <1>8, <1>9, <1>10, <1>11 DEF a, q, m, n

\* Giving out slots keeps slots and scheduled completions together.
LEMMA DispatchOK ==
    ASSUME NEW o \in Orgs, NEW s, SourceOK(o, s)
    PROVE  SourceOK(o, Dispatch(o, s))
<1> DEFINE free == FreeSlots(o, s)
           q == Dispatch(o, s).actions
           act == Dispatch(o, s).active
           m == Len(s.actions)
           n == Executions(o, s)
<1>1. s \in Sources(o) /\ SlotActions(s) /\ DOMAIN s.active = Slots(o)
  BY DEF SourceOK, Sources
<1>2. Dispatch(o, s) \in Sources(o) /\ DOMAIN act = Slots(o) /\ act = Dispatched(o, s)
  <2>1. Dispatch(o, s) \in Sources(o) /\ act = Dispatched(o, s)
    BY <1>1, DispatchIs
  <2> QED
    BY <2>1 DEF Dispatched
<1>3. /\ m \in Nat /\ n \in Nat /\ DOMAIN s.actions = 1..m
      /\ DOMAIN q = 1..(m + n + IF Handoff(s) THEN 1 ELSE 0)
      /\ \A i \in 1..m : q[i] = s.actions[i]
      /\ \A i \in 1..n : q[m + i].kind = "execution" /\ q[m + i].of = Nth(free, i)
      /\ Handoff(s) => q[m + n + 1].kind = "coordination" /\ q[m + n + 1].of = 0
  BY <1>1, DispatchActions
<1>4. /\ free \subseteq SlotsOf(o) /\ 0 \notin free
      /\ \A i \in 1..n : Nth(free, i) \in free /\ Rank(free, Nth(free, i)) = i
      /\ \A k \in free : Rank(free, k) \in Nat \ {0} /\ Nth(free, Rank(free, k)) = k
  BY <1>1, FreeTyped
<1>5. /\ \A k \in Slots(o) : s.active[k] # Free => act[k] = s.active[k]
      /\ \A k \in Slots(o) : GivenOut(o, s, k) => act[k] # Free
      /\ Handoff(s) => act[0] # Free
      /\ \A k \in Slots(o) :
            s.active[k] = Free /\ act[k] # Free => GivenOut(o, s, k) \/ (k = 0 /\ Handoff(s))
  BY <1>1, <1>2, DispatchedTyped
<1>6. \A k \in free : s.active[k] = Free /\ k \in Slots(o)
  BY <1>4 DEF FreeSlots, Slots
<1>7. \A k \in free : Rank(free, k) <= n => GivenOut(o, s, k)
  BY DEF GivenOut
<1>8. \A k : GivenOut(o, s, k) => k \in free /\ Rank(free, k) \in 1..n
  BY <1>3, <1>4 DEF GivenOut
<1>9. Handoff(s) => s.active[0] = Free
  BY DEF Handoff
<1> HIDE DEF free, q, act, m, n
\* The kind of an index of q.
<1> DEFINE Old(i) == i \in 1..m
           New(i) == i - m \in 1..n
           Final(i) == i = m + n + 1 /\ Handoff(s)
<1>10. \A i \in DOMAIN q : Old(i) \/ New(i) \/ Final(i)
  BY <1>3
<1>11. ASSUME NEW k \in Slots(o), NEW i \in DOMAIN q, Completes(q[i], k), Old(i)
       PROVE  s.active[k] # Free /\ i \in DOMAIN s.actions /\ Completes(s.actions[i], k)
  <2>1. i \in DOMAIN s.actions /\ Completes(s.actions[i], k)
    BY <1>3, <1>11
  <2> QED
    BY <1>1, <2>1, Zenon DEF SlotActions
<1>12. ASSUME NEW k \in Slots(o), NEW i \in DOMAIN q, Completes(q[i], k), New(i)
       PROVE  k = Nth(free, i - m) /\ k \in free /\ i = m + Rank(free, k) /\ GivenOut(o, s, k)
  <2>1. i \in Nat /\ q[i].of = Nth(free, i - m) /\ m + (i - m) = i
    <3>1. i \in Nat /\ m + (i - m) = i
      BY <1>3, <1>12
    <3> QED
      BY <1>3, <1>12, <3>1
  <2>2. k = Nth(free, i - m)
    BY <1>12, <2>1 DEF Completes
  <2>3. k \in free /\ Rank(free, k) = i - m
    BY <1>4, <1>12, <2>2
  <2>4. Rank(free, k) <= n
    BY <1>3, <1>12, <2>3
  <2> QED
    BY <1>3, <1>7, <2>1, <2>2, <2>3, <2>4
<1>13. ASSUME NEW k \in Slots(o), NEW i \in DOMAIN q, Completes(q[i], k), Final(i)
       PROVE  k = 0
  BY <1>3, <1>13 DEF Completes
<1>14. \A k \in Slots(o) : \A i \in DOMAIN q : Completes(q[i], k) => act[k] # Free
  <2> SUFFICES ASSUME NEW k \in Slots(o), NEW i \in DOMAIN q, Completes(q[i], k) PROVE act[k] # Free
    OBVIOUS
  <2>1. CASE Old(i)
    BY <1>5, <1>11, <2>1
  <2>2. CASE New(i)
    BY <1>5, <1>12, <2>2
  <2>3. CASE Final(i)
    BY <1>5, <1>13, <2>3
  <2> QED
    BY <1>10, <2>1, <2>2, <2>3
<1>15. \A k \in Slots(o) : act[k] # Free => \E i \in DOMAIN q : Completes(q[i], k)
  <2> SUFFICES ASSUME NEW k \in Slots(o), act[k] # Free PROVE \E i \in DOMAIN q : Completes(q[i], k)
    OBVIOUS
  <2>1. CASE s.active[k] # Free
    <3>1. PICK i \in DOMAIN s.actions : Completes(s.actions[i], k)
      BY <1>1, <2>1, Zenon DEF SlotActions
    <3>2. i \in DOMAIN q /\ q[i] = s.actions[i]
      BY <1>3
    <3> QED
      BY <3>1, <3>2
  <2>2. CASE GivenOut(o, s, k)
    <3>1. k \in free /\ Rank(free, k) \in 1..n
      BY <1>8, <2>2
    <3>2. m + Rank(free, k) \in DOMAIN q
      BY <1>3, <3>1
    <3>3. Completes(q[m + Rank(free, k)], k)
      BY <1>3, <1>4, <3>1 DEF Completes
    <3> QED
      BY <3>2, <3>3
  <2>3. CASE k = 0 /\ Handoff(s)
    <3>1. m + n + 1 \in DOMAIN q
      BY <1>3, <2>3
    <3>2. Completes(q[m + n + 1], k)
      BY <1>3, <2>3 DEF Completes
    <3> QED
      BY <3>1, <3>2
  <2> QED
    BY <1>5, <2>1, <2>2, <2>3
<1>16. \A k \in Slots(o) : \A i, j \in DOMAIN q : Completes(q[i], k) /\ Completes(q[j], k) => i = j
  <2> SUFFICES ASSUME NEW k \in Slots(o), NEW i \in DOMAIN q, NEW j \in DOMAIN q,
                      Completes(q[i], k), Completes(q[j], k)
               PROVE  i = j
    OBVIOUS
  <2>1. CASE s.active[k] # Free
    <3>1. ~New(i) /\ ~New(j)
      BY <1>6, <1>12, <2>1
    <3>2. ~Final(i) /\ ~Final(j)
      BY <1>9, <1>13, <2>1
    <3>3. Old(i) /\ Old(j)
      BY <1>10, <3>1, <3>2
    <3>4. i \in DOMAIN s.actions /\ j \in DOMAIN s.actions
          /\ Completes(s.actions[i], k) /\ Completes(s.actions[j], k)
      BY <1>11, <3>3
    <3> QED
      BY <1>1, <3>4, Zenon DEF SlotActions
  <2>2. CASE s.active[k] = Free
    <3>1. ~Old(i) /\ ~Old(j)
      BY <1>11, <2>2
    <3>2. CASE New(i) /\ New(j)
      BY <1>12, <3>2
    <3>3. CASE Final(i) /\ Final(j)
      BY <3>3
    <3>4. CASE New(i) /\ Final(j)
      BY <1>4, <1>12, <1>13, <3>4
    <3>5. CASE Final(i) /\ New(j)
      BY <1>4, <1>12, <1>13, <3>5
    <3> QED
      BY <1>10, <3>1, <3>2, <3>3, <3>4, <3>5
  <2> QED
    BY <2>1, <2>2
<1> QED
  BY <1>2, <1>14, <1>15, <1>16 DEF SourceOK, SlotActions, q, act

\* The end of what an execution slot does is told by the one completion of the slot.
LEMMA EndIs ==
    ASSUME NEW o \in Orgs, NEW s, SourceOK(o, s), NEW k \in SlotsOf(o),
           NEW i \in DOMAIN s.actions, Completes(s.actions[i], k)
    PROVE  /\ EndOf(s, k) = s.actions[i].at /\ s.actions[i].kind = "execution"
           /\ EndOf(s, k) \in Nat
<1>1. /\ s.actions \in Seq(Actions(o)) /\ SlotActions(s) /\ k \in DOMAIN s.active
      /\ \A j \in DOMAIN s.actions : s.actions[j] \in Actions(o)
  <2>1. s.actions \in Seq(Actions(o)) /\ SlotActions(s) /\ k \in DOMAIN s.active
    BY DEF SourceOK, Sources, Slots
  <2> QED
    BY <2>1
<1>2. k # 0
  BY WorkTyped
<1>3. s.actions[i] \in Actions(o)
  BY <1>1
<1>4. s.actions[i].kind = "execution" /\ s.actions[i].of = k /\ s.actions[i].at \in Nat
  BY <1>2, <1>3 DEF Completes, Actions
<1>5. s.actions[i] \in ToSet(s.actions)
  BY Zenon DEF ToSet
<1>6. \A a \in ToSet(s.actions) : a.kind = "execution" /\ a.of = k => a = s.actions[i]
  <2> SUFFICES ASSUME NEW j \in DOMAIN s.actions,
                      s.actions[j].kind = "execution", s.actions[j].of = k
               PROVE  j = i
    BY Zenon DEF ToSet
  <2>1. Completes(s.actions[j], k)
    BY DEF Completes
  <2> QED
    BY <1>1, <2>1, Zenon DEF SlotActions
<1>7. (CHOOSE a \in ToSet(s.actions) : a.kind = "execution" /\ a.of = k) = s.actions[i]
  BY <1>4, <1>5, <1>6
<1> QED
  BY <1>4, <1>7 DEF EndOf

\* A step of an organization: slots and completions stay together, the step is
\* counted, what is under way in another slot and its end stay, and what a slot
\* begins starts with the step.
LEMMA TransitionIs ==
    ASSUME NEW o \in Orgs, NEW s, SourceOK(o, s), s.actions # <<>>
    PROVE  LET t == Transition(o, s)  a == NextAction(s) IN
           /\ SourceOK(o, t) /\ t.step = s.step + 1 /\ t.clock = a.at
           /\ \A k \in SlotsOf(o) :
                 s.active[k] # Free /\ ~Completes(a, k) =>
                     t.active[k] = s.active[k] /\ EndOf(t, k) = EndOf(s, k)
           /\ \A k \in SlotsOf(o) :
                 s.active[k] = Free \/ Completes(a, k) =>
                     t.active[k] = Free \/ t.active[k].start = a.at
<1> DEFINE t == Transition(o, s)
           a == NextAction(s)
           d == Acted(o, s)
<1>1. t = Dispatch(o, d)
  BY Zenon DEF Transition, Acted
<1>2. SourceOK(o, d) /\ d \in Sources(o)
  BY ActedOK DEF SourceOK
<1>3. /\ d.step = s.step + 1 /\ d.clock = a.at
      /\ d.actions = RemoveAt(s.actions, NextIndex(s))
      /\ d.active = [k \in Slots(o) |-> IF Completes(a, k) THEN Free ELSE s.active[k]]
  BY ActedIs
<1>4. SourceOK(o, t)
  BY <1>1, <1>2, DispatchOK
<1>5. t.step = d.step /\ t.clock = d.clock /\ t.active = Dispatched(o, d)
  BY <1>1, <1>2, DispatchIs
<1>6. /\ \A k \in Slots(o) : d.active[k] # Free => t.active[k] = d.active[k]
      /\ \A k \in Slots(o) : d.active[k] = Free => t.active[k] = Free \/ t.active[k].start = d.clock
  BY <1>2, <1>5, DispatchedTyped
<1>7. /\ s \in Sources(o) /\ s.actions \in Seq(Actions(o)) /\ SlotActions(s)
      /\ DOMAIN s.active = Slots(o)
  BY DEF SourceOK, Sources
<1>8. ASSUME NEW k \in SlotsOf(o), s.active[k] # Free, ~Completes(a, k)
      PROVE  t.active[k] = s.active[k] /\ EndOf(t, k) = EndOf(s, k)
  <2>1. k \in Slots(o)
    BY DEF Slots
  <2>2. d.active[k] = s.active[k]
    BY <1>3, <1>8, <2>1
  <2>3. PICK j \in DOMAIN d.actions : Completes(d.actions[j], k)
    <3>1. SlotActions(d) /\ k \in DOMAIN d.active
      BY <1>2, <1>3, <2>1 DEF SourceOK
    <3> QED
      BY <1>8, <2>2, <3>1, Zenon DEF SlotActions
  <2>4. EndOf(d, k) = d.actions[j].at
    BY <1>2, <2>3, EndIs
  <2>5. j \in DOMAIN t.actions /\ t.actions[j] = d.actions[j]
    <3>1. /\ DOMAIN d.actions = 1..Len(d.actions)
          /\ \A i \in 1..Len(d.actions) : i \in DOMAIN t.actions /\ t.actions[i] = d.actions[i]
      BY <1>1, <1>2, DispatchActions
    <3> QED
      BY <3>1
  <2>6. EndOf(t, k) = d.actions[j].at
    BY <1>4, <2>3, <2>5, EndIs
  <2>7. PICK i \in DOMAIN s.actions : d.actions[j] = s.actions[i]
    <3>1. NextIndex(s) \in 1..Len(s.actions)
      BY <1>7, NextIs
    <3>2. /\ d.actions \in Seq(Actions(o)) /\ Len(d.actions) = Len(s.actions) - 1
          /\ \A x \in 1..(Len(s.actions) - 1) :
               d.actions[x] = IF x < NextIndex(s) THEN s.actions[x] ELSE s.actions[x + 1]
      <4> DEFINE m == NextIndex(s)
      <4>1. m \in 1..Len(s.actions)
        BY <3>1
      <4> HIDE DEF m
      <4>2. /\ RemoveAt(s.actions, m) \in Seq(Actions(o))
            /\ Len(RemoveAt(s.actions, m)) = Len(s.actions) - 1
            /\ \A x \in 1..(Len(s.actions) - 1) :
                 RemoveAt(s.actions, m)[x] = IF x < m THEN s.actions[x] ELSE s.actions[x + 1]
        BY <1>7, <4>1, Removed
      <4>3. d.actions = RemoveAt(s.actions, m)
        BY <1>3 DEF m
      <4> QED
        BY <4>2, <4>3 DEF m
    <3>3. j \in 1..(Len(s.actions) - 1) /\ Len(s.actions) \in Nat
          /\ DOMAIN s.actions = 1..Len(s.actions)
      BY <1>7, <2>3, <3>2, LenProperties
    <3>4. j \in DOMAIN s.actions /\ j + 1 \in DOMAIN s.actions
      BY <3>3
    <3> QED
      BY <3>2, <3>3, <3>4
  <2>8. EndOf(s, k) = d.actions[j].at
    BY <2>3, <2>7, EndIs
  <2> QED
    BY <1>6, <1>8, <2>1, <2>2, <2>6, <2>8
<1>9. ASSUME NEW k \in SlotsOf(o), s.active[k] = Free \/ Completes(a, k)
      PROVE  t.active[k] = Free \/ t.active[k].start = a.at
  <2>1. k \in Slots(o)
    BY DEF Slots
  <2>2. d.active[k] = Free
    BY <1>3, <1>9, <2>1
  <2> QED
    BY <1>3, <1>6, <2>1, <2>2
<1> QED
  BY <1>3, <1>4, <1>5, <1>8, <1>9

-----------------------------------------------------------------------------
(***************************************************************************)
(* The records of a recurring job                                          *)
(***************************************************************************)

Waits == [trigger : Nat, state : {"waiting", "satisfied"}, origin : Nat, last : Nat]

RecordsTyped ==
    /\ DOMAIN src = Orgs /\ DOMAIN call = Workers
    /\ job \in [Orgs -> [run : Nat, active : Nat, last : Nat]]
    /\ lease \in [Orgs -> [state : {"none", "claimed", "released"}, owner : Workers \cup {Nobody},
                           epoch : Nat, trigger : Nat, wait : Nat, expired : BOOLEAN]]
    /\ waits \in [Orgs -> SUBSET Waits]

\* A worker's call is for its organization, and what it commits was planned from
\* what it has seen.
CallOK(w) ==
    LET c == call[w] IN
    /\ c.at \in {"idle", "claim", "look", "plan", "commit", "wait"}
    /\ c.at # "idle" => c.org = Job[w]
    /\ c.at \in {"commit", "wait"} =>
          /\ c = [at |-> c.at, org |-> c.org, trigger |-> c.trigger, epoch |-> c.epoch,
                  seen |-> c.seen, planned |-> c.planned]
          /\ c.seen.actions # <<>> /\ c.planned = Transition(c.org, c.seen)

\* The records of one organization.
RecordsOf(o) ==
    /\ CheckpointAgrees(o) /\ CompletedIsReleased(o) /\ ActiveIsClaimed(o)
    /\ job[o].active # 0 => WaitAgrees(o, job[o].active, lease[o].epoch)
    /\ \A x \in waits[o] :
          /\ x.state = "waiting" <=> x.trigger = job[o].active
          /\ \A y \in waits[o] : y.trigger = x.trigger => x = y

\* A wait is of the active trigger or an earlier one, and only an active trigger
\* is claimed or marked to wait.
WaitsInOrder(o) ==
    /\ \A x \in waits[o] :
          x.trigger # 0 /\ (x.trigger <= job[o].run \/ x.trigger = job[o].active)
    /\ job[o].active = 0 => lease[o].wait = 0 /\ lease[o].state # "claimed"

JobInv ==
    /\ RecordsTyped
    /\ \A o \in Orgs : SourceOK(o, src[o]) /\ RecordsOf(o) /\ WaitsInOrder(o)
    /\ \A w \in Workers : CallOK(w)

LEMMA SourceInitOK ==
    ASSUME NEW o \in Orgs
    PROVE  SourceOK(o, SourceInit(o)) /\ SourceInit(o).step = 0
<1> DEFINE s == SourceInit(o)
           q == [i \in DOMAIN Work[o].items |->
                     [at |-> Work[o].items[i].at, kind |-> "arrival", of |-> i]]
           act == [k \in SlotsOf(o) \cup {0} |-> Free]
<1>1. s = [clock |-> 0, step |-> 0, actions |-> q, active |-> act,
           execution |-> <<>>, coordination |-> <<>>, finished |-> {}, received |-> {}]
  BY DEF SourceInit
<1>2. q \in Seq(Actions(o)) /\ \A i \in DOMAIN q : q[i].kind = "arrival"
  <2>1. Work[o].items \in Seq([at : Nat, service : [Stations(o) -> Nat]])
    BY WorkTyped
  <2>2. Len(Work[o].items) \in Nat /\ DOMAIN Work[o].items = 1..Len(Work[o].items)
    BY <2>1, LenProperties
  <2>3. \A i \in 1..Len(Work[o].items) : Work[o].items[i].at \in Nat
    <3>1. \A i \in 1..Len(Work[o].items) :
             Work[o].items[i] \in [at : Nat, service : [Stations(o) -> Nat]]
      BY <2>1, ElementOfSeq
    <3> QED
      BY <3>1
  <2>4. q \in [1..Len(Work[o].items) -> Actions(o)]
    BY <2>2, <2>3 DEF Actions, Items
  <2>5. \A i \in DOMAIN q : q[i].kind = "arrival"
    OBVIOUS
  <2> HIDE DEF q
  <2>6. Seq(Actions(o)) = UNION {[1..m -> Actions(o)] : m \in Nat}
    BY SeqDef
  <2> QED
    BY <2>2, <2>4, <2>5, <2>6, Zenon
<1>3. act \in [Slots(o) -> Works(o) \cup {Free}] /\ \A k \in DOMAIN act : act[k] = Free
  BY DEF Slots
<1>4. <<>> \in Seq(Asks(o))
  BY EmptySeq
<1> HIDE DEF q, act, s
<1>5. s \in Sources(o) /\ s.actions = q /\ s.active = act /\ s.step = 0
  BY <1>1, <1>2, <1>3, <1>4 DEF Sources
<1>6. SlotActions(s)
  BY <1>2, <1>3, <1>5 DEF SlotActions, Completes
<1> QED
  BY <1>5, <1>6 DEF SourceOK, s

LEMMA JobInit == Init => JobInv
<1> SUFFICES ASSUME Init PROVE JobInv
  OBVIOUS
<1>1. RecordsTyped
  BY DEF Init, RecordsTyped
<1>2. ASSUME NEW o \in Orgs
      PROVE  SourceOK(o, src[o]) /\ RecordsOf(o) /\ WaitsInOrder(o)
  <2>1. /\ src[o] = SourceInit(o) /\ job[o] = [run |-> 0, active |-> 0, last |-> 0]
        /\ lease[o].wait = 0 /\ lease[o].state = "none" /\ waits[o] = {}
    BY DEF Init
  <2> QED
    BY <2>1, SourceInitOK
       DEF RecordsOf, CheckpointAgrees, CompletedIsReleased, ActiveIsClaimed, WaitsInOrder
<1>3. \A w \in Workers : CallOK(w)
  BY DEF Init, CallOK, Idle
<1> QED
  BY <1>1, <1>2, <1>3 DEF JobInv

\* The records of an organization that a step leaves alone.
LEMMA RecordsFrame ==
    ASSUME NEW o \in Orgs, SourceOK(o, src[o]), RecordsOf(o), WaitsInOrder(o),
           src'[o] = src[o], job'[o] = job[o], lease'[o] = lease[o], waits'[o] = waits[o]
    PROVE  SourceOK(o, src'[o]) /\ RecordsOf(o)' /\ WaitsInOrder(o)'
BY DEF RecordsOf, CheckpointAgrees, CompletedIsReleased, ActiveIsClaimed, WaitsInOrder,
       WaitAgrees, WaitOf

LEMMA CallFrame ==
    ASSUME NEW w \in Workers, CallOK(w), call'[w] = call[w]
    PROVE  CallOK(w)'
BY DEF CallOK

\* A step that only changes the call of one worker.
LEMMA CallStep ==
    ASSUME JobInv, NEW w \in Workers, UNCHANGED source, NEW c, call' = [call EXCEPT ![w] = c],
           /\ c.at \in {"idle", "claim", "look", "plan", "commit", "wait"}
           /\ c.at # "idle" => c.org = Job[w]
           /\ c.at \in {"commit", "wait"} =>
                 /\ c = [at |-> c.at, org |-> c.org, trigger |-> c.trigger, epoch |-> c.epoch,
                         seen |-> c.seen, planned |-> c.planned]
                 /\ c.seen.actions # <<>> /\ c.planned = Transition(c.org, c.seen)
    PROVE  JobInv'
<1>1. RecordsTyped'
  BY DEF JobInv, RecordsTyped, source
<1>2. ASSUME NEW o \in Orgs
      PROVE  SourceOK(o, src'[o]) /\ RecordsOf(o)' /\ WaitsInOrder(o)'
  BY RecordsFrame DEF JobInv, source
<1>3. ASSUME NEW v \in Workers PROVE CallOK(v)'
  <2>1. CASE v = w
    <3>1. call'[v] = c
      BY <2>1 DEF JobInv, RecordsTyped
    <3> QED
      BY <2>1, <3>1 DEF CallOK
  <2>2. CASE v # w
    <3>1. call'[v] = call[v] /\ CallOK(v)
      BY <2>2 DEF JobInv, RecordsTyped
    <3> QED
      BY <3>1, CallFrame
  <2> QED
    BY <2>1, <2>2
<1> QED
  BY <1>1, <1>2, <1>3 DEF JobInv

LEMMA ReturnStep ==
    ASSUME JobInv, NEW w \in Workers, UNCHANGED source, Return(w)
    PROVE  JobInv'
<1>1. call' = [call EXCEPT ![w] = Idle] /\ Idle.at = "idle"
  BY DEF Return, Idle
<1> QED
  BY <1>1, CallStep

LEMMA OrgOf ==
    ASSUME NEW w \in Workers
    PROVE  Job[w] \in Orgs
BY PoolAssumption

LEMMA RunTickKeeps ==
    ASSUME JobInv, NEW w \in Workers, RunTick(w)
    PROVE  JobInv'
<1> DEFINE c == [at |-> "claim", org |-> Job[w], trigger |-> job[Job[w]].run + 1]
<1>1. call' = [call EXCEPT ![w] = c] /\ UNCHANGED source
  BY DEF RunTick
<1>2. c.at = "claim" /\ c.org = Job[w]
  OBVIOUS
<1> HIDE DEF c
<1> QED
  BY <1>1, <1>2, CallStep

LEMMA LookKeeps ==
    ASSUME JobInv, NEW w \in Workers, Look(w)
    PROVE  JobInv'
<1> DEFINE c == [at |-> "plan", org |-> call[w].org, trigger |-> call[w].trigger,
                 epoch |-> call[w].epoch, due |-> NextAction(src[call[w].org])]
<1>1. call' = [call EXCEPT ![w] = c] /\ UNCHANGED source /\ call[w].at = "look"
  BY DEF Look, JobInv, RecordsTyped
<1>2. c.at = "plan" /\ c.org = Job[w]
  BY <1>1 DEF JobInv, CallOK
<1> HIDE DEF c
<1> QED
  BY <1>1, <1>2, CallStep

LEMMA PlanKeeps ==
    ASSUME JobInv, NEW w \in Workers, Plan(w)
    PROVE  JobInv'
<1> DEFINE c == [at |-> "commit", org |-> call[w].org, trigger |-> call[w].trigger,
                 epoch |-> call[w].epoch, seen |-> src[call[w].org],
                 planned |-> Transition(call[w].org, src[call[w].org])]
<1>1. call' = [call EXCEPT ![w] = c] /\ UNCHANGED source /\ call[w].at = "plan"
      /\ src[call[w].org].actions # <<>>
  BY DEF Plan, Steps
<1>2. /\ c.at = "commit" /\ c.org = Job[w] /\ c.seen = src[call[w].org] /\ c.org = call[w].org
      /\ c.planned = Transition(call[w].org, src[call[w].org])
      /\ c = [at |-> c.at, org |-> c.org, trigger |-> c.trigger, epoch |-> c.epoch,
              seen |-> c.seen, planned |-> c.planned]
  BY <1>1 DEF JobInv, CallOK
<1> HIDE DEF c
<1> QED
  BY <1>1, <1>2, CallStep

LEMMA NoRoomKeeps ==
    ASSUME JobInv, NEW w \in Workers, NoRoom(w)
    PROVE  JobInv'
<1> DEFINE d == call[w]
           c == [at |-> "wait", org |-> d.org, trigger |-> d.trigger, epoch |-> d.epoch,
                 seen |-> d.seen, planned |-> d.planned]
<1>1. /\ d = [at |-> d.at, org |-> d.org, trigger |-> d.trigger, epoch |-> d.epoch,
              seen |-> d.seen, planned |-> d.planned]
      /\ d.seen.actions # <<>> /\ d.planned = Transition(d.org, d.seen) /\ d.org = Job[w]
  BY DEF NoRoom, JobInv, CallOK
<1>2. [d EXCEPT !.at = "wait"] = c
  <2> HIDE DEF d
  <2> QED
    BY <1>1
<1>3. call' = [call EXCEPT ![w].at = "wait"] /\ UNCHANGED source
  BY DEF NoRoom
<1>4. call' = [call EXCEPT ![w] = c]
  <2>1. call' = [call EXCEPT ![w] = [d EXCEPT !.at = "wait"]]
    BY <1>3
  <2> QED
    BY <1>2, <2>1
<1>5. /\ c.at = "wait" /\ c.org = Job[w] /\ c.seen.actions # <<>>
      /\ c.planned = Transition(c.org, c.seen)
      /\ c = [at |-> c.at, org |-> c.org, trigger |-> c.trigger, epoch |-> c.epoch,
              seen |-> c.seen, planned |-> c.planned]
  BY <1>1
<1> HIDE DEF c
<1> QED
  BY <1>3, <1>4, <1>5, CallStep

\* A step that changes the records of one organization.
LEMMA OrgStep ==
    ASSUME JobInv, NEW o \in Orgs, RecordsTyped', \A v \in Workers : CallOK(v)',
           \A p \in Orgs \ {o} : /\ src'[p] = src[p] /\ job'[p] = job[p]
                                 /\ lease'[p] = lease[p] /\ waits'[p] = waits[p],
           SourceOK(o, src'[o]), RecordsOf(o)', WaitsInOrder(o)'
    PROVE  JobInv'
<1>1. ASSUME NEW p \in Orgs
      PROVE  SourceOK(p, src'[p]) /\ RecordsOf(p)' /\ WaitsInOrder(p)'
  <2>1. CASE p = o
    BY <2>1
  <2>2. CASE p # o
    BY <2>2, RecordsFrame DEF JobInv
  <2> QED
    BY <2>1, <2>2
<1> QED
  BY <1>1 DEF JobInv

LEMMA ReturnKeepsCalls ==
    ASSUME JobInv, NEW w \in Workers, Return(w)
    PROVE  DOMAIN call' = Workers /\ \A v \in Workers : CallOK(v)'
<1>1. DOMAIN call = Workers /\ \A v \in Workers : CallOK(v)
  BY DEF JobInv, RecordsTyped
<1>2. call' = [call EXCEPT ![w] = Idle]
  BY DEF Return
<1>3. ASSUME NEW v \in Workers PROVE CallOK(v)'
  <2>1. CASE v = w
    BY <1>1, <1>2, <2>1 DEF CallOK, Idle
  <2>2. CASE v # w
    BY <1>1, <1>2, <2>2, CallFrame
  <2> QED
    BY <2>1, <2>2
<1> QED
  BY <1>1, <1>2, <1>3

\* What the records of an organization say of its numbers.
LEMMA Numbers ==
    ASSUME JobInv, NEW o \in Orgs
    PROVE  /\ job[o].run \in Nat /\ job[o].active \in Nat /\ job[o].last = job[o].run
           /\ lease[o].epoch \in Nat /\ lease[o].epoch >= job[o].run
           /\ lease[o].wait \in Nat
           /\ job[o].active # 0 => job[o].active = job[o].run + 1 /\ lease[o].epoch >= job[o].run + 1
           /\ lease[o].wait \in {0, job[o].active}
           /\ waits[o] \subseteq Waits
<1>1. /\ job[o].run \in Nat /\ job[o].active \in Nat
      /\ lease[o].epoch \in Nat /\ lease[o].wait \in Nat /\ waits[o] \subseteq Waits
  BY DEF JobInv, RecordsTyped
<1>2. /\ job[o].last = job[o].run
      /\ job[o].last # 0 /\ job[o].active = 0 => lease[o].epoch >= job[o].run
  BY DEF JobInv, RecordsOf, CheckpointAgrees, CompletedIsReleased
<1>3. job[o].active # 0 => /\ job[o].active = job[o].run + 1 /\ lease[o].epoch >= job[o].run + 1
                           /\ lease[o].wait \in {0, job[o].active}
  BY DEF JobInv, RecordsOf, ActiveIsClaimed
<1>4. job[o].active = 0 => lease[o].wait = 0
  BY DEF JobInv, WaitsInOrder
<1> QED
  BY <1>1, <1>2, <1>3, <1>4

LEMMA ClaimKeeps ==
    ASSUME JobInv, NEW w \in Workers, ClaimTick(w)
    PROVE  JobInv'
<1> DEFINE c == call[w]
<1>1. c.at = "claim" /\ Admitted(w) /\ UNCHANGED <<src, waits>>
  BY DEF ClaimTick
<1>2. PICK o \in Orgs : o = Job[w] /\ c.org = o
  BY <1>1, OrgOf DEF JobInv, CallOK
<1>3. CASE OwnClaim(w, o, c.trigger) /\ Claimed(w, lease[o].epoch) /\ UNCHANGED <<lease, job>>
  <2> DEFINE d == [at |-> "look", org |-> o, trigger |-> c.trigger, epoch |-> lease[o].epoch]
  <2>1. call' = [call EXCEPT ![w] = d] /\ UNCHANGED source
    BY <1>1, <1>2, <1>3 DEF Claimed, source
  <2>2. d.at = "look" /\ d.org = Job[w]
    BY <1>2
  <2> HIDE DEF d
  <2> QED
    BY <2>1, <2>2, CallStep
<1>4. CASE /\ Claimed(w, lease[o].epoch + 1)
           /\ lease' = [lease EXCEPT ![o] =
                          [state |-> "claimed", owner |-> w, epoch |-> @.epoch + 1,
                           trigger |-> c.trigger, wait |-> @.wait, expired |-> FALSE]]
           /\ job' = [job EXCEPT ![o].active = c.trigger]
  <2>1. /\ c.trigger = job[o].run + 1 /\ ~Done(o, src[o])
    BY <1>1, <1>2 DEF Admitted
  <2>2. RecordsTyped /\ RecordsOf(o) /\ WaitsInOrder(o) /\ SourceOK(o, src[o])
    BY <1>2 DEF JobInv
  <2> HIDE DEF c
  <2>3. /\ job[o].run \in Nat /\ job[o].active \in Nat
        /\ lease[o].epoch \in Nat /\ lease[o].epoch >= job[o].run
        /\ lease[o].wait \in Nat
        /\ job[o].active # 0 => job[o].active = job[o].run + 1
        /\ lease[o].wait \in {0, job[o].active}
        /\ waits[o] \subseteq Waits
    BY <1>2, Numbers
  <2>4. /\ lease'[o] = [state |-> "claimed", owner |-> w, epoch |-> lease[o].epoch + 1,
                        trigger |-> job[o].run + 1, wait |-> lease[o].wait, expired |-> FALSE]
        /\ job'[o].run = job[o].run /\ job'[o].last = job[o].last
        /\ job'[o].active = job[o].run + 1
        /\ src'[o] = src[o] /\ waits'[o] = waits[o]
    BY <1>1, <1>2, <1>4, <2>1, <2>2 DEF RecordsTyped
  <2>5. RecordsTyped'
    <3>1. DOMAIN call' = Workers /\ DOMAIN src' = Orgs /\ waits' \in [Orgs -> SUBSET Waits]
      BY <1>1, <1>4, <2>2 DEF RecordsTyped, Claimed
    <3>2. job' \in [Orgs -> [run : Nat, active : Nat, last : Nat]]
      BY <1>2, <1>4, <2>1, <2>2, <2>3 DEF RecordsTyped
    <3>3. lease' \in [Orgs -> [state : {"none", "claimed", "released"},
                               owner : Workers \cup {Nobody},
                               epoch : Nat, trigger : Nat, wait : Nat, expired : BOOLEAN]]
      <4>1. lease'[o] \in [state : {"none", "claimed", "released"},
                           owner : Workers \cup {Nobody},
                           epoch : Nat, trigger : Nat, wait : Nat, expired : BOOLEAN]
        BY <2>3, <2>4
      <4> QED
        BY <1>2, <1>4, <2>2, <4>1 DEF RecordsTyped
    <3> QED
      BY <3>1, <3>2, <3>3 DEF RecordsTyped
  <2>6. \A v \in Workers : CallOK(v)'
    <3> DEFINE d == [at |-> "look", org |-> o, trigger |-> c.trigger, epoch |-> lease[o].epoch + 1]
    <3>1. call' = [call EXCEPT ![w] = d]
      BY <1>2, <1>4 DEF Claimed, c
    <3>2. d.at = "look" /\ d.org = Job[w]
      BY <1>2
    <3> HIDE DEF d
    <3> SUFFICES ASSUME NEW v \in Workers PROVE CallOK(v)'
      OBVIOUS
    <3>3. CASE v = w
      BY <2>2, <3>1, <3>2, <3>3 DEF RecordsTyped, CallOK
    <3>4. CASE v # w
      BY <2>2, <3>1, <3>4, CallFrame DEF RecordsTyped, JobInv
    <3> QED
      BY <3>3, <3>4
  <2>7. \A x \in waits[o] : x.trigger = job'[o].active <=> (x.trigger = job[o].active)
    <3>1. \A x \in waits[o] : x.trigger \in Nat \ {0}
                              /\ (x.trigger <= job[o].run \/ x.trigger = job[o].active)
      BY <2>2, <2>3 DEF WaitsInOrder, Waits
    <3> QED
      BY <2>3, <2>4, <3>1
  <2>8. WaitsInOrder(o)'
    <3>1. \A x \in waits[o] : x.trigger # 0 /\ (x.trigger <= job[o].run \/ x.trigger = job'[o].active)
      BY <2>2, <2>7 DEF WaitsInOrder
    <3> QED
      BY <2>3, <2>4, <3>1 DEF WaitsInOrder
  <2>9. CheckpointAgrees(o)' /\ CompletedIsReleased(o)' /\ ActiveIsClaimed(o)'
    <3>1. CheckpointAgrees(o)'
      BY <2>1, <2>2, <2>4 DEF RecordsOf, CheckpointAgrees
    <3>2. CompletedIsReleased(o)'
      BY <2>3, <2>4 DEF CompletedIsReleased
    <3>3. ActiveIsClaimed(o)'
      BY <2>3, <2>4 DEF ActiveIsClaimed
    <3> QED
      BY <3>1, <3>2, <3>3
  <2>10. /\ lease'[o].wait = IF WaitOf(o, job[o].active)' = {} THEN 0 ELSE job'[o].active
         /\ \A x \in WaitOf(o, job[o].active)' :
               /\ x.state = "waiting" /\ 1 <= x.origin /\ x.origin <= x.last
               /\ x.last <= lease'[o].epoch
    <3>1. WaitOf(o, job[o].active)' = WaitOf(o, job[o].active)
      BY <2>4, <2>7 DEF WaitOf
    <3>2. CASE job[o].active = 0
      <4>1. WaitOf(o, job[o].active) = {} /\ lease[o].wait = 0
        BY <2>2, <3>2 DEF WaitOf, WaitsInOrder
      <4> QED
        BY <2>4, <3>1, <4>1
    <3>3. CASE job[o].active # 0
      <4>1. /\ lease[o].wait = IF WaitOf(o, job[o].active) = {} THEN 0 ELSE job[o].active
            /\ \A x \in WaitOf(o, job[o].active) :
                  /\ x.state = "waiting" /\ 1 <= x.origin /\ x.origin <= x.last
                  /\ x.last <= lease[o].epoch
        BY <2>2, <3>3 DEF RecordsOf, WaitAgrees
      <4>2. \A x \in WaitOf(o, job[o].active) : x.last \in Nat
        BY <2>3 DEF WaitOf, Waits
      <4> QED
        BY <2>3, <2>4, <3>1, <3>3, <4>1, <4>2
    <3> QED
      BY <3>2, <3>3
  <2>11. RecordsOf(o)'
    <3>1. \A x \in waits[o] : /\ x.state = "waiting" <=> x.trigger = job'[o].active
                              /\ \A y \in waits[o] : y.trigger = x.trigger => x = y
      BY <2>2, <2>7 DEF RecordsOf
    <3> QED
      BY <2>4, <2>9, <2>10, <3>1 DEF RecordsOf, WaitAgrees
  <2>12. \A p \in Orgs \ {o} : /\ src'[p] = src[p] /\ job'[p] = job[p]
                               /\ lease'[p] = lease[p] /\ waits'[p] = waits[p]
    BY <1>1, <1>4, <2>2 DEF RecordsTyped
  <2> QED
    BY <1>2, <2>2, <2>4, <2>5, <2>6, <2>8, <2>11, <2>12, OrgStep
<1> QED
  BY <1>2, <1>3, <1>4 DEF ClaimTick

\* A claim that holds is the one of the active trigger.
LEMMA HoldsActive ==
    ASSUME JobInv, NEW w \in Workers, ClaimHolds(w), call[w].org \in Orgs
    PROVE  LET o == call[w].org IN
           /\ job[o].active = call[w].trigger /\ job[o].active # 0
           /\ lease[o].epoch = call[w].epoch /\ lease[o].state = "claimed"
           /\ lease[o].trigger = job[o].active /\ job[o].active = job[o].run + 1
<1> DEFINE o == call[w].org
<1>1. /\ job[o].active = call[w].trigger /\ lease[o].epoch = call[w].epoch
      /\ lease[o].state = "claimed" /\ lease[o].trigger = call[w].trigger
  BY DEF ClaimHolds
<1>2. job[o].active # 0
  BY <1>1 DEF JobInv, WaitsInOrder
<1> QED
  BY <1>1, <1>2, Numbers

LEMMA CommitKeeps ==
    ASSUME JobInv, NEW w \in Workers, Commit(w)
    PROVE  JobInv'
<1> DEFINE c == call[w]
<1>1. c.at = "commit" /\ ClaimHolds(w) /\ Return(w)
  BY DEF Commit, Unchanged
<1>2. PICK o \in Orgs : o = Job[w] /\ c.org = o
  BY <1>1, OrgOf DEF JobInv, CallOK
<1>3. /\ src' = [src EXCEPT ![o] = c.planned]
      /\ waits' = [waits EXCEPT ![o] =
                    {IF x.trigger = c.trigger
                     THEN [x EXCEPT !.state = "satisfied", !.last = c.epoch] ELSE x : x \in waits[o]}]
      /\ job' = [job EXCEPT ![o] = [run |-> job[o].run + 1, active |-> 0, last |-> c.trigger]]
      /\ lease' = [lease EXCEPT ![o].state = "released", ![o].owner = Nobody, ![o].wait = 0]
      /\ src[o] = c.seen
  BY <1>2 DEF Commit, Unchanged, JobInv, RecordsTyped
<1>4. /\ job[o].active = c.trigger /\ c.trigger # 0 /\ lease[o].epoch = c.epoch
      /\ lease[o].trigger = c.trigger /\ c.trigger = job[o].run + 1
  BY <1>1, <1>2, HoldsActive
<1>5. /\ c.seen.actions # <<>> /\ c.planned = Transition(o, c.seen)
  BY <1>1, <1>2 DEF JobInv, CallOK
<1>6. RecordsTyped /\ RecordsOf(o) /\ WaitsInOrder(o) /\ SourceOK(o, src[o])
  BY DEF JobInv
<1> HIDE DEF c
<1>7. SourceOK(o, c.planned) /\ c.planned.step = src[o].step + 1
  <2>1. SourceOK(o, c.seen) /\ c.seen.actions # <<>>
    BY <1>3, <1>5, <1>6
  <2>2. src[o] = c.seen /\ c.planned = Transition(o, c.seen)
    BY <1>3, <1>5
  <2> QED
    BY <2>1, <2>2, TransitionIs
<1>8. /\ job[o].run \in Nat /\ job[o].last = job[o].run
      /\ lease[o].epoch \in Nat /\ lease[o].epoch >= job[o].run + 1 /\ waits[o] \subseteq Waits
  BY <1>4, Numbers
<1>9. /\ src'[o] = c.planned /\ job'[o].run = job[o].run + 1 /\ job'[o].active = 0
      /\ job'[o].last = job[o].run + 1
  BY <1>3, <1>4, <1>6 DEF RecordsTyped
<1>10. /\ lease'[o].state = "released" /\ lease'[o].owner = Nobody /\ lease'[o].wait = 0
       /\ lease'[o].epoch = lease[o].epoch /\ lease'[o].trigger = job[o].run + 1
       /\ lease'[o] \in [state : {"none", "claimed", "released"}, owner : Workers \cup {Nobody},
                         epoch : Nat, trigger : Nat, wait : Nat, expired : BOOLEAN]
  <2>1. lease[o] \in [state : {"none", "claimed", "released"}, owner : Workers \cup {Nobody},
                      epoch : Nat, trigger : Nat, wait : Nat, expired : BOOLEAN]
    BY <1>6 DEF RecordsTyped
  <2>2. lease'[o] = [lease[o] EXCEPT !.state = "released", !.owner = Nobody, !.wait = 0]
    BY <1>3, <1>6 DEF RecordsTyped
  <2>3. /\ lease'[o].state = "released" /\ lease'[o].owner = Nobody /\ lease'[o].wait = 0
        /\ lease'[o].epoch = lease[o].epoch /\ lease'[o].trigger = lease[o].trigger
    BY <2>1, <2>2
  <2>4. lease'[o] \in [state : {"none", "claimed", "released"}, owner : Workers \cup {Nobody},
                       epoch : Nat, trigger : Nat, wait : Nat, expired : BOOLEAN]
    <3>1. lease'[o] = [state |-> "released", owner |-> Nobody, epoch |-> lease[o].epoch,
                       trigger |-> lease[o].trigger, wait |-> 0, expired |-> lease[o].expired]
      BY <2>1, <2>2
    <3>2. lease[o].epoch \in Nat /\ lease[o].trigger \in Nat /\ lease[o].expired \in BOOLEAN
      BY <2>1
    <3> QED
      BY <3>1, <3>2
  <2> QED
    BY <1>4, <2>3, <2>4
\* Every wait is settled.
<1>11. ASSUME NEW y \in waits'[o]
       PROVE  /\ y \in Waits /\ y.state = "satisfied" /\ y.trigger # 0 /\ y.trigger <= job[o].run + 1
              /\ \E x \in waits[o] : /\ x.trigger = y.trigger
                                     /\ y = IF x.trigger = c.trigger
                                            THEN [x EXCEPT !.state = "satisfied", !.last = c.epoch]
                                            ELSE x
  <2>0. waits'[o] = {IF x.trigger = c.trigger
                     THEN [x EXCEPT !.state = "satisfied", !.last = c.epoch] ELSE x : x \in waits[o]}
    BY <1>3, <1>6 DEF RecordsTyped
  <2>1. PICK x \in waits[o] : y = IF x.trigger = c.trigger
                                  THEN [x EXCEPT !.state = "satisfied", !.last = c.epoch] ELSE x
    BY <1>11, <2>0, Zenon
  <2>2. x \in Waits /\ x.trigger # 0 /\ (x.trigger <= job[o].run \/ x.trigger = job[o].active)
        /\ (x.state = "waiting" <=> x.trigger = job[o].active)
    BY <1>6, <1>8 DEF WaitsInOrder, RecordsOf
  <2>3. CASE x.trigger = c.trigger
    <3>1. /\ y.state = "satisfied" /\ y.trigger = x.trigger /\ y \in Waits
      BY <1>4, <1>8, <2>1, <2>2, <2>3 DEF Waits
    <3>2. y.trigger # 0 /\ y.trigger <= job[o].run + 1
      BY <1>4, <1>8, <2>3, <3>1
    <3> QED
      BY <2>1, <3>1, <3>2, Zenon
  <2>4. CASE x.trigger # c.trigger
    <3>1. y = x /\ x.state = "satisfied" /\ x.trigger \in Nat
      BY <1>4, <2>1, <2>2, <2>4 DEF Waits
    <3>2. x.trigger <= job[o].run + 1
      BY <1>4, <1>8, <2>2, <2>4, <3>1
    <3> QED
      BY <2>1, <2>2, <3>1, <3>2
  <2> QED
    BY <2>3, <2>4
<1>12. \A x, y \in waits'[o] : y.trigger = x.trigger => x = y
  <2> SUFFICES ASSUME NEW x \in waits'[o], NEW y \in waits'[o], y.trigger = x.trigger PROVE x = y
    OBVIOUS
  <2>1. PICK u \in waits[o] : u.trigger = x.trigger
                              /\ x = IF u.trigger = c.trigger
                                     THEN [u EXCEPT !.state = "satisfied", !.last = c.epoch] ELSE u
    BY <1>11
  <2>2. PICK v \in waits[o] : v.trigger = y.trigger
                              /\ y = IF v.trigger = c.trigger
                                     THEN [v EXCEPT !.state = "satisfied", !.last = c.epoch] ELSE v
    BY <1>11
  <2>3. u = v
    BY <1>6, <2>1, <2>2 DEF RecordsOf
  <2> QED
    BY <2>1, <2>2, <2>3
<1>13. WaitsInOrder(o)'
  BY <1>8, <1>9, <1>10, <1>11 DEF WaitsInOrder
<1>14. RecordsOf(o)'
  <2>1. CheckpointAgrees(o)'
    BY <1>6, <1>7, <1>9 DEF RecordsOf, CheckpointAgrees
  <2>2. CompletedIsReleased(o)'
    BY <1>8, <1>9, <1>10 DEF CompletedIsReleased
  <2>3. job'[o].active = 0
    BY <1>9
  <2>4. \A x \in waits'[o] : x.state = "waiting" <=> x.trigger = job'[o].active
    BY <1>11, <2>3
  <2> QED
    BY <1>12, <2>1, <2>2, <2>3, <2>4 DEF RecordsOf, ActiveIsClaimed
<1>15. DOMAIN call' = Workers /\ \A v \in Workers : CallOK(v)'
  BY <1>1, ReturnKeepsCalls
<1>16. RecordsTyped'
  <2>1. DOMAIN src' = Orgs
    BY <1>3, <1>6 DEF RecordsTyped
  <2>2. job' \in [Orgs -> [run : Nat, active : Nat, last : Nat]]
    BY <1>3, <1>4, <1>6, <1>8 DEF RecordsTyped
  <2>3. lease' \in [Orgs -> [state : {"none", "claimed", "released"},
                             owner : Workers \cup {Nobody},
                             epoch : Nat, trigger : Nat, wait : Nat, expired : BOOLEAN]]
    <3>1. lease' = [lease EXCEPT ![o] = lease'[o]]
      BY <1>3, <1>6 DEF RecordsTyped
    <3> QED
      BY <1>6, <1>10, <3>1 DEF RecordsTyped
  <2>4. waits' \in [Orgs -> SUBSET Waits]
    <3>1. waits'[o] \subseteq Waits
      BY <1>11
    <3> QED
      BY <1>3, <1>6, <3>1 DEF RecordsTyped
  <2> QED
    BY <1>15, <2>1, <2>2, <2>3, <2>4 DEF RecordsTyped
<1>17. \A p \in Orgs \ {o} : /\ src'[p] = src[p] /\ job'[p] = job[p]
                             /\ lease'[p] = lease[p] /\ waits'[p] = waits[p]
  BY <1>3, <1>6 DEF RecordsTyped
<1> QED
  BY <1>7, <1>9, <1>13, <1>14, <1>15, <1>16, <1>17, OrgStep

LEMMA RecordWaitKeeps ==
    ASSUME JobInv, NEW w \in Workers, RecordWait(w)
    PROVE  JobInv'
<1> DEFINE c == call[w]
<1>1. c.at = "wait" /\ ClaimHolds(w) /\ Return(w) /\ UNCHANGED <<src, job>>
  BY DEF RecordWait, Unchanged
<1>2. PICK o \in Orgs : o = Job[w] /\ c.org = o
  BY <1>1, OrgOf DEF JobInv, CallOK
<1>3. /\ job[o].active = c.trigger /\ c.trigger # 0 /\ lease[o].epoch = c.epoch
      /\ c.trigger = job[o].run + 1
  BY <1>1, <1>2, HoldsActive
<1>4. RecordsTyped /\ RecordsOf(o) /\ WaitsInOrder(o) /\ SourceOK(o, src[o])
  BY DEF JobInv
<1> HIDE DEF c
<1>5. /\ job[o].run \in Nat /\ job[o].active \in Nat
      /\ lease[o].epoch \in Nat /\ lease[o].epoch >= job[o].run + 1 /\ waits[o] \subseteq Waits
  BY <1>3, Numbers
<1>6. /\ lease[o].wait = IF WaitOf(o, c.trigger) = {} THEN 0 ELSE c.trigger
      /\ \A x \in WaitOf(o, c.trigger) :
            /\ x.state = "waiting" /\ 1 <= x.origin /\ x.origin <= x.last
            /\ x.last <= lease[o].epoch
  BY <1>3, <1>4 DEF RecordsOf, WaitAgrees
<1>7. DOMAIN call' = Workers /\ \A v \in Workers : CallOK(v)'
  BY <1>1, ReturnKeepsCalls
<1>8. src'[o] = src[o] /\ job'[o] = job[o] /\ src' = src /\ job' = job
  BY <1>1
\* What is left to show of the two cases: the waits of the organization.
<1>9. ASSUME waits' = [waits EXCEPT ![o] = waits'[o]], waits'[o] \subseteq Waits,
             lease' = [lease EXCEPT ![o].wait = c.trigger],
             \A y \in waits'[o] :
                 \/ y \in waits[o] /\ y.trigger # c.trigger
                 \/ /\ y.trigger = c.trigger /\ y.state = "waiting" /\ 1 <= y.origin
                    /\ y.origin <= y.last /\ y.last <= lease[o].epoch,
             \E y \in waits'[o] : y.trigger = c.trigger,
             \A x, y \in waits'[o] : x.trigger = c.trigger /\ y.trigger = c.trigger => x = y
      PROVE  JobInv'
  <2>1. /\ lease'[o].wait = c.trigger /\ lease'[o].state = lease[o].state
        /\ lease'[o].owner = lease[o].owner /\ lease'[o].trigger = lease[o].trigger
        /\ lease'[o].epoch = lease[o].epoch
    BY <1>4, <1>9 DEF RecordsTyped
  <2>2. RecordsTyped'
    <3>1. lease' \in [Orgs -> [state : {"none", "claimed", "released"},
                               owner : Workers \cup {Nobody},
                               epoch : Nat, trigger : Nat, wait : Nat, expired : BOOLEAN]]
      <4>1. c.trigger \in Nat
        BY <1>3, <1>5
      <4> QED
        BY <1>4, <1>9, <4>1 DEF RecordsTyped
    <3>2. waits' \in [Orgs -> SUBSET Waits]
      BY <1>4, <1>9 DEF RecordsTyped
    <3> QED
      BY <1>4, <1>7, <1>8, <3>1, <3>2 DEF RecordsTyped
  <2>3. WaitsInOrder(o)'
    <3>1. \A y \in waits'[o] : y.trigger # 0 /\ (y.trigger <= job[o].run \/ y.trigger = job[o].active)
      BY <1>3, <1>4, <1>9 DEF WaitsInOrder
    <3> QED
      BY <1>3, <1>8, <3>1 DEF WaitsInOrder
  <2>4. CheckpointAgrees(o)' /\ CompletedIsReleased(o)' /\ ActiveIsClaimed(o)'
    BY <1>3, <1>4, <1>8, <2>1 DEF RecordsOf, CheckpointAgrees, CompletedIsReleased, ActiveIsClaimed
  <2>5. WaitAgrees(o, job[o].active, lease[o].epoch)'
    <3>1. WaitOf(o, job[o].active)' = {y \in waits'[o] : y.trigger = c.trigger}
      BY <1>3, <1>8 DEF WaitOf
    <3>2. WaitOf(o, job[o].active)' # {}
      BY <1>9, <3>1
    <3>3. \A y \in WaitOf(o, job[o].active)' :
             y.state = "waiting" /\ 1 <= y.origin /\ y.origin <= y.last /\ y.last <= lease[o].epoch
      BY <1>9, <3>1
    <3> QED
      BY <1>3, <1>8, <2>1, <3>2, <3>3 DEF WaitAgrees
  <2>6. \A x \in waits'[o] : /\ x.state = "waiting" <=> x.trigger = job'[o].active
                             /\ \A y \in waits'[o] : y.trigger = x.trigger => x = y
    BY <1>3, <1>4, <1>8, <1>9 DEF RecordsOf
  <2>7. \A p \in Orgs \ {o} : /\ src'[p] = src[p] /\ job'[p] = job[p]
                              /\ lease'[p] = lease[p] /\ waits'[p] = waits[p]
    BY <1>4, <1>8, <1>9 DEF RecordsTyped
  <2>8. RecordsOf(o)'
    BY <2>4, <2>5, <2>6 DEF RecordsOf
  <2> QED
    BY <1>4, <1>7, <1>8, <2>2, <2>3, <2>7, <2>8, OrgStep
<1>10. CASE /\ WaitOf(o, c.trigger) = {}
            /\ waits' = [waits EXCEPT ![o] =
                            @ \cup {[trigger |-> c.trigger, state |-> "waiting",
                                     origin |-> c.epoch, last |-> c.epoch]}]
            /\ lease' = [lease EXCEPT ![o].wait = c.trigger]
  <2> DEFINE n == [trigger |-> c.trigger, state |-> "waiting", origin |-> c.epoch, last |-> c.epoch]
  <2>1. waits'[o] = waits[o] \cup {n} /\ waits' = [waits EXCEPT ![o] = waits'[o]]
    BY <1>4, <1>10 DEF RecordsTyped
  <2>2. n \in Waits /\ n.trigger = c.trigger /\ n.state = "waiting" /\ 1 <= n.origin
        /\ n.origin <= n.last /\ n.last <= lease[o].epoch
    BY <1>3, <1>5 DEF Waits
  <2>3. \A x \in waits[o] : x.trigger # c.trigger
    BY <1>10 DEF WaitOf
  <2> HIDE DEF n
  <2>4. waits'[o] \subseteq Waits
    BY <1>5, <2>1, <2>2
  <2>5. /\ \A y \in waits'[o] : y = n \/ (y \in waits[o] /\ y.trigger # c.trigger)
        /\ \E y \in waits'[o] : y.trigger = c.trigger
        /\ \A x, y \in waits'[o] : x.trigger = c.trigger /\ y.trigger = c.trigger => x = y
    BY <2>1, <2>2, <2>3
  <2>6. \A y \in waits'[o] :
           \/ y \in waits[o] /\ y.trigger # c.trigger
           \/ /\ y.trigger = c.trigger /\ y.state = "waiting" /\ 1 <= y.origin
              /\ y.origin <= y.last /\ y.last <= lease[o].epoch
    BY <2>2, <2>5
  <2> QED
    BY <1>9, <1>10, <2>1, <2>4, <2>5, <2>6
<1>11. CASE /\ WaitOf(o, c.trigger) # {}
            /\ waits' = [waits EXCEPT ![o] = {IF x.trigger = c.trigger
                                               THEN [x EXCEPT !.last = c.epoch] ELSE x : x \in @}]
            /\ UNCHANGED lease
  <2>1. /\ waits'[o] = {IF x.trigger = c.trigger
                        THEN [x EXCEPT !.last = c.epoch] ELSE x : x \in waits[o]}
        /\ waits' = [waits EXCEPT ![o] = waits'[o]]
    BY <1>4, <1>11 DEF RecordsTyped
  <2>2. lease' = [lease EXCEPT ![o].wait = c.trigger]
    <3>1. lease[o].wait = c.trigger
      BY <1>6, <1>11
    <3> QED
      BY <1>4, <1>11, <3>1 DEF RecordsTyped
  <2>3. ASSUME NEW y \in waits'[o]
        PROVE  /\ y \in Waits
               /\ \/ y \in waits[o] /\ y.trigger # c.trigger
                  \/ /\ y.trigger = c.trigger /\ y.state = "waiting" /\ 1 <= y.origin
                     /\ y.origin <= y.last /\ y.last <= lease[o].epoch
                     /\ \E x \in WaitOf(o, c.trigger) : y = [x EXCEPT !.last = c.epoch]
    <3>1. PICK x \in waits[o] : y = IF x.trigger = c.trigger
                                    THEN [x EXCEPT !.last = c.epoch] ELSE x
      BY <2>1, <2>3, Zenon
    <3>2. CASE x.trigger = c.trigger
      <4>1. x \in WaitOf(o, c.trigger) /\ x \in Waits /\ y = [x EXCEPT !.last = c.epoch]
        BY <1>5, <3>1, <3>2 DEF WaitOf
      <4>2. /\ x.state = "waiting" /\ 1 <= x.origin /\ x.origin <= x.last
            /\ x.last <= lease[o].epoch /\ c.epoch = lease[o].epoch
        BY <1>3, <1>6, <4>1
      <4>3. /\ y.trigger = x.trigger /\ y.state = x.state /\ y.origin = x.origin
            /\ y.last = lease[o].epoch /\ y \in Waits /\ x.origin \in Nat /\ x.last \in Nat
        BY <1>5, <4>1, <4>2 DEF Waits
      <4>4. 1 <= y.origin /\ y.origin <= y.last /\ y.last <= lease[o].epoch
        BY <1>5, <4>2, <4>3
      <4>5. y.trigger = c.trigger /\ y.state = "waiting"
        BY <3>2, <4>2, <4>3
      <4> QED
        BY <4>1, <4>3, <4>4, <4>5, Zenon
    <3>3. CASE x.trigger # c.trigger
      BY <1>5, <3>1, <3>3
    <3> QED
      BY <3>2, <3>3
  <2>4. \E y \in waits'[o] : y.trigger = c.trigger
    <3>1. PICK x \in waits[o] : x.trigger = c.trigger
      BY <1>11 DEF WaitOf
    <3>2. [x EXCEPT !.last = c.epoch] \in waits'[o]
      BY <2>1, <3>1, Zenon
    <3>3. [x EXCEPT !.last = c.epoch].trigger = c.trigger
      BY <1>5, <3>1 DEF Waits
    <3> QED
      BY <3>2, <3>3
  <2>5. \A x, y \in waits'[o] : x.trigger = c.trigger /\ y.trigger = c.trigger => x = y
    <3> SUFFICES ASSUME NEW x \in waits'[o], NEW y \in waits'[o],
                        x.trigger = c.trigger, y.trigger = c.trigger
                 PROVE  x = y
      OBVIOUS
    <3>1. PICK u \in WaitOf(o, c.trigger) : x = [u EXCEPT !.last = c.epoch]
      BY <2>3
    <3>2. PICK v \in WaitOf(o, c.trigger) : y = [v EXCEPT !.last = c.epoch]
      BY <2>3
    <3>3. u = v
      BY <1>4 DEF RecordsOf, WaitOf
    <3> QED
      BY <3>1, <3>2, <3>3
  <2>6. waits'[o] \subseteq Waits
    BY <2>3
  <2>7. \A y \in waits'[o] :
           \/ y \in waits[o] /\ y.trigger # c.trigger
           \/ /\ y.trigger = c.trigger /\ y.state = "waiting" /\ 1 <= y.origin
              /\ y.origin <= y.last /\ y.last <= lease[o].epoch
    BY <2>3
  <2> QED
    BY <1>9, <2>1, <2>2, <2>4, <2>5, <2>6, <2>7
<1> QED
  BY <1>2, <1>10, <1>11 DEF RecordWait, c

LEMMA ExpiresKeeps ==
    ASSUME JobInv, NEW o \in Orgs, LeaseExpires(o)
    PROVE  JobInv'
<1>1. RecordsTyped /\ RecordsOf(o) /\ WaitsInOrder(o) /\ SourceOK(o, src[o])
      /\ \A v \in Workers : CallOK(v)
  BY DEF JobInv
<1>2. lease' = [lease EXCEPT ![o].expired = TRUE] /\ UNCHANGED <<src, job, waits, call>>
  BY DEF LeaseExpires
<1>3. /\ lease'[o].wait = lease[o].wait /\ lease'[o].state = lease[o].state
      /\ lease'[o].owner = lease[o].owner /\ lease'[o].trigger = lease[o].trigger
      /\ lease'[o].epoch = lease[o].epoch
  BY <1>1, <1>2 DEF RecordsTyped
<1>4. RecordsTyped'
  BY <1>1, <1>2 DEF RecordsTyped
<1>5. RecordsOf(o)' /\ WaitsInOrder(o)'
  BY <1>1, <1>2, <1>3
     DEF RecordsOf, CheckpointAgrees, CompletedIsReleased, ActiveIsClaimed, WaitsInOrder,
         WaitAgrees, WaitOf
<1>6. \A p \in Orgs \ {o} : /\ src'[p] = src[p] /\ job'[p] = job[p]
                            /\ lease'[p] = lease[p] /\ waits'[p] = waits[p]
  BY <1>1, <1>2 DEF RecordsTyped
<1>7. \A v \in Workers : CallOK(v)'
  BY <1>1, <1>2, CallFrame
<1> QED
  BY <1>1, <1>2, <1>4, <1>5, <1>6, <1>7, OrgStep

\* A step that leaves the organizations and the calls alone.
LEMMA JobStutters ==
    ASSUME JobInv, UNCHANGED <<source, call>>
    PROVE  JobInv'
<1>1. RecordsTyped'
  BY DEF JobInv, RecordsTyped, source
<1>2. \A o \in Orgs : SourceOK(o, src'[o]) /\ RecordsOf(o)' /\ WaitsInOrder(o)'
  BY RecordsFrame DEF JobInv, source
<1>3. \A w \in Workers : CallOK(w)'
  BY CallFrame DEF JobInv
<1> QED
  BY <1>1, <1>2, <1>3 DEF JobInv

LEMMA JobNext == JobInv /\ [Next]_vars => JobInv'
<1> SUFFICES ASSUME JobInv, [Next]_vars PROVE JobInv'
  OBVIOUS
<1>1. ASSUME NEW w \in Workers, RunTick(w) PROVE JobInv'
  BY <1>1, RunTickKeeps
<1>2. ASSUME NEW w \in Workers, Proceed(w) PROVE JobInv'
  <2>1. CASE ClaimTick(w)
    BY <2>1, ClaimKeeps
  <2>2. CASE NotAdmitted(w) \/ HoldingLost(w) \/ Stale(w)
    BY <2>2, ReturnStep DEF NotAdmitted, HoldingLost, Stale
  <2>3. CASE Look(w)
    BY <2>3, LookKeeps
  <2>4. CASE Plan(w)
    BY <2>4, PlanKeeps
  <2>5. CASE Commit(w)
    BY <2>5, CommitKeeps
  <2>6. CASE NoRoom(w)
    BY <2>6, NoRoomKeeps
  <2>7. CASE RecordWait(w)
    BY <2>7, RecordWaitKeeps
  <2> QED
    BY <1>2, <2>1, <2>2, <2>3, <2>4, <2>5, <2>6, <2>7 DEF Proceed
<1>3. ASSUME NEW w \in Workers, WorkerDies(w) PROVE JobInv'
  BY <1>3, ReturnStep DEF WorkerDies
<1>4. ASSUME NEW o \in Orgs, LeaseExpires(o) PROVE JobInv'
  BY <1>4, ExpiresKeeps
<1>5. ASSUME PoolUse PROVE JobInv'
  BY <1>5, JobStutters DEF PoolUse, ForeignReserve, ForeignRelease, PoolFails, PoolRecovers
<1>6. ASSUME UNCHANGED vars PROVE JobInv'
  BY <1>6, JobStutters DEF vars
<1> QED
  BY <1>1, <1>2, <1>3, <1>4, <1>5, <1>6 DEF Next

\* The records of an organization never contradict each other, whatever the number
\* of workers, however many of them die between two transactions or lose their lease
\* and go on, and however often a trigger waits for the pool: no later call of
\* run_od5a_recurring_tick is refused by its checks of the checkpoint, the lease or
\* the wait.
THEOREM RecordsConsistent == Spec => []RecordsAgree
<1>1. JobInv => RecordsAgree
  BY DEF JobInv, RecordsOf, RecordsAgree
<1> QED
  BY <1>1, JobInit, JobNext, PTL DEF Spec

-----------------------------------------------------------------------------
(***************************************************************************)
(* The ledger of the pool                                                  *)
(***************************************************************************)

IsBooking(b) ==
    /\ b = [id |-> b.id, instance |-> b.instance, owner |-> b.owner, start |-> b.start,
            end |-> b.end, until |-> b.until, priority |-> b.priority, status |-> b.status]
    /\ b.start \in Nat /\ b.end \in Nat /\ b.until \in Nat
    /\ b.start < b.end /\ b.start <= b.until
    /\ b.status = "reserved" => b.until = b.end
    /\ b.instance # WholePool

UniqueIds(B) == \A b, c \in B : b.id = c.id => b = c

\* No instance is booked twice for a moment.
Disjoint(B) ==
    \A b, c \in B :
        b # c /\ b.instance = c.instance /\ b.start < b.until /\ c.start < c.until =>
            ~Overlap(b.start, b.until, c.start, c.until)

Ledger(B) == (\A b \in B : IsBooking(b)) /\ UniqueIds(B) /\ Disjoint(B)

\* c is b, or b with an earlier end.
Shortened(b, c) ==
    /\ IsBooking(c) /\ c.id = b.id /\ c.instance = b.instance /\ c.owner = b.owner
    /\ c.start = b.start /\ c.end = b.end /\ c.until <= b.until

\* Bookings that are stopped earlier leave a ledger.
LEMMA ShortenedLedger ==
    ASSUME NEW B, Ledger(B), NEW C, UniqueIds(C), \A c \in C : \E b \in B : Shortened(b, c)
    PROVE  Ledger(C)
<1>1. \A c \in C : IsBooking(c)
  BY DEF Shortened
<1>2. Disjoint(C)
  <2> SUFFICES ASSUME NEW c \in C, NEW d \in C, c # d, c.instance = d.instance,
                      c.start < c.until, d.start < d.until,
                      Overlap(c.start, c.until, d.start, d.until)
               PROVE  FALSE
    BY DEF Disjoint
  <2>1. PICK b \in B : Shortened(b, c)
    OBVIOUS
  <2>2. PICK e \in B : Shortened(e, d)
    OBVIOUS
  <2>3. b # e
    BY <2>1, <2>2 DEF Shortened, UniqueIds
  <2>4. IsBooking(b) /\ IsBooking(e) /\ IsBooking(c) /\ IsBooking(d)
    BY <1>1 DEF Ledger
  <2>5. /\ b.start = c.start /\ c.until <= b.until /\ e.start = d.start /\ d.until <= e.until
        /\ b.instance = e.instance
    BY <2>1, <2>2 DEF Shortened
  <2>6. /\ b.start \in Nat /\ b.until \in Nat /\ e.start \in Nat /\ e.until \in Nat
        /\ c.until \in Nat /\ d.until \in Nat
    BY <2>4 DEF IsBooking
  <2>7. b.start < b.until /\ e.start < e.until /\ Overlap(b.start, b.until, e.start, e.until)
    BY <2>5, <2>6 DEF Overlap
  <2> QED
    BY <2>3, <2>5, <2>7 DEF Ledger, Disjoint
<1> QED
  BY <1>1, <1>2 DEF Ledger

LEMMA BookedIs ==
    ASSUME NEW r
    PROVE  /\ Booked(r).id = r.id /\ Booked(r).instance = r.instance /\ Booked(r).owner = r.owner
           /\ Booked(r).start = r.start /\ Booked(r).end = r.end /\ Booked(r).until = r.end
           /\ Booked(r).status = "reserved"
           /\ Booked(r) = [id |-> r.id, instance |-> r.instance, owner |-> r.owner, start |-> r.start,
                           end |-> r.end, until |-> r.end, priority |-> r.priority,
                           status |-> "reserved"]
BY DEF Booked

\* New bookings, each on an instance of its own, that fit what is there.
LEMMA ExtendedLedger ==
    ASSUME NEW B, Ledger(B), NEW R,
           \A r \in R : /\ r.start \in Nat /\ r.end \in Nat /\ r.start < r.end
                        /\ r.instance # WholePool /\ \A b \in B : b.id # r.id,
           \A r, q \in R : r.id = q.id => r = q,
           \A r, q \in R : r.instance = q.instance => r = q,
           \A r \in R : FitsIn(r.instance, r.start, r.end, B)
    PROVE  Ledger(B \cup {Booked(r) : r \in R})
<1> DEFINE N == {Booked(r) : r \in R}
<1>1. \A b \in N : IsBooking(b)
  <2> SUFFICES ASSUME NEW r \in R PROVE IsBooking(Booked(r))
    OBVIOUS
  <2> DEFINE b == Booked(r)
  <2>1. /\ b.id = r.id /\ b.instance = r.instance /\ b.owner = r.owner /\ b.start = r.start
        /\ b.end = r.end /\ b.until = r.end /\ b.status = "reserved" /\ b.priority = r.priority
    BY DEF Booked
  <2>2. b = [id |-> b.id, instance |-> b.instance, owner |-> b.owner, start |-> b.start,
             end |-> b.end, until |-> b.until, priority |-> b.priority, status |-> b.status]
    BY DEF Booked
  <2> HIDE DEF b
  <2> QED
    BY <2>1, <2>2 DEF IsBooking, b
<1>2. ASSUME NEW b \in B, NEW r \in R, b.instance = r.instance, b.start < b.until
      PROVE  ~Overlap(r.start, r.end, b.start, b.until)
  BY <1>2 DEF FitsIn, Addresses
<1>3. UniqueIds(B \cup N)
  <2>1. \A r \in R : Booked(r).id = r.id
    BY BookedIs
  <2> QED
    BY <2>1 DEF Ledger, UniqueIds
<1>4. Disjoint(B \cup N)
  <2> SUFFICES ASSUME NEW b \in B \cup N, NEW c \in B \cup N, b # c, b.instance = c.instance,
                      b.start < b.until, c.start < c.until,
                      Overlap(b.start, b.until, c.start, c.until)
               PROVE  FALSE
    BY DEF Disjoint
  <2>1. ASSUME NEW r \in R
        PROVE  Booked(r).instance = r.instance /\ Booked(r).start = r.start /\ Booked(r).until = r.end
    BY BookedIs
  <2>2. CASE b \in B /\ c \in B
    BY <2>2 DEF Ledger, Disjoint
  <2>3. CASE b \in B /\ c \in N
    <3>1. PICK r \in R : c = Booked(r)
      BY <2>3
    <3>2. ~Overlap(r.start, r.end, b.start, b.until)
      BY <1>2, <2>1, <2>3, <3>1
    <3> QED
      BY <2>1, <3>1, <3>2 DEF Overlap
  <2>4. CASE b \in N /\ c \in B
    <3>1. PICK r \in R : b = Booked(r)
      BY <2>4
    <3> QED
      BY <1>2, <2>1, <2>4, <3>1
  <2>5. CASE b \in N /\ c \in N
    <3>1. PICK r \in R : b = Booked(r)
      BY <2>5
    <3>2. PICK q \in R : c = Booked(q)
      BY <2>5
    <3> QED
      BY <2>1, <3>1, <3>2
  <2> QED
    BY <2>2, <2>3, <2>4, <2>5
<1>5. \A b \in B \cup N : IsBooking(b)
  BY <1>1 DEF Ledger
<1> QED
  BY <1>3, <1>4, <1>5 DEF Ledger

LEMMA StoppedIs ==
    ASSUME NEW b, IsBooking(b), NEW at \in Nat, b.start <= at, at <= b.until,
           NEW status, status # "reserved"
    PROVE  Shortened(b, Stopped(b, at, status)) /\ Stopped(b, at, status).status = status
<1> DEFINE c == Stopped(b, at, status)
<1>1. c = [id |-> b.id, instance |-> b.instance, owner |-> b.owner, start |-> b.start,
           end |-> b.end, until |-> at, priority |-> b.priority, status |-> status]
  <2>1. PICK i, n, w, s, e, u, p, q :
            b = [id |-> i, instance |-> n, owner |-> w, start |-> s, end |-> e, until |-> u,
                 priority |-> p, status |-> q]
    BY Zenon DEF IsBooking
  <2>2. /\ b.id = i /\ b.instance = n /\ b.owner = w /\ b.start = s /\ b.end = e
        /\ b.priority = p
    BY <2>1
  <2>3. c = [b EXCEPT !.until = at, !.status = status]
    BY DEF Stopped
  <2>4. c = [id |-> i, instance |-> n, owner |-> w, start |-> s, end |-> e, until |-> at,
             priority |-> p, status |-> status]
    <3> HIDE DEF c
    <3> QED
      BY <2>1, <2>3
  <2> QED
    BY <2>2, <2>4
<1>2. /\ c.id = b.id /\ c.instance = b.instance /\ c.owner = b.owner /\ c.start = b.start
      /\ c.end = b.end /\ c.until = at /\ c.priority = b.priority /\ c.status = status
  BY <1>1
<1> HIDE DEF c
<1>3. c = [id |-> c.id, instance |-> c.instance, owner |-> c.owner, start |-> c.start,
           end |-> c.end, until |-> c.until, priority |-> c.priority, status |-> c.status]
  BY <1>1, <1>2
<1>4. IsBooking(c)
  BY <1>2, <1>3 DEF IsBooking
<1> QED
  BY <1>2, <1>4 DEF Shortened, c

LEMMA ShortenedSelf ==
    ASSUME NEW b, IsBooking(b)
    PROVE  Shortened(b, b)
BY DEF Shortened, IsBooking

\* The bookings B after each b in H was stopped at from[b].
StoppedAt(B, H, from, status) == (B \ H) \cup {Stopped(b, from[b], status) : b \in H}

\* Some of the bookings of a ledger are stopped, each inside its interval.
LEMMA StoppedLedger ==
    ASSUME NEW B, Ledger(B), NEW H \in SUBSET B, NEW status, status # "reserved",
           NEW from \in [H -> Nat], \A b \in H : b.start <= from[b] /\ from[b] <= b.until,
           NEW C, C = StoppedAt(B, H, from, status)
    PROVE  /\ Ledger(C)
           /\ \A c \in C : c.status = "reserved" => c \in B \ H
           /\ \A b \in B : \E c \in C : /\ Shortened(b, c)
                                        /\ (b \notin H /\ c = b) \/ (b \in H /\ c.status = status)
           /\ \A c \in C : \E b \in B : Shortened(b, c)
<1>0. C = (B \ H) \cup {Stopped(b, from[b], status) : b \in H}
  BY DEF StoppedAt
<1>1. \A b \in B : IsBooking(b) /\ Shortened(b, b)
  BY ShortenedSelf DEF Ledger
<1>2. \A b \in H : /\ Shortened(b, Stopped(b, from[b], status))
                   /\ Stopped(b, from[b], status).status = status
                   /\ Stopped(b, from[b], status).id = b.id
  BY <1>1, StoppedIs DEF Shortened
<1>3. \A c \in C : \E b \in B : Shortened(b, c)
  BY <1>0, <1>1, <1>2
<1>4. UniqueIds(C)
  <2> SUFFICES ASSUME NEW c \in C, NEW d \in C, c.id = d.id PROVE c = d
    BY DEF UniqueIds
  <2>1. \A b, e \in B : b.id = e.id => b = e
    BY DEF Ledger, UniqueIds
  <2> QED
    BY <1>0, <1>2, <2>1
<1>5. \A c \in C : c.status = "reserved" => c \in B \ H
  BY <1>0, <1>2
<1>6. \A b \in B : \E c \in C : /\ Shortened(b, c)
                                /\ (b \notin H /\ c = b) \/ (b \in H /\ c.status = status)
  <2> SUFFICES ASSUME NEW b \in B
               PROVE  \E c \in C : /\ Shortened(b, c)
                                   /\ (b \notin H /\ c = b) \/ (b \in H /\ c.status = status)
    OBVIOUS
  <2>1. CASE b \in H
    <3>1. Stopped(b, from[b], status) \in C
      BY <1>0, <2>1
    <3> QED
      BY <1>2, <2>1, <3>1
  <2>2. CASE b \notin H
    BY <1>0, <1>1, <2>2
  <2> QED
    BY <2>1, <2>2
<1>7. Ledger(C)
  BY <1>3, <1>4, ShortenedLedger
<1> QED
  BY <1>3, <1>5, <1>6, <1>7

IsOutage(x) ==
    /\ x = [id |-> x.id, instance |-> x.instance, start |-> x.start, until |-> x.until,
            recovered |-> x.recovered]
    /\ x.start \in Nat /\ x.until \in Nat

\* A live booking meets no outage.
MeetsNoOutage ==
    \A b \in bookings : b.status = "reserved" => FitsIn(b.instance, b.start, b.until, outages)

\* An organization has a live booking only of what it executes.
BookedIsExecuted ==
    \A b \in bookings :
        b.status = "reserved" /\ b.owner \in Orgs =>
            \E k \in SlotsOf(b.owner) :
                /\ src[b.owner].active[k] # Free
                /\ BookingId(b.owner, src[b.owner].active[k]) = b.id

\* An execution has its booking, which its organization did not give back.
ExecutedIsBooked ==
    \A o \in Orgs : \A k \in SlotsOf(o) :
        src[o].active[k] # Free =>
            \E b \in bookings :
                /\ b.id = BookingId(o, src[o].active[k]) /\ b.instance = Work[o].slots[k]
                /\ b.end = EndOf(src[o], k) /\ b.status # "released" /\ b.owner = o

PoolInv ==
    /\ Ledger(bookings) /\ (\A x \in outages : IsOutage(x))
    /\ MeetsNoOutage /\ BookedIsExecuted /\ ExecutedIsBooked

LEMMA PoolInit == Init => PoolInv
<1> SUFFICES ASSUME Init PROVE PoolInv
  OBVIOUS
<1>1. \A o \in Orgs : \A k \in SlotsOf(o) : src[o].active[k] = Free
  BY DEF Init, SourceInit
<1>2. bookings = {} /\ outages = {}
  BY DEF Init
<1> QED
  BY <1>1, <1>2 DEF PoolInv, Ledger, UniqueIds, Disjoint, MeetsNoOutage, BookedIsExecuted,
                    ExecutedIsBooked

\* The invariant is what the property says.
LEMMA PoolInvBacks == PoolInv => PoolBacked
<1> SUFFICES ASSUME PoolInv PROVE PoolBacked
  OBVIOUS
<1>1. NoDoubleBooking
  <2> SUFFICES ASSUME NEW b \in bookings, b.start < b.until, NEW x \in bookings \ {b},
                      x.start < x.until, Addresses(x, b.instance)
               PROVE  ~Overlap(b.start, b.until, x.start, x.until)
    BY DEF NoDoubleBooking, FitsIn
  <2>1. x.instance = b.instance
    BY DEF Addresses, PoolInv, Ledger, IsBooking
  <2> QED
    BY <2>1 DEF PoolInv, Ledger, Disjoint
<1> QED
  BY <1>1 DEF PoolBacked, PoolInv, MeetsNoOutage, BookedIsExecuted, ExecutedIsBooked

LEMMA FitsParts ==
    ASSUME NEW i, NEW a, NEW b, NEW A, NEW B
    PROVE  FitsIn(i, a, b, A \cup B) <=> FitsIn(i, a, b, A) /\ FitsIn(i, a, b, B)
BY DEF FitsIn

\* A step of the ledger that leaves the organizations alone, and gives back nothing
\* of theirs.
LEMMA LedgerStep ==
    ASSUME PoolInv, src' = src, Ledger(bookings'), \A x \in outages' : IsOutage(x), MeetsNoOutage',
           \A c \in bookings' : c.status = "reserved" => c \in bookings \/ c.owner \notin Orgs,
           \A b \in bookings :
               b.owner \in Orgs /\ b.status # "released" =>
                   \E c \in bookings' : /\ c.id = b.id /\ c.instance = b.instance /\ c.end = b.end
                                        /\ c.owner = b.owner /\ c.status # "released"
    PROVE  PoolInv'
<1>1. BookedIsExecuted'
  BY DEF PoolInv, BookedIsExecuted
<1>2. ExecutedIsBooked'
  <2> SUFFICES ASSUME NEW o \in Orgs, NEW k \in SlotsOf(o), src[o].active[k] # Free
               PROVE  \E c \in bookings' :
                         /\ c.id = BookingId(o, src[o].active[k]) /\ c.instance = Work[o].slots[k]
                         /\ c.end = EndOf(src[o], k) /\ c.status # "released" /\ c.owner = o
    BY DEF ExecutedIsBooked
  <2>1. PICK b \in bookings :
                /\ b.id = BookingId(o, src[o].active[k]) /\ b.instance = Work[o].slots[k]
                /\ b.end = EndOf(src[o], k) /\ b.status # "released" /\ b.owner = o
    BY DEF PoolInv, ExecutedIsBooked
  <2>2. PICK c \in bookings' : /\ c.id = b.id /\ c.instance = b.instance /\ c.end = b.end
                               /\ c.owner = b.owner /\ c.status # "released"
    BY <2>1
  <2> QED
    BY <2>1, <2>2
<1> QED
  BY <1>1, <1>2 DEF PoolInv

LEMMA ForeignReserveKeeps ==
    ASSUME PoolInv, NEW r \in Foreign, ForeignReserve(r)
    PROVE  PoolInv'
<1>1. /\ r.owner \notin Orgs /\ r.instance # WholePool
      /\ r.start \in Nat /\ r.end \in Nat /\ r.start < r.end
  BY PoolAssumption
<1>2. /\ \A b \in bookings : b.id # r.id
      /\ src' = src /\ outages' = outages
  BY DEF ForeignReserve, source
\* The bookings that the new one joins.
<1>3. ASSUME NEW C, Ledger(C), Fits(r, C), bookings' = C \cup {Booked(r)},
             \A c \in C : \E b \in bookings : Shortened(b, c),
             \A c \in C : c.status = "reserved" => c \in bookings,
             \A b \in bookings : \E c \in C : /\ Shortened(b, c)
                                              /\ c = b \/ c.status = "preempted"
      PROVE  PoolInv'
  <2>1. FitsIn(r.instance, r.start, r.end, C) /\ FitsIn(r.instance, r.start, r.end, outages)
    BY <1>3, FitsParts DEF Fits
  <2>2. \A c \in C : c.id # r.id
    BY <1>2, <1>3 DEF Shortened
  <2>3. Ledger(bookings')
    <3> DEFINE R == {r}
    <3>1. /\ \A q \in R : /\ q.start \in Nat /\ q.end \in Nat /\ q.start < q.end
                          /\ q.instance # WholePool /\ \A b \in C : b.id # q.id
          /\ \A q, p \in R : q.id = p.id => q = p
          /\ \A q, p \in R : q.instance = p.instance => q = p
          /\ \A q \in R : FitsIn(q.instance, q.start, q.end, C)
      BY <1>1, <2>1, <2>2
    <3>2. bookings' = C \cup {Booked(q) : q \in R}
      BY <1>3
    <3> HIDE DEF R
    <3>3. Ledger(C \cup {Booked(q) : q \in R})
      BY <1>3, <3>1, ExtendedLedger
    <3> QED
      BY <3>2, <3>3
  <2>4. /\ Booked(r).instance = r.instance /\ Booked(r).start = r.start
        /\ Booked(r).until = r.end /\ Booked(r).owner = r.owner
    BY BookedIs
  <2>5. MeetsNoOutage'
    BY <1>2, <1>3, <2>1, <2>4 DEF PoolInv, MeetsNoOutage
  <2>6. \A c \in bookings' : c.status = "reserved" => c \in bookings \/ c.owner \notin Orgs
    BY <1>1, <1>3, <2>4
  <2>7. \A b \in bookings :
            b.owner \in Orgs /\ b.status # "released" =>
                \E c \in bookings' : /\ c.id = b.id /\ c.instance = b.instance /\ c.end = b.end
                                     /\ c.owner = b.owner /\ c.status # "released"
    BY <1>3 DEF Shortened
  <2> QED
    BY <1>2, <2>3, <2>5, <2>6, <2>7, LedgerStep DEF PoolInv
<1>4. CASE Fits(r, bookings) /\ bookings' = bookings \cup {Booked(r)}
  <2>1. \A b \in bookings : Shortened(b, b)
    BY ShortenedSelf DEF PoolInv, Ledger
  <2> QED
    BY <1>3, <1>4, <2>1 DEF PoolInv
<1>5. CASE Fits(r, Preempted(r)) /\ bookings' = Preempted(r) \cup {Booked(r)}
  <2> DEFINE H == Victims(r)
             from == [b \in H |-> r.start]
  <2>1. H \in SUBSET bookings /\ Ledger(bookings) /\ \A b \in bookings : IsBooking(b)
    BY DEF Victims, PoolInv, Ledger
  <2>2. from \in [H -> Nat] /\ \A b \in H : b.start <= from[b] /\ from[b] <= b.until
    BY <1>1, <2>1 DEF Victims, Overlap, IsBooking
  <2>3. Preempted(r) = (bookings \ H) \cup {Stopped(b, from[b], "preempted") : b \in H}
    BY DEF Preempted
  <2> HIDE DEF H, from
  <2> DEFINE P == Preempted(r)
  <2> HIDE DEF P
  <2>4. P = (bookings \ H) \cup {Stopped(b, from[b], "preempted") : b \in H}
    BY <2>3 DEF P
  <2>5. /\ Ledger(P)
        /\ \A c \in P : c.status = "reserved" => c \in bookings \ H
        /\ \A b \in bookings : \E c \in P :
              /\ Shortened(b, c)
              /\ (b \notin H /\ c = b) \/ (b \in H /\ c.status = "preempted")
        /\ \A c \in P : \E b \in bookings : Shortened(b, c)
    <3> DEFINE status == "preempted"
    <3>1. status # "reserved" /\ P = StoppedAt(bookings, H, from, status)
      BY <2>4 DEF StoppedAt
    <3>2. status = "preempted"
      OBVIOUS
    <3> HIDE DEF status
    <3> QED
      BY <2>1, <2>2, <3>1, <3>2, StoppedLedger
  <2>6. /\ \A c \in P : c.status = "reserved" => c \in bookings
        /\ \A b \in bookings : \E c \in P : Shortened(b, c) /\ (c = b \/ c.status = "preempted")
    BY <2>5
  <2>7. Fits(r, P) /\ bookings' = P \cup {Booked(r)}
    BY <1>5 DEF P
  <2> QED
    BY <1>3, <2>5, <2>6, <2>7
<1> QED
  BY <1>4, <1>5 DEF ForeignReserve

LEMMA PoolFailsKeeps ==
    ASSUME PoolInv, NEW x \in Outages, PoolFails(x)
    PROVE  PoolInv'
<1> DEFINE H == {b \in bookings : /\ b.status = "reserved" /\ Addresses(x, b.instance)
                                  /\ Overlap(b.start, b.until, x.start, x.until)}
           from == [b \in H |-> IF b.start > x.start THEN b.start ELSE x.start]
<1>1. IsOutage(x)
  <2>1. x = [id |-> x.id, instance |-> x.instance, start |-> x.start, until |-> x.until,
             recovered |-> FALSE] /\ x.start \in Nat /\ x.until \in Nat
    BY PoolAssumption, Zenon
  <2>2. x.recovered = FALSE
    BY <2>1
  <2> QED
    BY <2>1, <2>2, Zenon DEF IsOutage
<1>2. /\ outages' = outages \cup {x} /\ src' = src
      /\ bookings' = (bookings \ H) \cup {Stopped(b, from[b], "failed") : b \in H}
  BY DEF PoolFails, source
<1>3. H \in SUBSET bookings /\ Ledger(bookings) /\ \A b \in bookings : IsBooking(b)
  BY DEF PoolInv, Ledger
<1>4. from \in [H -> Nat] /\ \A b \in H : b.start <= from[b] /\ from[b] <= b.until
  <2> DEFINE f(b) == IF b.start > x.start THEN b.start ELSE x.start
  <2> SUFFICES ASSUME NEW b \in H PROVE f(b) \in Nat /\ b.start <= f(b) /\ f(b) <= b.until
    OBVIOUS
  <2>1. b.start \in Nat /\ b.until \in Nat /\ x.start \in Nat /\ b.start <= b.until /\ x.start < b.until
    BY <1>1, <1>3 DEF IsBooking, IsOutage, Overlap
  <2> QED
    BY <2>1
<1>5. \A b \in bookings \ H :
         b.status = "reserved" /\ Addresses(x, b.instance) =>
             ~Overlap(b.start, b.until, x.start, x.until)
  OBVIOUS
<1> HIDE DEF H, from
<1> DEFINE C == bookings'
<1> HIDE DEF C
<1>6. /\ Ledger(C)
      /\ \A c \in C : c.status = "reserved" => c \in bookings \ H
      /\ \A b \in bookings : \E c \in C :
            /\ Shortened(b, c)
            /\ (b \notin H /\ c = b) \/ (b \in H /\ c.status = "failed")
  <2> DEFINE status == "failed"
  <2>1. status # "reserved" /\ C = StoppedAt(bookings, H, from, status)
    BY <1>2 DEF C, StoppedAt
  <2>2. status = "failed"
    OBVIOUS
  <2> HIDE DEF status
  <2> QED
    BY <1>3, <1>4, <2>1, <2>2, StoppedLedger
<1>7. /\ Ledger(bookings')
      /\ \A c \in bookings' : c.status = "reserved" => c \in bookings \ H
      /\ \A b \in bookings : \E c \in bookings' : /\ Shortened(b, c)
                                                  /\ c = b \/ c.status = "failed"
  BY <1>6 DEF C
<1>8. MeetsNoOutage'
  <2> SUFFICES ASSUME NEW c \in bookings', c.status = "reserved"
               PROVE  FitsIn(c.instance, c.start, c.until, outages \cup {x})
    BY <1>2 DEF MeetsNoOutage
  <2>1. c \in bookings \ H
    BY <1>7
  <2>2. FitsIn(c.instance, c.start, c.until, outages)
    BY <2>1 DEF PoolInv, MeetsNoOutage
  <2>3. FitsIn(c.instance, c.start, c.until, {x})
    BY <1>5, <2>1 DEF FitsIn
  <2> QED
    BY <2>2, <2>3, FitsParts
<1>9. \A b \in bookings :
          b.owner \in Orgs /\ b.status # "released" =>
              \E c \in bookings' : /\ c.id = b.id /\ c.instance = b.instance /\ c.end = b.end
                                   /\ c.owner = b.owner /\ c.status # "released"
  BY <1>7 DEF Shortened
<1>10. \A y \in outages' : IsOutage(y)
  BY <1>1, <1>2 DEF PoolInv
<1> QED
  BY <1>2, <1>7, <1>8, <1>9, <1>10, LedgerStep

LEMMA PoolRecoversKeeps ==
    ASSUME PoolInv, NEW x \in outages, NEW at \in x.start..x.until, PoolRecovers(x, at)
    PROVE  PoolInv'
<1> DEFINE y == [x EXCEPT !.until = at, !.recovered = TRUE]
<1>1. outages' = (outages \ {x}) \cup {y} /\ src' = src /\ bookings' = bookings
  BY DEF PoolRecovers, source
<1>2. IsOutage(x)
  BY DEF PoolInv
<1>3. y = [id |-> x.id, instance |-> x.instance, start |-> x.start, until |-> at, recovered |-> TRUE]
  <2>1. PICK i, n, s, u, v :
            x = [id |-> i, instance |-> n, start |-> s, until |-> u, recovered |-> v]
    BY <1>2, Zenon DEF IsOutage
  <2>2. x.id = i /\ x.instance = n /\ x.start = s
    BY <2>1
  <2>3. y = [x EXCEPT !.until = at, !.recovered = TRUE]
    OBVIOUS
  <2>4. y = [id |-> i, instance |-> n, start |-> s, until |-> at, recovered |-> TRUE]
    <3> HIDE DEF y
    <3> QED
      BY <2>1, <2>3
  <2> QED
    BY <2>2, <2>4
<1> HIDE DEF y
<1>4. /\ y.instance = x.instance /\ y.start = x.start /\ y.until = at /\ y.until <= x.until
      /\ y.until \in Nat /\ x.until \in Nat /\ x.start \in Nat
  BY <1>2, <1>3 DEF IsOutage
<1>5. IsOutage(y)
  BY <1>3, <1>4 DEF IsOutage
<1>6. MeetsNoOutage'
  <2> SUFFICES ASSUME NEW b \in bookings, b.status = "reserved", NEW z \in outages',
                      z.start < z.until, Addresses(z, b.instance)
               PROVE  ~Overlap(b.start, b.until, z.start, z.until)
    BY <1>1 DEF MeetsNoOutage, FitsIn
  <2>1. FitsIn(b.instance, b.start, b.until, outages) /\ b.start \in Nat /\ b.until \in Nat
    BY DEF PoolInv, MeetsNoOutage, Ledger, IsBooking
  <2>2. CASE z \in outages
    BY <2>1, <2>2 DEF FitsIn
  <2>3. CASE z = y
    <3>1. x.start < x.until /\ Addresses(x, b.instance)
      BY <1>4, <2>3 DEF Addresses
    <3>2. ~Overlap(b.start, b.until, x.start, x.until)
      BY <2>1, <3>1 DEF FitsIn
    <3> QED
      BY <1>4, <2>1, <2>3, <3>2 DEF Overlap
  <2> QED
    BY <1>1, <2>2, <2>3
<1>7. \A z \in outages' : IsOutage(z)
  BY <1>1, <1>5 DEF PoolInv
<1> QED
  BY <1>1, <1>6, <1>7, LedgerStep DEF PoolInv

\* A booking is given back: ids are unique, so that no other one is stopped.
LEMMA ReleasedLedger ==
    ASSUME NEW B, Ledger(B), NEW b \in B, NEW at \in Nat, b.start <= at, at <= b.until
    PROVE  LET C == Released(B, b.id, at) IN
           /\ Ledger(C)
           /\ \A c \in C : c.status = "reserved" => c \in B \ {b}
           /\ \A c \in B \ {b} : c \in C
           /\ \A c \in C : \E d \in B : Shortened(d, c)
<1> DEFINE C == Released(B, b.id, at)
           H == {b}
           from == [c \in H |-> at]
           status == "released"
<1>1. \A c \in B : c.id = b.id <=> c = b
  BY DEF Ledger, UniqueIds
<1>2. C = (B \ {b}) \cup {Stopped(b, at, "released")}
  <2> DEFINE E(c) == IF c.id = b.id THEN Stopped(c, at, "released") ELSE c
  <2>1. C = {E(c) : c \in B}
    BY DEF Released
  <2>2. E(b) = Stopped(b, at, "released") /\ \A c \in B \ {b} : E(c) = c
    BY <1>1
  <2> HIDE DEF E, C
  <2> QED
    BY <2>1, <2>2
<1>3. C = StoppedAt(B, H, from, status)
  <2>1. {Stopped(c, from[c], status) : c \in H} = {Stopped(b, at, "released")}
    OBVIOUS
  <2> QED
    BY <1>2, <2>1 DEF StoppedAt
<1>4. /\ H \in SUBSET B /\ from \in [H -> Nat] /\ status # "reserved"
      /\ \A c \in H : c.start <= from[c] /\ from[c] <= c.until
  OBVIOUS
<1>5. \A c \in B \ {b} : c \in C
  BY <1>2
<1>6. H = {b}
  OBVIOUS
<1> HIDE DEF C, H, from, status
<1>7. /\ Ledger(C)
      /\ \A c \in C : c.status = "reserved" => c \in B \ H
      /\ \A c \in C : \E d \in B : Shortened(d, c)
  BY <1>3, <1>4, StoppedLedger
<1> QED
  BY <1>5, <1>6, <1>7 DEF C

LEMMA ForeignReleaseKeeps ==
    ASSUME PoolInv, NEW b \in bookings, NEW at \in b.start..b.end, ForeignRelease(b, at)
    PROVE  PoolInv'
<1>1. /\ src' = src /\ outages' = outages /\ b.owner \notin Orgs /\ b.status = "reserved"
      /\ bookings' = Released(bookings, b.id, at)
  BY DEF ForeignRelease, source
<1>2. Ledger(bookings) /\ IsBooking(b)
  BY DEF PoolInv, Ledger
<1>3. at \in Nat /\ b.start <= at /\ at <= b.until
  BY <1>1, <1>2 DEF IsBooking
<1>4. /\ Ledger(bookings')
      /\ \A c \in bookings' : c.status = "reserved" => c \in bookings \ {b}
      /\ \A c \in bookings \ {b} : c \in bookings'
  BY <1>1, <1>2, <1>3, ReleasedLedger
<1>5. MeetsNoOutage'
  BY <1>1, <1>4 DEF PoolInv, MeetsNoOutage
<1>6. \A c \in bookings :
          c.owner \in Orgs /\ c.status # "released" =>
              \E d \in bookings' : /\ d.id = c.id /\ d.instance = c.instance /\ d.end = c.end
                                   /\ d.owner = c.owner /\ d.status # "released"
  BY <1>1, <1>4
<1> QED
  BY <1>1, <1>4, <1>5, <1>6, LedgerStep DEF PoolInv

\* Work that is under way is typed, and so is its end.
LEMMA TakenIs ==
    ASSUME NEW o \in Orgs, NEW s, SourceOK(o, s), NEW k \in SlotsOf(o), s.active[k] # Free
    PROVE  EndOf(s, k) \in Nat /\ s.active[k].start \in Nat
<1>1. k \in DOMAIN s.active /\ SlotActions(s) /\ s.active[k] \in Works(o) \cup {Free}
  BY DEF SourceOK, Sources, Slots
<1>2. PICK i \in DOMAIN s.actions : Completes(s.actions[i], k)
  BY <1>1, Zenon DEF SlotActions
<1>3. EndOf(s, k) \in Nat
  BY <1>2, EndIs
<1>4. s.active[k] \in Works(o)
  BY <1>1
<1>5. s.active[k].start \in Nat
  BY <1>4 DEF Works
<1> QED
  BY <1>3, <1>5

\* The slot of the next action is taken, and free afterwards.
LEMMA CompletedIs ==
    ASSUME NEW o \in Orgs, NEW s, SourceOK(o, s), s.actions # <<>>, NEW k \in SlotsOf(o)
    PROVE  /\ NextAction(s).at \in Nat
           /\ Completes(NextAction(s), k) <=> NextAction(s).kind = "execution" /\ NextAction(s).of = k
           /\ Completes(NextAction(s), k) => s.active[k] # Free /\ EndOf(s, k) = NextAction(s).at
           /\ NextAction(s).kind = "execution" => NextAction(s).of \in SlotsOf(o)
<1> DEFINE a == NextAction(s)
<1>1. /\ NextIndex(s) \in DOMAIN s.actions /\ a = s.actions[NextIndex(s)] /\ a \in Actions(o)
  BY NextIs DEF SourceOK
<1>2. SlotActions(s) /\ k \in DOMAIN s.active /\ k # 0
  BY WorkTyped DEF SourceOK, Sources, Slots
<1> HIDE DEF a
<1>3. /\ a.at \in Nat /\ a.kind \in {"arrival", "execution", "coordination"}
      /\ a.kind = "execution" => a.of \in SlotsOf(o)
      /\ a.kind = "coordination" => a.of = 0
  BY <1>1 DEF Actions
<1>4. Completes(a, k) <=> a.kind = "execution" /\ a.of = k
  BY <1>2, <1>3 DEF Completes
<1>5. ASSUME Completes(a, k) PROVE s.active[k] # Free /\ EndOf(s, k) = a.at
  <2>1. Completes(s.actions[NextIndex(s)], k)
    BY <1>1, <1>5
  <2>2. s.active[k] # Free
    BY <1>1, <1>2, <2>1 DEF SlotActions
  <2>3. EndOf(s, k) = s.actions[NextIndex(s)].at
    BY <1>1, <2>1, EndIs
  <2> QED
    BY <1>1, <2>2, <2>3
<1> QED
  BY <1>3, <1>4, <1>5 DEF a

RequestFor(o, t, k) ==
    [id |-> BookingId(o, t.active[k]), instance |-> Work[o].slots[k], owner |-> o,
     start |-> t.active[k].start, end |-> EndOf(t, k), priority |-> 100]

\* A step asks for the instances of the slots that it gives out.
LEMMA RequestsAre ==
    ASSUME NEW o \in Orgs, NEW s, NEW t, SourceOK(o, t)
    PROVE  /\ Requests(o, s, t) = {RequestFor(o, t, k) : k \in Granted(s, t) \ {0}}
           /\ Granted(s, t) \ {0} = {k \in SlotsOf(o) : t.active[k] # Free /\ t.active[k] # s.active[k]}
           /\ \A k \in Granted(s, t) \ {0} :
                 LET r == RequestFor(o, t, k) IN
                 /\ r.id = BookingId(o, t.active[k]) /\ r.instance = Work[o].slots[k] /\ r.owner = o
                 /\ r.start = t.active[k].start /\ r.end = EndOf(t, k)
                 /\ r.start \in Nat /\ r.end \in Nat /\ r.instance # WholePool
           /\ \A r, q \in Requests(o, s, t) : r.instance = q.instance => r = q
<1>1. Requests(o, s, t) = {RequestFor(o, t, k) : k \in Granted(s, t) \ {0}}
  BY DEF Requests, RequestFor
<1>2. DOMAIN t.active = SlotsOf(o) \cup {0} /\ 0 \notin SlotsOf(o)
  BY WorkTyped DEF SourceOK, Sources, Slots
<1>3. Granted(s, t) \ {0} = {k \in SlotsOf(o) : t.active[k] # Free /\ t.active[k] # s.active[k]}
  BY <1>2 DEF Granted
<1>4. ASSUME NEW k \in Granted(s, t) \ {0}
      PROVE  LET r == RequestFor(o, t, k) IN
             /\ r.id = BookingId(o, t.active[k]) /\ r.instance = Work[o].slots[k] /\ r.owner = o
             /\ r.start = t.active[k].start /\ r.end = EndOf(t, k)
             /\ r.start \in Nat /\ r.end \in Nat /\ r.instance # WholePool
  <2> DEFINE r == RequestFor(o, t, k)
  <2>1. k \in SlotsOf(o) /\ t.active[k] # Free
    BY <1>3
  <2>2. EndOf(t, k) \in Nat /\ t.active[k].start \in Nat /\ Work[o].slots[k] # WholePool
    BY <2>1, TakenIs, WorkTyped
  <2>3. /\ r.id = BookingId(o, t.active[k]) /\ r.instance = Work[o].slots[k] /\ r.owner = o
        /\ r.start = t.active[k].start /\ r.end = EndOf(t, k)
    BY DEF RequestFor
  <2> HIDE DEF r
  <2> QED
    BY <2>2, <2>3 DEF r
<1>5. ASSUME NEW j \in Granted(s, t) \ {0}, NEW k \in Granted(s, t) \ {0},
             RequestFor(o, t, j).instance = RequestFor(o, t, k).instance
      PROVE  j = k
  <2>1. j \in SlotsOf(o) /\ k \in SlotsOf(o)
    BY <1>3
  <2>2. Work[o].slots[j] = Work[o].slots[k]
    BY <1>4, <1>5
  <2> QED
    BY <2>1, <2>2, WorkTyped
<1>6. \A r, q \in Requests(o, s, t) : r.instance = q.instance => r = q
  BY <1>1, <1>5
<1> QED
  BY <1>1, <1>3, <1>4, <1>6

\* The ledger after the release of a step: only the booking of the execution that
\* ends was stopped, and it is the one of that slot's instance.
LEMMA AfterReleaseIs ==
    ASSUME PoolInv, NEW o \in Orgs, NEW s, SourceOK(o, s), s.actions # <<>>, HoldingsBooked(o, s)
    PROVE  LET C == AfterRelease(o, s)  a == NextAction(s) IN
           /\ Ledger(C)
           /\ \A c \in C : c.status = "reserved" => c \in bookings
           /\ \A c \in C : \E b \in bookings : Shortened(b, c)
           /\ \A k \in SlotsOf(o) :
                 Completes(a, k) =>
                     \A c \in C : c.status = "reserved" => c.id # BookingId(o, s.active[k])
           /\ \A b \in bookings :
                 b \in C \/ \E k \in SlotsOf(o) : /\ Completes(a, k) /\ b.owner = o
                                                  /\ b.instance = Work[o].slots[k]
           /\ \A k \in SlotsOf(o) :
                 Completes(a, k) =>
                     \E b \in bookings : /\ b.id = BookingId(o, s.active[k])
                                         /\ b.start = s.active[k].start /\ IsBooking(b)
<1> DEFINE C == AfterRelease(o, s)
           a == NextAction(s)
<1>1. Ledger(bookings) /\ \A b \in bookings : IsBooking(b) /\ Shortened(b, b)
  BY ShortenedSelf DEF PoolInv, Ledger
<1>2. CASE a.kind # "execution"
  <2>1. C = bookings
    BY <1>2 DEF AfterRelease
  <2>2. \A k \in SlotsOf(o) : ~Completes(a, k)
    BY <1>2, CompletedIs
  <2> HIDE DEF C, a
  <2> QED
    BY <1>1, <2>1, <2>2 DEF C, a
<1>3. CASE a.kind = "execution"
  <2>1. PICK k \in SlotsOf(o) : k = a.of
    <3>1. a \in Actions(o)
      BY NextIs DEF SourceOK
    <3>2. a.of \in SlotsOf(o)
      <4> HIDE DEF a
      <4> QED
        BY <1>3, <3>1 DEF Actions
    <3> QED
      BY <3>2
  <2>2. /\ s.active[k] # Free /\ a.at \in Nat
        /\ \A j \in SlotsOf(o) : Completes(a, j) <=> j = k
    BY <1>3, <2>1, CompletedIs
  <2>3. PICK b \in bookings :
                /\ b.id = BookingId(o, s.active[k]) /\ b.status = "reserved"
                /\ b.owner = o /\ b.instance = Work[o].slots[k]
                /\ b.start = s.active[k].start
                /\ b.start <= a.at /\ a.at <= b.end
    BY <2>2, Zenon DEF HoldingsBooked
  <2>4. C = Released(bookings, b.id, a.at)
    BY <1>3, <2>1, <2>3 DEF AfterRelease
  <2>5. a.at \in Nat /\ b.start <= a.at /\ a.at <= b.until
    BY <1>1, <2>2, <2>3 DEF IsBooking
  <2> HIDE DEF C, a
  <2>6. /\ Ledger(C)
        /\ \A c \in C : c.status = "reserved" => c \in bookings \ {b}
        /\ \A c \in bookings \ {b} : c \in C
        /\ \A c \in C : \E d \in bookings : Shortened(d, c)
    BY <1>1, <2>4, <2>5, ReleasedLedger
  <2>7. \A c \in bookings : c.id = b.id => c = b
    BY <1>1 DEF Ledger, UniqueIds
  <2>8. \A j \in SlotsOf(o) :
            Completes(a, j) => \A c \in C : c.status = "reserved" => c.id # BookingId(o, s.active[j])
    BY <2>2, <2>3, <2>6, <2>7
  <2>9. \A c \in bookings :
            c \in C \/ \E j \in SlotsOf(o) : /\ Completes(a, j) /\ c.owner = o
                                             /\ c.instance = Work[o].slots[j]
    BY <2>2, <2>3, <2>6
  <2>10. \A j \in SlotsOf(o) :
            Completes(a, j) => \E d \in bookings : /\ d.id = BookingId(o, s.active[j])
                                                   /\ d.start = s.active[j].start /\ IsBooking(d)
    BY <1>1, <2>2, <2>3
  <2> QED
    BY <2>6, <2>8, <2>9, <2>10 DEF C, a
<1> QED
  BY <1>2, <1>3

\* A step that fits keeps the ledger and the organizations in agreement.
LEMMA StepBacked ==
    ASSUME PoolInv, NEW o \in Orgs, NEW s, NEW t, s = src[o], t = Transition(o, s),
           SourceOK(o, s), s.actions # <<>>, DOMAIN src = Orgs,
           HoldingsBooked(o, s), NewBookings(o, s, t), StepFits(o, s, t),
           src' = [src EXCEPT ![o] = t], outages' = outages,
           bookings' = AfterRelease(o, s) \cup {Booked(r) : r \in Requests(o, s, t)}
    PROVE  PoolInv'
<1> DEFINE C == AfterRelease(o, s)
           a == NextAction(s)
           R == Requests(o, s, t)
           G == Granted(s, t) \ {0}
           F(k) == RequestFor(o, t, k)
<1>1. /\ Ledger(C)
      /\ \A c \in C : c.status = "reserved" => c \in bookings
      /\ \A c \in C : \E b \in bookings : Shortened(b, c)
      /\ \A k \in SlotsOf(o) :
            Completes(a, k) => \A c \in C : c.status = "reserved" => c.id # BookingId(o, s.active[k])
      /\ \A b \in bookings :
            b \in C \/ \E k \in SlotsOf(o) : /\ Completes(a, k) /\ b.owner = o
                                             /\ b.instance = Work[o].slots[k]
      /\ \A k \in SlotsOf(o) :
            Completes(a, k) => \E b \in bookings : /\ b.id = BookingId(o, s.active[k])
                                                   /\ b.start = s.active[k].start /\ IsBooking(b)
  BY AfterReleaseIs
<1>2. /\ SourceOK(o, t)
      /\ \A k \in SlotsOf(o) :
            s.active[k] # Free /\ ~Completes(a, k) =>
                t.active[k] = s.active[k] /\ EndOf(t, k) = EndOf(s, k)
      /\ \A k \in SlotsOf(o) :
            s.active[k] = Free \/ Completes(a, k) => t.active[k] = Free \/ t.active[k].start = a.at
  BY TransitionIs
<1>3. /\ R = {F(k) : k \in G}
      /\ G = {k \in SlotsOf(o) : t.active[k] # Free /\ t.active[k] # s.active[k]}
      /\ \A k \in G : /\ F(k).id = BookingId(o, t.active[k]) /\ F(k).instance = Work[o].slots[k]
                      /\ F(k).owner = o /\ F(k).end = EndOf(t, k)
                      /\ F(k).start \in Nat /\ F(k).end \in Nat /\ F(k).instance # WholePool
      /\ \A r, q \in R : r.instance = q.instance => r = q
  BY <1>2, RequestsAre
<1>4. /\ \A r \in R : r.start < r.end /\ \A x \in bookings \cup (R \ {r}) : x.id # r.id
      /\ \A r \in R : FitsIn(r.instance, r.start, r.end, C \cup outages)
  BY DEF NewBookings, StepFits, Fits
<1>5. bookings' = C \cup {Booked(r) : r \in R}
  OBVIOUS
<1>6. /\ src'[o] = t /\ \A p \in Orgs : p # o => src'[p] = src[p]
      /\ \A k \in SlotsOf(o) : Completes(a, k) => EndOf(s, k) = a.at
  BY CompletedIs
<1> HIDE DEF C, a, R, G, F
<1>7. \A r \in R : /\ Booked(r).id = r.id /\ Booked(r).instance = r.instance
                   /\ Booked(r).owner = r.owner /\ Booked(r).start = r.start
                   /\ Booked(r).end = r.end /\ Booked(r).until = r.end
                   /\ Booked(r).status = "reserved"
  BY BookedIs
<1>8. \A r \in R : FitsIn(r.instance, r.start, r.end, C) /\ FitsIn(r.instance, r.start, r.end, outages)
  BY <1>4, FitsParts
<1>9. Ledger(bookings')
  <2>1. \A r \in R : \A b \in C : b.id # r.id
    BY <1>1, <1>4 DEF Shortened
  <2>2. \A r \in R : /\ r.start \in Nat /\ r.end \in Nat /\ r.start < r.end
                     /\ r.instance # WholePool /\ \A b \in C : b.id # r.id
    BY <1>3, <1>4, <2>1
  <2>3. \A r, q \in R : r.id = q.id => r = q
    BY <1>4
  <2>4. \A r, q \in R : r.instance = q.instance => r = q
    BY <1>3
  <2>5. \A r \in R : FitsIn(r.instance, r.start, r.end, C)
    BY <1>8
  <2>6. Ledger(C \cup {Booked(r) : r \in R})
    BY <1>1, <2>2, <2>3, <2>4, <2>5, ExtendedLedger
  <2> QED
    BY <1>5, <2>6
<1>10. MeetsNoOutage'
  <2>1. \A c \in C : c.status = "reserved" => FitsIn(c.instance, c.start, c.until, outages)
    BY <1>1 DEF PoolInv, MeetsNoOutage
  <2>2. \A r \in R : FitsIn(Booked(r).instance, Booked(r).start, Booked(r).until, outages)
    BY <1>7, <1>8
  <2> QED
    BY <1>5, <2>1, <2>2 DEF MeetsNoOutage
<1>11. BookedIsExecuted'
  <2> SUFFICES ASSUME NEW c \in bookings', c.status = "reserved", NEW p \in Orgs, p = c.owner
               PROVE  \E k \in SlotsOf(p) : /\ src'[p].active[k] # Free
                                            /\ BookingId(p, src'[p].active[k]) = c.id
    BY DEF BookedIsExecuted
  <2>1. CASE c \in C
    <3>1. PICK k \in SlotsOf(p) : src[p].active[k] # Free /\ BookingId(p, src[p].active[k]) = c.id
      BY <1>1, <2>1 DEF PoolInv, BookedIsExecuted
    <3>2. CASE p # o
      BY <1>6, <3>1, <3>2
    <3>3. CASE p = o
      <4>1. ~Completes(a, k)
        BY <1>1, <2>1, <3>1, <3>3
      <4>2. t.active[k] = src[o].active[k]
        BY <1>2, <3>1, <3>3, <4>1
      <4> QED
        BY <1>6, <3>1, <3>3, <4>2
    <3> QED
      BY <3>2, <3>3
  <2>2. CASE c \notin C
    <3>1. PICK r \in R : c = Booked(r)
      BY <1>5, <2>2
    <3>2. PICK k \in G : r = F(k)
      BY <1>3
    <3>3. p = o /\ c.id = BookingId(o, t.active[k])
      BY <1>3, <1>7, <3>1, <3>2
    <3>4. k \in SlotsOf(o) /\ t.active[k] # Free
      BY <1>3
    <3> QED
      BY <1>6, <3>3, <3>4
  <2> QED
    BY <2>1, <2>2
<1>12. ExecutedIsBooked'
  <2> SUFFICES ASSUME NEW p \in Orgs, NEW k \in SlotsOf(p), src'[p].active[k] # Free
               PROVE  \E b \in bookings' :
                         /\ b.id = BookingId(p, src'[p].active[k]) /\ b.instance = Work[p].slots[k]
                         /\ b.end = EndOf(src'[p], k) /\ b.status # "released" /\ b.owner = p
    BY DEF ExecutedIsBooked
  \* A booking of work that goes on is still there.
  <2>1. ASSUME src[p].active[k] # Free, p # o \/ ~Completes(a, k)
        PROVE  \E b \in bookings' :
                  /\ b.id = BookingId(p, src[p].active[k]) /\ b.instance = Work[p].slots[k]
                  /\ b.end = EndOf(src[p], k) /\ b.status # "released" /\ b.owner = p
    <3>1. PICK b \in bookings :
                  /\ b.id = BookingId(p, src[p].active[k]) /\ b.instance = Work[p].slots[k]
                  /\ b.end = EndOf(src[p], k) /\ b.status # "released" /\ b.owner = p
      BY <2>1 DEF PoolInv, ExecutedIsBooked
    <3>2. b \in C
      <4> SUFFICES ASSUME NEW j \in SlotsOf(o), Completes(a, j), b.owner = o,
                          b.instance = Work[o].slots[j]
                   PROVE  FALSE
        BY <1>1
      <4>1. p = o /\ j = k
        BY <3>1, WorkTyped
      <4> QED
        BY <2>1, <4>1
    <3> QED
      BY <1>5, <3>1, <3>2
  <2>2. CASE p # o
    BY <1>6, <2>1, <2>2
  <2>3. CASE p = o /\ s.active[k] # Free /\ ~Completes(a, k)
    BY <1>2, <1>6, <2>1, <2>3
  <2>4. CASE p = o /\ (s.active[k] = Free \/ Completes(a, k))
    <3>1. t.active[k] # Free /\ t.active[k].start = a.at
      BY <1>2, <1>6, <2>4
    <3>2. t.active[k] # s.active[k]
      <4>1. CASE s.active[k] = Free
        BY <3>1, <4>1
      <4>2. CASE s.active[k] # Free
        <5>1. PICK b \in bookings : b.id = BookingId(o, s.active[k]) /\ b.end = EndOf(s, k)
          BY <2>4, <4>2 DEF PoolInv, ExecutedIsBooked
        <5>2. PICK d \in bookings : /\ d.id = BookingId(o, s.active[k])
                                    /\ d.start = s.active[k].start /\ IsBooking(d)
          BY <1>1, <2>4, <4>2
        <5>3. b = d
          BY <5>1, <5>2 DEF PoolInv, Ledger, UniqueIds
        <5>4. s.active[k].start < a.at /\ a.at \in Nat
          BY <1>6, <2>4, <4>2, <5>1, <5>2, <5>3 DEF IsBooking
        <5> QED
          BY <3>1, <5>4
      <4> QED
        BY <4>1, <4>2
    <3>3. k \in G /\ F(k) \in R
      BY <1>3, <2>4, <3>1, <3>2
    <3>4. Booked(F(k)) \in bookings'
      BY <1>5, <3>3
    <3>5. /\ Booked(F(k)).id = BookingId(o, t.active[k])
          /\ Booked(F(k)).instance = Work[o].slots[k] /\ Booked(F(k)).end = EndOf(t, k)
          /\ Booked(F(k)).status = "reserved" /\ Booked(F(k)).owner = o
      BY <1>3, <1>7, <3>3
    <3> QED
      BY <1>6, <2>4, <3>4, <3>5
  <2> QED
    BY <2>2, <2>3, <2>4
<1> QED
  BY <1>9, <1>10, <1>11, <1>12 DEF PoolInv

LEMMA CommitBacked ==
    ASSUME JobInv, PoolInv, NEW w \in Workers, Commit(w)
    PROVE  PoolInv'
<1> DEFINE c == call[w]
<1>1. c.at = "commit" /\ Unchanged(w)
  BY DEF Commit
<1>2. PICK o \in Orgs : o = Job[w] /\ c.org = o
  BY <1>1, OrgOf DEF JobInv, CallOK
<1>3. c.seen.actions # <<>> /\ c.planned = Transition(o, c.seen)
  BY <1>1, <1>2 DEF JobInv, CallOK
<1> DEFINE s == c.seen
           t == c.planned
<1>4. /\ s = src[o] /\ DOMAIN src = Orgs /\ SourceOK(o, src[o])
      /\ src' = [src EXCEPT ![o] = t] /\ outages' = outages
      /\ bookings' = AfterRelease(o, s) \cup {Booked(r) : r \in Requests(o, s, t)}
      /\ HoldingsBooked(o, s) /\ NewBookings(o, s, t) /\ StepFits(o, s, t)
  BY <1>1, <1>2 DEF Commit, Unchanged, JobInv, RecordsTyped
<1>5. t = Transition(o, s) /\ s.actions # <<>> /\ SourceOK(o, s)
  BY <1>3, <1>4
<1> HIDE DEF s, t
<1> QED
  BY <1>4, <1>5, StepBacked

\* What neither the organizations nor the ledger see.
LEMMA PoolFrame ==
    ASSUME PoolInv, UNCHANGED <<src, ledger>>
    PROVE  PoolInv'
BY DEF PoolInv, MeetsNoOutage, BookedIsExecuted, ExecutedIsBooked, ledger

LEMMA PoolNext == JobInv /\ PoolInv /\ [Next]_vars => PoolInv'
<1> SUFFICES ASSUME JobInv, PoolInv, [Next]_vars PROVE PoolInv'
  OBVIOUS
<1>1. CASE UNCHANGED vars
  BY <1>1, PoolFrame DEF vars, source
<1>2. ASSUME NEW w \in Workers, RunTick(w) \/ WorkerDies(w) PROVE PoolInv'
  BY <1>2, PoolFrame DEF RunTick, WorkerDies, source
<1>3. ASSUME NEW w \in Workers, Proceed(w), ~Commit(w) PROVE PoolInv'
  <2>1. CASE ClaimTick(w) \/ NotAdmitted(w) \/ Look(w) \/ Plan(w)
    BY <2>1, PoolFrame DEF ClaimTick, NotAdmitted, Look, Plan, source
  <2>2. CASE NoRoom(w) \/ HoldingLost(w) \/ RecordWait(w) \/ Stale(w)
    BY <2>2, PoolFrame DEF NoRoom, HoldingLost, RecordWait, Stale, source
  <2> QED
    BY <1>3, <2>1, <2>2 DEF Proceed
<1>4. ASSUME NEW w \in Workers, Commit(w) PROVE PoolInv'
  BY <1>4, CommitBacked
<1>5. ASSUME NEW o \in Orgs, LeaseExpires(o) PROVE PoolInv'
  BY <1>5, PoolFrame DEF LeaseExpires
<1>6. CASE PoolUse
  BY <1>6, ForeignReserveKeeps, ForeignReleaseKeeps, PoolFailsKeeps, PoolRecoversKeeps DEF PoolUse
<1> QED
  BY <1>1, <1>2, <1>3, <1>4, <1>5, <1>6 DEF Next

\* The ledger and the organizations agree (PoolBacked): whatever organizations,
\* workers, other users and outages share the pool, and wherever workers die or
\* leases expire, a commit re-reads the ledger under the pool's lock and leaves no
\* instance booked twice, no live booking in an outage, no execution without its
\* booking and no live booking of an organization without its execution.
THEOREM PoolIsBacked == Spec => []PoolBacked
<1>1. JobInv /\ PoolInv => PoolBacked
  BY PoolInvBacks
<1>2. JobInv /\ PoolInv /\ [Next]_vars => JobInv' /\ PoolInv'
  BY JobNext, PoolNext
<1>3. Init => JobInv /\ PoolInv
  BY JobInit, PoolInit
<1> QED
  BY <1>1, <1>2, <1>3, PTL DEF Spec

-----------------------------------------------------------------------------
(***************************************************************************)
(* The advice for a step that waits                                        *)
(***************************************************************************)

\* The starts in a window at which a request fits.
Starts(r, from, latest) == {t \in from..latest : FitsAt(r, t, bookings \cup outages)}

\* The starts at which all requests fit.
CommonStarts(requests, from, latest) ==
    {t \in from..latest : \A r \in requests : FitsAt(r, t, bookings \cup outages)}

IsRequest(r) == r.start \in Nat /\ r.end \in Nat /\ r.start < r.end

\* A nonempty set of bounded numbers has a greatest element.
LEMMA GreatestOf ==
    ASSUME NEW T \in SUBSET Nat, T # {}, NEW n \in Nat, \A x \in T : x <= n
    PROVE  \E x \in T : \A y \in T : y <= x
<1>1. PICK D : D = {n - x : x \in T}
  OBVIOUS
<1>2. D \in SUBSET Nat /\ D # {}
  <2>1. \A x \in T : n - x \in Nat /\ n - x \in D
    BY <1>1
  <2> QED
    BY <1>1, <2>1
<1>3. PICK d \in D : \A e \in D : d <= e
  BY <1>2, Least
<1>4. PICK x \in T : d = n - x
  BY <1>1, <1>3
<1>5. \A y \in T : n - y \in D
  BY <1>1
<1>6. \A y \in T : n - x <= n - y
  BY <1>3, <1>4, <1>5
<1>7. \A y \in T : y <= x
  BY <1>6
<1> QED
  BY <1>4, <1>7

\* The earliest of some numbers is one of them, if there are any.
LEMMA EarliestIs ==
    ASSUME NEW T \in SUBSET Nat
    PROVE  /\ T = {} => Earliest(T) = {}
           /\ T # {} => \E m \in T : Earliest(T) = {m} /\ \A u \in T : m <= u
           /\ \A m \in T : (\A u \in T : m <= u) => Earliest(T) = {m}
<1>1. ASSUME NEW m \in T, \A u \in T : m <= u PROVE Earliest(T) = {m}
  <2>1. \A t \in T : (\A u \in T : t <= u) => t = m
    <3> SUFFICES ASSUME NEW t \in T, \A u \in T : t <= u PROVE t = m
      OBVIOUS
    <3>1. t <= m /\ m <= t /\ t \in Nat /\ m \in Nat
      BY <1>1
    <3> QED
      BY <3>1
  <2> QED
    BY <1>1, <2>1, Zenon DEF Earliest
<1>2. T # {} => \E m \in T : \A u \in T : m <= u
  BY Least
<1> QED
  BY <1>1, <1>2 DEF Earliest

\* What the ledger keeps has times.
LEMMA TakenTimes ==
    ASSUME PoolInv, NEW x \in bookings \cup outages
    PROVE  x.start \in Nat /\ x.until \in Nat
BY DEF PoolInv, Ledger, IsBooking, IsOutage

\* What does not constrain the window does not matter for a start in it.
LEMMA WindowSuffices ==
    ASSUME PoolInv, NEW r, IsRequest(r), NEW from \in Nat, NEW latest \in Nat,
           NEW t \in from..latest
    PROVE  FitsAt(r, t, Window(r, from, latest)) <=> FitsAt(r, t, bookings \cup outages)
<1>1. PICK n \in Nat : n = r.end - r.start /\ n > 0
  BY DEF IsRequest
<1>2. ASSUME NEW x \in bookings \cup outages, x.start < x.until, Overlap(t, t + n, x.start, x.until)
      PROVE  x \in Window(r, from, latest)
  <2>1. x.start \in Nat /\ x.until \in Nat
    BY TakenTimes
  <2>2. Overlap(x.start, x.until, from, latest + n)
    BY <1>1, <1>2, <2>1 DEF Overlap
  <2> QED
    BY <1>1, <1>2, <2>2 DEF Window
<1>3. Window(r, from, latest) \subseteq bookings \cup outages
  BY DEF Window
<1> QED
  BY <1>1, <1>2, <1>3 DEF FitsAt, FitsIn

\* suggest_next_start returns the earliest start that fits, although it only
\* tries the first one and the ends of what is on the instance: when a start
\* fits and the one before does not, something ends there.
LEMMA SuggestionIs ==
    ASSUME PoolInv, NEW r, IsRequest(r), NEW from \in Nat, NEW latest \in Nat, from <= latest
    PROVE  SuggestNextStart(r, from, latest) = Earliest(Starts(r, from, latest))
<1>1. PICK n \in Nat : n = r.end - r.start /\ n > 0
  BY DEF IsRequest
<1>2. PICK taken : taken = Window(r, from, latest)
  OBVIOUS
<1>3. PICK ends : ends = {x.until : x \in {x \in taken : Addresses(x, r.instance)}}
  OBVIOUS
<1>4. PICK C : C = {t \in {from} \cup {e \in ends : from < e /\ e <= latest} : FitsAt(r, t, taken)}
  OBVIOUS
<1>5. SuggestNextStart(r, from, latest) = Earliest(C)
  BY <1>2, <1>3, <1>4 DEF SuggestNextStart
<1>6. PICK S : S = Starts(r, from, latest)
  OBVIOUS
<1>7. taken \subseteq bookings \cup outages
  BY <1>2 DEF Window
<1>8. \A e \in ends : e \in Nat
  BY <1>3, <1>7, TakenTimes
<1>9. C \subseteq S
  <2>1. \A t \in C : t \in from..latest /\ FitsAt(r, t, taken)
    BY <1>4, <1>8
  <2> QED
    BY <1>2, <1>6, <2>1, WindowSuffices DEF Starts
<1>10. S \in SUBSET Nat
  BY <1>6 DEF Starts
<1>11. CASE S = {}
  BY <1>5, <1>6, <1>9, <1>11
<1>12. CASE S # {}
  <2>1. PICK m \in S : \A u \in S : m <= u
    BY <1>10, <1>12, Least
  <2>2. m \in from..latest /\ FitsAt(r, m, bookings \cup outages) /\ FitsAt(r, m, taken)
    BY <1>2, <1>6, <2>1, WindowSuffices DEF Starts
  <2>3. m = from => m \in C
    BY <1>4, <2>2
  <2>4. ASSUME m # from PROVE m \in C
    <3>1. m - 1 \in from..latest /\ ~(m <= m - 1) /\ m \in Nat
      BY <2>2, <2>4
    <3>2. ~FitsAt(r, m - 1, taken)
      BY <1>2, <1>6, <2>1, <3>1, WindowSuffices DEF Starts
    <3>3. PICK x \in taken : x.start < x.until /\ Addresses(x, r.instance)
                             /\ Overlap(m - 1, m - 1 + n, x.start, x.until)
      BY <1>1, <3>2 DEF FitsAt, FitsIn
    <3>4. ~Overlap(m, m + n, x.start, x.until)
      BY <1>1, <2>2, <3>3 DEF FitsAt, FitsIn
    <3>5. x.start \in Nat /\ x.until \in Nat
      BY <1>7, TakenTimes
    <3>6. x.until = m
      BY <1>1, <3>1, <3>3, <3>4, <3>5 DEF Overlap
    <3>7. m \in ends /\ from < m /\ m <= latest
      BY <1>3, <2>2, <2>4, <3>3, <3>6
    <3> QED
      BY <1>4, <2>2, <3>7
  <2>5. m \in C
    BY <2>3, <2>4
  <2>6. Earliest(C) = {m} /\ Earliest(S) = {m}
    BY <1>9, <1>10, <2>1, <2>5, EarliestIs
  <2> QED
    BY <1>5, <1>6, <2>6
<1> QED
  BY <1>11, <1>12

\* One round of _aligned_physical_start, f being what the later rounds return.
Round(requests, latest, f, t) ==
    LET starts == {SuggestNextStart(r, t, latest) : r \in requests}
        last == CHOOSE m \in UNION starts : \A n \in UNION starts : n <= m
    IN  IF {} \in starts THEN {} ELSE IF last = t THEN {t} ELSE f[last]

Rounds(requests, from, latest, f) == f = [t \in from..latest |-> Round(requests, latest, f, t)]

\* The earliest common start from t on.
Wanted(requests, latest, t) == Earliest(CommonStarts(requests, t, latest))

\* A round ends with the earliest common start, or goes on from a later time
\* before which there is none.
LEMMA RoundIs ==
    ASSUME PoolInv, NEW requests, requests # {}, \A r \in requests : IsRequest(r),
           NEW t \in Nat, NEW latest \in Nat, t <= latest
    PROVE  \/ \A f : Round(requests, latest, f, t) = Wanted(requests, latest, t)
           \/ \E last \in t..latest :
                 /\ last > t /\ Wanted(requests, latest, last) = Wanted(requests, latest, t)
                 /\ \A f : Round(requests, latest, f, t) = f[last]
<1> DEFINE First(r) == SuggestNextStart(r, t, latest)
<1>1. PICK starts : starts = {First(r) : r \in requests}
  OBVIOUS
<1>2. \A r \in requests : First(r) = Earliest(Starts(r, t, latest))
  BY SuggestionIs
<1> HIDE DEF First
<1>3. PICK last : last = CHOOSE m \in UNION starts : \A n \in UNION starts : n <= m
  OBVIOUS
<1>4. \A f : Round(requests, latest, f, t) =
                IF {} \in starts THEN {} ELSE IF last = t THEN {t} ELSE f[last]
  BY <1>1, <1>3 DEF Round, First
<1>5. PICK W : W = CommonStarts(requests, t, latest)
  OBVIOUS
<1>6. W \in SUBSET Nat /\ \A u \in W, r \in requests : u \in Starts(r, t, latest)
  BY <1>5 DEF CommonStarts, Starts
<1>7. \A r \in requests : Starts(r, t, latest) \in SUBSET (t..latest) /\ Starts(r, t, latest) \in SUBSET Nat
  BY DEF Starts
<1>8. CASE {} \in starts
  <2>1. PICK r \in requests : First(r) = {}
    BY <1>1, <1>8
  <2>2. Starts(r, t, latest) = {}
    BY <1>2, <1>7, <2>1, EarliestIs
  <2>3. W = {}
    BY <1>6, <2>2
  <2> QED
    BY <1>4, <1>5, <1>6, <1>8, <2>3, EarliestIs DEF Wanted
<1>9. CASE {} \notin starts
  <2>1. ASSUME NEW r \in requests
        PROVE  \E m \in Starts(r, t, latest) : First(r) = {m} /\ \A u \in Starts(r, t, latest) : m <= u
    <3>1. First(r) # {}
      BY <1>1, <1>9
    <3>2. Starts(r, t, latest) # {}
      BY <1>2, <1>7, <3>1, EarliestIs
    <3> QED
      BY <1>2, <1>7, <3>2, EarliestIs
  <2>2. PICK U : U = UNION starts
    OBVIOUS
  <2>3. \A m : m \in U <=> \E r \in requests : m \in First(r)
    BY <1>1, <2>2
  <2>4. \A m \in U : m \in t..latest /\ \A u \in W : m <= u
    BY <1>6, <1>7, <2>1, <2>3
  <2>5. U # {} /\ U \in SUBSET Nat /\ \A m \in U : m <= latest
    BY <2>1, <2>3, <2>4
  <2>6. last \in U /\ \A n \in U : n <= last
    BY <1>3, <2>2, <2>5, GreatestOf
  <2>7. CASE last = t
    <3>1. \A r \in requests : t \in Starts(r, t, latest)
      <4> SUFFICES ASSUME NEW r \in requests PROVE t \in Starts(r, t, latest)
        OBVIOUS
      <4>1. PICK m \in Starts(r, t, latest) : First(r) = {m}
        BY <2>1
      <4>2. m \in U
        BY <2>3, <4>1
      <4>3. m \in t..latest /\ m <= t
        BY <2>4, <2>6, <2>7, <4>2
      <4> QED
        BY <4>1, <4>3
    <3>2. t \in W /\ \A u \in W : t <= u
      BY <1>5, <3>1 DEF CommonStarts, Starts
    <3>3. Earliest(W) = {t}
      BY <1>6, <3>2, EarliestIs
    <3> QED
      BY <1>4, <1>5, <1>9, <2>7, <3>3 DEF Wanted
  <2>8. CASE last # t
    <3>1. last \in t..latest /\ last > t /\ \A u \in W : last <= u
      BY <2>4, <2>6, <2>8
    <3>2. CommonStarts(requests, last, latest) = W
      <4>1. last \in Nat /\ \A u \in last..latest : u \in t..latest
        BY <3>1
      <4>2. CommonStarts(requests, last, latest) \subseteq W
        BY <1>5, <4>1 DEF CommonStarts
      <4>3. \A u \in W : u \in last..latest
        <5> SUFFICES ASSUME NEW u \in W PROVE u \in last..latest
          OBVIOUS
        <5>1. u \in t..latest /\ last <= u
          BY <1>5, <3>1 DEF CommonStarts
        <5> QED
          BY <4>1, <5>1
      <4>4. W \subseteq CommonStarts(requests, last, latest)
        BY <1>5, <4>3 DEF CommonStarts
      <4> QED
        BY <4>2, <4>4
    <3> QED
      BY <1>4, <1>5, <1>9, <2>8, <3>1, <3>2 DEF Wanted
  <2> QED
    BY <2>7, <2>8
<1> QED
  BY <1>8, <1>9

\* The rounds return the earliest common start: the latest time for which they
\* did not would go on from a later one.
LEMMA RoundsEnd ==
    ASSUME PoolInv, NEW requests, requests # {}, \A r \in requests : IsRequest(r),
           NEW from \in Nat, NEW latest \in Nat, NEW f, Rounds(requests, from, latest, f)
    PROVE  \A t \in from..latest : f[t] = Wanted(requests, latest, t)
<1> DEFINE Wrong == {t \in from..latest : f[t] # Wanted(requests, latest, t)}
<1> SUFFICES ASSUME Wrong # {} PROVE FALSE
  OBVIOUS
<1>1. Wrong \in SUBSET Nat /\ \A t \in Wrong : t <= latest
  OBVIOUS
<1>2. PICK t \in Wrong : \A u \in Wrong : u <= t
  BY <1>1, GreatestOf
<1>3. t \in Nat /\ from <= t /\ t <= latest /\ f[t] # Wanted(requests, latest, t)
  OBVIOUS
<1>4. f[t] = Round(requests, latest, f, t)
  BY <1>3 DEF Rounds
<1>5. PICK last \in t..latest :
         /\ last > t /\ Wanted(requests, latest, last) = Wanted(requests, latest, t)
         /\ Round(requests, latest, f, t) = f[last]
  BY <1>3, <1>4, RoundIs
<1>6. last \in from..latest /\ last \notin Wrong
  BY <1>2, <1>3, <1>5
<1> QED
  BY <1>3, <1>4, <1>5, <1>6

\* _aligned_physical_start returns the earliest start at which all requests fit.
LEMMA AlignedIs ==
    ASSUME PoolInv, NEW requests, requests # {}, \A r \in requests : IsRequest(r),
           NEW from \in Nat, NEW latest \in Nat, from <= latest
    PROVE  AlignedStart(requests, from, latest) = Wanted(requests, latest, from)
<1>1. PICK h : h = [t \in from..latest |-> Wanted(requests, latest, t)]
  OBVIOUS
<1>2. ASSUME NEW t \in from..latest PROVE h[t] = Round(requests, latest, h, t)
  <2>1. t \in Nat /\ t <= latest /\ from <= t
    OBVIOUS
  <2>2. CASE \A f : Round(requests, latest, f, t) = Wanted(requests, latest, t)
    BY <1>1, <2>2
  <2>3. CASE \E last \in t..latest :
                /\ last > t /\ Wanted(requests, latest, last) = Wanted(requests, latest, t)
                /\ \A f : Round(requests, latest, f, t) = f[last]
    <3>1. PICK last \in t..latest :
             /\ Wanted(requests, latest, last) = Wanted(requests, latest, t)
             /\ Round(requests, latest, h, t) = h[last]
      BY <2>3
    <3>2. last \in from..latest
      BY <2>1
    <3> QED
      BY <1>1, <3>1, <3>2
  <2> QED
    BY <2>1, <2>2, <2>3, RoundIs
<1>3. Rounds(requests, from, latest, h)
  <2>1. h = [t \in from..latest |-> h[t]]
    BY <1>1
  <2> QED
    BY <1>2, <2>1 DEF Rounds
<1>4. PICK g : g = CHOOSE f : Rounds(requests, from, latest, f)
  OBVIOUS
<1>5. Rounds(requests, from, latest, g)
  BY <1>3, <1>4
<1>6. AlignedStart(requests, from, latest) = g[from]
  BY <1>4 DEF AlignedStart, Rounds, Round
<1>7. from \in from..latest
  OBVIOUS
<1> QED
  BY <1>5, <1>6, <1>7, RoundsEnd

-----------------------------------------------------------------------------
\* The step from s to t asks the pool for something, and for some time.
AsksPool(o, s, t) ==
    Requests(o, s, t) # {} /\ \A r \in Requests(o, s, t) : r.start < r.end

\* The step of whoever is about to record a wait, and the next step of an
\* organization that is marked to wait.
AdviceInv ==
    /\ \A w \in Workers :
          call[w].at = "wait" => AsksPool(call[w].org, call[w].seen, call[w].planned)
    /\ \A o \in Orgs :
          lease[o].wait # 0 =>
              src[o].actions # <<>> /\ AsksPool(o, src[o], Transition(o, src[o]))

LEMMA AdviceInit == Init => AdviceInv
BY DEF Init, AdviceInv, Idle

\* A worker goes on to something other than recording a wait, and no
\* organization is newly marked.
LEMMA AdviceFrame ==
    ASSUME JobInv, AdviceInv, UNCHANGED src,
           \A w \in Workers : call'[w] = call[w] \/ call'[w].at # "wait",
           \A o \in Orgs : lease'[o].wait = lease[o].wait
    PROVE  AdviceInv'
BY DEF AdviceInv

\* The steps of a worker that keep the organizations and the marks.
LEMMA AdviceCall ==
    ASSUME JobInv, AdviceInv, NEW w \in Workers, NEW c, call' = [call EXCEPT ![w] = c],
           c.at # "wait", UNCHANGED src, \A o \in Orgs : lease'[o].wait = lease[o].wait
    PROVE  AdviceInv'
<1>1. \A v \in Workers : call'[v] = IF v = w THEN c ELSE call[v]
  BY DEF JobInv, RecordsTyped
<1> QED
  BY <1>1, AdviceFrame

LEMMA AdviceNoRoom ==
    ASSUME JobInv, AdviceInv, NEW w \in Workers, NoRoom(w)
    PROVE  AdviceInv'
<1>1. PICK c : c = call[w] /\ c.at = "commit"
  BY DEF NoRoom
<1>2. NewBookings(c.org, c.seen, c.planned) /\ ~StepFits(c.org, c.seen, c.planned)
  BY <1>1 DEF NoRoom
<1>3. AsksPool(c.org, c.seen, c.planned)
  BY <1>2 DEF AsksPool, NewBookings, StepFits
<1>4. /\ c = [at |-> c.at, org |-> c.org, trigger |-> c.trigger, epoch |-> c.epoch,
              seen |-> c.seen, planned |-> c.planned]
  BY <1>1 DEF JobInv, CallOK
<1>5. call' = [call EXCEPT ![w].at = "wait"] /\ UNCHANGED <<src, lease>>
  BY DEF NoRoom, source
<1>6. \A v \in Workers : v # w => call'[v] = call[v]
  BY <1>5 DEF JobInv, RecordsTyped
<1>7. call'[w].org = c.org /\ call'[w].seen = c.seen /\ call'[w].planned = c.planned
  <2>1. call'[w] = [c EXCEPT !.at = "wait"]
    BY <1>1, <1>5 DEF JobInv, RecordsTyped
  <2> QED
    BY <1>4, <2>1
<1>8. \A v \in Workers :
         call'[v].at = "wait" => AsksPool(call'[v].org, call'[v].seen, call'[v].planned)
  BY <1>3, <1>6, <1>7 DEF AdviceInv
<1> QED
  BY <1>5, <1>8 DEF AdviceInv

\* The wait that is recorded is the one of the step that was planned.
LEMMA AdviceRecorded ==
    ASSUME JobInv, AdviceInv, NEW w \in Workers, RecordWait(w)
    PROVE  AdviceInv'
<1>1. PICK c : c = call[w] /\ c.at = "wait"
  BY DEF RecordWait
<1>2. PICK o \in Orgs : o = c.org
  BY <1>1, OrgOf DEF JobInv, CallOK
<1>3. src[o] = c.seen /\ c.seen.actions # <<>> /\ c.planned = Transition(o, src[o])
  BY <1>1, <1>2 DEF RecordWait, Unchanged, JobInv, CallOK
<1>4. AsksPool(o, src[o], Transition(o, src[o]))
  BY <1>1, <1>2, <1>3 DEF AdviceInv
<1>5. \A p \in Orgs : p # o => lease'[p] = lease[p]
  BY <1>1, <1>2 DEF RecordWait, JobInv, RecordsTyped
<1>6. UNCHANGED src /\ call' = [call EXCEPT ![w] = Idle]
  BY DEF RecordWait, Return
<1>7. \A v \in Workers : call'[v].at = "wait" => call'[v] = call[v]
  BY <1>6 DEF JobInv, RecordsTyped, Idle
<1>8. \A p \in Orgs :
         lease'[p].wait # 0 =>
             src[p].actions # <<>> /\ AsksPool(p, src[p], Transition(p, src[p]))
  BY <1>3, <1>4, <1>5 DEF AdviceInv
<1> QED
  BY <1>6, <1>7, <1>8 DEF AdviceInv

\* The commit of a step takes the mark away.
LEMMA AdviceCommitted ==
    ASSUME JobInv, AdviceInv, NEW w \in Workers, Commit(w)
    PROVE  AdviceInv'
<1>1. PICK o \in Orgs : o = call[w].org
  BY OrgOf DEF Commit, JobInv, CallOK
<1>2. /\ src' = [src EXCEPT ![o] = call[w].planned] /\ call' = [call EXCEPT ![w] = Idle]
      /\ lease' = [lease EXCEPT ![o].state = "released", ![o].owner = Nobody, ![o].wait = 0]
  BY <1>1 DEF Commit, Return
<1>3. /\ lease'[o].wait = 0
      /\ \A p \in Orgs : p # o => lease'[p] = lease[p] /\ src'[p] = src[p]
  BY <1>2 DEF JobInv, RecordsTyped
<1>4. \A v \in Workers : call'[v].at = "wait" => call'[v] = call[v]
  BY <1>2 DEF JobInv, RecordsTyped, Idle
<1>5. \A p \in Orgs :
         lease'[p].wait # 0 =>
             src'[p].actions # <<>> /\ AsksPool(p, src'[p], Transition(p, src'[p]))
  BY <1>3 DEF AdviceInv
<1> QED
  BY <1>4, <1>5 DEF AdviceInv

LEMMA AdviceNext == JobInv /\ AdviceInv /\ [Next]_vars => AdviceInv'
<1> SUFFICES ASSUME JobInv, AdviceInv, [Next]_vars PROVE AdviceInv'
  OBVIOUS
<1>1. ASSUME NEW w \in Workers, RunTick(w) PROVE AdviceInv'
  <2>1. PICK c : c = [at |-> "claim", org |-> Job[w], trigger |-> job[Job[w]].run + 1]
    OBVIOUS
  <2>2. c.at # "wait" /\ call' = [call EXCEPT ![w] = c] /\ UNCHANGED <<src, lease>>
    BY <1>1, <2>1 DEF RunTick, source
  <2> QED
    BY <2>2, AdviceCall
<1>2. ASSUME NEW w \in Workers, WorkerDies(w) \/ NotAdmitted(w) \/ HoldingLost(w) \/ Stale(w)
      PROVE  AdviceInv'
  <2>1. Idle.at # "wait" /\ call' = [call EXCEPT ![w] = Idle] /\ UNCHANGED <<src, lease>>
    BY <1>2 DEF WorkerDies, NotAdmitted, HoldingLost, Stale, Return, source, Idle
  <2> QED
    BY <2>1, AdviceCall
<1>3. ASSUME NEW w \in Workers, ClaimTick(w) PROVE AdviceInv'
  <2>1. PICK o \in Orgs : o = call[w].org
    BY <1>3, OrgOf DEF ClaimTick, JobInv, CallOK
  <2>2. PICK e : Claimed(w, e) /\ UNCHANGED src
    BY <1>3 DEF ClaimTick
  <2>3. PICK c : c = [at |-> "look", org |-> call[w].org, trigger |-> call[w].trigger, epoch |-> e]
    OBVIOUS
  <2>4. c.at # "wait" /\ call' = [call EXCEPT ![w] = c]
    BY <2>2, <2>3 DEF Claimed
  <2>5. \A p \in Orgs : lease'[p].wait = lease[p].wait
    BY <1>3, <2>1 DEF ClaimTick, JobInv, RecordsTyped
  <2> QED
    BY <2>2, <2>4, <2>5, AdviceCall
<1>4. ASSUME NEW w \in Workers, Look(w) PROVE AdviceInv'
  <2>1. PICK c : c = [at |-> "plan", org |-> call[w].org, trigger |-> call[w].trigger,
                      epoch |-> call[w].epoch, due |-> NextAction(src[call[w].org])]
    OBVIOUS
  <2>2. c.at # "wait" /\ call' = [call EXCEPT ![w] = c] /\ UNCHANGED <<src, lease>>
    BY <1>4, <2>1 DEF Look, source, JobInv, RecordsTyped
  <2> QED
    BY <2>2, AdviceCall
<1>5. ASSUME NEW w \in Workers, Plan(w) PROVE AdviceInv'
  <2>1. PICK t : call' = [call EXCEPT ![w] =
                    [at |-> "commit", org |-> call[w].org, trigger |-> call[w].trigger,
                     epoch |-> call[w].epoch, seen |-> src[call[w].org], planned |-> t]]
    BY <1>5 DEF Plan
  <2>2. PICK c : c = [at |-> "commit", org |-> call[w].org, trigger |-> call[w].trigger,
                      epoch |-> call[w].epoch, seen |-> src[call[w].org], planned |-> t]
    OBVIOUS
  <2>3. c.at # "wait" /\ call' = [call EXCEPT ![w] = c] /\ UNCHANGED <<src, lease>>
    BY <1>5, <2>1, <2>2 DEF Plan, source
  <2> QED
    BY <2>3, AdviceCall
<1>6. ASSUME NEW o \in Orgs, LeaseExpires(o) PROVE AdviceInv'
  <2>1. /\ lease' = [lease EXCEPT ![o].expired = TRUE] /\ UNCHANGED <<src, call>>
    BY <1>6 DEF LeaseExpires
  <2>2. \A p \in Orgs : lease'[p].wait = lease[p].wait
    BY <2>1 DEF JobInv, RecordsTyped
  <2> QED
    BY <2>1, <2>2, AdviceFrame
<1>7. ASSUME PoolUse \/ UNCHANGED vars PROVE AdviceInv'
  <2>1. UNCHANGED <<src, lease, call>>
    BY <1>7 DEF PoolUse, ForeignReserve, ForeignRelease, PoolFails, PoolRecovers, source, vars
  <2> QED
    BY <2>1, AdviceFrame
<1>8. ASSUME NEW w \in Workers, Proceed(w) PROVE AdviceInv'
  BY <1>2, <1>3, <1>4, <1>5, <1>8, AdviceNoRoom, AdviceRecorded, AdviceCommitted DEF Proceed
<1> QED
  BY <1>1, <1>2, <1>6, <1>7, <1>8 DEF Next

\* The advice that _aligned_physical_start gives to a step that waits is exact, for
\* every ledger, window and set of requests: it is the earliest start at which all
\* requests of the step fit together, although each round asks the ledger for every
\* request alone and the ledger tries only the ends of intervals, and when it says
\* that there is none up to the latest start there is none.
THEOREM AdviceIsExact == Spec => []AdviceExact
<1>1. ASSUME JobInv, PoolInv, AdviceInv PROVE AdviceExact
  <2> SUFFICES ASSUME NEW o \in Orgs, lease[o].wait # 0,
                      NEW requests, requests = WaitingRequests(o)
               PROVE  /\ requests # {}
                      /\ \A from \in NextAction(src[o]).at..Horizon : \A latest \in from..Horizon :
                             AlignedStart(requests, from, latest)
                                 = Earliest(CommonStarts(requests, from, latest))
    BY Zenon DEF AdviceExact, CommonStarts
  <2>1. src[o].actions # <<>> /\ AsksPool(o, src[o], Transition(o, src[o])) /\ SourceOK(o, src[o])
    BY <1>1 DEF AdviceInv, JobInv
  <2>2. SourceOK(o, Transition(o, src[o]))
    BY <2>1, TransitionIs
  <2>3. NextAction(src[o]).at \in Nat
    BY <2>1, NextIs DEF SourceOK, Actions
  <2>4. requests # {} /\ \A r \in requests : r.start < r.end
    BY <2>1 DEF AsksPool, WaitingRequests
  <2>5. \A r \in requests : r.start \in Nat /\ r.end \in Nat
    BY <2>2, RequestsAre DEF WaitingRequests
  <2>6. \A r \in requests : IsRequest(r)
    BY <2>4, <2>5 DEF IsRequest
  <2>7. ASSUME NEW from \in NextAction(src[o]).at..Horizon, NEW latest \in from..Horizon
        PROVE  AlignedStart(requests, from, latest) = Earliest(CommonStarts(requests, from, latest))
    <3>1. from \in Nat /\ latest \in Nat /\ from <= latest
      BY <2>3, PoolAssumption
    <3> QED
      BY <1>1, <2>4, <2>6, <3>1, AlignedIs DEF Wanted
  <2> QED
    BY <2>4, <2>7
<1>2. Init => JobInv /\ PoolInv /\ AdviceInv
  BY JobInit, PoolInit, AdviceInit
<1>3. JobInv /\ PoolInv /\ AdviceInv /\ [Next]_vars => JobInv' /\ PoolInv' /\ AdviceInv'
  BY JobNext, PoolNext, AdviceNext
<1>4. JobInv /\ PoolInv /\ AdviceInv => AdviceExact
  BY <1>1
<1> QED
  BY <1>2, <1>3, <1>4, PTL DEF Spec

=============================================================================
