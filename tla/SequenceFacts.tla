--------------------------- MODULE SequenceFacts ---------------------------
(***************************************************************************)
(* Lemmas about sequences for the proofs about queues: what an insertion   *)
(* or a removal does to the elements and to the order of a sequence, and   *)
(* what the ranks in a finite order are.                                   *)
(***************************************************************************)
EXTENDS Integers, Sequences, FiniteSets, SequencesExt, FiniteSetTheorems, SequenceTheorems,
        WellFoundedInduction, FunctionTheorems, TLAPS

\* A nonempty set of natural numbers has a least element.
LEMMA Least ==
    ASSUME NEW T \in SUBSET Nat, T # {}
    PROVE  \E x \in T : \A y \in T : x <= y
<1>1. PICK x \in T : \A y \in T : ~(<<y, x>> \in OpToRel(<, Nat))
  BY WFMin, NatLessThanWellFounded
<1>2. \A y \in T : ~(y < x)
  <2> SUFFICES ASSUME NEW y \in T, y < x PROVE FALSE
    OBVIOUS
  <2>1. <<y, x>> \in OpToRel(<, Nat)
    BY Zenon DEF OpToRel
  <2> QED
    BY <1>1, <2>1
<1> QED
  BY <1>2, SMT

\* A bounded nonempty set of numbers has a greatest one.
LEMMA Greatest ==
    ASSUME NEW S \in SUBSET Nat, S # {}, NEW n \in Nat, \A y \in S : y <= n
    PROVE  Max(S) \in S /\ \A y \in S : y <= Max(S)
<1> DEFINE T == {u \in Nat : \A y \in S : y <= u}
<1>1. PICK m \in T : \A u \in T : m <= u
  <2>1. T \in SUBSET Nat /\ n \in T
    OBVIOUS
  <2> QED
    BY <2>1, Least
<1>2. m \in S
  <2> SUFFICES ASSUME m \notin S PROVE FALSE
    OBVIOUS
  <2>1. \A y \in S : y <= m - 1 /\ y \in Nat
    BY <1>1
  <2>2. m - 1 \in Nat
    <3>1. PICK y \in S : TRUE
      OBVIOUS
    <3> QED
      BY <1>1, <2>1, <3>1
  <2>3. m - 1 \in T
    BY <2>1, <2>2
  <2> QED
    BY <1>1, <2>3
<1>3. \A y \in S : m >= y
  BY <1>1
<1>4. \A x \in S : x \in Nat
  OBVIOUS
<1> HIDE DEF T
<1>5. Max(S) \in S /\ \A y \in S : Max(S) >= y
  BY <1>2, <1>3 DEF Max
<1> QED
  BY <1>4, <1>5

-----------------------------------------------------------------------------
\* a comes before b in the sequence q.
Before(q, a, b) == \E i, j \in DOMAIN q : i < j /\ q[i] = a /\ q[j] = b

\* v is at most once in q.
Once(q, v) == \A i, j \in DOMAIN q : q[i] = v /\ q[j] = v => i = j

\* p is q without its i-th element.
Dropped(q, i, p) ==
    /\ Len(p) = Len(q) - 1
    /\ \A j \in 1..Len(q) - 1 : p[j] = IF j < i THEN q[j] ELSE q[j + 1]

\* RemoveAt drops one element.
LEMMA Removed ==
    ASSUME NEW S, NEW q \in Seq(S), NEW i \in 1..Len(q)
    PROVE  /\ RemoveAt(q, i) \in Seq(S)
           /\ Len(RemoveAt(q, i)) = Len(q) - 1
           /\ \A j \in 1..(Len(q) - 1) :
                 RemoveAt(q, i)[j] = IF j < i THEN q[j] ELSE q[j + 1]
<1>1. Len(q) \in Nat
  BY LenProperties
<1>2. /\ SubSeq(q, 1, i - 1) \in Seq(S) /\ Len(SubSeq(q, 1, i - 1)) = i - 1
      /\ \A j \in 1..(i - 1) : SubSeq(q, 1, i - 1)[j] = q[j]
  BY <1>1
<1>3. /\ SubSeq(q, i + 1, Len(q)) \in Seq(S) /\ Len(SubSeq(q, i + 1, Len(q))) = Len(q) - i
      /\ \A j \in 1..(Len(q) - i) : SubSeq(q, i + 1, Len(q))[j] = q[i + j]
  BY <1>1
<1> DEFINE a == SubSeq(q, 1, i - 1)
           b == SubSeq(q, i + 1, Len(q))
<1>4. /\ a \o b \in Seq(S) /\ Len(a \o b) = Len(a) + Len(b)
      /\ \A j \in 1..(Len(a) + Len(b)) : (a \o b)[j] = IF j <= Len(a) THEN a[j] ELSE b[j - Len(a)]
  <2> HIDE DEF a, b
  <2>1. a \in Seq(S) /\ b \in Seq(S)
    BY <1>2, <1>3 DEF a, b
  <2> QED
    BY <2>1, ConcatProperties
<1>5. RemoveAt(q, i) = a \o b
  BY DEF RemoveAt
<1> HIDE DEF a, b
<1>6. /\ Len(a) = i - 1 /\ Len(b) = Len(q) - i
      /\ \A j \in 1..(i - 1) : a[j] = q[j]
      /\ \A j \in 1..(Len(q) - i) : b[j] = q[i + j]
  BY <1>2, <1>3 DEF a, b
<1>7. \A j \in 1..(Len(q) - 1) : (a \o b)[j] = IF j < i THEN q[j] ELSE q[j + 1]
  <2> SUFFICES ASSUME NEW j \in 1..(Len(q) - 1)
               PROVE  (a \o b)[j] = IF j < i THEN q[j] ELSE q[j + 1]
    OBVIOUS
  <2>1. CASE j < i
    BY <2>1, <1>1, <1>4, <1>6
  <2>2. CASE ~(j < i)
    <3>1. j - (i - 1) \in 1..(Len(q) - i) /\ i + (j - (i - 1)) = j + 1
      BY <2>2, <1>1
    <3>2. (a \o b)[j] = b[j - (i - 1)]
      BY <2>2, <1>1, <1>4, <1>6
    <3> QED
      BY <2>2, <3>1, <3>2, <1>6
  <2> QED
    BY <2>1, <2>2
<1> QED
  BY <1>1, <1>4, <1>5, <1>6, <1>7

\* So does Tail.
LEMMA TailDrops ==
    ASSUME NEW S, NEW q \in Seq(S), q # <<>>
    PROVE  Tail(q) \in Seq(S) /\ Dropped(q, 1, Tail(q)) /\ Head(q) = q[1] /\ 1 \in DOMAIN q
<1>1. /\ Tail(q) \in Seq(S) /\ Len(Tail(q)) = Len(q) - 1 /\ Head(q) = q[1] /\ Len(q) \in Nat
      /\ \A j \in 1..Len(Tail(q)) : Tail(q)[j] = q[j + 1]
      /\ DOMAIN q = 1..Len(q)
  BY HeadTailProperties, LenProperties
<1>2. Len(q) # 0
  BY EmptySeq
<1> QED
  BY <1>1, <1>2 DEF Dropped

\* What is left when an element is dropped, and in which order.
LEMMA DropFacts ==
    ASSUME NEW S, NEW q \in Seq(S), NEW i \in DOMAIN q, NEW p \in Seq(S), Dropped(q, i, p)
    PROVE  /\ \A a : a # q[i] => (a \in ToSet(p) <=> a \in ToSet(q))
           /\ \A a, b : a # q[i] /\ b # q[i] => (Before(p, a, b) <=> Before(q, a, b))
           /\ ToSet(p) \subseteq ToSet(q)
           /\ \A a, b : Before(p, a, b) => Before(q, a, b)
           /\ \A v : Once(q, v) => Once(p, v)
           /\ Once(q, q[i]) => q[i] \notin ToSet(p)
<1>1. /\ Len(q) \in Nat /\ DOMAIN q = 1..Len(q) /\ DOMAIN p = 1..Len(q) - 1
      /\ \A j \in 1..Len(q) - 1 : p[j] = IF j < i THEN q[j] ELSE q[j + 1]
  BY LenProperties DEF Dropped
\* Where the elements come from and where they go.
<1> DEFINE from(j) == IF j < i THEN j ELSE j + 1
           to(j) == IF j < i THEN j ELSE j - 1
<1>2. /\ \A j \in DOMAIN p : from(j) \in DOMAIN q /\ from(j) # i /\ q[from(j)] = p[j]
      /\ \A j, k \in DOMAIN p : (j < k <=> from(j) < from(k)) /\ (j = k <=> from(j) = from(k))
  BY <1>1
<1>3. /\ \A j \in DOMAIN q : j # i => to(j) \in DOMAIN p /\ p[to(j)] = q[j]
      /\ \A j, k \in DOMAIN q : j # i /\ k # i => (j < k <=> to(j) < to(k))
  BY <1>1
<1> HIDE DEF from, to
<1>4. ToSet(p) \subseteq ToSet(q)
  BY <1>2 DEF ToSet
<1>5. \A a : a # q[i] => (a \in ToSet(p) <=> a \in ToSet(q))
  BY <1>2, <1>3 DEF ToSet
<1>6. \A a, b : Before(p, a, b) => Before(q, a, b)
  BY <1>2 DEF Before
<1>7. \A a, b : a # q[i] /\ b # q[i] /\ Before(q, a, b) => Before(p, a, b)
  BY <1>3 DEF Before
<1>8. \A v : Once(q, v) => Once(p, v)
  BY <1>2 DEF Once
<1>9. Once(q, q[i]) => q[i] \notin ToSet(p)
  BY <1>2 DEF Once, ToSet
<1> QED
  BY <1>4, <1>5, <1>6, <1>7, <1>8, <1>9

\* An element is added at the end.
LEMMA AppendFacts ==
    ASSUME NEW S, NEW q \in Seq(S), NEW v \in S
    PROVE  /\ Append(q, v) \in Seq(S)
           /\ ToSet(Append(q, v)) = ToSet(q) \cup {v}
           /\ \A a, b : Before(Append(q, v), a, b) <=> Before(q, a, b) \/ (a \in ToSet(q) /\ b = v)
           /\ \A a : a # v /\ Once(q, a) => Once(Append(q, v), a)
           /\ v \notin ToSet(q) => Once(Append(q, v), v)
<1> DEFINE p == Append(q, v)
<1>1. /\ p \in Seq(S) /\ Len(p) = Len(q) + 1 /\ Len(q) \in Nat
      /\ \A j \in 1..Len(q) : p[j] = q[j]
      /\ p[Len(q) + 1] = v
      /\ DOMAIN q = 1..Len(q) /\ DOMAIN p = 1..Len(q) + 1
  BY AppendProperties, LenProperties
<1> HIDE DEF p
<1>2. ToSet(p) = ToSet(q) \cup {v}
  BY <1>1 DEF ToSet
<1>3. \A a, b : Before(q, a, b) => Before(p, a, b)
  BY <1>1 DEF Before
<1>4. \A a : a \in ToSet(q) => Before(p, a, v)
  BY <1>1 DEF Before, ToSet
<1>5. \A a, b : Before(p, a, b) => Before(q, a, b) \/ (a \in ToSet(q) /\ b = v)
  BY <1>1 DEF Before, ToSet
<1>6. \A a : a # v /\ Once(q, a) => Once(p, a)
  BY <1>1 DEF Once
<1>7. v \notin ToSet(q) => Once(p, v)
  BY <1>1 DEF Once, ToSet
<1> QED
  BY <1>1, <1>2, <1>3, <1>4, <1>5, <1>6, <1>7 DEF p

\* An element is put into place i.
LEMMA InsertFacts ==
    ASSUME NEW S, NEW q \in Seq(S), NEW v \in S, NEW i \in 1..Len(q) + 1, v \notin ToSet(q)
    PROVE  LET p == InsertAt(q, i, v) IN
           /\ p \in Seq(S) /\ ToSet(p) = ToSet(q) \cup {v} /\ Len(p) = Len(q) + 1
           /\ \A a, b : a # v /\ b # v => (Before(p, a, b) <=> Before(q, a, b))
           /\ \A a : Before(p, a, v) <=> \E j \in DOMAIN q : j < i /\ q[j] = a
           /\ \A b : Before(p, v, b) <=> \E j \in DOMAIN q : j >= i /\ q[j] = b
           /\ \A a : a # v /\ Once(q, a) => Once(p, a)
           /\ Once(p, v)
<1> DEFINE p == InsertAt(q, i, v)
           x == SubSeq(q, 1, i - 1)
           y == <<v>>
           z == SubSeq(q, i, Len(q))
<1>1. Len(q) \in Nat /\ DOMAIN q = 1..Len(q)
  BY LenProperties
<1>2. /\ x \in Seq(S) /\ Len(x) = i - 1 /\ \A j \in 1..i - 1 : x[j] = q[j]
      /\ y \in Seq(S) /\ Len(y) = 1 /\ y[1] = v
      /\ z \in Seq(S) /\ Len(z) = Len(q) - i + 1 /\ \A j \in 1..Len(q) - i + 1 : z[j] = q[i + j - 1]
  BY <1>1
<1>3. p = (x \o y) \o z
  BY DEF InsertAt
<1> HIDE DEF p, x, y, z
<1>4. /\ x \o y \in Seq(S) /\ Len(x \o y) = i
      /\ \A j \in 1..i - 1 : (x \o y)[j] = q[j]
      /\ (x \o y)[i] = v
  <2>1. /\ x \o y \in Seq(S) /\ Len(x \o y) = Len(x) + Len(y)
        /\ \A j \in 1..Len(x) + Len(y) : (x \o y)[j] = IF j <= Len(x) THEN x[j] ELSE y[j - Len(x)]
    BY <1>2, ConcatProperties
  <2> QED
    BY <1>1, <1>2, <2>1
<1> DEFINE w == x \o y
<1>5. /\ p \in Seq(S) /\ Len(p) = Len(q) + 1 /\ p[i] = v
      /\ \A j \in 1..Len(q) + 1 : p[j] = IF j < i THEN q[j] ELSE IF j = i THEN v ELSE q[j - 1]
  <2> HIDE DEF w
  <2>1. w \in Seq(S) /\ Len(w) = i /\ w[i] = v /\ \A j \in 1..i - 1 : w[j] = q[j]
    BY <1>4 DEF w
  <2>2. p = w \o z
    BY <1>3 DEF w
  <2>3. /\ p \in Seq(S) /\ Len(p) = Len(w) + Len(z)
        /\ \A j \in 1..Len(w) + Len(z) : p[j] = IF j <= Len(w) THEN w[j] ELSE z[j - Len(w)]
    BY <1>2, <2>1, <2>2, ConcatProperties
  <2>4. Len(p) = Len(q) + 1
    BY <1>1, <1>2, <2>1, <2>3
  <2>5. ASSUME NEW j \in 1..Len(q) + 1
        PROVE  p[j] = IF j < i THEN q[j] ELSE IF j = i THEN v ELSE q[j - 1]
    <3>1. CASE j <= i
      BY <1>1, <1>2, <2>1, <2>3, <3>1
    <3>2. CASE j > i
      <4>1. j - i \in 1..Len(q) - i + 1 /\ i + (j - i) - 1 = j - 1
        BY <1>1, <3>2
      <4>2. p[j] = z[j - i]
        BY <1>1, <1>2, <2>1, <2>3, <3>2
      <4> QED
        BY <1>1, <1>2, <3>2, <4>1, <4>2
    <3> QED
      BY <3>1, <3>2
  <2> QED
    BY <1>1, <2>3, <2>4, <2>5
<1>6. DOMAIN p = 1..Len(q) + 1
  BY <1>5, LenProperties
\* Where the elements come from and where they go.
<1> DEFINE to(j) == IF j < i THEN j ELSE j + 1
           from(j) == IF j < i THEN j ELSE j - 1
<1>7. /\ \A j \in DOMAIN q : to(j) \in DOMAIN p /\ to(j) # i /\ p[to(j)] = q[j]
      /\ \A j, k \in DOMAIN q : (j < k <=> to(j) < to(k)) /\ (j = k <=> to(j) = to(k))
      /\ \A j \in DOMAIN q : (j < i <=> to(j) < i) /\ (j >= i <=> to(j) > i)
  BY <1>1, <1>5, <1>6
<1>8. /\ \A j \in DOMAIN p : j # i => from(j) \in DOMAIN q /\ q[from(j)] = p[j]
      /\ \A j, k \in DOMAIN p : j # i /\ k # i =>
            (j < k <=> from(j) < from(k)) /\ (j = k <=> from(j) = from(k))
      /\ \A j \in DOMAIN p : (j < i => from(j) < i) /\ (j > i => from(j) >= i)
      /\ i \in DOMAIN p /\ p[i] = v
  BY <1>1, <1>5, <1>6
<1>9. \A j \in DOMAIN q : q[j] # v
  BY DEF ToSet
<1> HIDE DEF from, to
<1>10. ToSet(p) = ToSet(q) \cup {v}
  <2>1. ToSet(q) \cup {v} \subseteq ToSet(p)
    BY <1>7, <1>8 DEF ToSet
  <2>2. ToSet(p) \subseteq ToSet(q) \cup {v}
    BY <1>8 DEF ToSet
  <2> QED
    BY <2>1, <2>2
<1>11. \A j \in DOMAIN p : p[j] = v <=> j = i
  BY <1>8, <1>9
<1>12. \A a, b : a # v /\ b # v => (Before(p, a, b) <=> Before(q, a, b))
  <2>1. \A a, b : Before(q, a, b) => Before(p, a, b)
    BY <1>7 DEF Before
  <2>2. \A a, b : a # v /\ b # v /\ Before(p, a, b) => Before(q, a, b)
    BY <1>8, <1>11 DEF Before
  <2> QED
    BY <2>1, <2>2
<1>13. \A a : Before(p, a, v) <=> \E j \in DOMAIN q : j < i /\ q[j] = a
  <2>1. ASSUME NEW a, Before(p, a, v) PROVE \E j \in DOMAIN q : j < i /\ q[j] = a
    <3>1. PICK j \in DOMAIN p, k \in DOMAIN p : j < k /\ p[j] = a /\ p[k] = v
      BY <2>1 DEF Before
    <3>2. k = i /\ j < i /\ j # i
      BY <1>6, <1>11, <3>1
    <3> QED
      BY <1>8, <3>1, <3>2
  <2>2. ASSUME NEW a, NEW j \in DOMAIN q, j < i, q[j] = a PROVE Before(p, a, v)
    BY <1>7, <1>8, <2>2 DEF Before
  <2> QED
    BY <2>1, <2>2
<1>14. \A b : Before(p, v, b) <=> \E j \in DOMAIN q : j >= i /\ q[j] = b
  <2>1. ASSUME NEW b, Before(p, v, b) PROVE \E j \in DOMAIN q : j >= i /\ q[j] = b
    <3>1. PICK j \in DOMAIN p, k \in DOMAIN p : j < k /\ p[j] = v /\ p[k] = b
      BY <2>1 DEF Before
    <3>2. j = i /\ k > i /\ k # i
      BY <1>6, <1>11, <3>1
    <3> QED
      BY <1>8, <3>1, <3>2
  <2>2. ASSUME NEW b, NEW j \in DOMAIN q, j >= i, q[j] = b PROVE Before(p, v, b)
    <3>1. to(j) > i /\ to(j) \in DOMAIN p /\ p[to(j)] = b
      BY <1>7, <2>2
    <3>2. i < to(j)
      BY <1>6, <3>1
    <3> QED
      BY <1>8, <3>1, <3>2 DEF Before
  <2> QED
    BY <2>1, <2>2
<1>15. \A a : a # v /\ Once(q, a) => Once(p, a)
  BY <1>8, <1>11 DEF Once
<1>16. Once(p, v)
  BY <1>11 DEF Once
<1> QED
  BY <1>5, <1>10, <1>12, <1>13, <1>14, <1>15, <1>16 DEF p

-----------------------------------------------------------------------------
\* How often v is in q.
Occurrences(q, v) == Cardinality({i \in DOMAIN q : q[i] = v})

\* The occurrences are counted by a natural number, which is zero when there is none.
LEMMA OccurrencesType ==
    ASSUME NEW S, NEW q \in Seq(S), NEW v
    PROVE  /\ Occurrences(q, v) \in Nat
           /\ Occurrences(q, v) = 0 <=> v \notin ToSet(q)
           /\ IsFiniteSet({i \in DOMAIN q : q[i] = v})
<1> DEFINE I == {i \in DOMAIN q : q[i] = v}
<1>1. Len(q) \in Nat /\ DOMAIN q = 1..Len(q)
  BY LenProperties
<1>2. IsFiniteSet(1..Len(q))
  BY <1>1, FS_Interval
<1>3. IsFiniteSet(I)
  BY <1>1, <1>2, FS_Subset
<1>4. I = {} <=> v \notin ToSet(q)
  BY DEF ToSet
<1>5. Occurrences(q, v) = Cardinality(I)
  BY DEF Occurrences
<1> HIDE DEF I
<1>6. Cardinality(I) \in Nat /\ (Cardinality(I) = 0 <=> I = {})
  BY <1>3, FS_CardinalityType, FS_EmptySet
<1> QED
  BY <1>3, <1>4, <1>5, <1>6 DEF I

\* An element is added at the end.
LEMMA OccurrencesAppend ==
    ASSUME NEW S, NEW q \in Seq(S), NEW w \in S, NEW v
    PROVE  Occurrences(Append(q, w), v) = Occurrences(q, v) + (IF w = v THEN 1 ELSE 0)
<1> DEFINE p == Append(q, w)
           I == {i \in DOMAIN q : q[i] = v}
           J == {i \in DOMAIN p : p[i] = v}
           n == Len(q) + 1
<1>1. /\ Len(p) = n /\ Len(q) \in Nat
      /\ \A j \in 1..Len(q) : p[j] = q[j]
      /\ p[n] = w
      /\ DOMAIN q = 1..Len(q) /\ DOMAIN p = 1..n
  BY AppendProperties, LenProperties
<1>2. IsFiniteSet(I) /\ Cardinality(I) \in Nat
  BY OccurrencesType DEF Occurrences
<1>3. n \notin I
  BY <1>1
<1>4. J = IF w = v THEN I \cup {n} ELSE I
  <2> HIDE DEF p
  <2> QED
    BY <1>1
<1>5. Occurrences(p, v) = Cardinality(J) /\ Occurrences(q, v) = Cardinality(I)
  BY DEF Occurrences
<1> HIDE DEF I, J, p, n
<1>6. Cardinality(I \cup {n}) = Cardinality(I) + 1
  BY <1>2, <1>3, FS_AddElement
<1> QED
  BY <1>2, <1>4, <1>5, <1>6 DEF p

\* An element is dropped.
LEMMA OccurrencesDrop ==
    ASSUME NEW S, NEW q \in Seq(S), NEW i \in DOMAIN q, NEW p \in Seq(S), Dropped(q, i, p), NEW v
    PROVE  Occurrences(p, v) = Occurrences(q, v) - (IF q[i] = v THEN 1 ELSE 0)
<1>1. /\ Len(q) \in Nat /\ DOMAIN q = 1..Len(q) /\ DOMAIN p = 1..Len(q) - 1
      /\ \A j \in 1..Len(q) - 1 : p[j] = IF j < i THEN q[j] ELSE q[j + 1]
  BY LenProperties DEF Dropped
<1> DEFINE from(j) == IF j < i THEN j ELSE j + 1
           to(j) == IF j < i THEN j ELSE j - 1
           I == {j \in DOMAIN q : q[j] = v}
           K == I \ {i}
           J == {j \in DOMAIN p : p[j] = v}
           f == [j \in J |-> from(j)]
<1>2. /\ \A j \in DOMAIN p : from(j) \in DOMAIN q /\ from(j) # i /\ q[from(j)] = p[j]
      /\ \A j, k \in DOMAIN p : j = k <=> from(j) = from(k)
  BY <1>1
<1>3. \A j \in DOMAIN q : j # i => to(j) \in DOMAIN p /\ p[to(j)] = q[j] /\ from(to(j)) = j
  BY <1>1
<1> HIDE DEF from, to
<1>4. f \in Bijection(J, K)
  <2>1. f \in [J -> K]
    BY <1>2
  <2>2. \A j, k \in J : f[j] = f[k] => j = k
    BY <1>2
  <2>3. \A k \in K : \E j \in J : f[j] = k
    BY <1>3
  <2> HIDE DEF f, J, K
  <2>4. f \in Injection(J, K)
    BY <2>1, <2>2 DEF Injection, IsInjective
  <2>5. f \in Surjection(J, K)
    BY <2>1, <2>3 DEF Surjection
  <2> QED
    BY <2>4, <2>5 DEF Bijection
<1>5. IsFiniteSet(I) /\ IsFiniteSet(J) /\ Cardinality(I) \in Nat
  BY OccurrencesType DEF Occurrences
<1>6. Occurrences(p, v) = Cardinality(J) /\ Occurrences(q, v) = Cardinality(I)
  BY DEF Occurrences
<1>7. i \in I <=> q[i] = v
  OBVIOUS
<1>8. K = IF q[i] = v THEN I \ {i} ELSE I
  OBVIOUS
<1> HIDE DEF I, J, K, f
<1>9. IsFiniteSet(K) /\ Cardinality(K) = Cardinality(J)
  BY <1>4, <1>5, FS_Bijection DEF ExistsBijection
<1>10. q[i] = v => Cardinality(I \ {i}) = Cardinality(I) - 1
  BY <1>5, <1>7, FS_RemoveElement
<1> QED
  BY <1>5, <1>6, <1>8, <1>9, <1>10

-----------------------------------------------------------------------------
\* A set of places that holds every place before one of its own is a prefix.
LEMMA Prefix ==
    ASSUME NEW n \in Nat, NEW T \in SUBSET (1..n),
           \A i \in T, j \in 1..n : j < i => j \in T
    PROVE  Cardinality(T) \in 0..n /\ \A j \in 1..n : j \in T <=> j <= Cardinality(T)
<1>1. CASE T = 1..n
  <2>1. Cardinality(T) = n
    BY <1>1, FS_Interval
  <2> QED
    BY <1>1, <2>1
<1>2. CASE T # 1..n
  <2> DEFINE G == (1..n) \ T
  <2>1. PICK x \in G : \A y \in G : x <= y
    <3>1. G # {} /\ G \subseteq 1..n
      BY <1>2, Zenon
    <3>2. G \in SUBSET Nat
      BY <3>1
    <3> HIDE DEF G
    <3> QED
      BY <3>1, <3>2, Least
  <2>2. \A j \in 1..n : j \in T <=> j <= x - 1
    BY <2>1
  <2>3. T = 1..(x - 1)
    <3>1. T \subseteq 1..(x - 1)
      BY <2>1, <2>2
    <3>2. 1..(x - 1) \subseteq T
      BY <2>1, <2>2
    <3> QED
      BY <3>1, <3>2
  <2>4. Cardinality(T) = x - 1
    BY <2>1, <2>3, FS_Interval
  <2> QED
    BY <2>1, <2>2, <2>4
<1> QED
  BY <1>1, <1>2

\* What follows the first k elements.
LEMMA Rest ==
    ASSUME NEW S, NEW q \in Seq(S), NEW k \in 0..Len(q)
    PROVE  /\ SubSeq(q, k + 1, Len(q)) \in Seq(S) /\ Len(SubSeq(q, k + 1, Len(q))) = Len(q) - k
           /\ \A i \in 1..Len(q) - k : SubSeq(q, k + 1, Len(q))[i] = q[k + i]
<1>1. Len(q) \in Nat
  BY LenProperties
<1> QED
  BY <1>1

\* One sequence is put after another.
LEMMA ConcatFacts ==
    ASSUME NEW S, NEW p \in Seq(S), NEW s \in Seq(S)
    PROVE  p \o s \in Seq(S) /\ ToSet(p \o s) = ToSet(p) \cup ToSet(s)
<1> DEFINE q == p \o s
           m == Len(p)
           n == Len(s)
<1>1. /\ q \in Seq(S) /\ Len(q) = m + n /\ m \in Nat /\ n \in Nat
      /\ \A i \in 1..m + n : q[i] = IF i <= m THEN p[i] ELSE s[i - m]
      /\ DOMAIN p = 1..m /\ DOMAIN s = 1..n /\ DOMAIN q = 1..m + n
  BY ConcatProperties, LenProperties
<1> HIDE DEF q, m, n
<1>2. /\ \A i \in 1..m : i \in DOMAIN q /\ q[i] = p[i]
      /\ \A i \in 1..n : m + i \in DOMAIN q /\ q[m + i] = s[i] /\ m + i \notin 1..m
  <2>1. \A i \in 1..n : m + i \in 1..m + n /\ ~(m + i <= m) /\ (m + i) - m = i
    BY <1>1
  <2>2. \A i \in 1..m : i \in 1..m + n /\ i <= m
    BY <1>1
  <2> QED
    BY <1>1, <2>1, <2>2
<1>3. \A j \in DOMAIN q : j \in 1..m \/ (j - m \in 1..n /\ j = m + (j - m))
  BY <1>1
<1>4. ToSet(q) = ToSet(p) \cup ToSet(s)
  <2>1. ToSet(q) \subseteq ToSet(p) \cup ToSet(s)
    BY <1>1, <1>2, <1>3 DEF ToSet
  <2>2. ToSet(p) \subseteq ToSet(q) /\ ToSet(s) \subseteq ToSet(q)
    BY <1>1, <1>2 DEF ToSet
  <2> QED
    BY <2>1, <2>2
<1> QED
  BY <1>1, <1>4 DEF q

\* The occurrences in both are counted.
LEMMA OccurrencesConcat ==
    ASSUME NEW S, NEW p \in Seq(S), NEW s \in Seq(S), NEW v
    PROVE  Occurrences(p \o s, v) = Occurrences(p, v) + Occurrences(s, v)
<1> DEFINE q == p \o s
           m == Len(p)
           n == Len(s)
<1>1. /\ q \in Seq(S) /\ Len(q) = m + n /\ m \in Nat /\ n \in Nat
      /\ \A i \in 1..m + n : q[i] = IF i <= m THEN p[i] ELSE s[i - m]
      /\ DOMAIN p = 1..m /\ DOMAIN s = 1..n /\ DOMAIN q = 1..m + n
  BY ConcatProperties, LenProperties
<1> HIDE DEF q, m, n
<1>2. /\ \A i \in 1..m : i \in DOMAIN q /\ q[i] = p[i]
      /\ \A i \in 1..n : m + i \in DOMAIN q /\ q[m + i] = s[i] /\ m + i \notin 1..m
  <2>1. \A i \in 1..n : m + i \in 1..m + n /\ ~(m + i <= m) /\ (m + i) - m = i
    BY <1>1
  <2>2. \A i \in 1..m : i \in 1..m + n /\ i <= m
    BY <1>1
  <2> QED
    BY <1>1, <2>1, <2>2
<1>3. \A j \in DOMAIN q : j \in 1..m \/ (j - m \in 1..n /\ j = m + (j - m))
  BY <1>1
<1>4. Occurrences(q, v) = Occurrences(p, v) + Occurrences(s, v)
  <2> DEFINE I == {i \in DOMAIN p : p[i] = v}
             J == {i \in DOMAIN s : s[i] = v}
             K == {i \in DOMAIN q : q[i] = v}
             M == K \ I
             f == [i \in J |-> m + i]
  <2>1. /\ IsFiniteSet(I) /\ Cardinality(I) \in Nat /\ Cardinality(I) = Occurrences(p, v)
        /\ IsFiniteSet(J) /\ Cardinality(J) \in Nat /\ Cardinality(J) = Occurrences(s, v)
        /\ IsFiniteSet(K) /\ Cardinality(K) \in Nat /\ Cardinality(K) = Occurrences(q, v)
    <3>1. IsFiniteSet(I) /\ Cardinality(I) \in Nat
      BY OccurrencesType DEF Occurrences
    <3>2. IsFiniteSet(J) /\ Cardinality(J) \in Nat
      BY OccurrencesType DEF Occurrences
    <3>3. IsFiniteSet(K) /\ Cardinality(K) \in Nat
      BY <1>1, OccurrencesType DEF Occurrences
    <3> QED
      BY <3>1, <3>2, <3>3 DEF Occurrences
  <2>2. I \subseteq K
    BY <1>1, <1>2
  <2>3. \A j \in J : m + j \in M
    BY <1>1, <1>2
  <2>4. \A k \in M : k - m \in J /\ m + (k - m) = k
    BY <1>1, <1>2, <1>3
  <2>5. \A i, j \in J : m + i = m + j => i = j
    BY <1>1
  <2> HIDE DEF I, J, K, M
  <2>6. f \in Bijection(J, M)
    <3>1. f \in [J -> M] /\ \A j \in J : f[j] = m + j
      BY <2>3
    <3>2. \A i, j \in J : f[i] = f[j] => i = j
      BY <2>5, <3>1
    <3>3. \A k \in M : \E j \in J : f[j] = k
      BY <2>4, <3>1
    <3> HIDE DEF f
    <3>4. f \in Injection(J, M)
      BY <3>1, <3>2 DEF Injection, IsInjective
    <3>5. f \in Surjection(J, M)
      BY <3>1, <3>3 DEF Surjection
    <3> QED
      BY <3>4, <3>5 DEF Bijection
  <2> HIDE DEF f
  <2>7. IsFiniteSet(M) /\ Cardinality(M) = Cardinality(J)
    BY <2>1, <2>6, FS_Bijection DEF ExistsBijection
  <2>8. I \cup M = K /\ I \cap M = {}
    BY <2>2 DEF M
  <2>9. Cardinality(I \cup M) = Cardinality(I) + Cardinality(M) - Cardinality(I \cap M)
    BY <2>1, <2>7, FS_Union
  <2>10. Cardinality(I \cap M) = 0
    BY <2>8, FS_EmptySet
  <2>11. Cardinality(K) = Cardinality(I) + Cardinality(M) - 0
    <3>1. Cardinality(I \cup M) = Cardinality(K)
      BY <2>8, Zenon
    <3> QED
      BY <2>9, <2>10, <3>1
  <2> QED
    BY <2>1, <2>7, <2>11
<1> QED
  BY <1>4 DEF q

\* A sequence is its first k elements and the rest.
LEMMA Split ==
    ASSUME NEW S, NEW q \in Seq(S), NEW k \in 0..Len(q)
    PROVE  LET s == SubSeq(q, 1, k)
               t == SubSeq(q, k + 1, Len(q))
           IN  s \in Seq(S) /\ t \in Seq(S) /\ q = s \o t
<1> DEFINE s == SubSeq(q, 1, k)
           t == SubSeq(q, k + 1, Len(q))
           n == Len(q)
<1>1. n \in Nat /\ k \in Nat /\ k <= n
  BY LenProperties
<1>2. s \in Seq(S) /\ Len(s) = k /\ \A i \in 1..k : s[i] = q[i]
  <2>1. 1..k \subseteq 1..n
    BY <1>1
  <2> QED
    BY <1>1, <2>1
<1>3. t \in Seq(S) /\ Len(t) = n - k /\ \A i \in 1..n - k : t[i] = q[k + i]
  BY Rest
<1> HIDE DEF s, t, n
<1>4. /\ s \o t \in Seq(S) /\ Len(s \o t) = k + (n - k)
      /\ \A i \in 1..k + (n - k) : (s \o t)[i] = IF i <= k THEN s[i] ELSE t[i - k]
  <2>1. /\ s \o t \in Seq(S) /\ Len(s \o t) = Len(s) + Len(t)
        /\ \A i \in 1..Len(s) + Len(t) : (s \o t)[i] = IF i <= Len(s) THEN s[i] ELSE t[i - Len(s)]
    BY <1>2, <1>3, ConcatProperties
  <2>2. Len(s) = k /\ Len(t) = n - k
    BY <1>2, <1>3
  <2> QED
    BY <2>1, <2>2
<1>5. \A i \in 1..n : (s \o t)[i] = q[i]
  <2> TAKE i \in 1..n
  <2>1. i \in 1..k + (n - k)
    BY <1>1
  <2>2. CASE i <= k
    BY <1>1, <1>2, <1>4, <2>1, <2>2
  <2>3. CASE ~(i <= k)
    <3>1. i - k \in 1..n - k /\ k + (i - k) = i
      BY <1>1, <2>3
    <3> QED
      BY <1>3, <1>4, <2>1, <2>3, <3>1
  <2> QED
    BY <2>2, <2>3
<1>6. Len(s \o t) = Len(q)
  BY <1>1, <1>4 DEF n
<1>7. q = s \o t
  BY <1>4, <1>5, <1>6, SeqEqual DEF n
<1> QED
  BY <1>2, <1>3, <1>7 DEF s, t

-----------------------------------------------------------------------------
(***************************************************************************)
(* Sequences without repetition                                            *)
(***************************************************************************)

\* The first of a sequence comes before the others.
LEMMA FirstBefore ==
    ASSUME NEW S, NEW q \in Seq(S), q # <<>>, NEW b \in ToSet(Tail(q))
    PROVE  Before(q, Head(q), b)
<1>1. Tail(q) \in Seq(S) /\ Dropped(q, 1, Tail(q)) /\ Head(q) = q[1] /\ 1 \in DOMAIN q
  BY TailDrops
<1>2. Len(q) \in Nat /\ DOMAIN q = 1..Len(q) /\ DOMAIN Tail(q) = 1..Len(Tail(q))
  BY <1>1, LenProperties
<1>3. PICK j \in DOMAIN Tail(q) : Tail(q)[j] = b
  BY DEF ToSet
<1>4. j \in 1..Len(q) - 1 /\ Tail(q)[j] = q[j + 1]
  BY <1>1, <1>2, <1>3 DEF Dropped
<1>5. j + 1 \in DOMAIN q /\ 1 < j + 1
  BY <1>2, <1>4
<1> QED
  BY <1>1, <1>3, <1>4, <1>5 DEF Before

\* The sequence of what is before something.
LEMMA BeforeIn ==
    ASSUME NEW q, NEW a, NEW b, Before(q, a, b)
    PROVE  a \in ToSet(q) /\ b \in ToSet(q)
  BY DEF Before, ToSet

\* Nothing is twice in q.
AllOnce(q) == \A v \in ToSet(q) : Once(q, v)

\* One more at the end.
LEMMA OnceAppend ==
    ASSUME NEW S, NEW q \in Seq(S), AllOnce(q), NEW v \in S, v \notin ToSet(q)
    PROVE  /\ Append(q, v) \in Seq(S) /\ AllOnce(Append(q, v)) /\ ToSet(Append(q, v)) = ToSet(q) \cup {v}
           /\ Len(Append(q, v)) = Len(q) + 1
           /\ \A a, b : Before(Append(q, v), a, b) <=> Before(q, a, b) \/ (a \in ToSet(q) /\ b = v)
<1>1. PICK p : p = Append(q, v)
  OBVIOUS
<1>2. /\ p \in Seq(S) /\ ToSet(p) = ToSet(q) \cup {v}
      /\ \A a, b : Before(p, a, b) <=> Before(q, a, b) \/ (a \in ToSet(q) /\ b = v)
      /\ \A a : a # v /\ Once(q, a) => Once(p, a)
      /\ Once(p, v)
  BY <1>1, AppendFacts
<1>3. AllOnce(p)
  BY <1>2 DEF AllOnce
<1>4. Len(p) = Len(q) + 1
  BY <1>1, AppendProperties
<1> QED
  BY <1>1, <1>2, <1>3, <1>4

\* One more in the middle.
LEMMA OnceInsert ==
    ASSUME NEW S, NEW q \in Seq(S), AllOnce(q), NEW v \in S, v \notin ToSet(q), NEW i \in 1..Len(q) + 1
    PROVE  /\ InsertAt(q, i, v) \in Seq(S) /\ AllOnce(InsertAt(q, i, v))
           /\ ToSet(InsertAt(q, i, v)) = ToSet(q) \cup {v} /\ Len(InsertAt(q, i, v)) = Len(q) + 1
<1>1. PICK p : p = InsertAt(q, i, v)
  OBVIOUS
<1>2. /\ p \in Seq(S) /\ ToSet(p) = ToSet(q) \cup {v} /\ Len(p) = Len(q) + 1
      /\ \A a : a # v /\ Once(q, a) => Once(p, a)
      /\ Once(p, v)
  BY <1>1, InsertFacts
<1>3. AllOnce(p)
  BY <1>2 DEF AllOnce
<1> QED
  BY <1>1, <1>2, <1>3

\* One is left out.
LEMMA OnceRemove ==
    ASSUME NEW S, NEW q \in Seq(S), AllOnce(q), NEW i \in 1..Len(q)
    PROVE  /\ RemoveAt(q, i) \in Seq(S) /\ AllOnce(RemoveAt(q, i))
           /\ ToSet(RemoveAt(q, i)) = ToSet(q) \ {q[i]} /\ Len(RemoveAt(q, i)) = Len(q) - 1
           /\ \A a, b : Before(RemoveAt(q, i), a, b) => Before(q, a, b)
           /\ q[i] \in ToSet(q)
<1>1. PICK p : p = RemoveAt(q, i)
  OBVIOUS
<1>2. DOMAIN q = 1..Len(q)
  BY LenProperties
<1>3. p \in Seq(S) /\ Dropped(q, i, p) /\ Len(p) = Len(q) - 1
  BY <1>1, Removed DEF Dropped
<1>4. q[i] \in ToSet(q) /\ Once(q, q[i])
  BY <1>2 DEF ToSet, AllOnce
<1>5. /\ \A a : a # q[i] => (a \in ToSet(p) <=> a \in ToSet(q))
      /\ ToSet(p) \subseteq ToSet(q)
      /\ \A a, b : Before(p, a, b) => Before(q, a, b)
      /\ \A v : Once(q, v) => Once(p, v)
      /\ q[i] \notin ToSet(p)
  BY <1>2, <1>3, <1>4, DropFacts
<1>6. AllOnce(p)
  BY <1>5 DEF AllOnce
<1> QED
  BY <1>1, <1>3, <1>4, <1>5, <1>6

\* The first is left out.
LEMMA OnceTail ==
    ASSUME NEW S, NEW q \in Seq(S), AllOnce(q), q # <<>>
    PROVE  /\ Head(q) \in S /\ Head(q) \in ToSet(q) /\ Tail(q) \in Seq(S) /\ AllOnce(Tail(q))
           /\ ToSet(Tail(q)) = ToSet(q) \ {Head(q)} /\ Len(Tail(q)) = Len(q) - 1
           /\ \A a, b : Before(Tail(q), a, b) => Before(q, a, b)
           /\ \A b \in ToSet(Tail(q)) : Before(q, Head(q), b)
<1>1. PICK p : p = Tail(q)
  OBVIOUS
<1>2. p \in Seq(S) /\ Dropped(q, 1, p) /\ Head(q) = q[1] /\ 1 \in DOMAIN q
  BY <1>1, TailDrops
<1>3. q[1] \in ToSet(q) /\ Once(q, q[1])
  BY <1>2 DEF ToSet, AllOnce
<1>4. /\ \A a : a # q[1] => (a \in ToSet(p) <=> a \in ToSet(q))
      /\ ToSet(p) \subseteq ToSet(q)
      /\ \A a, b : Before(p, a, b) => Before(q, a, b)
      /\ \A v : Once(q, v) => Once(p, v)
      /\ q[1] \notin ToSet(p)
  BY <1>2, <1>3, DropFacts
<1>5. AllOnce(p)
  BY <1>4 DEF AllOnce
<1>6. Head(q) \in S
  BY EmptySeq, HeadTailProperties
<1>7. Len(p) = Len(q) - 1
  BY <1>2 DEF Dropped
<1>8. \A b \in ToSet(Tail(q)) : Before(q, Head(q), b)
  BY FirstBefore
<1> QED
  BY <1>1, <1>2, <1>3, <1>4, <1>5, <1>6, <1>7, <1>8

\* There are as many members as elements.
LEMMA OnceCount ==
    ASSUME NEW S, NEW q \in Seq(S), AllOnce(q)
    PROVE  IsFiniteSet(ToSet(q)) /\ Cardinality(ToSet(q)) = Len(q)
<1> DEFINE f == [i \in 1..Len(q) |-> q[i]]
<1>1. Len(q) \in Nat /\ DOMAIN q = 1..Len(q)
  BY LenProperties
<1>2. \A i, j \in 1..Len(q) : q[i] = q[j] => i = j
  BY <1>1 DEF AllOnce, Once, ToSet
<1>3. \A r : r \in ToSet(q) <=> \E i \in 1..Len(q) : q[i] = r
  BY <1>1 DEF ToSet
<1>4. f \in Bijection(1..Len(q), ToSet(q))
  <2>1. f \in [1..Len(q) -> ToSet(q)]
    BY <1>3
  <2>2. f \in Injection(1..Len(q), ToSet(q))
    BY <1>2, <2>1, Fun_IsInj
  <2>3. f \in Surjection(1..Len(q), ToSet(q))
    BY <1>3, <2>1, Fun_IsSurj
  <2> QED
    BY <2>2, <2>3 DEF Bijection
<1>5. IsFiniteSet(1..Len(q)) /\ Cardinality(1..Len(q)) = Len(q)
  BY <1>1, FS_Interval
<1> HIDE DEF f
<1> QED
  BY <1>4, <1>5, FS_Bijection DEF ExistsBijection

\* Only the empty sequence has no members.
LEMMA NoneIn ==
    ASSUME NEW S, NEW q \in Seq(S)
    PROVE  q = <<>> <=> ToSet(q) = {}
<1>1. q = <<>> <=> Len(q) = 0
  BY EmptySeq
<1>2. Len(q) \in Nat /\ DOMAIN q = 1..Len(q)
  BY LenProperties
<1>3. Len(q) # 0 => 1 \in 1..Len(q)
  BY <1>2
<1>4. Len(q) = 0 => 1..Len(q) = {}
  BY <1>2
<1> QED
  BY <1>1, <1>2, <1>3, <1>4 DEF ToSet

\* The empty sequence.
LEMMA NothingOnce == AllOnce(<<>>) /\ Len(<<>>) = 0 /\ \A a, b : ~Before(<<>>, a, b)
<1>1. PICK q : q = <<>>
  OBVIOUS
<1>2. DOMAIN q = {}
  BY <1>1
<1>3. ToSet(q) = {}
  BY <1>2 DEF ToSet
<1>4. AllOnce(q) /\ \A a, b : ~Before(q, a, b)
  BY <1>2, <1>3 DEF AllOnce, Before
<1> QED
  BY <1>1, <1>4

\* What one sequence after the other holds, and in which order.
LEMMA OnceConcat ==
    ASSUME NEW S, NEW p \in Seq(S), NEW s \in Seq(S), AllOnce(p), AllOnce(s), ToSet(p) \cap ToSet(s) = {},
           NEW q, q = p \o s
    PROVE  /\ q \in Seq(S) /\ ToSet(q) = ToSet(p) \cup ToSet(s) /\ AllOnce(q)
           /\ \A a, b : Before(q, a, b) =>
                 Before(p, a, b) \/ Before(s, a, b) \/ (a \in ToSet(p) /\ b \in ToSet(s))
<1>1. q \in Seq(S) /\ ToSet(q) = ToSet(p) \cup ToSet(s)
  BY ConcatFacts
<1>2. PICK m \in Nat, n \in Nat :
        /\ m = Len(p) /\ n = Len(s) /\ DOMAIN p = 1..m /\ DOMAIN s = 1..n /\ DOMAIN q = 1..m + n
        /\ \A i \in 1..m + n : q[i] = IF i <= m THEN p[i] ELSE s[i - m]
  BY ConcatProperties, LenProperties
<1>3. \A i \in 1..m + n : \/ i \in 1..m /\ q[i] = p[i] /\ q[i] \in ToSet(p)
                          \/ i - m \in 1..n /\ q[i] = s[i - m] /\ q[i] \in ToSet(s)
  <2> SUFFICES ASSUME NEW i \in 1..m + n
               PROVE  \/ i \in 1..m /\ q[i] = p[i] /\ q[i] \in ToSet(p)
                      \/ i - m \in 1..n /\ q[i] = s[i - m] /\ q[i] \in ToSet(s)
    OBVIOUS
  <2>1. CASE i <= m
    BY <1>2, <2>1 DEF ToSet
  <2>2. CASE ~(i <= m)
    <3>1. i - m \in 1..n
      BY <1>2, <2>2
    <3> QED
      BY <1>2, <2>2, <3>1 DEF ToSet
  <2> QED
    BY <2>1, <2>2
<1>4. (\A i, j \in 1..m : p[i] = p[j] => i = j) /\ (\A i, j \in 1..n : s[i] = s[j] => i = j)
  BY <1>2 DEF AllOnce, Once, ToSet
<1>5. AllOnce(q)
  <2> SUFFICES ASSUME NEW i \in 1..m + n, NEW j \in 1..m + n, q[i] = q[j] PROVE i = j
    BY <1>2 DEF AllOnce, Once
  <2>1. CASE i \in 1..m /\ q[i] = p[i] /\ q[i] \in ToSet(p)
    BY <1>3, <1>4, <2>1
  <2>2. CASE i - m \in 1..n /\ q[i] = s[i - m] /\ q[i] \in ToSet(s)
    <3>1. j - m \in 1..n /\ q[j] = s[j - m]
      BY <1>3, <2>2
    <3>2. i - m = j - m
      BY <1>4, <2>2, <3>1
    <3> QED
      BY <1>2, <3>2
  <2> QED
    BY <1>3, <2>1, <2>2
<1>6. ASSUME NEW a, NEW b, Before(q, a, b)
      PROVE  Before(p, a, b) \/ Before(s, a, b) \/ (a \in ToSet(p) /\ b \in ToSet(s))
  <2>1. PICK i \in 1..m + n, j \in 1..m + n : i < j /\ q[i] = a /\ q[j] = b
    BY <1>2, <1>6 DEF Before
  <2>2. CASE i \in 1..m /\ j \in 1..m
    <3>1. p[i] = a /\ p[j] = b
      BY <1>2, <2>1, <2>2
    <3> QED
      BY <1>2, <2>1, <2>2, <3>1 DEF Before
  <2>3. CASE i \notin 1..m /\ j \notin 1..m
    <3>1. i - m \in 1..n /\ j - m \in 1..n /\ i - m < j - m
      BY <1>2, <1>3, <2>1, <2>3
    <3>2. s[i - m] = a /\ s[j - m] = b
      BY <1>2, <2>1, <2>3
    <3> QED
      BY <1>2, <3>1, <3>2 DEF Before
  <2>4. CASE i \in 1..m /\ j \notin 1..m
    BY <1>3, <2>1, <2>4, <1>2 DEF ToSet
  <2>5. ~(i \notin 1..m /\ j \in 1..m)
    BY <1>2, <2>1
  <2> QED
    BY <2>2, <2>3, <2>4, <2>5
<1> QED
  BY <1>1, <1>5, <1>6

-----------------------------------------------------------------------------
(***************************************************************************)
(* Ranks in a finite order                                                 *)
(***************************************************************************)

\* R is a strict total order of S.
Orders(R, S) ==
    /\ \A x \in S : <<x, x>> \notin R
    /\ \A x, y, z \in S : <<x, y>> \in R /\ <<y, z>> \in R => <<x, z>> \in R
    /\ \A x, y \in S : x = y \/ <<x, y>> \in R \/ <<y, x>> \in R

\* Those before x.
Lower(S, R, x) == {y \in S : <<y, x>> \in R}

\* One that comes before has a lower rank.
LEMMA RankLess ==
    ASSUME NEW S, IsFiniteSet(S), NEW R, Orders(R, S), NEW x \in S, NEW y \in S, <<x, y>> \in R
    PROVE  Cardinality(Lower(S, R, x)) < Cardinality(Lower(S, R, y))
<1>1. PICK A, B : A = Lower(S, R, x) /\ B = Lower(S, R, y)
  OBVIOUS
<1>2. A \cup {x} \subseteq B /\ x \notin A /\ A \subseteq S /\ B \subseteq S
  BY <1>1 DEF Lower, Orders
<1>3. IsFiniteSet(A) /\ IsFiniteSet(B)
  BY <1>2, FS_Subset
<1>4. Cardinality(A \cup {x}) = Cardinality(A) + 1 /\ IsFiniteSet(A \cup {x})
  BY <1>2, <1>3, FS_AddElement
<1>5. Cardinality(A \cup {x}) <= Cardinality(B)
  BY <1>2, <1>3, FS_Subset
<1>6. Cardinality(A) \in Nat /\ Cardinality(B) \in Nat
  BY <1>3, FS_CardinalityType
<1>7. Cardinality(A) < Cardinality(B)
  BY <1>4, <1>5, <1>6
<1> QED
  BY <1>1, <1>7

\* A rank is less than the number of members.
LEMMA RankBound ==
    ASSUME NEW S, IsFiniteSet(S), NEW R, Orders(R, S), NEW x \in S
    PROVE  Cardinality(Lower(S, R, x)) \in 0..Cardinality(S) - 1 /\ Cardinality(S) \in Nat
<1>1. PICK A : A = Lower(S, R, x)
  OBVIOUS
<1>2. A \subseteq S \ {x}
  BY <1>1 DEF Lower, Orders
<1>3. IsFiniteSet(S \ {x}) /\ Cardinality(S \ {x}) = Cardinality(S) - 1
  BY FS_RemoveElement
<1>4. IsFiniteSet(A) /\ Cardinality(A) <= Cardinality(S \ {x})
  BY <1>2, <1>3, FS_Subset
<1>5. Cardinality(A) \in Nat /\ Cardinality(S) \in Nat
  BY <1>4, FS_CardinalityType
<1>6. Cardinality(A) \in 0..Cardinality(S) - 1
  BY <1>3, <1>4, <1>5
<1> QED
  BY <1>1, <1>5, <1>6

\* Everyone has a place.
LEMMA RankOnto ==
    ASSUME NEW S, IsFiniteSet(S), NEW R, Orders(R, S), NEW k \in 0..Cardinality(S) - 1
    PROVE  \E x \in S : Cardinality(Lower(S, R, x)) = k
<1>1. PICK f : f = [x \in S |-> Cardinality(Lower(S, R, x))]
  OBVIOUS
<1>2. PICK n \in Nat : n = Cardinality(S)
  BY FS_CardinalityType
<1>3. f \in [S -> 0..n - 1]
  BY <1>1, <1>2, RankBound
<1>4. \A x, y \in S : f[x] = f[y] => x = y
  <2> SUFFICES ASSUME NEW x \in S, NEW y \in S, f[x] = f[y], x # y PROVE FALSE
    OBVIOUS
  <2>1. f[x] \in Nat /\ f[y] \in Nat
    BY <1>3
  <2>2. <<x, y>> \in R \/ <<y, x>> \in R
    BY DEF Orders
  <2>3. f[x] < f[y] \/ f[y] < f[x]
    BY <1>1, <2>2, RankLess
  <2> QED
    BY <2>1, <2>3
<1>5. f \in Injection(S, 0..n - 1)
  BY <1>3, <1>4, Fun_IsInj
<1>6. IsFiniteSet(0..n - 1) /\ Cardinality(0..n - 1) = n
  BY FS_Interval
<1>7. f \in Surjection(S, 0..n - 1)
  BY <1>2, <1>5, <1>6, FS_Injection
<1>8. \A y \in 0..n - 1 : \E x \in S : f[x] = y
  BY <1>7 DEF Surjection
<1> QED
  BY <1>1, <1>2, <1>8

=============================================================================
