----------------------------- MODULE QueueLemmas -----------------------------
(***************************************************************************)
(* Facts about queues, in which nothing is twice, and about numbers.       *)
(***************************************************************************)
EXTENDS Naturals, SequencesExt, FiniteSetTheorems, SequenceTheorems, WellFoundedInduction, NaturalsInduction, TLAPS

\* Removing one element keeps the others and adds none.
LEMMA RemoveAtProperties ==
  ASSUME NEW S, NEW s \in Seq(S), NEW k \in 1 .. Len(s)
  PROVE  /\ RemoveAt(s, k) \in Seq(S)
         /\ Len(RemoveAt(s, k)) = Len(s) - 1
         /\ \A j \in DOMAIN RemoveAt(s, k) :
              RemoveAt(s, k)[j] = IF j < k THEN s[j] ELSE s[j + 1]
<1>1. k \in 1 .. Len(s) /\ Len(s) \in Nat
  OBVIOUS
<1>2. /\ SubSeq(s, 1, k - 1) \in Seq(S)
      /\ Len(SubSeq(s, 1, k - 1)) = k - 1
      /\ \A j \in 1 .. k - 1 : SubSeq(s, 1, k - 1)[j] = s[j]
  BY <1>1, SubSeqProperties
<1>3. /\ SubSeq(s, k + 1, Len(s)) \in Seq(S)
      /\ Len(SubSeq(s, k + 1, Len(s))) = Len(s) - k
      /\ \A j \in 1 .. Len(s) - k : SubSeq(s, k + 1, Len(s))[j] = s[k + j]
  BY <1>1, SubSeqProperties
<1> DEFINE a == SubSeq(s, 1, k - 1)
           b == SubSeq(s, k + 1, Len(s))
<1>4. RemoveAt(s, k) = a \o b
  BY DEF RemoveAt
<1>5. /\ a \in Seq(S) /\ Len(a) = k - 1
      /\ b \in Seq(S) /\ Len(b) = Len(s) - k
      /\ \A j \in 1 .. k - 1 : a[j] = s[j]
      /\ \A j \in 1 .. Len(s) - k : b[j] = s[k + j]
  BY <1>2, <1>3
<1> HIDE DEF a, b
<1>6. /\ a \o b \in Seq(S)
      /\ Len(a \o b) = Len(a) + Len(b)
      /\ \A j \in 1 .. Len(a) + Len(b) :
           (a \o b)[j] = IF j <= Len(a) THEN a[j] ELSE b[j - Len(a)]
  BY <1>5, ConcatProperties
<1>7. Len(a \o b) = Len(s) - 1 /\ DOMAIN (a \o b) = 1 .. Len(s) - 1
  BY <1>1, <1>5, <1>6
<1>8. ASSUME NEW j \in 1 .. Len(s) - 1
      PROVE  (a \o b)[j] = IF j < k THEN s[j] ELSE s[j + 1]
  <2>0. j \in Int /\ k \in Int
    BY <1>1
  <2>1. /\ j \in 1 .. Len(a) + Len(b) /\ Len(a) = k - 1
        /\ (a \o b)[j] = IF j <= Len(a) THEN a[j] ELSE b[j - Len(a)]
    <3>1. Len(a) + Len(b) = Len(s) - 1 /\ Len(a) = k - 1
      BY <1>1, <1>5
    <3>2. j \in 1 .. Len(a) + Len(b)
      BY <3>1
    <3> QED BY <3>1, <3>2, <1>6
  <2>2. CASE j < k
    <3>1. j \in 1 .. k - 1 /\ j <= Len(a)
      BY <2>0, <2>2, <2>1
    <3> QED BY <3>1, <2>2, <2>1, <1>5
  <2>3. CASE k <= j
    <3>0. j \in Int /\ k \in Int /\ Len(s) \in Int /\ k <= j /\ j <= Len(s) - 1
      BY <2>3, <1>1
    <3>1. j - (k - 1) \in 1 .. Len(s) - k /\ k + (j - (k - 1)) = j + 1
      BY <3>0
    <3>2. ~(j <= Len(a))
      BY <3>0, <2>1
    <3>3. (a \o b)[j] = b[j - (k - 1)]
      BY <3>2, <2>1
    <3> QED BY <2>0, <2>3, <3>1, <3>3, <1>5
  <2>4. j < k \/ k <= j
    BY <2>0
  <2> QED BY <2>2, <2>3, <2>4
<1> QED BY <1>4, <1>6, <1>7, <1>8

\* A queue without members is empty.
LEMMA SeqEmpty ==
  ASSUME NEW S
  PROVE  /\ <<>> \in Seq(S) /\ IsInjective(<<>>) /\ ToSet(<<>>) = {}
         /\ \A q \in Seq(S) : ToSet(q) = {} <=> q = <<>>
<1>1. <<>> \in Seq(S) /\ IsInjective(<<>>) /\ ToSet(<<>>) = {}
  BY DEF IsInjective, ToSet
<1>2. ASSUME NEW q \in Seq(S), q # <<>>
      PROVE  ToSet(q) # {}
  <2>1. 1 \in DOMAIN q
    BY <1>2, EmptySeq
  <2> QED BY <2>1 DEF ToSet
<1> QED BY <1>1, <1>2

\* A new element at the end.
LEMMA SeqAppend ==
  ASSUME NEW S, NEW q \in Seq(S), IsInjective(q), NEW t \in S, t \notin ToSet(q)
  PROVE  /\ Append(q, t) \in Seq(S) /\ IsInjective(Append(q, t))
         /\ ToSet(Append(q, t)) = ToSet(q) \cup {t}
<1>0. \A k \in DOMAIN q : q[k] # t
  BY DEF ToSet
<1>1. /\ Append(q, t) \in Seq(S)
      /\ DOMAIN Append(q, t) = 1 .. Len(q) + 1
      /\ \A k \in 1 .. Len(q) : Append(q, t)[k] = q[k]
      /\ Append(q, t)[Len(q) + 1] = t
  BY AppendProperties
<1>2. Len(q) \in Nat /\ DOMAIN q = 1 .. Len(q)
  OBVIOUS
<1>3. IsInjective(Append(q, t)) /\ ToSet(Append(q, t)) = ToSet(q) \cup {t}
  BY <1>0, <1>1, <1>2 DEF IsInjective, ToSet
<1> QED BY <1>1, <1>3

\* The tail of a queue without duplicates has all its members but the head.
LEMMA SeqTail ==
  ASSUME NEW S, NEW q \in Seq(S), IsInjective(q), q # <<>>
  PROVE  /\ Head(q) \in S /\ Head(q) \in ToSet(q)
         /\ Tail(q) \in Seq(S) /\ IsInjective(Tail(q))
         /\ ToSet(Tail(q)) = ToSet(q) \ {Head(q)}
<1>1. /\ Head(q) \in S /\ Tail(q) \in Seq(S)
      /\ Len(Tail(q)) = Len(q) - 1
      /\ \A k \in 1 .. Len(Tail(q)) : Tail(q)[k] = q[k + 1]
  BY HeadTailProperties
<1>2. /\ Len(q) \in Nat \ {0} /\ DOMAIN q = 1 .. Len(q) /\ Head(q) = q[1]
      /\ DOMAIN Tail(q) = 1 .. Len(q) - 1
  BY <1>1, EmptySeq
<1>3. Head(q) \in ToSet(q)
  BY <1>2 DEF ToSet
<1>4. IsInjective(Tail(q))
  BY <1>1, <1>2 DEF IsInjective
<1>5. ToSet(Tail(q)) = ToSet(q) \ {Head(q)}
  <2>1. \A k \in DOMAIN q : k = 1 \/ (k - 1 \in DOMAIN Tail(q) /\ Tail(q)[k - 1] = q[k])
    BY <1>1, <1>2
  <2>2. \A k \in DOMAIN Tail(q) : k + 1 \in DOMAIN q /\ k + 1 # 1 /\ Tail(q)[k] = q[k + 1]
    BY <1>1, <1>2
  <2>3. \A x \in ToSet(Tail(q)) : x \in ToSet(q) /\ x # q[1]
    BY <1>2, <2>2 DEF ToSet, IsInjective
  <2>4. \A x \in ToSet(q) : x = q[1] \/ x \in ToSet(Tail(q))
    BY <2>1 DEF ToSet
  <2>5. \A x \in ToSet(q) \ {q[1]} : x \in ToSet(Tail(q))
    BY <2>4
  <2> QED BY <1>2, <2>3, <2>5
<1> QED BY <1>1, <1>3, <1>4, <1>5

\* One element is taken out.
LEMMA SeqRemove ==
  ASSUME NEW S, NEW q \in Seq(S), IsInjective(q), NEW k \in DOMAIN q
  PROVE  /\ RemoveAt(q, k) \in Seq(S) /\ IsInjective(RemoveAt(q, k))
         /\ ToSet(RemoveAt(q, k)) = ToSet(q) \ {q[k]}
<1> DEFINE r == RemoveAt(q, k)
<1>1. /\ r \in Seq(S) /\ Len(r) = Len(q) - 1
      /\ \A j \in DOMAIN r : r[j] = IF j < k THEN q[j] ELSE q[j + 1]
  BY RemoveAtProperties
<1>2. Len(q) \in Nat /\ DOMAIN q = 1 .. Len(q) /\ k \in 1 .. Len(q)
  OBVIOUS
<1> HIDE DEF r
<1>3. DOMAIN r = 1 .. Len(q) - 1
  BY <1>1
<1>4. \A j \in DOMAIN r :
        \/ j < k /\ j \in DOMAIN q /\ r[j] = q[j]
        \/ k <= j /\ j + 1 \in DOMAIN q /\ r[j] = q[j + 1]
  BY <1>1, <1>2, <1>3
<1>5. \A j \in DOMAIN q :
        \/ j = k
        \/ j < k /\ j \in DOMAIN r /\ r[j] = q[j]
        \/ k < j /\ j - 1 \in DOMAIN r /\ r[j - 1] = q[j]
  <2> SUFFICES ASSUME NEW j \in DOMAIN q
               PROVE  \/ j = k
                      \/ j < k /\ j \in DOMAIN r /\ r[j] = q[j]
                      \/ k < j /\ j - 1 \in DOMAIN r /\ r[j - 1] = q[j]
    OBVIOUS
  <2>1. j = k \/ j < k \/ k < j
    BY <1>2
  <2>2. CASE j < k
    BY <2>2, <1>1, <1>2, <1>3
  <2>3. CASE k < j
    BY <2>3, <1>1, <1>2, <1>3
  <2> QED BY <2>1, <2>2, <2>3
<1>6. IsInjective(r)
  BY <1>2, <1>3, <1>4 DEF IsInjective
<1>7. ToSet(r) = ToSet(q) \ {q[k]}
  BY <1>2, <1>3, <1>4, <1>5 DEF ToSet, IsInjective
<1> QED BY <1>1, <1>6, <1>7 DEF r

-----------------------------------------------------------------------------
(* Numbers.                                                                *)

\* The order of the numbers, as a relation.
Less == {p \in Nat \X Nat : p[1] < p[2]}

\* A set of numbers has a smallest one.
LEMMA Smallest ==
  ASSUME NEW T \in SUBSET Nat, T # {}
  PROVE  \E n \in T : \A k \in T : n <= k
<1>1. IsWellFoundedOn(Less, Nat) /\ T \subseteq Nat
  BY NatLessThanWellFounded DEF OpToRel, Less
<1>2. PICK n \in T : \A k \in T : ~ (<<k, n>> \in Less)
  BY <1>1, WFMin
<1>3. ASSUME NEW k \in T PROVE n <= k
  <2>1. <<k, n>> \in Nat \X Nat /\ <<k, n>>[1] = k /\ <<k, n>>[2] = n
    OBVIOUS
  <2>2. ~ (k < n)
    BY <2>1, <1>2 DEF Less
  <2> QED BY <2>2
<1> QED BY <1>3

\* Induction up to N.
LEMMA UpTo ==
  ASSUME NEW N \in Nat, NEW S \in SUBSET Nat, 1 \in S,
         \A n \in 1 .. N - 1 : n \in S => n + 1 \in S
  PROVE  1 .. N \subseteq S
<1> SUFFICES ASSUME NEW m \in 1 .. N, m \notin S PROVE FALSE
  OBVIOUS
<1> DEFINE T == (1 .. N) \ S
<1>0. T \in SUBSET Nat /\ T # {}
  OBVIOUS
<1> HIDE DEF T
<1>1. PICK n \in T : \A k \in T : n <= k
  BY <1>0, Smallest
<1>2. n \in 1 .. N /\ n \notin S
  BY DEF T
<1>3. /\ n # 1 /\ n \in Nat /\ n - 1 \in 1 .. N - 1 /\ n - 1 \in 1 .. N
      /\ n - 1 + 1 = n /\ ~ (n <= n - 1)
  BY <1>2
<1>4. n - 1 \in S
  BY <1>1, <1>3 DEF T
<1> QED BY <1>2, <1>3, <1>4
=============================================================================
