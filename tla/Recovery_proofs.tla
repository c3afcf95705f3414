--------------------------- MODULE Recovery_proofs ---------------------------
(***************************************************************************)
(* The parts of RecInv hold, and with them the restart is sound, clean     *)
(* pages are in both images and DurableStore is implemented.               *)
(*                                                                         *)
(* Redone is a recursive function: that it satisfies its recursion is      *)
(* shown from the choice of the function.  Then come what each record does *)
(* to the rows, to the records still to undo and to the state a rollback   *)
(* leaves; that a redo from the redo LSN on is a redo of all (RedoIsFull); *)
(* what a log that gets longer or is cut keeps; one lemma per step; and    *)
(* the theorems, which hold until a checkpoint misses a writer: comes      *)
(* between a first record and its LSN in the slot, or between a page's     *)
(* flag and its link.                                                      *)
(***************************************************************************)
EXTENDS RecoveryInv, QueueLemmas

-----------------------------------------------------------------------------
(* The redo of the log is a loop: Redone satisfies its recursion.          *)

\* Induction over a segment of the log.
LEMMA FromTo ==
  ASSUME NEW a \in Nat, NEW b \in Nat, NEW S \in SUBSET Nat, a \in S,
         \A n \in a .. b - 1 : n \in S => n + 1 \in S
  PROVE  a .. b \subseteq S
<1> SUFFICES ASSUME NEW m \in a .. b, m \notin S PROVE FALSE
  OBVIOUS
<1> DEFINE T == (a .. b) \ S
<1>0. T \in SUBSET Nat /\ T # {}
  OBVIOUS
<1> HIDE DEF T
<1>1. PICK n \in T : \A k \in T : n <= k
  BY <1>0, Smallest
<1>2. n \in a .. b /\ n \notin S
  BY DEF T
<1>3. /\ n # a /\ n \in Nat /\ n - 1 \in a .. b - 1 /\ n - 1 \in a .. b
      /\ n - 1 + 1 = n /\ ~ (n <= n - 1)
  BY <1>2
<1>4. n - 1 \in S
  BY <1>1, <1>3 DEF T
<1> QED BY <1>2, <1>3, <1>4

Base(db) == [db |-> db, undo |-> [t \in Trans |-> <<>>]]

\* f goes through the log from lo to hi.
IsRedo(f, db, lo, hi) ==
  f = [n \in lo - 1 .. hi |-> IF n < lo THEN Base(db) ELSE Apply(f[n - 1], n)]

\* Redone takes a function that satisfies the recursion.
LEMMA RedoneChoice ==
  ASSUME NEW db, NEW lo, NEW hi
  PROVE  Redone(db, lo, hi) = (CHOOSE f : IsRedo(f, db, lo, hi))[hi]
BY DEF Redone, IsRedo, Base

\* The values of such a function.
LEMMA RedoValues ==
  ASSUME NEW db, NEW lo \in Nat \ {0}, NEW hi \in Nat, lo - 1 <= hi, NEW f, IsRedo(f, db, lo, hi)
  PROVE  /\ f[lo - 1] = Base(db)
         /\ \A n \in lo .. hi : f[n] = Apply(f[n - 1], n)
<1> DEFINE g == [n \in lo - 1 .. hi |-> IF n < lo THEN Base(db) ELSE Apply(f[n - 1], n)]
<1>1. f = g
  BY DEF IsRedo
<1>2. lo - 1 \in lo - 1 .. hi /\ lo - 1 < lo
  OBVIOUS
<1>3. g[lo - 1] = Base(db)
  BY <1>2
<1>4. ASSUME NEW n \in lo .. hi PROVE g[n] = Apply(f[n - 1], n)
  <2>1. n \in lo - 1 .. hi /\ ~ (n < lo)
    OBVIOUS
  <2> QED BY <2>1
<1> HIDE DEF g
<1> QED BY <1>1, <1>3, <1>4

\* There is one: it can be carried on by one record at a time.
LEMMA RedoExists ==
  ASSUME NEW db, NEW lo \in Nat \ {0}, NEW hi \in Nat, lo - 1 <= hi
  PROVE  \E f : IsRedo(f, db, lo, hi)
<1> DEFINE Can(n) == \E f : IsRedo(f, db, lo, n)
           S == {n \in Nat : Can(n)}
<1>1. Can(lo - 1)
  <2> DEFINE f == [n \in lo - 1 .. lo - 1 |-> Base(db)]
  <2>1. f = [n \in lo - 1 .. lo - 1 |-> IF n < lo THEN Base(db) ELSE Apply(f[n - 1], n)]
    <3>1. \A n \in lo - 1 .. lo - 1 : n < lo
      OBVIOUS
    <3> QED BY <3>1
  <2> QED BY <2>1 DEF IsRedo
<1>2. ASSUME NEW n \in lo - 1 .. hi - 1, Can(n) PROVE Can(n + 1)
  <2>0. n \in Nat /\ lo <= n + 1 /\ lo - 1 <= n
    OBVIOUS
  <2>1. PICK f : IsRedo(f, db, lo, n)
    BY <1>2
  <2>2. /\ f[lo - 1] = Base(db)
        /\ \A k \in lo .. n : f[k] = Apply(f[k - 1], k)
    BY <2>0, <2>1, RedoValues
  <2> DEFINE g == [k \in lo - 1 .. n + 1 |-> IF k = n + 1 THEN Apply(f[n], n + 1) ELSE f[k]]
             h == [k \in lo - 1 .. n + 1 |-> IF k < lo THEN Base(db) ELSE Apply(g[k - 1], k)]
  <2>3. ASSUME NEW k \in lo - 1 .. n + 1 PROVE g[k] = h[k]
    <3>1. CASE k < lo
      <4>1. k = lo - 1 /\ k # n + 1
        BY <3>1, <2>0
      <4> QED BY <3>1, <4>1, <2>2
    <3>2. CASE k = n + 1
      <4>1. ~ (k < lo) /\ k - 1 = n /\ n \in lo - 1 .. n + 1 /\ n # n + 1
        BY <3>2, <2>0
      <4>2. g[k - 1] = f[n]
        BY <4>1
      <4> HIDE DEF g
      <4>3. h[k] = Apply(f[n], n + 1)
        BY <4>1, <4>2, <3>2
      <4> USE DEF g
      <4> QED BY <3>2, <4>3
    <3>3. CASE k \in lo .. n
      <4>1. ~ (k < lo) /\ k # n + 1 /\ k - 1 # n + 1 /\ k - 1 \in lo - 1 .. n + 1
        BY <3>3, <2>0
      <4>2. g[k - 1] = f[k - 1] /\ g[k] = f[k]
        BY <4>1
      <4> HIDE DEF g
      <4>3. h[k] = Apply(f[k - 1], k)
        BY <4>1, <4>2
      <4> QED BY <4>2, <4>3, <3>3, <2>2
    <3> QED BY <3>1, <3>2, <3>3, <2>0
  <2>4. g = h
    BY <2>3
  <2> HIDE DEF g
  <2> QED BY <2>4 DEF IsRedo
<1> HIDE DEF Can
<1>3. lo - 1 \in Nat
  OBVIOUS
<1>4. S \in SUBSET Nat /\ lo - 1 \in S /\ \A n \in lo - 1 .. hi - 1 : n \in S => n + 1 \in S
  BY <1>1, <1>2, <1>3
<1> HIDE DEF S
<1>5. lo - 1 .. hi \subseteq S
  BY <1>3, <1>4, FromTo
<1>6. hi \in S
  BY <1>5
<1> QED BY <1>6 DEF S, Can

\* There is one only, over any first part of the segment.
LEMMA RedoUnique ==
  ASSUME NEW db, NEW lo \in Nat \ {0}, NEW hi \in Nat, lo - 1 <= hi,
         NEW m \in lo - 1 .. hi,
         NEW f, IsRedo(f, db, lo, hi), NEW g, IsRedo(g, db, lo, m)
  PROVE  f[m] = g[m]
<1>1. /\ f[lo - 1] = Base(db)
      /\ \A n \in lo .. hi : f[n] = Apply(f[n - 1], n)
  BY RedoValues
<1>2. /\ m \in Nat /\ lo - 1 <= m
      /\ g[lo - 1] = Base(db)
      /\ \A n \in lo .. m : g[n] = Apply(g[n - 1], n)
  BY RedoValues
<1> DEFINE S == {n \in Nat : f[n] = g[n]}
<1>3. S \in SUBSET Nat /\ lo - 1 \in S /\ lo - 1 \in Nat
  BY <1>1, <1>2
<1>4. ASSUME NEW n \in lo - 1 .. m - 1, n \in S PROVE n + 1 \in S
  <2>1. n + 1 \in lo .. hi /\ n + 1 \in lo .. m /\ n + 1 - 1 = n /\ n + 1 \in Nat
    BY <1>2
  <2>2. f[n + 1] = Apply(f[n], n + 1) /\ g[n + 1] = Apply(g[n], n + 1)
    BY <2>1, <1>1, <1>2
  <2> QED BY <2>1, <2>2, <1>4
<1> HIDE DEF S
<1>5. lo - 1 .. m \subseteq S
  BY <1>2, <1>3, <1>4, FromTo
<1>6. m \in S
  BY <1>5, <1>2
<1> QED BY <1>6 DEF S

\* The recursion of Redone.
LEMMA RedoneStep ==
  ASSUME NEW db, NEW lo \in Nat \ {0}
  PROVE  /\ Redone(db, lo, lo - 1) = Base(db)
         /\ \A n \in Nat : lo - 1 <= n => Redone(db, lo, n + 1) = Apply(Redone(db, lo, n), n + 1)
<1>1. ASSUME NEW n \in Nat, lo - 1 <= n
      PROVE  \E f : IsRedo(f, db, lo, n) /\ Redone(db, lo, n) = f[n]
  <2> DEFINE f == CHOOSE h : IsRedo(h, db, lo, n)
  <2>1. IsRedo(f, db, lo, n)
    BY <1>1, RedoExists
  <2> QED BY <2>1, RedoneChoice
<1>2. Redone(db, lo, lo - 1) = Base(db)
  <2>1. lo - 1 \in Nat /\ lo - 1 <= lo - 1
    OBVIOUS
  <2>2. PICK f : IsRedo(f, db, lo, lo - 1) /\ Redone(db, lo, lo - 1) = f[lo - 1]
    BY <2>1, <1>1
  <2>3. f[lo - 1] = Base(db)
    BY <2>1, <2>2, RedoValues, Zenon
  <2> QED BY <2>2, <2>3
<1>3. ASSUME NEW n \in Nat, lo - 1 <= n, NEW m \in Nat, m = n + 1
      PROVE  Redone(db, lo, m) = Apply(Redone(db, lo, n), m)
  <2>1. lo - 1 <= m /\ n \in lo - 1 .. m /\ m \in lo .. m /\ m - 1 = n
    BY <1>3
  <2>2. PICK f : IsRedo(f, db, lo, m) /\ Redone(db, lo, m) = f[m]
    BY <2>1, <1>1
  <2>3. PICK g : IsRedo(g, db, lo, n) /\ Redone(db, lo, n) = g[n]
    BY <1>3, <1>1
  <2>4. f[n] = g[n]
    BY <2>1, <2>2, <2>3, RedoUnique
  <2>5. \A k \in lo .. m : f[k] = Apply(f[k - 1], k)
    BY <2>1, <2>2, RedoValues
  <2> QED BY <2>1, <2>2, <2>3, <2>4, <2>5
<1> QED BY <1>2, <1>3

\* The same as one formula, in this state and in the next.
LEMMA RedoneRec ==
  \A db, lo, n :
    /\ lo \in Nat \ {0} => Redone(db, lo, lo - 1) = Base(db)
    /\ lo \in Nat \ {0} /\ n \in Nat /\ lo - 1 <= n =>
         Redone(db, lo, n + 1) = Apply(Redone(db, lo, n), n + 1)
BY RedoneStep

\* The same after a step.
LEMMA RedoneRecNext ==
  (\A db, lo, n :
    /\ lo \in Nat \ {0} => Redone(db, lo, lo - 1) = Base(db)
    /\ lo \in Nat \ {0} /\ n \in Nat /\ lo - 1 <= n =>
         Redone(db, lo, n + 1) = Apply(Redone(db, lo, n), n + 1))'
BY RedoneRec, PTL

\* The redo depends on the records it reads and on no other.
LEMMA RedoneKept ==
  ASSUME NEW db, NEW lo \in Nat \ {0}, NEW m \in Nat, lo - 1 <= m,
         \A k \in lo .. m : log'[k] = log[k]
  PROVE  Redone(db, lo, m)' = Redone(db, lo, m)
<1> DEFINE S == {n \in Nat : Redone(db, lo, n)' = Redone(db, lo, n)}
<1>1. lo - 1 \in Nat /\ S \in SUBSET Nat
  OBVIOUS
<1>2. Redone(db, lo, lo - 1)' = Redone(db, lo, lo - 1)
  <2>1. Redone(db, lo, lo - 1) = Base(db)
    BY RedoneRec
  <2>2. Redone(db, lo, lo - 1)' = Base(db)
    BY RedoneRecNext DEF Base
  <2> QED BY <2>1, <2>2
<1>3. ASSUME NEW n \in lo - 1 .. m - 1, Redone(db, lo, n)' = Redone(db, lo, n)
      PROVE  Redone(db, lo, n + 1)' = Redone(db, lo, n + 1)
  <2>1. n \in Nat /\ lo - 1 <= n /\ n + 1 \in lo .. m
    OBVIOUS
  <2>2. Redone(db, lo, n + 1) = Apply(Redone(db, lo, n), n + 1)
    BY <2>1, RedoneRec
  <2>3. Redone(db, lo, n + 1)' = Apply(Redone(db, lo, n), n + 1)'
    BY <2>1, RedoneRecNext
  <2>4. log'[n + 1] = log[n + 1]
    BY <2>1
  <2>5. Apply(Redone(db, lo, n), n + 1)' = Apply(Redone(db, lo, n), n + 1)
    BY <1>3, <2>4 DEF Apply
  <2> QED BY <2>2, <2>3, <2>5
<1>4. /\ lo - 1 \in S
      /\ \A n \in lo - 1 .. m - 1 : n \in S => n + 1 \in S
  BY <1>1, <1>2, <1>3
<1> HIDE DEF S
<1>5. lo - 1 .. m \subseteq S
  BY <1>1, <1>4, FromTo
<1>6. m \in S
  BY <1>5
<1> QED BY <1>6 DEF S

-----------------------------------------------------------------------------
(* One record.                                                             *)

\* What record n does to the stack s of t.
NextStack(s, t, n) ==
  IF log[n].op = "update" /\ log[n].tr = t /\ (log[n].begins \/ s # <<>>) THEN <<n>> \o s
  ELSE IF log[n].op = "undo" /\ log[n].tr = t /\ s # <<>> THEN Tail(s)
  ELSE IF log[n].op \in {"commit", "abort"} /\ log[n].tr = t THEN <<>>
  ELSE s

\* The fields that a record has, by its kind.
LEMMA RecordFields ==
  ASSUME NEW l \in Record
  PROVE  /\ l.op \in {"update", "undo", "commit", "abort", "begin", "pages"}
         /\ l.op \in {"update", "undo"} => l.tr \in Trans /\ l.row \in Rows /\ l.val \in Val
         /\ l.op = "update" => l.old \in Val /\ l.begins \in BOOLEAN
         /\ l.op \in {"commit", "abort"} => l.tr \in Trans
         /\ l.op = "begin" => l.redo \in Nat \ {0}
         /\ l.op = "pages" => l.pages \in SUBSET Pages
BY DEF Record

\* A new entry on a stack, and one less.
LEMMA Push ==
  ASSUME NEW S, NEW s \in Seq(S), NEW n \in S
  PROVE  /\ <<n>> \o s \in Seq(S) /\ Len(<<n>> \o s) = Len(s) + 1 /\ <<n>> \o s # <<>>
         /\ (<<n>> \o s)[1] = n
         /\ \A i \in 2 .. Len(s) + 1 : (<<n>> \o s)[i] = s[i - 1]
<1> DEFINE q == <<n>>
<1>1. q \in Seq(S) /\ Len(q) = 1 /\ q[1] = n
  OBVIOUS
<1> HIDE DEF q
<1>2. /\ q \o s \in Seq(S)
      /\ Len(q \o s) = Len(q) + Len(s)
      /\ \A i \in 1 .. Len(q) + Len(s) :
           (q \o s)[i] = IF i <= Len(q) THEN q[i] ELSE s[i - Len(q)]
  BY <1>1, ConcatProperties
<1>3. Len(s) \in Nat /\ 1 \in 1 .. Len(q) + Len(s)
  BY <1>1
<1>4. Len(q \o s) = Len(s) + 1 /\ (q \o s)[1] = n
  BY <1>1, <1>2, <1>3
<1>5. ASSUME NEW i \in 2 .. Len(s) + 1 PROVE (q \o s)[i] = s[i - 1]
  <2>1. i \in 1 .. Len(q) + Len(s) /\ ~ (i <= Len(q))
    BY <1>1, <1>3
  <2> QED BY <2>1, <1>1, <1>2
<1>6. q \o s # <<>>
  BY <1>2, <1>4, <1>3, EmptySeq
<1> QED BY <1>2, <1>4, <1>5, <1>6 DEF q

\* An undo log takes the first record off.
LEMMA Pop ==
  ASSUME NEW S, NEW s \in Seq(S), s # <<>>
  PROVE  /\ Tail(s) \in Seq(S) /\ Len(Tail(s)) = Len(s) - 1 /\ s[1] \in S
         /\ Len(s) \in Nat \ {0}
         /\ \A i \in 1 .. Len(s) - 1 : Tail(s)[i] = s[i + 1]
<1>1. Len(s) \in Nat \ {0}
  BY EmptySeq
<1>2. s[1] \in S
  BY <1>1, ElementOfSeq
<1> QED BY <1>1, <1>2, HeadTailProperties

\* Records of the first part of the log are records of the log.
LEMMA SeqMono ==
  ASSUME NEW m \in Nat, NEW n \in Nat, m <= n, NEW s \in Seq(1 .. m)
  PROVE  s \in Seq(1 .. n)
<1>1. 1 .. m \subseteq 1 .. n
  OBVIOUS
<1> QED BY <1>1

Acc(n) == [db : [Rows -> Val], undo : [Trans -> Seq(1 .. n)]]

\* One record, on rows and stacks of the right type.
LEMMA ApplyRecord ==
  ASSUME NEW n \in Nat \ {0}, log[n] \in Record, NEW acc \in Acc(n - 1)
  PROVE  /\ Apply(acc, n) \in Acc(n)
         /\ \A r \in Rows : Apply(acc, n).db[r] = IF Writes(n, r) THEN log[n].val ELSE acc.db[r]
         /\ \A t \in Trans : Apply(acc, n).undo[t] = NextStack(acc.undo[t], t, n)
<1> DEFINE l == log[n]
<1>0. /\ acc.db \in [Rows -> Val] /\ acc.undo \in [Trans -> Seq(1 .. n - 1)]
      /\ acc = [db |-> acc.db, undo |-> acc.undo]
  BY DEF Acc
<1>1. acc.undo \in [Trans -> Seq(1 .. n)]
  <2>1. \A t \in Trans : acc.undo[t] \in Seq(1 .. n)
    BY <1>0, SeqMono
  <2> QED BY <2>1, <1>0
<1>2. /\ l.op \in {"update", "undo", "commit", "abort", "begin", "pages"}
      /\ l.op \in {"update", "undo"} => l.tr \in Trans /\ l.row \in Rows /\ l.val \in Val
      /\ l.op = "update" => l.begins \in BOOLEAN
      /\ l.op \in {"commit", "abort"} => l.tr \in Trans
  BY RecordFields
<1>3. <<>> \in Seq(1 .. n) /\ n \in 1 .. n
  OBVIOUS
<1>4. CASE l.op = "update"
  <2> DEFINE s == acc.undo[l.tr]
             q == IF l.begins \/ s # <<>> THEN <<n>> \o s ELSE s
  <2>1. Apply(acc, n) = [db |-> [acc.db EXCEPT ![l.row] = l.val],
                         undo |-> [acc.undo EXCEPT ![l.tr] = q]]
    BY <1>0, <1>4 DEF Apply
  <2>2. s \in Seq(1 .. n) /\ <<n>> \o s \in Seq(1 .. n) /\ q \in Seq(1 .. n)
    BY <1>1, <1>2, <1>3, <1>4, Push
  <2>3. /\ [acc.db EXCEPT ![l.row] = l.val] \in [Rows -> Val]
        /\ [acc.undo EXCEPT ![l.tr] = q] \in [Trans -> Seq(1 .. n)]
    BY <1>0, <1>1, <1>2, <1>4, <2>2
  <2>4. /\ Apply(acc, n).db = [acc.db EXCEPT ![l.row] = l.val]
        /\ Apply(acc, n).undo = [acc.undo EXCEPT ![l.tr] = q]
    BY <2>1
  <2>5. Apply(acc, n) \in Acc(n)
    BY <2>1, <2>3 DEF Acc
  <2>6. \A r \in Rows : Apply(acc, n).db[r] = IF Writes(n, r) THEN l.val ELSE acc.db[r]
    BY <2>4, <1>0, <1>4 DEF Writes
  <2>7. \A t \in Trans : Apply(acc, n).undo[t] = NextStack(acc.undo[t], t, n)
    BY <2>4, <1>1, <1>4 DEF NextStack
  <2> QED BY <2>5, <2>6, <2>7
<1>5. CASE l.op = "undo"
  <2> DEFINE s == acc.undo[l.tr]
             q == IF s = <<>> THEN s ELSE Tail(s)
  <2>1. Apply(acc, n) = [db |-> [acc.db EXCEPT ![l.row] = l.val],
                         undo |-> [acc.undo EXCEPT ![l.tr] = q]]
    BY <1>0, <1>5 DEF Apply
  <2>2. s \in Seq(1 .. n) /\ q \in Seq(1 .. n)
    BY <1>1, <1>2, <1>3, <1>5, Pop
  <2>3. /\ [acc.db EXCEPT ![l.row] = l.val] \in [Rows -> Val]
        /\ [acc.undo EXCEPT ![l.tr] = q] \in [Trans -> Seq(1 .. n)]
    BY <1>0, <1>1, <1>2, <1>5, <2>2
  <2>4. /\ Apply(acc, n).db = [acc.db EXCEPT ![l.row] = l.val]
        /\ Apply(acc, n).undo = [acc.undo EXCEPT ![l.tr] = q]
    BY <2>1
  <2>5. Apply(acc, n) \in Acc(n)
    BY <2>1, <2>3 DEF Acc
  <2>6. \A r \in Rows : Apply(acc, n).db[r] = IF Writes(n, r) THEN l.val ELSE acc.db[r]
    BY <2>4, <1>0, <1>5 DEF Writes
  <2>7. \A t \in Trans : Apply(acc, n).undo[t] = NextStack(acc.undo[t], t, n)
    BY <2>4, <1>1, <1>5 DEF NextStack
  <2> QED BY <2>5, <2>6, <2>7
<1>6. CASE l.op \in {"commit", "abort"}
  <2>1. Apply(acc, n) = [db |-> acc.db, undo |-> [acc.undo EXCEPT ![l.tr] = <<>>]]
    BY <1>0, <1>6 DEF Apply
  <2>3. [acc.undo EXCEPT ![l.tr] = <<>>] \in [Trans -> Seq(1 .. n)]
    BY <1>1, <1>2, <1>3, <1>6
  <2>4. /\ Apply(acc, n).db = acc.db
        /\ Apply(acc, n).undo = [acc.undo EXCEPT ![l.tr] = <<>>]
    BY <2>1
  <2>5. Apply(acc, n) \in Acc(n)
    BY <2>1, <2>3, <1>0 DEF Acc
  <2>6. \A r \in Rows : Apply(acc, n).db[r] = IF Writes(n, r) THEN l.val ELSE acc.db[r]
    BY <2>4, <1>0, <1>6 DEF Writes
  <2>7. \A t \in Trans : Apply(acc, n).undo[t] = NextStack(acc.undo[t], t, n)
    BY <2>4, <1>1, <1>6 DEF NextStack
  <2> QED BY <2>5, <2>6, <2>7
<1>7. CASE l.op \in {"begin", "pages"}
  <2>1. Apply(acc, n) = acc
    BY <1>7 DEF Apply
  <2>5. Apply(acc, n) \in Acc(n)
    BY <2>1, <1>0, <1>1 DEF Acc
  <2>6. \A r \in Rows : Apply(acc, n).db[r] = IF Writes(n, r) THEN l.val ELSE acc.db[r]
    BY <2>1, <1>7 DEF Writes
  <2>7. \A t \in Trans : Apply(acc, n).undo[t] = NextStack(acc.undo[t], t, n)
    BY <2>1, <1>7 DEF NextStack
  <2> QED BY <2>5, <2>6, <2>7
<1> QED BY <1>2, <1>4, <1>5, <1>6, <1>7

-----------------------------------------------------------------------------
(* The log up to n, and a part of it.                                      *)

\* What the log holds are records.
LEMMA LogRecord ==
  ASSUME log \in Seq(Record), NEW n \in 1 .. Len(log)
  PROVE  log[n] \in Record
BY ElementOfSeq

\* The rows of an empty database.
LEMMA ZeroType == Zero \in [Rows -> Val] /\ 0 \in Val
BY RecoveryAssumption DEF Zero, Val

\* A redo leaves rows and stacks.
LEMMA RedoType ==
  ASSUME log \in Seq(Record), NEW db \in [Rows -> Val], NEW lo \in Nat \ {0},
         NEW m \in lo - 1 .. Len(log)
  PROVE  Redone(db, lo, m) \in Acc(m)
<1> DEFINE S == {n \in Nat : Redone(db, lo, n) \in Acc(n)}
<1>1. lo - 1 \in Nat /\ m \in Nat /\ S \in SUBSET Nat /\ Len(log) \in Nat
  OBVIOUS
<1>2. Redone(db, lo, lo - 1) \in Acc(lo - 1)
  <2>1. Redone(db, lo, lo - 1) = Base(db)
    BY RedoneRec
  <2>2. <<>> \in Seq(1 .. lo - 1)
    OBVIOUS
  <2>3. [t \in Trans |-> <<>>] \in [Trans -> Seq(1 .. lo - 1)]
    BY <2>2
  <2>4. Base(db) \in Acc(lo - 1)
    BY <2>3 DEF Base, Acc
  <2> QED BY <2>1, <2>4
<1>3. ASSUME NEW n \in lo - 1 .. m - 1, Redone(db, lo, n) \in Acc(n)
      PROVE  Redone(db, lo, n + 1) \in Acc(n + 1)
  <2>1. /\ n \in Nat /\ lo - 1 <= n /\ n + 1 \in 1 .. Len(log)
        /\ n + 1 \in Nat \ {0} /\ n + 1 - 1 = n
    BY <1>1
  <2>2. Redone(db, lo, n + 1) = Apply(Redone(db, lo, n), n + 1)
    BY <2>1, RedoneRec
  <2>3. log[n + 1] \in Record
    BY <2>1, LogRecord
  <2> QED BY <1>3, <2>1, <2>2, <2>3, ApplyRecord
<1>4. lo - 1 \in S /\ \A n \in lo - 1 .. m - 1 : n \in S => n + 1 \in S
  BY <1>1, <1>2, <1>3
<1> HIDE DEF S
<1>5. lo - 1 .. m \subseteq S
  BY <1>1, <1>4, FromTo
<1>6. m \in S
  BY <1>1, <1>5
<1> QED BY <1>6 DEF S

\* A redo, one record further: per row and per transaction.
LEMMA RedoNext ==
  ASSUME log \in Seq(Record), NEW db \in [Rows -> Val], NEW lo \in Nat \ {0},
         NEW n \in lo .. Len(log)
  PROVE  /\ \A r \in Rows : Redone(db, lo, n).db[r] =
              IF Writes(n, r) THEN log[n].val ELSE Redone(db, lo, n - 1).db[r]
         /\ \A t \in Trans :
              Redone(db, lo, n).undo[t] = NextStack(Redone(db, lo, n - 1).undo[t], t, n)
<1>1. /\ n - 1 \in Nat /\ lo - 1 <= n - 1 /\ n - 1 \in lo - 1 .. Len(log)
      /\ n - 1 + 1 = n /\ n \in Nat \ {0} /\ n \in 1 .. Len(log)
  OBVIOUS
<1>2. Redone(db, lo, n) = Apply(Redone(db, lo, n - 1), n)
  <2>1. Redone(db, lo, n - 1 + 1) = Apply(Redone(db, lo, n - 1), n - 1 + 1)
    BY <1>1, RedoneRec
  <2> QED BY <2>1, <1>1
<1>3. Redone(db, lo, n - 1) \in Acc(n - 1)
  BY <1>1, RedoType
<1>4. log[n] \in Record
  BY <1>1, LogRecord
<1> QED BY <1>1, <1>2, <1>3, <1>4, ApplyRecord

\* The same of the whole log.
LEMMA FullNext ==
  ASSUME log \in Seq(Record)
  PROVE  /\ \A n \in 0 .. Len(log) :
              /\ Db(n) \in [Rows -> Val] /\ Stack(n) \in [Trans -> Seq(1 .. n)]
              /\ Full(n) = [db |-> Db(n), undo |-> Stack(n)]
         /\ \A n \in 1 .. Len(log) :
              /\ \A r \in Rows : Db(n)[r] = IF Writes(n, r) THEN log[n].val ELSE Db(n - 1)[r]
              /\ \A t \in Trans : Stack(n)[t] = NextStack(Stack(n - 1)[t], t, n)
         /\ Db(0) = Zero /\ Stack(0) = [t \in Trans |-> <<>>]
<1>0. 1 \in Nat \ {0} /\ 1 - 1 = 0
  OBVIOUS
<1>1. ASSUME NEW n \in 0 .. Len(log)
      PROVE  /\ Db(n) \in [Rows -> Val] /\ Stack(n) \in [Trans -> Seq(1 .. n)]
             /\ Full(n) = [db |-> Db(n), undo |-> Stack(n)]
  <2>1. Full(n) \in Acc(n)
    BY <1>0, ZeroType, RedoType DEF Full
  <2> QED BY <2>1 DEF Acc, Db, Stack
<1>2. ASSUME NEW n \in 1 .. Len(log)
      PROVE  /\ \A r \in Rows : Db(n)[r] = IF Writes(n, r) THEN log[n].val ELSE Db(n - 1)[r]
             /\ \A t \in Trans : Stack(n)[t] = NextStack(Stack(n - 1)[t], t, n)
  BY <1>0, ZeroType, RedoNext DEF Db, Stack, Full
<1>3. Full(0) = Base(Zero)
  BY <1>0, RedoneRec DEF Full
<1>4. Db(0) = Zero /\ Stack(0) = [t \in Trans |-> <<>>]
  BY <1>3 DEF Db, Stack, Base
<1> QED BY <1>1, <1>2, <1>4

\* A row that is not written stays as it is.
LEMMA DbKept ==
  ASSUME log \in Seq(Record), NEW r \in Rows, NEW lo \in Nat \ {0},
         NEW m \in lo - 1 .. Len(log), ~ Written(r, lo, m)
  PROVE  Db(m)[r] = Db(lo - 1)[r]
<1> DEFINE S == {n \in Nat : Db(n)[r] = Db(lo - 1)[r]}
<1>1. lo - 1 \in Nat /\ m \in Nat /\ S \in SUBSET Nat /\ lo - 1 \in S
  OBVIOUS
<1>2. ASSUME NEW n \in lo - 1 .. m - 1, n \in S PROVE n + 1 \in S
  <2>1. n + 1 \in 1 .. Len(log) /\ n + 1 - 1 = n /\ n + 1 \in lo .. m /\ n + 1 \in Nat
    BY <1>1
  <2>2. ~ Writes(n + 1, r)
    BY <2>1 DEF Written
  <2>3. Db(n + 1)[r] = IF Writes(n + 1, r) THEN log[n + 1].val ELSE Db(n + 1 - 1)[r]
    BY <2>1, FullNext
  <2> QED BY <1>2, <2>1, <2>2, <2>3
<1> HIDE DEF S
<1>3. lo - 1 .. m \subseteq S
  BY <1>1, <1>2, FromTo
<1>4. m \in S
  BY <1>1, <1>3
<1> QED BY <1>4 DEF S

\* A value that covers a shorter redo covers a longer one.
LEMMA CoversLonger ==
  ASSUME log \in Seq(Record), NEW r \in Rows, NEW v, NEW lo \in Nat \ {0}, NEW l2 \in Nat,
         lo <= l2, NEW hi \in Nat, NEW h2 \in Nat, hi <= h2, h2 <= Len(log), l2 - 1 <= hi,
         Covers(v, r, l2, hi)
  PROVE  Covers(v, r, lo, h2)
<1>1. CASE Written(r, l2, hi)
  BY <1>1 DEF Covers, Written
<1>2. CASE Written(r, lo, l2 - 1)
  <2>1. PICK k \in lo .. l2 - 1 : Writes(k, r)
    BY <1>2 DEF Written
  <2>2. k \in lo .. h2
    OBVIOUS
  <2> QED BY <2>1, <2>2 DEF Covers, Written
<1>3. CASE v = Db(l2 - 1)[r] /\ ~ Written(r, lo, l2 - 1)
  <2>1. l2 - 1 \in lo - 1 .. Len(log)
    OBVIOUS
  <2>2. Db(l2 - 1)[r] = Db(lo - 1)[r]
    BY <1>3, <2>1, DbKept
  <2> QED BY <1>3, <2>2 DEF Covers
<1> QED BY <1>1, <1>2, <1>3 DEF Covers

-----------------------------------------------------------------------------
(* A redo from lo on finds what the whole log says.                        *)

\* The rows, if the image covers the redo.
LEMMA RedoDb ==
  ASSUME log \in Seq(Record), NEW db \in [Rows -> Val], NEW lo \in 1 .. Len(log),
         NEW h \in lo - 1 .. Len(log), NEW r \in Rows, Covers(db[r], r, lo, h),
         NEW m \in h .. Len(log)
  PROVE  Redone(db, lo, m).db[r] = Db(m)[r]
<1> DEFINE W(n) == Redone(db, lo, n).db[r]
           P(n) == \/ Written(r, lo, n) /\ W(n) = Db(n)[r]
                   \/ ~ Written(r, lo, n) /\ W(n) = db[r] /\ Db(n)[r] = Db(lo - 1)[r]
           S == {n \in Nat : P(n)}
<1>1. /\ lo - 1 \in Nat /\ m \in Nat /\ S \in SUBSET Nat /\ lo \in Nat \ {0} /\ m \in lo - 1 .. Len(log)
      /\ Len(log) \in Nat
  OBVIOUS
<1>2. P(lo - 1)
  <2>1. Redone(db, lo, lo - 1) = Base(db)
    BY <1>1, RedoneRec
  <2>2. ~ Written(r, lo, lo - 1)
    BY DEF Written
  <2> QED BY <2>1, <2>2 DEF Base
<1>3. ASSUME NEW n \in lo - 1 .. m - 1, P(n) PROVE P(n + 1)
  <2>1. n + 1 \in 1 .. Len(log) /\ n + 1 - 1 = n /\ n + 1 \in lo .. Len(log) /\ n \in Nat
    BY <1>1
  <2>2. /\ Db(n + 1)[r] = IF Writes(n + 1, r) THEN log[n + 1].val ELSE Db(n)[r]
        /\ W(n + 1) = IF Writes(n + 1, r) THEN log[n + 1].val ELSE W(n)
    <3>1. Db(n + 1)[r] = IF Writes(n + 1, r) THEN log[n + 1].val ELSE Db(n + 1 - 1)[r]
      BY <2>1, FullNext
    <3>2. W(n + 1) = IF Writes(n + 1, r) THEN log[n + 1].val ELSE Redone(db, lo, n + 1 - 1).db[r]
      BY <1>1, <2>1, RedoNext
    <3> QED BY <3>1, <3>2, <2>1
  <2>3. Written(r, lo, n + 1) <=> Written(r, lo, n) \/ Writes(n + 1, r)
    <3>1. \A k : k \in lo .. n + 1 <=> k \in lo .. n \/ k = n + 1
      BY <2>1
    <3> QED BY <3>1 DEF Written
  <2> HIDE DEF W
  <2> QED BY <1>3, <2>2, <2>3
<1> HIDE DEF P
<1>4. lo - 1 \in S /\ \A n \in lo - 1 .. m - 1 : n \in S => n + 1 \in S
  BY <1>1, <1>2, <1>3
<1> HIDE DEF S
<1>5. lo - 1 .. m \subseteq S
  BY <1>1, <1>4, FromTo
<1>6. P(m)
  BY <1>1, <1>5 DEF S
<1>7. Covers(db[r], r, lo, m)
  BY DEF Covers, Written
<1> QED BY <1>6, <1>7 DEF P, Covers

\* The unfinished transactions, if nobody was at work from lo to b.
LEMMA RedoUndo ==
  ASSUME log \in Seq(Record), \A n \in 1 .. Len(log) : StepOK(n),
         NEW db \in [Rows -> Val], NEW lo \in 1 .. Len(log),
         NEW b \in lo - 1 .. Len(log), NEW t \in Trans, NobodyAcross(t, lo, b),
         NEW m \in b .. Len(log)
  PROVE  Redone(db, lo, m).undo[t] = Stack(m)[t]
<1> DEFINE W(n) == Redone(db, lo, n).undo[t]
           P(n) == \/ W(n) = Stack(n)[t]
                   \/ W(n) = <<>> /\ \A k \in lo - 1 .. n : Stack(k)[t] # <<>>
           S == {n \in Nat : P(n)}
<1>1. /\ lo - 1 \in Nat /\ m \in Nat /\ S \in SUBSET Nat /\ lo \in Nat \ {0} /\ m \in lo - 1 .. Len(log)
      /\ Len(log) \in Nat
  OBVIOUS
<1>2. P(lo - 1)
  <2>1. Redone(db, lo, lo - 1) = Base(db)
    BY <1>1, RedoneRec
  <2>2. W(lo - 1) = <<>>
    BY <2>1 DEF Base
  <2>3. \A k \in lo - 1 .. lo - 1 : k = lo - 1
    OBVIOUS
  <2> QED BY <2>2, <2>3
<1>3. ASSUME NEW n \in lo - 1 .. m - 1, P(n) PROVE P(n + 1)
  <2>1. n + 1 \in 1 .. Len(log) /\ n + 1 - 1 = n /\ n + 1 \in lo .. Len(log) /\ n \in Nat
    BY <1>1
  <2>2. /\ Stack(n + 1)[t] = NextStack(Stack(n)[t], t, n + 1)
        /\ W(n + 1) = NextStack(W(n), t, n + 1)
    <3>1. Stack(n + 1)[t] = NextStack(Stack(n + 1 - 1)[t], t, n + 1)
      BY <2>1, FullNext
    <3>2. \A u \in Trans : Redone(db, lo, n + 1).undo[u] =
                             NextStack(Redone(db, lo, n + 1 - 1).undo[u], u, n + 1)
      <4> DEFINE k == n + 1
      <4>1. k \in lo .. Len(log)
        BY <2>1
      <4> HIDE DEF k
      <4>2. \A u \in Trans : Redone(db, lo, k).undo[u] = NextStack(Redone(db, lo, k - 1).undo[u], u, k)
        BY <1>1, <4>1, RedoNext
      <4> QED BY <4>2 DEF k
    <3> QED BY <3>1, <3>2, <2>1
  <2>3. CASE W(n) = Stack(n)[t]
    BY <2>2, <2>3
  <2>4. CASE W(n) = <<>> /\ \A k \in lo - 1 .. n : Stack(k)[t] # <<>>
    <3>1. Stack(n)[t] # <<>>
      BY <2>4, <2>1
    <3>2. log[n + 1].op = "update" /\ log[n + 1].tr = t => ~ log[n + 1].begins
      <4>1. StepOK(n + 1)
        BY <2>1
      <4> QED BY <4>1, <3>1, <2>1 DEF StepOK
    <3>3. W(n + 1) = <<>>
      <4> HIDE DEF W
      <4> QED BY <2>2, <2>4, <3>2 DEF NextStack
    <3>4. \A k \in lo - 1 .. n + 1 : k \in lo - 1 .. n \/ k = n + 1
      BY <2>1
    <3> HIDE DEF W
    <3> QED BY <3>3, <3>4, <2>4
  <2> QED BY <1>3, <2>3, <2>4
<1> HIDE DEF P
<1>4. lo - 1 \in S /\ \A n \in lo - 1 .. m - 1 : n \in S => n + 1 \in S
  BY <1>1, <1>2, <1>3
<1> HIDE DEF S
<1>5. lo - 1 .. m \subseteq S
  BY <1>1, <1>4, FromTo
<1>6. P(m)
  BY <1>1, <1>5 DEF S
<1>7. ~ \A k \in lo - 1 .. m : Stack(k)[t] # <<>>
  BY DEF NobodyAcross
<1> QED BY <1>6, <1>7 DEF P

\* A redo from lo on, of an image that covers what is before, says what the whole
\* log says, as soon as nobody who was at work at lo is any more (redoAll).
LEMMA RedoIsFull ==
  ASSUME log \in Seq(Record), \A n \in 1 .. Len(log) : StepOK(n),
         NEW db \in [Rows -> Val], NEW lo \in 1 .. Len(log),
         NEW b \in lo - 1 .. Len(log), \A t \in Trans : NobodyAcross(t, lo, b),
         NEW h \in b .. Len(log), \A r \in Rows : Covers(db[r], r, lo, h),
         NEW m \in h .. Len(log)
  PROVE  Redone(db, lo, m) = Full(m)
<1>1. h \in lo - 1 .. Len(log) /\ m \in b .. Len(log) /\ m \in lo - 1 .. Len(log) /\ lo \in Nat \ {0}
  OBVIOUS
<1> DEFINE acc == Redone(db, lo, m)
<1>2. acc \in Acc(m)
  BY <1>1, RedoType
<1>3. /\ acc.db \in [Rows -> Val] /\ acc.undo \in [Trans -> Seq(1 .. m)]
      /\ acc = [db |-> acc.db, undo |-> acc.undo]
  BY <1>2 DEF Acc
<1>4. /\ Db(m) \in [Rows -> Val] /\ Stack(m) \in [Trans -> Seq(1 .. m)]
      /\ Full(m) = [db |-> Db(m), undo |-> Stack(m)]
  <2>1. m \in 0 .. Len(log)
    BY <1>1
  <2> QED BY <2>1, FullNext
<1>5. \A r \in Rows : acc.db[r] = Db(m)[r]
  BY <1>1, RedoDb
<1>6. \A t \in Trans : acc.undo[t] = Stack(m)[t]
  BY <1>1, RedoUndo
<1> HIDE DEF acc
<1>7. acc.db = Db(m)
  BY <1>3, <1>4, <1>5
<1>8. acc.undo = Stack(m)
  BY <1>3, <1>4, <1>6
<1>9. acc = Full(m)
  BY <1>3, <1>4, <1>7, <1>8
<1> QED BY <1>9 DEF acc

-----------------------------------------------------------------------------
(* Stacks and committed rows from one record to the next.                  *)

\* The records to undo, one record further.
LEMMA PendingNext ==
  ASSUME log \in Seq(Record), NEW n \in 1 .. Len(log), StepOK(n), StackOK(n - 1), NEW t \in Trans
  PROVE  /\ Pending(n, t) \subseteq 1 .. n /\ Pending(n - 1, t) \subseteq 1 .. n - 1
         /\ log[n].op = "update" /\ log[n].tr = t => Pending(n, t) = Pending(n - 1, t) \cup {n}
         /\ log[n].op = "undo" /\ log[n].tr = t =>
              /\ Stack(n - 1)[t] # <<>>
              /\ Pending(n - 1, t) = Pending(n, t) \cup {Stack(n - 1)[t][1]}
              /\ \A k \in Pending(n, t) : k < Stack(n - 1)[t][1]
         /\ log[n].op \in {"commit", "abort"} /\ log[n].tr = t => Pending(n, t) = {}
         /\ log[n].op \in {"begin", "pages"} \/ log[n].tr # t => Pending(n, t) = Pending(n - 1, t)
         /\ \A i, j \in DOMAIN Stack(n)[t] : i < j => Stack(n)[t][j] < Stack(n)[t][i]
<1> DEFINE s == Stack(n - 1)[t]
           q == Stack(n)[t]
<1>1. n - 1 \in 0 .. Len(log) /\ n \in 0 .. Len(log) /\ n \in Nat \ {0} /\ n - 1 \in Nat
  OBVIOUS
<1>2. s \in Seq(1 .. n - 1) /\ q \in Seq(1 .. n) /\ q = NextStack(s, t, n)
  BY <1>1, FullNext
<1>3. /\ \A i \in DOMAIN s : s[i] \in 1 .. n - 1
      /\ \A i \in DOMAIN q : q[i] \in 1 .. n
      /\ DOMAIN s = 1 .. Len(s) /\ DOMAIN q = 1 .. Len(q) /\ Len(s) \in Nat /\ Len(q) \in Nat
  BY <1>2, ElementOfSeq
<1>4. Pending(n, t) = {q[i] : i \in DOMAIN q} /\ Pending(n - 1, t) = {s[i] : i \in DOMAIN s}
  BY DEF Pending
<1>5. \A i, j \in DOMAIN s : i < j => s[j] < s[i]
  BY DEF StackOK
<1>6. log[n].op \in {"update", "undo", "commit", "abort", "begin", "pages"}
  BY LogRecord, RecordFields
<1>7. /\ log[n].op = "update" /\ log[n].tr = t => (log[n].begins <=> s = <<>>)
      /\ log[n].op = "undo" /\ log[n].tr = t => s # <<>>
  BY DEF StepOK
<1> HIDE DEF s, q
<1>8. Pending(n, t) \subseteq 1 .. n /\ Pending(n - 1, t) \subseteq 1 .. n - 1
  BY <1>3, <1>4
<1>9. CASE log[n].op = "update" /\ log[n].tr = t
  <2>1. q = <<n>> \o s
    BY <1>2, <1>7, <1>9 DEF NextStack
  <2>2. s \in Seq(1 .. n) /\ n \in 1 .. n
    BY <1>1, <1>2, SeqMono
  <2>3. /\ Len(q) = Len(s) + 1 /\ q[1] = n
        /\ \A i \in 2 .. Len(s) + 1 : q[i] = s[i - 1]
    BY <2>1, <2>2, Push
  <2>4. \A k : (\E i \in 1 .. Len(q) : k = q[i]) <=> (k = n \/ \E i \in 1 .. Len(s) : k = s[i])
    <3>1. ASSUME NEW k, NEW i \in 1 .. Len(q), k = q[i]
          PROVE  k = n \/ \E j \in 1 .. Len(s) : k = s[j]
      <4>1. CASE i = 1
        BY <4>1, <3>1, <2>3
      <4>2. CASE i # 1
        <5>1. i \in 2 .. Len(s) + 1 /\ i - 1 \in 1 .. Len(s)
          BY <4>2, <2>3, <1>3
        <5> QED BY <5>1, <3>1, <2>3
      <4> QED BY <4>1, <4>2
    <3>2. ASSUME NEW k, NEW i \in 1 .. Len(s), k = s[i]
          PROVE  \E j \in 1 .. Len(q) : k = q[j]
      <4>1. PICK j \in Nat : j = i + 1
        BY <1>3
      <4>2. j \in 1 .. Len(q) /\ j \in 2 .. Len(s) + 1 /\ j - 1 = i
        BY <4>1, <2>3, <1>3
      <4>3. q[j] = s[j - 1]
        BY <4>2, <2>3
      <4> QED BY <4>2, <4>3, <3>2
    <3>3. 1 \in 1 .. Len(q)
      BY <2>3, <1>3
    <3> QED BY <3>1, <3>2, <3>3, <2>3
  <2>5. Pending(n, t) = Pending(n - 1, t) \cup {n}
    BY <1>3, <1>4, <2>4
  <2>6. ASSUME NEW i \in DOMAIN q, NEW j \in DOMAIN q, i < j PROVE q[j] < q[i]
    <3>1. j \in 2 .. Len(s) + 1 /\ j - 1 \in DOMAIN s /\ q[j] = s[j - 1] /\ s[j - 1] < n
      BY <2>3, <2>6, <1>3
    <3>2. CASE i = 1
      BY <3>1, <3>2, <2>3
    <3>3. CASE i # 1
      <4>1. i \in 2 .. Len(s) + 1 /\ i - 1 \in DOMAIN s /\ q[i] = s[i - 1] /\ i - 1 < j - 1
        BY <3>3, <2>3, <2>6, <1>3
      <4> QED BY <3>1, <4>1, <1>5
    <3> QED BY <3>2, <3>3
  <2> QED BY <2>5, <2>6, <1>8, <1>9 DEF q
<1>10. CASE log[n].op = "undo" /\ log[n].tr = t
  <2>1. q = Tail(s) /\ s # <<>>
    BY <1>2, <1>7, <1>10 DEF NextStack
  <2>2. /\ Len(q) = Len(s) - 1 /\ Len(s) \in Nat \ {0}
        /\ \A i \in 1 .. Len(s) - 1 : q[i] = s[i + 1]
    BY <2>1, <1>2, Pop
  <2>3. \A k : (\E i \in 1 .. Len(s) : k = s[i]) <=> (k = s[1] \/ \E i \in 1 .. Len(q) : k = q[i])
    <3>1. ASSUME NEW k, NEW i \in 1 .. Len(s), k = s[i]
          PROVE  k = s[1] \/ \E j \in 1 .. Len(q) : k = q[j]
      <4>1. CASE i # 1
        <5>1. i - 1 \in 1 .. Len(q) /\ i - 1 \in 1 .. Len(s) - 1 /\ i - 1 + 1 = i
          BY <4>1, <2>2, <1>3
        <5> QED BY <5>1, <3>1, <2>2
      <4> QED BY <4>1, <3>1
    <3>2. ASSUME NEW k, NEW i \in 1 .. Len(q), k = q[i]
          PROVE  \E j \in 1 .. Len(s) : k = s[j]
      <4>1. i + 1 \in 1 .. Len(s) /\ i \in 1 .. Len(s) - 1
        BY <2>2, <1>3
      <4> QED BY <4>1, <3>2, <2>2
    <3>3. 1 \in 1 .. Len(s)
      BY <2>2
    <3> QED BY <3>1, <3>2, <3>3
  <2>4. Pending(n - 1, t) = Pending(n, t) \cup {s[1]}
    <3>1. /\ \A k : k \in Pending(n - 1, t) <=> \E i \in 1 .. Len(s) : k = s[i]
          /\ \A k : k \in Pending(n, t) <=> \E i \in 1 .. Len(q) : k = q[i]
      BY <1>3, <1>4
    <3>2. \A k : k \in Pending(n - 1, t) <=> k \in Pending(n, t) \cup {s[1]}
      BY <3>1, <2>3
    <3> QED BY <3>2
  <2>5. ASSUME NEW i \in DOMAIN q PROVE q[i] < s[1]
    <3>1. i + 1 \in DOMAIN s /\ 1 \in DOMAIN s /\ 1 < i + 1 /\ q[i] = s[i + 1]
      BY <2>2, <1>3
    <3> QED BY <3>1, <1>5
  <2>6. ASSUME NEW i \in DOMAIN q, NEW j \in DOMAIN q, i < j PROVE q[j] < q[i]
    <3>1. /\ i + 1 \in DOMAIN s /\ j + 1 \in DOMAIN s /\ i + 1 < j + 1
          /\ q[i] = s[i + 1] /\ q[j] = s[j + 1]
      BY <2>2, <2>6, <1>3
    <3> QED BY <3>1, <1>5
  <2>7. \A k \in Pending(n, t) : k < s[1]
    BY <2>5, <1>4
  <2> QED BY <2>1, <2>4, <2>6, <2>7, <1>8, <1>10 DEF q, s
<1>11. CASE log[n].op \in {"commit", "abort"} /\ log[n].tr = t
  <2>1. q = <<>>
    BY <1>2, <1>11 DEF NextStack
  <2>2. DOMAIN q = {} /\ Pending(n, t) = {}
    BY <2>1, <1>4
  <2> QED BY <2>2, <1>8, <1>11 DEF q
<1>12. CASE log[n].op \in {"begin", "pages"} \/ log[n].tr # t
  <2>1. q = s
    BY <1>2, <1>6, <1>12 DEF NextStack
  <2>2. Pending(n, t) = Pending(n - 1, t)
    BY <2>1, <1>4
  <2> QED BY <2>1, <2>2, <1>5, <1>8, <1>12 DEF q, s
<1> QED BY <1>6, <1>9, <1>10, <1>11, <1>12

\* One record further, the stacks are as they should be.
LEMMA StackNext ==
  ASSUME log \in Seq(Record), NEW n \in 1 .. Len(log), StepOK(n), StackOK(n - 1)
  PROVE  StackOK(n)
<1>0. log[n].op \in {"update", "undo", "commit", "abort", "begin", "pages"}
  BY LogRecord, RecordFields
<1>1. ASSUME NEW t \in Trans, NEW k \in Pending(n, t)
      PROVE  \/ k \in Pending(n - 1, t)
             \/ k = n /\ log[n].op = "update" /\ log[n].tr = t
  BY <1>0, PendingNext
<1>2. ASSUME NEW t \in Trans
      PROVE  /\ \A k \in Pending(n, t) : log[k].op = "update" /\ log[k].tr = t
             /\ \A i, j \in DOMAIN Stack(n)[t] : i < j => Stack(n)[t][j] < Stack(n)[t][i]
  <2>1. \A k \in Pending(n - 1, t) : log[k].op = "update" /\ log[k].tr = t
    BY DEF StackOK
  <2>2. \A k \in Pending(n, t) : log[k].op = "update" /\ log[k].tr = t
    BY <1>1, <2>1
  <2> QED BY <2>2, PendingNext
<1>3. ASSUME NEW t \in Trans, NEW u \in Trans, t # u, NEW k \in Pending(n, t), NEW l \in Pending(n, u)
      PROVE  log[k].row # log[l].row
  <2>1. CASE k \in Pending(n - 1, t) /\ l \in Pending(n - 1, u)
    BY <2>1, <1>3 DEF StackOK
  <2>2. CASE k = n /\ log[n].op = "update" /\ log[n].tr = t
    <3>1. l \in Pending(n - 1, u)
      BY <2>2, <1>3, <1>1
    <3> QED BY <3>1, <2>2, <1>3 DEF StepOK
  <2>3. CASE l = n /\ log[n].op = "update" /\ log[n].tr = u
    <3>1. k \in Pending(n - 1, t)
      BY <2>3, <1>3, <1>1
    <3> QED BY <3>1, <2>3, <1>3 DEF StepOK
  <2> QED BY <1>1, <2>1, <2>2, <2>3
<1> QED BY <1>2, <1>3 DEF StackOK

-----------------------------------------------------------------------------
(* The committed states and the rows rolled back.                          *)

\* The number of commits, record by record.
LEMMA CommittedNext ==
  /\ Committed(0) = 1
  /\ \A n \in Nat :
       /\ Committed(n) \in Nat \ {0}
       /\ Committed(n + 1) = Committed(n) + (IF log[n + 1].op = "commit" THEN 1 ELSE 0)
  /\ \A m, n \in Nat : m <= n => Committed(m) <= Committed(n)
<1> DEFINE S(n) == {i \in 1 .. n : log[i].op = "commit"}
<1>0. \A n : Committed(n) = 1 + Cardinality(S(n))
  BY DEF Committed
<1>1. ASSUME NEW n \in Nat PROVE IsFiniteSet(S(n)) /\ Cardinality(S(n)) \in Nat
  <2>1. IsFiniteSet(1 .. n) /\ S(n) \in SUBSET (1 .. n)
    BY FS_Interval
  <2> QED BY <2>1, FS_Subset, FS_CardinalityType
<1>2. S(0) = {}
  OBVIOUS
<1>3. ASSUME NEW n \in Nat
      PROVE  Cardinality(S(n + 1)) = Cardinality(S(n)) + (IF log[n + 1].op = "commit" THEN 1 ELSE 0)
  <2>1. CASE log[n + 1].op = "commit"
    <3>1. S(n + 1) = S(n) \cup {n + 1} /\ n + 1 \notin S(n)
      BY <2>1
    <3> HIDE DEF S
    <3> QED BY <3>1, <2>1, <1>1, FS_AddElement
  <2>2. CASE log[n + 1].op # "commit"
    <3>1. S(n + 1) = S(n)
      BY <2>2
    <3> HIDE DEF S
    <3> QED BY <3>1, <2>2, <1>1
  <2> QED BY <2>1, <2>2
<1>4. ASSUME NEW m \in Nat, NEW n \in Nat, m <= n
      PROVE  Cardinality(S(m)) <= Cardinality(S(n))
  <2>1. S(m) \in SUBSET S(n)
    BY <1>4
  <2> HIDE DEF S
  <2> QED BY <2>1, <1>1, FS_Subset
<1> HIDE DEF S
<1>5. Cardinality({}) = 0
  BY FS_EmptySet
<1>6. Committed(0) = 1
  BY <1>0, <1>2, <1>5
<1>7. ASSUME NEW n \in Nat
      PROVE  /\ Committed(n) \in Nat \ {0}
             /\ Committed(n + 1) = Committed(n) + (IF log[n + 1].op = "commit" THEN 1 ELSE 0)
  <2>1. Committed(n) = 1 + Cardinality(S(n)) /\ Committed(n + 1) = 1 + Cardinality(S(n + 1))
    BY <1>0
  <2> QED BY <2>1, <1>1, <1>3
<1>8. ASSUME NEW m \in Nat, NEW n \in Nat, m <= n PROVE Committed(m) <= Committed(n)
  <2>1. Committed(m) = 1 + Cardinality(S(m)) /\ Committed(n) = 1 + Cardinality(S(n))
    BY <1>0
  <2> QED BY <2>1, <1>8, <1>1, <1>4
<1> QED BY <1>6, <1>7, <1>8

\* The same after a step.
LEMMA CommittedNextNext ==
  (/\ Committed(0) = 1
   /\ \A n \in Nat :
        /\ Committed(n) \in Nat \ {0}
        /\ Committed(n + 1) = Committed(n) + (IF log[n + 1].op = "commit" THEN 1 ELSE 0)
   /\ \A m, n \in Nat : m <= n => Committed(m) <= Committed(n))'
BY CommittedNext, PTL

Oldest(P) == CHOOSE k \in P : \A j \in P : k <= j

\* The least record of a set, when it is known.
LEMMA OldestIs ==
  ASSUME NEW P \in SUBSET Nat, NEW k \in P, \A j \in P : k <= j
  PROVE  Oldest(P) = k
<1>1. \A i \in P : (\A j \in P : i <= j) => i = k
  OBVIOUS
<1> QED BY <1>1 DEF Oldest

\* The least record of a set is one of it.
LEMMA OldestOf ==
  ASSUME NEW P \in SUBSET Nat, P # {}
  PROVE  Oldest(P) \in P /\ \A j \in P : Oldest(P) <= j
BY Smallest DEF Oldest

\* The records of row r that somebody still has to undo.
PendingRow(n, r) == {k \in UNION {Pending(n, t) : t \in Trans} : log[k].row = r}

\* What the rollback leaves in a row: the oldest value still to undo.
LEMMA RolledRow ==
  \A n : \A r \in Rows : Rolled(Full(n))[r] =
    IF PendingRow(n, r) = {} THEN Db(n)[r] ELSE log[Oldest(PendingRow(n, r))].old
BY DEF Rolled, PendingRow, Pending, Db, Stack, Oldest

\* The rollback gives a value to each row and to nothing else.
LEMMA RolledType == \A acc : Rolled(acc) = [r \in Rows |-> Rolled(acc)[r]]
BY DEF Rolled

\* Of all records, only a commit changes what a rollback would leave: it makes the
\* rows of its transaction count.
LEMMA RolledNext ==
  ASSUME log \in Seq(Record), NEW n \in 1 .. Len(log), StepOK(n), StackOK(n - 1), NEW r \in Rows
  PROVE  Rolled(Full(n))[r] =
           IF log[n].op = "commit" /\ \E k \in Pending(n - 1, log[n].tr) : log[k].row = r
           THEN Db(n - 1)[r] ELSE Rolled(Full(n - 1))[r]
<1> DEFINE t == log[n].tr
           x == log[n].row
           P == PendingRow(n, r)
           Q == PendingRow(n - 1, r)
<1>0. /\ log[n].op \in {"update", "undo", "commit", "abort", "begin", "pages"}
      /\ log[n].op \in {"update", "undo"} => t \in Trans /\ x \in Rows
      /\ log[n].op \in {"commit", "abort"} => t \in Trans
  BY LogRecord, RecordFields
<1>1. n \in Nat \ {0} /\ n - 1 \in Nat
  OBVIOUS
<1>2. \A u \in Trans : Pending(n, u) \subseteq 1 .. n /\ Pending(n - 1, u) \subseteq 1 .. n - 1
  BY PendingNext
<1>3. /\ P \in SUBSET Nat /\ Q \in SUBSET Nat
      /\ \A k \in P : k \in 1 .. n
      /\ \A k \in Q : k \in 1 .. n - 1
  BY <1>1, <1>2 DEF PendingRow
<1>4. /\ \A k : k \in P <=> \E u \in Trans : k \in Pending(n, u) /\ log[k].row = r
      /\ \A k : k \in Q <=> \E u \in Trans : k \in Pending(n - 1, u) /\ log[k].row = r
  BY DEF PendingRow
<1>5. /\ Rolled(Full(n))[r] = IF P = {} THEN Db(n)[r] ELSE log[Oldest(P)].old
      /\ Rolled(Full(n - 1))[r] = IF Q = {} THEN Db(n - 1)[r] ELSE log[Oldest(Q)].old
  BY RolledRow
<1>6. Db(n)[r] = IF Writes(n, r) THEN log[n].val ELSE Db(n - 1)[r]
  BY FullNext
<1> HIDE DEF P, Q
<1>7. \A u \in Trans : u # t => Pending(n, u) = Pending(n - 1, u)
  BY PendingNext
<1>8. CASE log[n].op = "update"
  <2>1. Pending(n, t) = Pending(n - 1, t) \cup {n}
    BY <1>0, <1>8, PendingNext
  <2>2. CASE x # r
    <3>1. \A k : k \in P <=> k \in Q
      BY <1>0, <1>4, <1>7, <2>1, <2>2
    <3>2. P = Q
      BY <3>1
    <3> QED BY <3>2, <2>2, <1>5, <1>6, <1>8 DEF Writes
  <2>3. CASE x = r
    <3>1. \A k : k \in P <=> k \in Q \/ k = n
      BY <1>0, <1>4, <1>7, <1>8, <2>1, <2>3
    <3>2. CASE Q = {}
      <4>1. Oldest(P) = n
        BY <3>1, <3>2, <1>3, OldestIs
      <4>2. log[n].old = Db(n - 1)[r]
        BY <1>8, <2>3 DEF StepOK
      <4> QED BY <3>1, <3>2, <4>1, <4>2, <1>5, <1>8
    <3>3. CASE Q # {}
      <4>1. Oldest(Q) \in Q /\ \A j \in Q : Oldest(Q) <= j
        BY <3>3, <1>3, OldestOf
      <4> DEFINE o == Oldest(Q)
      <4> HIDE DEF o
      <4>2. o \in Q /\ (\A j \in Q : o <= j) /\ o <= n
        <5>1. o \in Q /\ \A j \in Q : o <= j
          BY <4>1 DEF o
        <5>2. o \in 1 .. n - 1
          BY <5>1, <1>3
        <5> QED BY <5>1, <5>2
      <4>3. Oldest(Q) \in P /\ \A j \in P : Oldest(Q) <= j
        BY <4>2, <3>1 DEF o
      <4>4. Oldest(P) = Oldest(Q)
        BY <4>3, <1>3, OldestIs
      <4> QED BY <3>3, <4>3, <4>4, <1>5, <1>8
    <3> QED BY <3>2, <3>3
  <2> QED BY <2>2, <2>3
<1>9. CASE log[n].op = "undo"
  <2> DEFINE top == Stack(n - 1)[t][1]
  <2>1. /\ Stack(n - 1)[t] # <<>>
        /\ Pending(n - 1, t) = Pending(n, t) \cup {top}
        /\ \A k \in Pending(n, t) : k < top
    BY <1>0, <1>9, PendingNext
  <2>2. x = log[top].row /\ log[n].val = log[top].old
    BY <1>9 DEF StepOK
  <2> HIDE DEF top
  <2>3. CASE x # r
    <3>1. \A k : k \in P <=> k \in Q
      BY <1>0, <1>4, <1>7, <2>1, <2>2, <2>3
    <3>2. P = Q
      BY <3>1
    <3> QED BY <3>2, <2>3, <1>5, <1>6, <1>9 DEF Writes
  <2>4. CASE x = r
    <3>1. \A k : k \in Q <=> k \in P \/ k = top
      BY <1>0, <1>4, <1>7, <1>9, <2>1, <2>2, <2>4
    <3>2. \A k \in P : k < top
      <4>1. ASSUME NEW k \in P, NEW u \in Trans, k \in Pending(n, u), log[k].row = r
            PROVE  k < top
        <5>1. CASE u = t
          BY <5>1, <4>1, <2>1
        <5>2. CASE u # t
          <6>1. k \in Pending(n - 1, u) /\ top \in Pending(n - 1, t)
            BY <5>2, <4>1, <1>7, <2>1
          <6>2. log[k].row # log[top].row
            BY <6>1, <5>2, <1>0, <1>9 DEF StackOK
          <6> QED BY <6>2, <4>1, <2>2, <2>4
        <5> QED BY <5>1, <5>2
      <4> QED BY <4>1, <1>4
    <3>3. top \in Q /\ top \in Nat
      BY <3>1, <1>3
    <3>4. Db(n)[r] = log[top].old
      BY <1>6, <1>9, <2>2, <2>4 DEF Writes
    <3>5. CASE P = {}
      <4>1. Oldest(Q) = top
        BY <3>1, <3>3, <3>5, <1>3, OldestIs
      <4> QED BY <3>3, <3>4, <3>5, <4>1, <1>5, <1>9
    <3>6. CASE P # {}
      <4>1. Oldest(P) \in P /\ \A j \in P : Oldest(P) <= j
        BY <3>6, <1>3, OldestOf
      <4> DEFINE o == Oldest(P)
      <4> HIDE DEF o
      <4>2. o \in P /\ (\A j \in P : o <= j) /\ o <= top
        <5>1. o \in P /\ \A j \in P : o <= j
          BY <4>1 DEF o
        <5>2. o \in 1 .. n /\ o < top
          BY <5>1, <1>3, <3>2
        <5> QED BY <5>1, <5>2, <3>3
      <4>3. Oldest(P) \in Q /\ \A j \in Q : Oldest(P) <= j
        BY <4>2, <3>1 DEF o
      <4>4. Oldest(Q) = Oldest(P)
        BY <4>3, <1>3, OldestIs
      <4> QED BY <3>6, <4>3, <4>4, <1>5, <1>9
    <3> QED BY <3>5, <3>6
  <2> QED BY <2>3, <2>4
<1>10. CASE log[n].op \in {"commit", "abort"}
  <2>1. Pending(n, t) = {} /\ ~ Writes(n, r)
    BY <1>0, <1>10, PendingNext DEF Writes
  <2>2. log[n].op = "abort" => Pending(n - 1, t) = {}
    BY DEF StepOK, Pending
  <2>3. CASE \E k \in Pending(n - 1, t) : log[k].row = r
    <3>1. PICK k \in Pending(n - 1, t) : log[k].row = r
      BY <2>3
    <3>2. ASSUME NEW u \in Trans, NEW l \in Pending(n, u), log[l].row = r PROVE FALSE
      <4>1. u # t /\ l \in Pending(n - 1, u)
        BY <3>2, <2>1, <1>7
      <4> QED BY <4>1, <3>1, <3>2, <1>0, <1>10 DEF StackOK
    <3>3. P = {}
      BY <3>2, <1>4
    <3> QED BY <3>1, <3>3, <2>1, <2>2, <1>5, <1>6, <1>10
  <2>4. CASE ~ \E k \in Pending(n - 1, t) : log[k].row = r
    <3>1. \A k : k \in P <=> k \in Q
      BY <1>4, <1>7, <2>1, <2>4, <1>0, <1>10
    <3>2. P = Q
      BY <3>1
    <3> QED BY <3>2, <2>1, <2>4, <1>5, <1>6
  <2> QED BY <2>3, <2>4
<1>11. CASE log[n].op \in {"begin", "pages"}
  <2>1. \A u \in Trans : Pending(n, u) = Pending(n - 1, u)
    BY <1>11, PendingNext
  <2>2. \A k : k \in P <=> k \in Q
    BY <2>1, <1>4
  <2>3. P = Q /\ ~ Writes(n, r)
    BY <2>2, <1>11 DEF Writes
  <2> QED BY <2>3, <1>5, <1>6, <1>11
<1> QED BY <1>0, <1>8, <1>9, <1>10, <1>11

-----------------------------------------------------------------------------
(* What the log says up to m does not depend on what comes behind.         *)

\* The records to undo are of the log, and the last of them is one of them.
LEMMA PendingType ==
  ASSUME log \in Seq(Record), NEW n \in 0 .. Len(log), NEW t \in Trans
  PROVE  /\ Stack(n)[t] \in Seq(1 .. n) /\ Pending(n, t) \subseteq 1 .. n
         /\ Stack(n)[t] # <<>> => Stack(n)[t][1] \in Pending(n, t) /\ 1 \in DOMAIN Stack(n)[t]
         /\ Stack(n)[t] = <<>> => Pending(n, t) = {}
<1> DEFINE s == Stack(n)[t]
<1>1. s \in Seq(1 .. n)
  BY FullNext
<1>2. \A i \in DOMAIN s : s[i] \in 1 .. n
  BY <1>1, ElementOfSeq
<1>3. s # <<>> => 1 \in DOMAIN s
  BY <1>1, Pop
<1>4. s = <<>> => DOMAIN s = {}
  OBVIOUS
<1> QED BY <1>1, <1>2, <1>3, <1>4 DEF Pending

\* The old log and the new one are the same up to m.
Agree(m) ==
  /\ log \in Seq(Record) /\ log' \in Seq(Record)
  /\ m \in 0 .. Len(log) /\ m \in 0 .. Len(log')
  /\ \A k \in 1 .. m : log'[k] = log[k]

\* What the log says up to n does not depend on what comes later.
LEMMA FullKept ==
  ASSUME NEW m, Agree(m), NEW n \in 0 .. m
  PROVE  /\ Full(n)' = Full(n) /\ Db(n)' = Db(n) /\ Stack(n)' = Stack(n)
         /\ \A t \in Trans : Pending(n, t)' = Pending(n, t)
<1>1. /\ n \in Nat /\ 1 \in Nat \ {0} /\ 1 - 1 <= n
      /\ \A k \in 1 .. n : log'[k] = log[k]
  BY DEF Agree
<1>2. Redone(Zero, 1, n)' = Redone(Zero, 1, n)
  <2>1. \A db : Redone(db, 1, n)' = Redone(db, 1, n)
    BY <1>1, RedoneKept
  <2>2. Zero' = Zero
    BY DEF Zero
  <2> QED BY <2>1, <2>2
<1>3. Full(n)' = Full(n)
  BY <1>2 DEF Full
<1> QED BY <1>3 DEF Db, Stack, Pending

\* RolledRow after a step.
LEMMA RolledRowNext ==
  (\A n : \A r \in Rows : Rolled(Full(n))[r] =
    IF PendingRow(n, r) = {} THEN Db(n)[r] ELSE log[Oldest(PendingRow(n, r))].old)'
BY RolledRow, PTL

\* RolledType after a step.
LEMMA RolledTypeNext == (\A acc : Rolled(acc) = [r \in Rows |-> Rolled(acc)[r]])'
BY RolledType, PTL

\* Nor do the stacks, the rollback, the commits and the writes of that part.
LEMMA PrefixKept ==
  ASSUME NEW m, Agree(m), NEW n \in 0 .. m
  PROVE  /\ StackOK(n)' <=> StackOK(n)
         /\ Rolled(Full(n))' = Rolled(Full(n))
         /\ Committed(n)' = Committed(n)
         /\ n # 0 => (StepOK(n)' <=> StepOK(n)) /\ \A r : Writes(n, r)' <=> Writes(n, r)
<1>1. /\ log \in Seq(Record) /\ n \in 0 .. Len(log) /\ n \in Nat /\ m \in Nat
      /\ \A k \in 1 .. n : log'[k] = log[k]
  BY DEF Agree
<1>2. /\ Full(n)' = Full(n) /\ Db(n)' = Db(n) /\ Stack(n)' = Stack(n)
      /\ \A t \in Trans : Pending(n, t)' = Pending(n, t)
  BY FullKept
<1>3. \A t \in Trans : \A k \in Pending(n, t) : k \in 1 .. n /\ log'[k] = log[k]
  BY <1>1, PendingType
<1>4. StackOK(n)' <=> StackOK(n)
  BY <1>2, <1>3 DEF StackOK
<1>5. Rolled(Full(n))' = Rolled(Full(n))
  <2>1. ASSUME NEW r \in Rows PROVE Rolled(Full(n))'[r] = Rolled(Full(n))[r]
    <3> DEFINE P == PendingRow(n, r)
    <3>1. PendingRow(n, r)' = P
      <4>1. \A k : k \in PendingRow(n, r)' <=> \E t \in Trans : k \in Pending(n, t)' /\ log'[k].row = r
        BY DEF PendingRow
      <4>2. \A k : k \in P <=> \E t \in Trans : k \in Pending(n, t) /\ log[k].row = r
        BY DEF PendingRow
      <4>3. \A k : k \in PendingRow(n, r)' <=> k \in P
        BY <4>1, <4>2, <1>2, <1>3
      <4> QED BY <4>3
    <3>2. P # {} => log'[Oldest(P)] = log[Oldest(P)]
      <4>1. P \in SUBSET Nat /\ \A k \in P : log'[k] = log[k]
        BY <1>3 DEF PendingRow
      <4> QED BY <4>1, OldestOf
    <3>3. Rolled(Full(n))'[r] = IF P = {} THEN Db(n)'[r] ELSE log'[Oldest(P)].old
      BY <3>1, RolledRowNext
    <3>4. Rolled(Full(n))[r] = IF P = {} THEN Db(n)[r] ELSE log[Oldest(P)].old
      BY RolledRow
    <3> HIDE DEF P
    <3> QED BY <3>2, <3>3, <3>4, <1>2
  <2>2. /\ Rolled(Full(n)) = [r \in Rows |-> Rolled(Full(n))[r]]
        /\ Rolled(Full(n))' = [r \in Rows |-> Rolled(Full(n))'[r]]
    BY RolledType, RolledTypeNext
  <2> QED BY <2>1, <2>2
<1>6. Committed(n)' = Committed(n)
  <2>1. {i \in 1 .. n : log'[i].op = "commit"} = {i \in 1 .. n : log[i].op = "commit"}
    BY <1>1
  <2> QED BY <2>1 DEF Committed
<1>7. ASSUME n # 0
      PROVE  (StepOK(n)' <=> StepOK(n)) /\ \A r : Writes(n, r)' <=> Writes(n, r)
  <2>1. /\ n - 1 \in 0 .. m /\ n - 1 \in 0 .. Len(log) /\ log'[n] = log[n] /\ n \in 1 .. Len(log)
        /\ \A k \in 1 .. n - 1 : log'[k] = log[k]
    BY <1>1, <1>7
  <2>2. /\ Db(n - 1)' = Db(n - 1) /\ Stack(n - 1)' = Stack(n - 1)
        /\ \A t \in Trans : Pending(n - 1, t)' = Pending(n - 1, t)
    BY <2>1, FullKept
  <2>3. \A t \in Trans : /\ \A k \in Pending(n - 1, t) : log'[k] = log[k]
                         /\ Stack(n - 1)[t] # <<>> => log'[Stack(n - 1)[t][1]] = log[Stack(n - 1)[t][1]]
    BY <1>1, <2>1, PendingType
  <2>4. log[n].op \in {"update", "undo"} => log[n].tr \in Trans
    BY <1>1, <2>1, LogRecord, RecordFields
  <2>5. StepOK(n)' <=> StepOK(n)
    BY <2>1, <2>2, <2>3, <2>4 DEF StepOK
  <2> QED BY <2>1, <2>5 DEF Writes
<1> QED BY <1>4, <1>5, <1>6, <1>7

\* One record, as one formula, for the next state too.
StepFacts(n) ==
  /\ Db(n) \in [Rows -> Val] /\ Stack(n) \in [Trans -> Seq(1 .. n)]
  /\ \A r \in Rows : Db(n)[r] = IF Writes(n, r) THEN log[n].val ELSE Db(n - 1)[r]
  /\ \A t \in Trans : Stack(n)[t] = NextStack(Stack(n - 1)[t], t, n)
  /\ StackOK(n)
  /\ \A t \in Trans :
       /\ log[n].op = "update" /\ log[n].tr = t => Pending(n, t) = Pending(n - 1, t) \cup {n}
       /\ log[n].op # "update" \/ log[n].tr # t => Pending(n, t) \subseteq Pending(n - 1, t)
       /\ log[n].op \in {"commit", "abort"} /\ log[n].tr = t => Pending(n, t) = {}
  /\ \A r \in Rows : Rolled(Full(n))[r] =
       IF log[n].op = "commit" /\ \E k \in Pending(n - 1, log[n].tr) : log[k].row = r
       THEN Db(n - 1)[r] ELSE Rolled(Full(n - 1))[r]

\* All of it for one record that its writer was allowed to log.
LEMMA RecordFacts ==
  \A n : log \in Seq(Record) /\ n \in 1 .. Len(log) /\ StepOK(n) /\ StackOK(n - 1) => StepFacts(n)
<1> SUFFICES ASSUME NEW n, log \in Seq(Record), n \in 1 .. Len(log), StepOK(n), StackOK(n - 1)
             PROVE  StepFacts(n)
  OBVIOUS
<1>1. n \in 0 .. Len(log)
  OBVIOUS
<1>2. /\ Db(n) \in [Rows -> Val] /\ Stack(n) \in [Trans -> Seq(1 .. n)]
      /\ \A r \in Rows : Db(n)[r] = IF Writes(n, r) THEN log[n].val ELSE Db(n - 1)[r]
      /\ \A t \in Trans : Stack(n)[t] = NextStack(Stack(n - 1)[t], t, n)
  BY <1>1, FullNext
<1>3. log[n].op \in {"update", "undo", "commit", "abort", "begin", "pages"}
  BY LogRecord, RecordFields
<1>4. ASSUME NEW t \in Trans
      PROVE  /\ log[n].op = "update" /\ log[n].tr = t => Pending(n, t) = Pending(n - 1, t) \cup {n}
             /\ log[n].op # "update" \/ log[n].tr # t => Pending(n, t) \subseteq Pending(n - 1, t)
             /\ log[n].op \in {"commit", "abort"} /\ log[n].tr = t => Pending(n, t) = {}
  <2>1. /\ log[n].op = "update" /\ log[n].tr = t => Pending(n, t) = Pending(n - 1, t) \cup {n}
        /\ log[n].op = "undo" /\ log[n].tr = t =>
             Pending(n - 1, t) = Pending(n, t) \cup {Stack(n - 1)[t][1]}
        /\ log[n].op \in {"commit", "abort"} /\ log[n].tr = t => Pending(n, t) = {}
        /\ log[n].op \in {"begin", "pages"} \/ log[n].tr # t => Pending(n, t) = Pending(n - 1, t)
    BY PendingNext
  <2> QED BY <2>1, <1>3
<1> QED BY <1>2, <1>4, StackNext, RolledNext DEF StepFacts

\* The same after a step.
LEMMA RecordFactsNext ==
  (\A n : log \in Seq(Record) /\ n \in 1 .. Len(log) /\ StepOK(n) /\ StackOK(n - 1) => StepFacts(n))'
BY RecordFacts, PTL

\* What the writer of record l has to know when the log ends at n.
MayLog(n, l) ==
  /\ l \in Record
  /\ l.op = "update" =>
       /\ l.old = Db(n)[l.row]
       /\ l.begins <=> Stack(n)[l.tr] = <<>>
       /\ \A u \in Trans \ {l.tr} : \A k \in Pending(n, u) : log[k].row # l.row
  /\ l.op = "undo" =>
       LET s == Stack(n)[l.tr] IN
       s # <<>> /\ l.row = log[s[1]].row /\ l.val = log[s[1]].old
  /\ l.op = "abort" => Stack(n)[l.tr] = <<>>
  /\ l.op = "begin" => l.redo <= n + 1

\* The log from n to m by the record l.
Logs(n, m, l) ==
  /\ Agree(n) /\ n \in Nat /\ m \in Nat /\ Len(log') = m /\ log'[m] = l
  /\ StepOK(m)' /\ StackOK(m)'
  /\ Db(m)' \in [Rows -> Val] /\ Stack(m)' \in [Trans -> Seq(1 .. m)]
  /\ \A r \in Rows : Db(m)'[r] = IF l.op \in {"update", "undo"} /\ l.row = r THEN l.val ELSE Db(n)[r]
  /\ l.op = "update" => Stack(m)' = [Stack(n) EXCEPT ![l.tr] = <<m>> \o @]
  /\ l.op = "undo" => Stack(m)' = [Stack(n) EXCEPT ![l.tr] = Tail(@)]
  /\ l.op \in {"commit", "abort"} => Stack(m)' = [Stack(n) EXCEPT ![l.tr] = <<>>]
  /\ l.op \in {"begin", "pages"} => Stack(m)' = Stack(n)
  /\ \A t \in Trans :
       /\ l.op = "update" /\ l.tr = t => Pending(m, t)' = Pending(n, t) \cup {m}
       /\ l.op # "update" \/ l.tr # t => Pending(m, t)' \subseteq Pending(n, t)
       /\ l.op \in {"commit", "abort"} /\ l.tr = t => Pending(m, t)' = {}
  /\ \A r \in Rows : Rolled(Full(m))'[r] =
       IF l.op = "commit" /\ \E k \in Pending(n, l.tr) : log[k].row = r
       THEN Db(n)[r] ELSE Rolled(Full(n))[r]
  /\ Committed(m)' = Committed(n) + (IF l.op = "commit" THEN 1 ELSE 0)

\* A record more.
LEMMA Appended ==
  ASSUME log \in Seq(Record), NEW n, n = Len(log), NEW m, m = n + 1, StackOK(n),
         NEW l, MayLog(n, l), log' = Append(log, l)
  PROVE  Logs(n, m, l)
<1>0. /\ n \in Nat /\ m \in Nat /\ l \in Record /\ m - 1 = n /\ n \in 0 .. n /\ m # 0
      /\ m \in 1 .. m /\ n \in 0 .. Len(log)
  BY DEF MayLog
<1>1. /\ log' \in Seq(Record) /\ Len(log') = m /\ log'[m] = l
      /\ \A k \in 1 .. n : log'[k] = log[k]
  BY <1>0, AppendProperties
<1>2. Agree(n)
  BY <1>0, <1>1 DEF Agree
<1>3. /\ Full(n)' = Full(n) /\ Db(n)' = Db(n) /\ Stack(n)' = Stack(n)
      /\ \A t \in Trans : Pending(n, t)' = Pending(n, t)
  BY <1>0, <1>2, FullKept
<1>4. /\ StackOK(n)' /\ Rolled(Full(n))' = Rolled(Full(n)) /\ Committed(n)' = Committed(n)
  BY <1>0, <1>2, PrefixKept
<1>5. /\ l.op \in {"update", "undo", "commit", "abort", "begin", "pages"}
      /\ l.op \in {"update", "undo", "commit", "abort"} => l.tr \in Trans
  BY <1>0, RecordFields
<1>6. /\ Stack(n) \in [Trans -> Seq(1 .. n)]
      /\ \A t \in Trans : \A k \in Pending(n, t) : k \in 1 .. n
      /\ \A t \in Trans : Stack(n)[t] # <<>> => Stack(n)[t][1] \in 1 .. n
  BY <1>0, FullNext, PendingType
<1>7. StepOK(m)'
  <2>1. /\ \A t \in Trans : \A k \in Pending(n, t) : log'[k] = log[k]
        /\ \A t \in Trans : Stack(n)[t] # <<>> => log'[Stack(n)[t][1]] = log[Stack(n)[t][1]]
    BY <1>1, <1>6
  <2>2. l.op \in {"update", "undo"} => l.tr \in Trans
    BY <1>5
  <2>3. /\ Db(m - 1)' = Db(n) /\ Stack(m - 1)' = Stack(n)
        /\ \A u \in Trans : Pending(m - 1, u)' = Pending(n, u)
    BY <1>0, <1>3
  <2>4. log'[m] = l /\ m - 1 = n
    BY <1>0, <1>1
  <2>5. CASE l.op = "update"
    <3>1. \A u \in Trans \ {l.tr} : \A k \in Pending(m - 1, u)' : log'[k].row # l.row
      <4> SUFFICES ASSUME NEW u \in Trans \ {l.tr}, NEW k \in Pending(m - 1, u)'
                   PROVE  log'[k].row # l.row
        OBVIOUS
      <4>1. k \in Pending(n, u) /\ log'[k] = log[k]
        BY <2>1, <2>3
      <4>2. log[k].row # l.row
        BY <4>1, <2>5 DEF MayLog
      <4> QED BY <4>1, <4>2
    <3>2. /\ l.old = Db(m - 1)'[l.row]
          /\ l.begins <=> Stack(m - 1)'[l.tr] = <<>>
      BY <2>3, <2>5 DEF MayLog
    <3>3. StepOK(m)' <=>
            /\ l.old = Db(m - 1)'[l.row]
            /\ l.begins <=> Stack(m - 1)'[l.tr] = <<>>
            /\ \A u \in Trans \ {l.tr} : \A k \in Pending(m - 1, u)' : log'[k].row # l.row
      BY <2>4, <2>5 DEF StepOK
    <3> QED BY <3>1, <3>2, <3>3, Zenon
  <2>6. CASE l.op = "undo"
    BY <2>1, <2>2, <2>3, <2>4, <2>6 DEF StepOK, MayLog
  <2>7. CASE l.op \notin {"update", "undo"}
    BY <1>0, <2>3, <2>4, <2>7 DEF StepOK, MayLog
  <2> QED BY <2>5, <2>6, <2>7
<1>8. StepFacts(m)'
  <2>1. StackOK(m - 1)'
    BY <1>0, <1>4
  <2> QED BY <2>1, <1>0, <1>1, <1>7, RecordFactsNext
<1>9. /\ Db(m)' \in [Rows -> Val] /\ Stack(m)' \in [Trans -> Seq(1 .. m)]
      /\ \A r \in Rows : Db(m)'[r] = IF Writes(m, r)' THEN log'[m].val ELSE Db(m - 1)'[r]
      /\ \A t \in Trans : Stack(m)'[t] = NextStack(Stack(m - 1)[t], t, m)'
      /\ StackOK(m)'
      /\ \A t \in Trans :
           /\ log'[m].op = "update" /\ log'[m].tr = t => Pending(m, t)' = Pending(m - 1, t)' \cup {m}
           /\ log'[m].op # "update" \/ log'[m].tr # t => Pending(m, t)' \subseteq Pending(m - 1, t)'
           /\ log'[m].op \in {"commit", "abort"} /\ log'[m].tr = t => Pending(m, t)' = {}
      /\ \A r \in Rows : Rolled(Full(m))'[r] =
           IF log'[m].op = "commit" /\ \E k \in Pending(m - 1, log[m].tr)' : log'[k].row = r
           THEN Db(m - 1)'[r] ELSE Rolled(Full(m - 1))'[r]
  BY <1>8 DEF StepFacts
<1>10. \A r \in Rows : Db(m)'[r] = IF l.op \in {"update", "undo"} /\ l.row = r THEN l.val ELSE Db(n)[r]
  BY <1>0, <1>1, <1>3, <1>9 DEF Writes
<1>11. \A t \in Trans : Stack(m)'[t] =
         IF l.op = "update" /\ l.tr = t /\ (l.begins \/ Stack(n)[t] # <<>>) THEN <<m>> \o Stack(n)[t]
         ELSE IF l.op = "undo" /\ l.tr = t /\ Stack(n)[t] # <<>> THEN Tail(Stack(n)[t])
         ELSE IF l.op \in {"commit", "abort"} /\ l.tr = t THEN <<>>
         ELSE Stack(n)[t]
  BY <1>0, <1>1, <1>3, <1>9 DEF NextStack
<1>12. /\ l.op = "update" => l.begins \/ Stack(n)[l.tr] # <<>>
       /\ l.op = "undo" => Stack(n)[l.tr] # <<>>
  BY DEF MayLog
<1>13. Stack(m)' = [t \in Trans |-> Stack(m)'[t]] /\ Stack(n) = [t \in Trans |-> Stack(n)[t]]
  BY <1>6, <1>9
<1>14. /\ l.op = "update" => Stack(m)' = [Stack(n) EXCEPT ![l.tr] = <<m>> \o @]
       /\ l.op = "undo" => Stack(m)' = [Stack(n) EXCEPT ![l.tr] = Tail(@)]
       /\ l.op \in {"commit", "abort"} => Stack(m)' = [Stack(n) EXCEPT ![l.tr] = <<>>]
       /\ l.op \in {"begin", "pages"} => Stack(m)' = Stack(n)
  <2>1. CASE l.op = "update"
    BY <2>1, <1>11, <1>12, <1>13
  <2>2. CASE l.op = "undo"
    BY <2>2, <1>11, <1>12, <1>13
  <2>3. CASE l.op \in {"commit", "abort"}
    BY <2>3, <1>11, <1>13
  <2>4. CASE l.op \in {"begin", "pages"}
    BY <2>4, <1>11, <1>13
  <2> QED BY <1>5, <2>1, <2>2, <2>3, <2>4
<1>15. \A t \in Trans :
         /\ l.op = "update" /\ l.tr = t => Pending(m, t)' = Pending(n, t) \cup {m}
         /\ l.op # "update" \/ l.tr # t => Pending(m, t)' \subseteq Pending(n, t)
         /\ l.op \in {"commit", "abort"} /\ l.tr = t => Pending(m, t)' = {}
  BY <1>0, <1>1, <1>3, <1>9
<1>16. \A r \in Rows : Rolled(Full(m))'[r] =
         IF l.op = "commit" /\ \E k \in Pending(n, l.tr) : log[k].row = r
         THEN Db(n)[r] ELSE Rolled(Full(n))[r]
  <2>1. l.op = "commit" =>
          \A r : (\E k \in Pending(m - 1, log[m].tr)' : log'[k].row = r)
                 <=> \E k \in Pending(n, l.tr) : log[k].row = r
    BY <1>0, <1>1, <1>3, <1>5, <1>6
  <2>2. ASSUME NEW r \in Rows
        PROVE  Rolled(Full(m))'[r] =
                 IF l.op = "commit" /\ \E k \in Pending(n, l.tr) : log[k].row = r
                 THEN Db(n)[r] ELSE Rolled(Full(n))[r]
    <3>1. Db(m - 1)' = Db(n) /\ Rolled(Full(m - 1))' = Rolled(Full(n)) /\ log'[m] = l
      BY <1>0, <1>1, <1>3, <1>4
    <3>2. Rolled(Full(m))'[r] =
            IF log'[m].op = "commit" /\ \E k \in Pending(m - 1, log[m].tr)' : log'[k].row = r
            THEN Db(m - 1)'[r] ELSE Rolled(Full(m - 1))'[r]
      BY <1>9
    <3>3. CASE l.op = "commit"
      BY <2>1, <3>1, <3>2, <3>3
    <3>4. CASE l.op # "commit"
      BY <3>1, <3>2, <3>4
    <3> QED BY <3>3, <3>4
  <2> QED BY <2>2
<1>17. Committed(m)' = Committed(n) + (IF l.op = "commit" THEN 1 ELSE 0)
  BY <1>0, <1>1, <1>4, CommittedNextNext
<1> QED BY <1>0, <1>1, <1>2, <1>7, <1>9, <1>10, <1>14, <1>15, <1>16, <1>17 DEF Logs

-----------------------------------------------------------------------------
(* LogInv: the log stays, grows by a record or loses its end.              *)

\* The first m records, and the states they commit, stay in order.
LEMMA LogKept ==
  ASSUME LogInv, Len(history) = Committed(Len(log)), NEW m, Agree(m), m >= 1
  PROVE  /\ \A n \in 1 .. m : StepOK(n)'
         /\ \A n \in 0 .. m : StackOK(n)'
         /\ \A n \in 1 .. m : /\ history[Committed(n)] = Rolled(Full(n))'
                              /\ Committed(n)' = Committed(n)
                              /\ Committed(n) \in 1 .. Committed(m) /\ Committed(n) \in 1 .. Len(history)
         /\ Committed(m) \in 1 .. Len(history)
<1>1. m \in 0 .. Len(log) /\ Len(log) \in Nat /\ m \in Nat
  BY DEF Agree
<1>2. ASSUME NEW n \in 0 .. m
      PROVE  /\ StackOK(n)'
             /\ n # 0 => StepOK(n)' /\ history[Committed(n)] = Rolled(Full(n))' /\ Committed(n)' = Committed(n)
  <2>1. StackOK(n) /\ (n # 0 => StepOK(n) /\ history[Committed(n)] = Rolled(Full(n)))
    BY <1>1 DEF LogInv
  <2> QED BY <2>1, PrefixKept
<1>3. ASSUME NEW n \in 0 .. m
      PROVE  Committed(n) \in 1 .. Committed(m) /\ Committed(n) \in 1 .. Len(history)
  <2>1. n \in Nat /\ n <= m /\ n <= Len(log)
    BY <1>1
  <2>2. /\ Committed(n) \in Nat \ {0} /\ Committed(m) \in Nat \ {0} /\ Committed(Len(log)) \in Nat \ {0}
        /\ Committed(n) <= Committed(m) /\ Committed(n) <= Committed(Len(log))
    BY <2>1, <1>1, CommittedNext
  <2> QED BY <2>2
<1>4. m \in 0 .. m /\ \A n \in 1 .. m : n \in 0 .. m /\ n # 0
  BY <1>1
<1> QED BY <1>2, <1>3, <1>4

\* LogInv when nothing is logged.
LEMMA LogSame ==
  ASSUME LogInv, Len(log) >= 1, Len(history) = Committed(Len(log)), log' = log, history' = history
  PROVE  LogInv' /\ Agree(Len(log)) /\ Len(history)' = Committed(Len(log))'
<1> PICK n : n = Len(log)
  OBVIOUS
<1>1. /\ log \in Seq(Record) /\ log' \in Seq(Record) /\ n \in Nat /\ n >= 1 /\ Len(log') = n
      /\ history' \in Seq([Rows -> Val])
  BY DEF LogInv
<1>2. Agree(n)
  BY <1>1 DEF Agree
<1>3. /\ \A k \in 1 .. n : StepOK(k)'
      /\ \A k \in 0 .. n : StackOK(k)'
      /\ \A k \in 1 .. n : history[Committed(k)] = Rolled(Full(k))' /\ Committed(k)' = Committed(k)
  BY <1>1, <1>2, LogKept
<1>4. Seq(Record)' = Seq(Record) /\ Seq([Rows -> Val])' = Seq([Rows -> Val])
  BY DEF Record, Val
<1>5. Committed(n)' = Committed(n)
  BY <1>1, <1>3
<1> QED BY <1>1, <1>2, <1>3, <1>4, <1>5 DEF LogInv

\* LogInv when a record is logged: a commit makes one state more.
LEMMA LogAppended ==
  ASSUME LogInv, Len(history) = Committed(Len(log)),
         NEW n, n = Len(log), n >= 1, NEW m, m = n + 1, NEW l, MayLog(n, l), log' = Append(log, l),
         \/ l.op # "commit" /\ history' = history
         \/ /\ l.op = "commit"
            /\ \E h \in [Rows -> Val] : history' = Append(history, h) /\ h = Rolled(Full(m))'
  PROVE  LogInv' /\ Len(history)' = Committed(m)'
<1>0. /\ log \in Seq(Record) /\ history \in Seq([Rows -> Val]) /\ n \in Nat /\ StackOK(n)
      /\ n \in 1 .. n /\ history[Committed(n)] = Rolled(Full(n)) /\ Len(history) \in Nat
      /\ Len(history) = Committed(n)
  BY DEF LogInv
<1>1. /\ Agree(n) /\ m \in Nat /\ Len(log') = m
      /\ StepOK(m)' /\ StackOK(m)'
      /\ \A r \in Rows : Rolled(Full(m))'[r] =
              IF l.op = "commit" /\ \E k \in Pending(n, l.tr) : log[k].row = r
              THEN Db(n)[r] ELSE Rolled(Full(n))[r]
      /\ Committed(m)' = Committed(n) + (IF l.op = "commit" THEN 1 ELSE 0)
  <2>1. log \in Seq(Record) /\ n = Len(log) /\ m = n + 1 /\ StackOK(n) /\ MayLog(n, l) /\ log' = Append(log, l)
    BY <1>0
  <2>0. Logs(n, m, l)
    BY <2>1, Appended
  <2>2. Agree(n) /\ m \in Nat /\ Len(log') = m
    BY <2>0 DEF Logs
  <2>3. StepOK(m)' /\ StackOK(m)'
    BY <2>0 DEF Logs
  <2>4. Committed(m)' = Committed(n) + (IF l.op = "commit" THEN 1 ELSE 0)
    BY <2>0 DEF Logs
  <2>5. \A r \in Rows : Rolled(Full(m))'[r] =
              IF l.op = "commit" /\ \E k \in Pending(n, l.tr) : log[k].row = r
              THEN Db(n)[r] ELSE Rolled(Full(n))[r]
    BY <2>0 DEF Logs
  <2> QED BY <2>2, <2>3, <2>4, <2>5
<1>2. /\ \A k \in 1 .. n : StepOK(k)'
      /\ \A k \in 0 .. n : StackOK(k)'
      /\ \A k \in 1 .. n : /\ history[Committed(k)] = Rolled(Full(k))' /\ Committed(k)' = Committed(k)
                           /\ Committed(k) \in 1 .. Len(history)
  BY <1>0, <1>1, LogKept
<1>3. /\ history' \in Seq([Rows -> Val]) /\ Len(history') = Committed(m)'
      /\ \A i \in 1 .. Len(history) : history'[i] = history[i]
      /\ history'[Committed(m)'] = Rolled(Full(m))'
  <2>1. CASE l.op # "commit" /\ history' = history
    <3>1. Committed(m)' = Committed(n)
      BY <2>1, <1>1, <1>0
    <3>2. \A r \in Rows : Rolled(Full(m))'[r] = Rolled(Full(n))[r]
      BY <2>1, <1>1
    <3>3. Rolled(Full(m))' = Rolled(Full(n))
      <4>1. /\ Rolled(Full(n)) = [r \in Rows |-> Rolled(Full(n))[r]]
            /\ Rolled(Full(m))' = [r \in Rows |-> Rolled(Full(m))'[r]]
        BY RolledType, RolledTypeNext
      <4> QED BY <3>2, <4>1
    <3> QED BY <2>1, <3>1, <3>3, <1>0
  <2>2. CASE l.op = "commit"
    <3>1. PICK h \in [Rows -> Val] : history' = Append(history, h) /\ h = Rolled(Full(m))'
      BY <2>2
    <3>2. Committed(m)' = Len(history) + 1
      BY <2>2, <1>0, <1>1
    <3>3. /\ history' \in Seq([Rows -> Val]) /\ Len(history') = Len(history) + 1
          /\ \A i \in 1 .. Len(history) : history'[i] = history[i]
          /\ history'[Len(history) + 1] = h
      BY <3>1, <1>0, AppendProperties
    <3> QED BY <3>1, <3>2, <3>3
  <2> QED BY <2>1, <2>2
<1>4. Seq(Record)' = Seq(Record) /\ Seq([Rows -> Val])' = Seq([Rows -> Val])
  BY DEF Record, Val
<1>5. log' \in Seq(Record) /\ \A k : k \in 1 .. m <=> k \in 1 .. n \/ k = m
  BY <1>0, <1>1 DEF Agree
<1>6. \A k : k \in 0 .. m <=> k \in 0 .. n \/ k = m
  BY <1>0, <1>1
<1>7. \A k \in 1 .. m : history'[Committed(k)'] = Rolled(Full(k))'
  <2>1. ASSUME NEW k \in 1 .. n PROVE history'[Committed(k)'] = Rolled(Full(k))'
    BY <1>2, <1>3
  <2> QED BY <2>1, <1>3, <1>5
<1> QED BY <1>1, <1>2, <1>3, <1>4, <1>5, <1>6, <1>7 DEF LogInv

\* LogInv when a crash cuts the log, and the history with it.
LEMMA LogCut ==
  ASSUME LogInv, Len(history) = Committed(Len(log)), NEW n \in 1 .. Len(log),
         log' = SubSeq(log, 1, n), history' = SubSeq(history, 1, Committed(n))
  PROVE  LogInv' /\ Agree(n) /\ Len(log') = n /\ Len(history)' = Committed(n)'
<1>0. log \in Seq(Record) /\ history \in Seq([Rows -> Val]) /\ Len(log) \in Nat /\ n \in Nat /\ 1 \in 1 .. Len(log) + 1
  BY DEF LogInv
<1>1. log' \in Seq(Record) /\ Len(log') = n /\ \A k \in 1 .. n : log'[k] = log[k]
  <2>1. \A i \in 1 .. n : log[i] \in Record
    BY <1>0, LogRecord
  <2>2. /\ SubSeq(log, 1, n) = [i \in 1 .. n |-> log[i]]
    BY <1>0 
  <2> QED BY <2>1, <2>2, <1>0
<1>2. Agree(n)
  BY <1>0, <1>1 DEF Agree
<1>3. /\ \A k \in 1 .. n : StepOK(k)'
      /\ \A k \in 0 .. n : StackOK(k)'
      /\ \A k \in 1 .. n : /\ history[Committed(k)] = Rolled(Full(k))' /\ Committed(k)' = Committed(k)
                           /\ Committed(k) \in 1 .. Committed(n)
      /\ Committed(n) \in 1 .. Len(history)
  BY <1>0, <1>2, LogKept
<1> PICK c : c = Committed(n)
  OBVIOUS
<1>4. /\ history' \in Seq([Rows -> Val]) /\ Len(history') = c
      /\ \A i \in 1 .. c : history'[i] = history[i]
  <2>1. c \in Nat /\ \A i \in 1 .. c : i \in 1 .. Len(history)
    BY <1>0, <1>3
  <2>2. \A i \in 1 .. c : history[i] \in [Rows -> Val]
    BY <1>0, <2>1, ElementOfSeq
  <2>3. history' = [i \in 1 .. c |-> history[i]]
    BY <1>0, <2>1
  <2> QED BY <2>1, <2>2, <2>3
<1>5. Seq(Record)' = Seq(Record) /\ Seq([Rows -> Val])' = Seq([Rows -> Val])
  BY DEF Record, Val
<1>6. \A k \in 1 .. n : history'[Committed(k)'] = Rolled(Full(k))'
  BY <1>3, <1>4
<1>7. Len(history)' = Committed(n)'
  BY <1>0, <1>3, <1>4
<1> QED BY <1>1, <1>2, <1>3, <1>4, <1>5, <1>6, <1>7 DEF LogInv

-----------------------------------------------------------------------------
(* What holds of a part of the log holds when the log has grown behind it. *)

\* The log stays as it is up to m; what is synced is part of that.
Longer(m) ==
  /\ Agree(m) /\ synced \in 1 .. m
  /\ synced' \in Nat /\ synced <= synced'

\* A write in the log that stays is in it.
LEMMA WrittenGrows ==
  ASSUME NEW m, Longer(m), NEW r, NEW lo \in Nat \ {0}, NEW hi \in 0 .. m, NEW h2 \in Nat, hi <= h2,
         Written(r, lo, hi)
  PROVE  Written(r, lo, h2)'
<1>1. PICK k \in lo .. hi : Writes(k, r)
  BY DEF Written
<1>2. m \in Nat /\ Agree(m)
  BY DEF Longer, Agree
<1>3. k \in 0 .. m /\ k # 0 /\ k \in lo .. h2
  BY <1>2
<1>4. Writes(k, r)'
  BY <1>1, <1>2, <1>3, PrefixKept
<1> QED BY <1>3, <1>4 DEF Written

\* A value that will do for a redo still does.
LEMMA CoversGrows ==
  ASSUME NEW m, Longer(m), NEW r, NEW v, NEW lo \in 1 .. m + 1, NEW hi \in 0 .. m, NEW h2 \in Nat, hi <= h2,
         Covers(v, r, lo, hi)
  PROVE  Covers(v, r, lo, h2)'
<1>1. m \in Nat /\ Agree(m)
  BY DEF Longer, Agree
<1>2. CASE Written(r, lo, hi)
  <2>1. lo \in Nat \ {0}
    OBVIOUS
  <2>2. Written(r, lo, h2)'
    BY <1>2, <2>1, WrittenGrows
  <2> QED BY <2>2 DEF Covers
<1>3. CASE v = Db(lo - 1)[r]
  <2>1. lo - 1 \in 0 .. m
    BY <1>1
  <2>2. Db(lo - 1)' = Db(lo - 1)
    BY <1>1, <2>1, FullKept
  <2> QED BY <1>3, <2>2 DEF Covers
<1> QED BY <1>2, <1>3 DEF Covers

\* Who was not at work across lo is not later on.
LEMMA NobodyGrows ==
  ASSUME NEW m, Longer(m), NEW t, NEW lo \in Nat \ {0}, NEW hi \in 0 .. m, NEW h2 \in Nat, hi <= h2,
         NobodyAcross(t, lo, hi)
  PROVE  NobodyAcross(t, lo, h2)'
<1>1. PICK k \in lo - 1 .. hi : Stack(k)[t] = <<>>
  BY DEF NobodyAcross
<1>2. m \in Nat /\ Agree(m)
  BY DEF Longer, Agree
<1>3. k \in 0 .. m /\ k \in lo - 1 .. h2
  BY <1>2
<1>4. Stack(k)' = Stack(k)
  BY <1>2, <1>3, FullKept
<1> QED BY <1>1, <1>3, <1>4 DEF NobodyAcross

\* A page noted by a PID log on disk stays noted (SMR_LT_DIRTY_PAGE).
LEMMA NotedGrows ==
  ASSUME NEW m, Longer(m), NEW p, NEW lo \in Nat \ {0}, NotedIn(p, lo)
  PROVE  NotedIn(p, lo)'
<1>1. PICK k \in lo .. synced : log[k].op = "pages" /\ p \in log[k].pages
  BY DEF NotedIn
<1>2. k \in lo .. synced' /\ log'[k] = log[k]
  BY DEF Longer, Agree
<1> QED BY <1>1, <1>2 DEF NotedIn

\* A begin checkpoint log stays what it is.
LEMMA BeginsKept ==
  ASSUME NEW m, Agree(m), NEW n \in 1 .. m, NEW redo
  PROVE  BeginsAt(n, redo)' <=> BeginsAt(n, redo)
BY DEF Agree, BeginsAt

\* A row that is the same everywhere stays so, unless it is noted or written.
LEMMA SameGrows ==
  ASSUME NEW m, Longer(m), NEW r, NEW b \in Nat \ {0}, NEW lo \in Nat \ {0}, Same(r, b, lo),
         img[0][r] = img[1][r] /\ file[r] = img[0][r] =>
           img'[0][r] = img'[1][r] /\ file'[r] = img'[0][r]
  PROVE  Same(r, b, lo)'
<1>1. CASE NotedIn(PageOf[r], b)
  <2>1. NotedIn(PageOf[r], b)'
    BY <1>1, NotedGrows
  <2> QED BY <2>1 DEF Same
<1>2. CASE Written(r, lo, synced)
  <2>1. synced \in 0 .. m /\ synced' \in Nat /\ synced <= synced'
    BY DEF Longer
  <2>2. \A h2 \in Nat : synced <= h2 => Written(r, lo, h2)'
    BY <1>2, <2>1, WrittenGrows
  <2> QED BY <2>1, <2>2 DEF Same
<1> QED BY <1>1, <1>2 DEF Same

\* Where the redo begins.
LEMMA RedoLSNIs ==
  ASSUME RecInv
  PROVE  /\ Len(log) \in Nat /\ synced \in 1 .. Len(log) /\ anchor.begin \in 1 .. synced
         /\ RedoLSN \in 1 .. anchor.begin /\ RedoLSN \in Nat \ {0}
         /\ anchor.current \in {0, 1} /\ Other \in {0, 1} /\ Other # anchor.current
<1>1. /\ log \in Seq(Record) /\ synced \in 1 .. Len(log) /\ anchor.begin \in 1 .. synced
      /\ anchor.current \in {0, 1}
      /\ \A n \in 1 .. Len(log) : StepOK(n)
      /\ log[anchor.begin].op = "begin"
  BY DEF RecInv, RecTypeOK, LogInv, AnchorInv
<1>2. Len(log) \in Nat /\ anchor.begin \in 1 .. Len(log)
  BY <1>1
<1>3. log[anchor.begin].redo \in Nat \ {0} /\ log[anchor.begin].redo <= anchor.begin
  BY <1>1, <1>2, LogRecord, RecordFields DEF StepOK
<1> QED BY <1>1, <1>2, <1>3 DEF RedoLSN, Other

-----------------------------------------------------------------------------
(* Steps that leave the transactions alone.                                *)

\* A change under way, with n records in the log.
WrType(n) ==
  {Idle} \cup [step : {"log", "change", "test", "set", "link"}, row : Rows, val : Val, lsn : 1 .. n]

\* A longer log allows more.
LEMMA WrTypeMono ==
  ASSUME NEW n \in Nat, NEW m \in Nat, n <= m
  PROVE  WrType(n) \subseteq WrType(m)
<1>1. 1 .. n \subseteq 1 .. m
  OBVIOUS
<1> QED BY <1>1 DEF WrType

TransType ==
  /\ mem \in [Rows -> Val]
  /\ status \in [Trans -> {"idle", "active", "rollback"}]
  /\ first \in [Trans -> 0 .. Len(log)] /\ Fst \in [Trans -> 0 .. Len(log)]
  /\ owner \in [Rows -> {0} \cup Trans]
  /\ undoNxt \in [Trans -> Seq(1 .. Len(log))]
  /\ wr \in [Trans -> WrType(Len(log))]
  /\ phase \in {"run", "restart", "down"}

DiskType ==
  /\ synced \in 1 .. Len(log) /\ acked \in 0 .. synced
  /\ file \in [Rows -> Val] /\ img \in [{0, 1} -> [Rows -> Val]]
  /\ dirty \subseteq Pages /\ listed \subseteq Pages
  /\ stat \in [Pages -> {"init", "flush", "remove"}]
  /\ anchor \in [current : {0, 1}, begin : 1 .. synced]

\* RecTypeOK in two parts, of the transactions and of the disk.
LEMMA TypeParts == RecTypeOK <=> TransType /\ DiskType /\ Len(history) = Committed(Len(log))
<1> SUFFICES ASSUME first \in [Trans -> 0 .. Len(log)], wr \in [Trans -> WrType(Len(log))]
             PROVE  Fst \in [Trans -> 0 .. Len(log)]
  BY DEF RecTypeOK, TransType, DiskType, Val, WrType
<1> SUFFICES ASSUME NEW t \in Trans PROVE Fst[t] \in 0 .. Len(log)
  BY DEF Fst
<1>1. CASE wr[t].step = "log"
  <2>1. wr[t] \in WrType(Len(log)) /\ wr[t] # Idle
    BY <1>1 DEF Idle
  <2> QED BY <2>1, <1>1 DEF WrType, Fst
<1>2. CASE wr[t].step # "log"
  BY <1>2 DEF Fst
<1> QED BY <1>1, <1>2

\* The same after a step.
LEMMA TypePartsNext == (RecTypeOK <=> TransType /\ DiskType /\ Len(history) = Committed(Len(log)))'
BY TypeParts, PTL

\* The log is the same for the transactions.
Quiet(n) ==
  /\ n = Len(log) /\ n \in Nat /\ Longer(n)
  /\ Len(log') \in Nat /\ n <= Len(log') /\ synced' \in 1 .. Len(log')
  /\ LogInv' /\ Len(history)' = Committed(Len(log))'
  /\ Db(Len(log))' = Db(n) /\ Stack(Len(log))' = Stack(n)
  /\ \A t \in Trans : Pending(Len(log), t)' \subseteq Pending(n, t)

\* A step that logs nothing.
LEMMA QuietSame ==
  ASSUME RecInv, NEW n, n = Len(log), log' = log, history' = history, synced' \in synced .. Len(log)
  PROVE  Quiet(n)
<1>1. LogInv /\ Len(history) = Committed(Len(log)) /\ n \in Nat /\ n >= 1 /\ synced \in 1 .. n
  BY RedoLSNIs DEF RecInv, RecTypeOK
<1>2. LogInv' /\ Agree(n) /\ Len(history)' = Committed(Len(log))'
  BY <1>1, LogSame
<1>3. /\ Db(n)' = Db(n) /\ Stack(n)' = Stack(n)
      /\ \A t \in Trans : Pending(n, t)' = Pending(n, t)
  BY <1>1, <1>2, FullKept
<1> QED BY <1>1, <1>2, <1>3 DEF Quiet, Longer

\* A step that writes a log of the checkpoint.
LEMMA QuietLog ==
  ASSUME RecInv, NEW n, n = Len(log), NEW l \in Record, l.op \in {"begin", "pages"},
         l.op = "begin" => l.redo <= n + 1, log' = Append(log, l),
         history' = history, synced' \in synced .. n + 1
  PROVE  Quiet(n) /\ Len(log') = n + 1 /\ log'[n + 1] = l
<1> PICK m : m = n + 1
  OBVIOUS
<1>0. /\ LogInv /\ Len(history) = Committed(Len(log)) /\ n \in Nat /\ n >= 1 /\ synced \in 1 .. n
  BY RedoLSNIs DEF RecInv, RecTypeOK
<1>1. /\ LogInv /\ Len(history) = Committed(Len(log)) /\ n \in Nat /\ n >= 1 /\ synced \in 1 .. n
      /\ log \in Seq(Record) /\ StackOK(n)
  <2>1. n \in 0 .. Len(log)
    BY <1>0
  <2> QED BY <1>0, <2>1 DEF LogInv
<1>2. MayLog(n, l)
  BY DEF MayLog
<1>3. Logs(n, m, l)
  BY <1>1, <1>2, Appended
<1>4. LogInv' /\ Len(history)' = Committed(m)'
  BY <1>1, <1>2, LogAppended
<1>5. /\ Agree(n) /\ m \in Nat /\ Len(log') = m /\ log'[m] = l
      /\ Stack(m)' = Stack(n)
      /\ \A t \in Trans : Pending(m, t)' \subseteq Pending(n, t)
  BY <1>3 DEF Logs
<1>6. Db(m)' = Db(n)
  <2>1. /\ Db(m)' \in [Rows -> Val]
        /\ \A r \in Rows : Db(m)'[r] = IF l.op \in {"update", "undo"} /\ l.row = r THEN l.val ELSE Db(n)[r]
    BY <1>3 DEF Logs
  <2>2. n \in 0 .. Len(log)
    BY <1>1
  <2>3. Db(n) \in [Rows -> Val]
    BY <1>1, <2>2, FullNext
  <2> QED BY <2>1, <2>3
<1>7. synced' \in 1 .. m /\ synced' \in Nat /\ synced <= synced' /\ n <= m
  BY <1>1
<1> QED BY <1>1, <1>4, <1>5, <1>6, <1>7 DEF Quiet, Longer

\* A step of the checkpoint is nothing to the transactions.
LEMMA TransKept ==
  ASSUME RecInv, NEW n, Quiet(n), UNCHANGED <<mem, transVars, phase>>,
         phase = "run" => \A t \in Trans : status[t] # "idle" => RedoLSN' <= Fst[t],
         phase # "run" => log' = log /\ UNCHANGED <<ck, synced>>
  PROVE  TransType' /\ MemInv' /\ RunInv' /\ RestartInv'
<1>0. /\ mem' = mem /\ status' = status /\ first' = first /\ Fst' = Fst /\ undoNxt' = undoNxt
      /\ owner' = owner /\ wr' = wr /\ phase' = phase
  BY DEF transVars, Fst
<1>1. /\ n = Len(log) /\ n \in Nat /\ Longer(n) /\ Len(log') \in Nat /\ n <= Len(log')
      /\ Db(Len(log))' = Db(n) /\ Stack(Len(log))' = Stack(n)
      /\ \A t \in Trans : Pending(Len(log), t)' \subseteq Pending(n, t)
  BY DEF Quiet
<1>2. TransType /\ MemInv /\ RunInv /\ RestartInv
  BY TypeParts DEF RecInv
<1>3. TransType'
  <2>1. \A k : k \in 0 .. n => k \in 0 .. Len(log')
    BY <1>1
  <2>2. first' \in [Trans -> 0 .. Len(log')] /\ Fst' \in [Trans -> 0 .. Len(log')]
    BY <1>0, <1>1, <1>2, <2>1 DEF TransType
  <2>3. undoNxt' \in [Trans -> Seq(1 .. Len(log'))]
    <3>1. \A t \in Trans : undoNxt[t] \in Seq(1 .. Len(log'))
      BY <1>1, <1>2, SeqMono DEF TransType
    <3> QED BY <3>1, <1>0, <1>2 DEF TransType
  <2>4. wr' \in [Trans -> WrType(n)] /\ WrType(n) \subseteq WrType(Len(log'))
    BY <1>0, <1>1, <1>2, WrTypeMono DEF TransType
  <2> QED BY <2>2, <2>3, <2>4, <1>0, <1>2 DEF TransType, Val
<1>4. MemInv'
  BY <1>0, <1>1, <1>2 DEF MemInv, Changing
<1>5. RunInv'
  <2> SUFFICES ASSUME phase = "run", NEW t \in Trans
               PROVE  /\ status[t] = "idle" => Fst[t] = NoLSN /\ undoNxt[t] = <<>> /\ wr[t] = Idle
                      /\ status[t] = "active" => undoNxt[t] # <<>>
                      /\ status[t] # "idle" =>
                           /\ Fst[t] # NoLSN /\ RedoLSN' <= Fst[t]
                           /\ Stack(Fst[t] - 1)'[t] = <<>>
                      /\ wr[t] # Idle => owner[wr[t].row] = t /\ Written(wr[t].row, Fst[t], Len(log))'
                      /\ wr[t].step = "log" => first[t] = NoLSN
                      /\ \A k \in Pending(Len(log), t)' : owner[log'[k].row] = t
    BY <1>0 DEF RunInv, NoLSN, Idle
  <2>1. /\ status[t] = "idle" => Fst[t] = NoLSN /\ undoNxt[t] = <<>> /\ wr[t] = Idle
        /\ status[t] = "active" => undoNxt[t] # <<>>
        /\ status[t] # "idle" => Fst[t] # NoLSN /\ Stack(Fst[t] - 1)[t] = <<>>
        /\ wr[t] # Idle => owner[wr[t].row] = t /\ Written(wr[t].row, Fst[t], n)
        /\ wr[t].step = "log" => first[t] = NoLSN
        /\ \A k \in Pending(n, t) : owner[log[k].row] = t
    BY <1>1, <1>2 DEF RunInv
  <2>2. Fst[t] \in 0 .. n
    BY <1>1, <1>2 DEF TransType
  <2>3. status[t] # "idle" => Stack(Fst[t] - 1)'[t] = <<>>
    <3> SUFFICES ASSUME status[t] # "idle" PROVE Stack(Fst[t] - 1)'[t] = <<>>
      OBVIOUS
    <3>1. Fst[t] - 1 \in 0 .. n /\ Agree(n)
      BY <2>1, <2>2, <1>1 DEF NoLSN, Longer
    <3>2. Stack(Fst[t] - 1)' = Stack(Fst[t] - 1)
      BY <3>1, <1>0, FullKept
    <3> QED BY <3>2, <2>1
  <2>4. wr[t] # Idle => Written(wr[t].row, Fst[t], Len(log))'
    <3> SUFFICES ASSUME wr[t] # Idle PROVE Written(wr[t].row, Fst[t], Len(log))'
      OBVIOUS
    <3>1. Fst[t] \in Nat \ {0} /\ n \in 0 .. n
      BY <2>1, <2>2, <1>1 DEF NoLSN
    <3> PICK f, h, r : f = Fst[t] /\ h = Len(log') /\ r = wr[t].row
      OBVIOUS
    <3>2. Written(r, f, n)
      BY <2>1
    <3>3. Written(r, f, h)'
      BY <3>1, <3>2, <1>1, WrittenGrows
    <3> QED BY <3>3, <1>0
  <2>5. \A k \in Pending(n, t) : log'[k] = log[k]
    <3>1. n \in 0 .. Len(log) /\ log \in Seq(Record) /\ \A k \in 1 .. n : log'[k] = log[k]
      BY <1>1 DEF Longer, Agree
    <3> QED BY <3>1, PendingType
  <2> QED BY <2>1, <2>3, <2>4, <2>5, <1>1
<1>6. RestartInv'
  BY <1>0, <1>2 DEF RestartInv, CkIdle, NoLSN, Idle
<1> QED BY <1>3, <1>4, <1>5, <1>6

-----------------------------------------------------------------------------
(* The checkpoint up to the begin checkpoint log.                          *)

\* What is said of the anchor, while it stays and the log keeps its first n records.
LEMMA AnchorKept ==
  ASSUME RecInv, NEW n, Longer(n), anchor' = anchor,
         img'[anchor.current] = img[anchor.current],
         \A r \in Rows : img[0][r] = img[1][r] /\ file[r] = img[0][r] =>
                           \/ img'[0][r] = img'[1][r] /\ file'[r] = img'[0][r]
                           \/ NotedIn(PageOf[r], anchor.begin)
  PROVE  AnchorInv' /\ RedoLSN' = RedoLSN
<1> PICK b, l, c : b = anchor.begin /\ l = RedoLSN /\ c = anchor.current
  OBVIOUS
<1>1. n \in Nat /\ synced \in 1 .. n /\ b \in 1 .. synced /\ l \in 1 .. b /\ l \in Nat \ {0} /\ b \in Nat \ {0}
  BY RedoLSNIs DEF Longer, Agree
<1>2. synced' \in Nat /\ synced <= synced' /\ Agree(n) /\ log'[b] = log[b] /\ synced \in 0 .. n /\ b \in 0 .. n
      /\ l \in 1 .. n + 1
  BY <1>1 DEF Longer, Agree
<1>3. RedoLSN' = l
  BY <1>2 DEF RedoLSN
<1>4. /\ log[b].op = "begin"
      /\ \A t \in Trans : NobodyAcross(t, l, b)
      /\ \A r \in Rows : Covers(img[c][r], r, l, synced)
      /\ \A r \in Rows : Same(r, b, l)
  BY DEF RecInv, AnchorInv
<1>5. \A t \in Trans : NobodyAcross(t, l, b)'
  BY <1>1, <1>2, <1>4, NobodyGrows
<1>6. ASSUME NEW r \in Rows PROVE Covers(img[anchor.current][r], r, RedoLSN, synced)'
  <2> PICK v, h : v = img[c][r] /\ h = synced'
    OBVIOUS
  <2>1. Covers(v, r, l, h)'
    BY <1>2, <1>4, CoversGrows
  <2>2. img'[anchor'.current][r] = v
    OBVIOUS
  <2> QED BY <2>1, <2>2, <1>3
<1>7. ASSUME NEW r \in Rows PROVE Same(r, b, l)'
  <2>1. CASE NotedIn(PageOf[r], b)
    <3>1. NotedIn(PageOf[r], b)'
      BY <2>1, <1>1, NotedGrows
    <3> QED BY <3>1 DEF Same
  <2>2. CASE ~ NotedIn(PageOf[r], b)
    BY <2>2, <1>1, <1>4, SameGrows
  <2> QED BY <2>1, <2>2
<1> QED BY <1>2, <1>3, <1>4, <1>5, <1>6, <1>7 DEF AnchorInv

\* What is said of the lists, when neither they nor the rows change.
LEMMA ListKept ==
  ASSUME RecInv, UNCHANGED <<mem, dirty, listed, stat, wr, phase, file>>,
         anchor'.current = anchor.current, img'[anchor.current] = img[anchor.current],
         ck'.todo = ck.todo, ck'.page = ck.page, Writing' <=> Writing
  PROVE  ListInv'
<1>1. ListInv
  BY DEF RecInv
<1>2. /\ \A r : AtWork(r)' <=> AtWork(r)
      /\ \A q : LinkDue(q)' <=> LinkDue(q)
  BY DEF AtWork, LinkDue, PageToMark, Idle
<1> QED BY <1>1, <1>2 DEF ListInv

\* What a checkpoint step may rely on.
LEMMA AtCheckpoint ==
  ASSUME RecInv, ck.pc # "idle"
  PROVE  /\ phase = "run" /\ Len(log) \in Nat
         /\ ck.redo \in Nat \ {0} /\ RedoLSN <= ck.redo /\ ck.redo <= Len(log) + 1
         /\ \A t \in Trans : /\ Fst[t] \in 0 .. Len(log)
                             /\ Fst[t] = NoLSN => Stack(Len(log))[t] = <<>> /\ wr[t] = Idle
                             /\ Fst[t] # NoLSN => RedoLSN <= Fst[t] /\ Stack(Fst[t] - 1)[t] = <<>>
                             /\ t \notin ck.scan => Fst[t] = NoLSN \/ ck.redo <= Fst[t]
<1>1. /\ phase = "run" /\ ck.redo \in RedoLSN .. Len(log) + 1
      /\ \A t \in Trans \ ck.scan : Fst[t] = NoLSN \/ ck.redo <= Fst[t]
  BY DEF RecInv, CkInv
<1>2. Len(log) \in Nat /\ RedoLSN \in Nat \ {0}
  BY RedoLSNIs
<1>3. TransType /\ RunInv /\ undoNxt = Stack(Len(log))
  BY <1>1, TypeParts DEF RecInv, MemInv
<1>4. ASSUME NEW t \in Trans
      PROVE  /\ Fst[t] \in 0 .. Len(log)
             /\ Fst[t] = NoLSN => Stack(Len(log))[t] = <<>> /\ wr[t] = Idle
             /\ Fst[t] # NoLSN => RedoLSN <= Fst[t] /\ Stack(Fst[t] - 1)[t] = <<>>
  BY <1>1, <1>3 DEF TransType, RunInv
<1> QED BY <1>1, <1>2, <1>4

\* The checkpoint begins with the end of the log.
LEMMA CalcRedoLSNStep ==
  ASSUME RecInv, CalcRedoLSN
  PROVE  RecInv'
<1> PICK n : n = Len(log)
  OBVIOUS
<1>1. /\ phase = "run" /\ ck.pc = "idle"
      /\ ck' = [ck EXCEPT !.pc = "scan", !.redo = Len(log) + 1, !.scan = Trans]
      /\ UNCHANGED <<acked, mem, phase, history, upd, log, synced, dirty, listed, stat, img, file, anchor>>
      /\ UNCHANGED transVars /\ UNCHANGED <<status, Fst, undoNxt, owner, wr>>
  BY DEF CalcRedoLSN, At, logVars, diskVars, transVars, Fst
<1>2. ck = CkIdle /\ CkTypeOK /\ file = img[Other]
  BY <1>1 DEF RecInv, CkInv, CkTypeOK
<1>3. ck' = [pc |-> "scan", redo |-> n + 1, begin |-> NoLSN, scan |-> Trans, todo |-> {}, page |-> {}]
  BY <1>1, <1>2 DEF CkIdle
<1>4. n \in Nat /\ synced \in 1 .. n /\ RedoLSN \in 1 .. n /\ anchor.begin \in 1 .. synced
  BY RedoLSNIs
<1>5. Quiet(n)
  BY <1>1, <1>4, QuietSame
<1>6. Longer(n)
  BY <1>5 DEF Quiet
<1>7. AnchorInv' /\ RedoLSN' = RedoLSN
  BY <1>1, <1>6, AnchorKept
<1>8. \A t \in Trans : status[t] # "idle" => RedoLSN <= Fst[t]
  BY <1>1 DEF RecInv, RunInv
<1>9. TransType' /\ MemInv' /\ RunInv' /\ RestartInv'
  BY <1>1, <1>5, <1>7, <1>8, TransKept
<1>10. DiskType'
  BY <1>1, TypeParts DEF RecInv, DiskType, Val
<1>11. ListInv'
  BY <1>1, <1>2, <1>3, ListKept DEF CkIdle, Writing
<1>12. CkTypeOK'
  BY <1>3, <1>4 DEF CkTypeOK, NoLSN, CkIdle
<1>13. CkInv'
  <2>1. ck'.pc = "scan" /\ ck'.redo = n + 1 /\ ck'.scan = Trans
    BY <1>3
  <2> QED BY <2>1, <1>1, <1>2, <1>4, <1>7 DEF CkInv, Other
<1>14. upd' \in 0 .. LastUpd
  BY <1>1 DEF RecInv
<1> QED BY <1>5, <1>7, <1>9, <1>10, <1>11, <1>12, <1>13, <1>14, TypePartsNext DEF RecInv, Quiet

\* It looks at one transaction: who began before the redo LSN takes it back.
LEMMA ScanTransStep ==
  ASSUME RecInv, NEW t \in Trans, ScanTrans(t), ~ MissesFirst(t)
  PROVE  RecInv'
<1> PICK n : n = Len(log)
  OBVIOUS
<1>1. /\ phase = "run" /\ ck.pc = "scan" /\ t \in ck.scan
      /\ ck' = [ck EXCEPT !.pc = IF ck.scan = {t} THEN "begin" ELSE "scan",
                          !.scan = @ \ {t}, !.redo = MinLSN(t)]
      /\ UNCHANGED <<acked, mem, phase, history, upd, log, synced, dirty, listed, stat, img, file, anchor>>
      /\ UNCHANGED transVars /\ UNCHANGED <<status, Fst, undoNxt, owner, wr>>
  BY DEF ScanTrans, At, logVars, diskVars, transVars, Fst
<1>2. /\ CkTypeOK /\ file = img[Other] /\ ck.todo = {} /\ ck.page = {}
      /\ \A u \in Trans \ ck.scan : NobodyAcross(u, ck.redo, Len(log))
  BY <1>1 DEF RecInv, CkInv, CkTypeOK
<1>3. /\ ck' = [pc |-> IF ck.scan = {t} THEN "begin" ELSE "scan", redo |-> MinLSN(t), begin |-> ck.begin,
                scan |-> ck.scan \ {t}, todo |-> {}, page |-> {}]
      /\ ck.begin \in Nat /\ ck.scan \in SUBSET Trans
  <2>1. ck \in [pc : {"idle", "scan", "begin", "move", "flag", "write", "switch", "anchor"},
             redo : Nat, begin : Nat, scan : SUBSET Trans, todo : SUBSET Pages, page : SUBSET Pages]
    BY <1>2 DEF CkTypeOK
  <2> QED BY <2>1, <1>1, <1>2
<1>4. n \in Nat /\ synced \in 1 .. n /\ RedoLSN \in 1 .. n /\ anchor.begin \in 1 .. synced
  BY RedoLSNIs
<1>5. Quiet(n)
  BY <1>1, <1>4, QuietSame
<1>6. Longer(n)
  BY <1>5 DEF Quiet
<1>7. AnchorInv' /\ RedoLSN' = RedoLSN
  BY <1>1, <1>6, AnchorKept
<1>8. \A u \in Trans : status[u] # "idle" => RedoLSN <= Fst[u]
  BY <1>1 DEF RecInv, RunInv
<1>9. TransType' /\ MemInv' /\ RunInv' /\ RestartInv'
  BY <1>1, <1>5, <1>7, <1>8, TransKept
<1>10. DiskType'
  BY <1>1, TypeParts DEF RecInv, DiskType, Val
<1>11. ListInv'
  BY <1>1, <1>2, <1>3, ListKept DEF Writing
<1> PICK lo : lo = MinLSN(t)
  OBVIOUS
<1>12. /\ ck.redo \in Nat \ {0} /\ RedoLSN <= ck.redo /\ ck.redo <= n + 1
       /\ \A u \in Trans : /\ Fst[u] \in 0 .. n
                           /\ Fst[u] = NoLSN => Stack(n)[u] = <<>>
                           /\ Fst[u] # NoLSN => RedoLSN <= Fst[u] /\ Stack(Fst[u] - 1)[u] = <<>>
                           /\ u \notin ck.scan => Fst[u] = NoLSN \/ ck.redo <= Fst[u]
  BY <1>1, AtCheckpoint
<1>13. /\ lo \in RedoLSN .. n + 1 /\ lo \in Nat \ {0} /\ lo <= ck.redo
       /\ Fst[t] = NoLSN \/ lo <= Fst[t]
  <2>1. CASE wr[t].step = "log"
    <3>1. first[t] = NoLSN /\ Fst[t] = wr[t].lsn
      BY <2>1, <1>1 DEF RecInv, RunInv, Fst
    <3>2. lo = ck.redo /\ ~ (Fst[t] < ck.redo)
      BY <2>1, <3>1 DEF MinLSN, MissesFirst
    <3> QED BY <3>2, <1>4, <1>12
  <2>2. CASE wr[t].step # "log"
    <3>1. first[t] = Fst[t]
      BY <2>2 DEF Fst
    <3> QED BY <3>1, <1>4, <1>12 DEF MinLSN, NoLSN
  <2> QED BY <2>1, <2>2
<1>14. CkTypeOK'
  BY <1>3, <1>13 DEF CkTypeOK
<1>15. CkInv'
  <2>1. /\ ck'.pc \in {"scan", "begin"} /\ ck'.redo = lo /\ ck'.scan = ck.scan \ {t}
    BY <1>3
  <2>2. \A u \in Trans \ ck'.scan : Fst'[u] = NoLSN \/ ck'.redo <= Fst'[u]
    <3> SUFFICES ASSUME NEW u \in Trans, u \notin ck.scan \/ u = t PROVE Fst[u] = NoLSN \/ lo <= Fst[u]
      BY <2>1, <1>1 DEF NoLSN
    <3> QED BY <1>4, <1>12, <1>13
  <2>3. \A u \in Trans \ ck'.scan : NobodyAcross(u, ck.redo, Len(log))'
    <3>1. ASSUME NEW u \in Trans, u \notin ck.scan \/ u = t PROVE NobodyAcross(u, lo, n)
      <4>1. CASE u \notin ck.scan
        <5>1. PICK k \in ck.redo - 1 .. n : Stack(k)[u] = <<>>
          BY <4>1, <1>2 DEF NobodyAcross
        <5>2. k \in lo - 1 .. n
          BY <1>4, <1>12, <1>13
        <5> QED BY <5>1, <5>2 DEF NobodyAcross
      <4>2. CASE u = t /\ Fst[t] = NoLSN
        <5>1. n \in lo - 1 .. n
          BY <1>4, <1>13
        <5> QED BY <5>1, <4>2, <1>12 DEF NobodyAcross
      <4>3. CASE u = t /\ Fst[t] # NoLSN
        <5>1. Fst[t] - 1 \in lo - 1 .. n
          BY <4>3, <1>4, <1>12, <1>13
        <5> QED BY <5>1, <4>3, <1>12 DEF NobodyAcross
      <4> QED BY <3>1, <4>1, <4>2, <4>3
    <3>2. ASSUME NEW u \in Trans, u \notin ck.scan \/ u = t PROVE NobodyAcross(u, lo, n)'
      <4>1. n \in 0 .. n
        BY <1>4
      <4> QED BY <3>1, <3>2, <4>1, <1>4, <1>6, <1>13, NobodyGrows
    <3>3. Len(log') = n
      BY <1>1
    <3> QED BY <3>2, <3>3, <2>1
  <2> QED BY <2>1, <2>2, <2>3, <1>1, <1>2, <1>7, <1>13 DEF CkInv, Other
<1>16. upd' \in 0 .. LastUpd
  BY <1>1 DEF RecInv
<1> QED BY <1>5, <1>7, <1>9, <1>10, <1>11, <1>14, <1>15, <1>16, TypePartsNext DEF RecInv, Quiet

\* It logs the redo LSN; nobody at work then is from before it.
LEMMA WriteBeginChkptLogStep ==
  ASSUME RecInv, WriteBeginChkptLog
  PROVE  RecInv'
<1> PICK n, m, lo : n = Len(log) /\ m = n + 1 /\ lo = ck.redo
  OBVIOUS
<1> PICK l : l = [op |-> "begin", redo |-> lo]
  OBVIOUS
<1>1. /\ phase = "run" /\ ck.pc = "begin"
      /\ ck' = [ck EXCEPT !.pc = "move", !.begin = Len(log) + 1] /\ log' = Append(log, l)
      /\ UNCHANGED <<acked, mem, phase, history, upd, synced, dirty, listed, stat, img, file, anchor>>
      /\ UNCHANGED transVars /\ UNCHANGED <<status, Fst, undoNxt, owner, wr>>
  BY DEF WriteBeginChkptLog, At, diskVars, transVars, Fst
<1>2. /\ CkTypeOK /\ file = img[Other] /\ ck.todo = {} /\ ck.page = {} /\ ck.scan = {}
      /\ \A u \in Trans : NobodyAcross(u, lo, n)
  BY <1>1 DEF RecInv, CkInv, CkTypeOK
<1>3. ck' = [pc |-> "move", redo |-> lo, begin |-> m, scan |-> {}, todo |-> {}, page |-> {}]
  <2>1. ck \in [pc : {"idle", "scan", "begin", "move", "flag", "write", "switch", "anchor"},
             redo : Nat, begin : Nat, scan : SUBSET Trans, todo : SUBSET Pages, page : SUBSET Pages]
    BY <1>2 DEF CkTypeOK
  <2> QED BY <2>1, <1>1, <1>2
<1>4. n \in Nat /\ synced \in 1 .. n /\ RedoLSN \in 1 .. n /\ anchor.begin \in 1 .. synced /\ m \in Nat
  BY RedoLSNIs
<1>5. /\ lo \in Nat \ {0} /\ RedoLSN <= lo /\ lo <= n + 1
      /\ \A u \in Trans : Fst[u] = NoLSN \/ lo <= Fst[u]
  BY <1>1, <1>2, AtCheckpoint
<1>6. l \in Record /\ l.op = "begin" /\ l.redo = lo
  BY <1>5 DEF Record
<1>7. Quiet(n) /\ Len(log') = m /\ log'[m] = l
  <2>1. synced' \in synced .. n + 1
    BY <1>1, <1>4
  <2>2. l.op \in {"begin", "pages"} /\ l.redo <= n + 1
    BY <1>5, <1>6
  <2> QED BY <2>1, <2>2, <1>1, <1>6, QuietLog
<1>8. Longer(n)
  BY <1>7 DEF Quiet
<1>9. AnchorInv' /\ RedoLSN' = RedoLSN
  BY <1>1, <1>8, AnchorKept
<1>10. \A u \in Trans : status[u] # "idle" => RedoLSN <= Fst[u]
  BY <1>1 DEF RecInv, RunInv
<1>11. TransType' /\ MemInv' /\ RunInv' /\ RestartInv'
  BY <1>1, <1>7, <1>9, <1>10, TransKept
<1>12. DiskType'
  BY <1>1, <1>4, <1>7, TypeParts DEF RecInv, DiskType, Val
<1>13. ListInv'
  BY <1>1, <1>2, <1>3, ListKept DEF Writing
<1>14. CkTypeOK'
  BY <1>3, <1>4, <1>5 DEF CkTypeOK
<1>15. CkInv'
  <2>1. ck'.pc = "move" /\ ck'.redo = lo /\ ck'.scan = {} /\ ck'.begin = m
    BY <1>3
  <2>2. \A u \in Trans : NobodyAcross(u, ck.redo, ck.begin)'
    <3>1. n \in 0 .. n /\ n <= m
      BY <1>4
    <3>2. \A u \in Trans : NobodyAcross(u, lo, m)'
      BY <3>1, <1>2, <1>4, <1>5, <1>8, NobodyGrows
    <3> QED BY <3>2, <2>1
  <2>3. BeginsAt(ck.begin, ck.redo)'
    BY <2>1, <1>6, <1>7 DEF BeginsAt
  <2>4. ck'.begin \in anchor'.begin + 1 .. Len(log')
    BY <2>1, <1>1, <1>4, <1>7
  <2>5. ck'.redo \in RedoLSN' .. Len(log') + 1 /\ \A u \in Trans : Fst'[u] = NoLSN \/ ck'.redo <= Fst'[u]
    BY <2>1, <1>1, <1>4, <1>5, <1>7, <1>9
  <2> QED BY <2>1, <2>2, <2>3, <2>4, <2>5, <1>1, <1>2 DEF CkInv, Other, NoLSN
<1>16. upd' \in 0 .. LastUpd
  BY <1>1 DEF RecInv
<1> QED BY <1>7, <1>9, <1>11, <1>12, <1>13, <1>14, <1>15, <1>16, TypePartsNext DEF RecInv, Quiet

-----------------------------------------------------------------------------
(* The checkpoint writes pages.                                            *)

\* A row that nobody is changing is in the memory as the log has it; one that
\* somebody is changing is written in the part of the log that is redone.
LEMMA MemCovers ==
  ASSUME RecInv, ck.pc \notin {"idle", "scan"}, NEW r \in Rows
  PROVE  /\ AtWork(r) => Written(r, ck.redo, Len(log))
         /\ Covers(mem[r], r, ck.redo, Len(log))
<1> PICK n : n = Len(log)
  OBVIOUS
<1>1. /\ phase = "run" /\ n \in Nat
      /\ ck.redo \in Nat \ {0} /\ RedoLSN <= ck.redo /\ ck.redo <= n + 1
      /\ \A t \in Trans : /\ Fst[t] = NoLSN => wr[t] = Idle
                          /\ Fst[t] \in 0 .. n
                          /\ t \notin ck.scan => Fst[t] = NoLSN \/ ck.redo <= Fst[t]
  BY AtCheckpoint
<1>2. ck.scan = {} /\ RunInv /\ MemInv /\ log \in Seq(Record)
  BY DEF RecInv, CkTypeOK, LogInv
<1>3. ASSUME AtWork(r) PROVE Written(r, ck.redo, n)
  <2>1. PICK t \in Trans : wr[t] # Idle /\ wr[t].row = r
    BY <1>3 DEF AtWork
  <2>2. Written(r, Fst[t], n)
    BY <2>1, <1>1, <1>2 DEF RunInv
  <2>3. ck.redo <= Fst[t] /\ Fst[t] \in Nat
    BY <2>1, <1>1, <1>2
  <2>4. PICK k \in Fst[t] .. n : Writes(k, r)
    BY <2>2 DEF Written
  <2>5. k \in ck.redo .. n
    BY <2>3, <1>1
  <2> QED BY <2>4, <2>5 DEF Written
<1>4. ASSUME ~ AtWork(r) PROVE mem[r] = Db(n)[r]
  <2>1. \A t \in Trans : ~ Changing(t, r)
    BY <1>4 DEF AtWork, Changing, Idle
  <2> QED BY <2>1, <1>1, <1>2 DEF MemInv
<1>5. Covers(mem[r], r, ck.redo, n)
  <2>1. CASE Written(r, ck.redo, n)
    BY <2>1 DEF Covers
  <2>2. CASE ~ Written(r, ck.redo, n)
    <3>1. n \in ck.redo - 1 .. Len(log)
      BY <1>1
    <3>2. Db(n)[r] = Db(ck.redo - 1)[r]
      BY <2>2, <3>1, <1>1, <1>2, DbKept
    <3> QED BY <2>2, <3>2, <1>3, <1>4 DEF Covers
  <2> QED BY <2>1, <2>2
<1> QED BY <1>3, <1>5

\* It takes m_dirty back.  From then on a change links the page again.
LEMMA ClearDirtyStep ==
  ASSUME RecInv, NEW p \in Pages, ClearDirty(p)
  PROVE  RecInv'
<1> PICK n : n = Len(log)
  OBVIOUS
<1>1. /\ phase = "run" /\ ck.pc = "flag" /\ p \in ck.todo /\ dirty' = dirty \ {p}
      /\ ck' = [ck EXCEPT !.pc = "write", !.todo = @ \ {p}, !.page = {p}]
      /\ UNCHANGED <<acked, mem, phase, history, upd, log, synced, listed, stat, img, file, anchor>>
      /\ UNCHANGED transVars /\ UNCHANGED <<status, Fst, undoNxt, owner, wr>>
  BY DEF ClearDirty, At, logVars, diskVars, transVars, Fst
<1>2. /\ CkTypeOK /\ ck.page = {} /\ ck.scan = {} /\ CkInv /\ ListInv
  BY <1>1 DEF RecInv, CkTypeOK
<1>3. /\ ck' = [pc |-> "write", redo |-> ck.redo, begin |-> ck.begin, scan |-> {},
                todo |-> ck.todo \ {p}, page |-> {p}]
      /\ ck.redo \in Nat /\ ck.begin \in Nat /\ ck.todo \in SUBSET Pages
  <2>1. ck \in [pc : {"idle", "scan", "begin", "move", "flag", "write", "switch", "anchor"},
             redo : Nat, begin : Nat, scan : SUBSET Trans, todo : SUBSET Pages, page : SUBSET Pages]
    BY <1>2 DEF CkTypeOK
  <2> QED BY <2>1, <1>1, <1>2
<1>4. n \in Nat /\ synced \in 1 .. n /\ RedoLSN \in 1 .. n /\ anchor.begin \in 1 .. synced
  BY RedoLSNIs
<1>5. Quiet(n)
  BY <1>1, <1>4, QuietSame
<1>6. Longer(n)
  BY <1>5 DEF Quiet
<1>7. AnchorInv' /\ RedoLSN' = RedoLSN
  BY <1>1, <1>6, AnchorKept
<1>8. \A u \in Trans : status[u] # "idle" => RedoLSN <= Fst[u]
  BY <1>1 DEF RecInv, RunInv
<1>9. TransType' /\ MemInv' /\ RunInv' /\ RestartInv'
  BY <1>1, <1>5, <1>7, <1>8, TransKept
<1>10. DiskType'
  BY <1>1, TypeParts DEF RecInv, DiskType, Val
<1>11. /\ ck'.todo = ck.todo \ {p} /\ ck'.page = {p} /\ ck'.pc = "write" /\ ck'.scan = {}
       /\ ck'.redo = ck.redo /\ ck'.begin = ck.begin
  BY <1>3
<1>12. ListInv'
  <2>1. \A q \in dirty' : q \in listed' \/ (q \in ck'.todo /\ stat'[q] = "flush") \/ LinkDue(q)
    BY <1>1, <1>2, <1>11 DEF ListInv
  <2>2. /\ \A r : AtWork(r)' <=> AtWork(r)
        /\ \A q : LinkDue(q)' <=> LinkDue(q)
    BY <1>1 DEF AtWork, LinkDue, PageToMark, Idle
  <2>3. ASSUME NEW r \in Rows, PageOf[r] \notin listed, PageOf[r] \notin dirty', ~ LinkDue(PageOf[r]),
               ~ AtWork(r)
        PROVE  /\ stat[PageOf[r]] = "init" => img[anchor.current][r] = mem[r] /\ file[r] = mem[r]
               /\ stat[PageOf[r]] = "remove" =>
                    IF PageOf[r] \notin ck'.todo \cup ck'.page
                    THEN file[r] = mem[r] ELSE img[anchor.current][r] = mem[r]
    <3>1. CASE PageOf[r] \in dirty
      BY <3>1, <2>3, <1>1, <1>2 DEF ListInv
    <3>2. CASE PageOf[r] \notin dirty
      <4>1. PageOf[r] \in ck'.todo \cup ck'.page <=> PageOf[r] \in ck.todo \cup ck.page
        BY <1>1, <1>2, <1>11
      <4>2. Writing
        BY <1>1 DEF Writing
      <4> QED BY <4>1, <4>2, <3>2, <2>3, <1>1, <1>2 DEF ListInv
    <3> QED BY <3>1, <3>2
  <2>4. Writing'
    BY <1>11 DEF Writing
  <2> QED BY <2>1, <2>2, <2>3, <2>4, <1>1 DEF ListInv
<1>13. CkTypeOK'
  BY <1>1, <1>3, <1>11 DEF CkTypeOK
<1>14. CkInv'
  <2>1. /\ ck.redo \in RedoLSN .. n + 1
        /\ \A t \in Trans : Fst[t] = NoLSN \/ ck.redo <= Fst[t]
        /\ ck.begin \in anchor.begin + 1 .. n /\ BeginsAt(ck.begin, ck.redo)
        /\ \A t \in Trans : NobodyAcross(t, ck.redo, ck.begin)
        /\ ck.begin <= synced
        /\ \A r \in Rows : Same(r, ck.begin, ck.redo)
        /\ \A q \in ck.todo \cup ck.page : NotedIn(q, ck.begin) /\ stat[q] # "init"
        /\ \A r \in Rows : PageOf[r] \in ck.todo \cup ck.page \/ Covers(file[r], r, ck.redo, n)
    BY <1>1, <1>2 DEF CkInv
  <2>2. ck'.todo \cup ck'.page = ck.todo \cup ck.page
    BY <1>1, <1>2, <1>11
  <2> PICK b, lo : b = ck.begin /\ lo = ck.redo
    OBVIOUS
  <2>3. /\ b \in 1 .. n /\ b \in 0 .. n /\ b \in Nat \ {0} /\ lo \in Nat \ {0} /\ lo \in 1 .. n + 1
        /\ n \in 0 .. n /\ b <= b /\ n <= n /\ Agree(n)
    BY <2>1, <1>4, <1>6 DEF Longer
  <2>4. BeginsAt(b, lo)'
    BY <2>1, <2>3, BeginsKept
  <2>5. \A t \in Trans : NobodyAcross(t, lo, b)'
    BY <2>1, <2>3, <1>6, NobodyGrows
  <2>6. \A r \in Rows : Same(r, b, lo)'
    BY <2>1, <2>3, <1>1, <1>6, SameGrows
  <2>7. \A q \in ck.todo \cup ck.page : NotedIn(q, b)'
    BY <2>1, <2>3, <1>6, NotedGrows
  <2>8. ASSUME NEW r \in Rows, PageOf[r] \notin ck.todo \cup ck.page
        PROVE  Covers(file[r], r, ck.redo, Len(log))'
    <3> PICK v : v = file[r]
      OBVIOUS
    <3>1. Covers(v, r, lo, n)'
      BY <2>1, <2>3, <2>8, <1>6, CoversGrows
    <3> QED BY <3>1, <1>1, <1>11
  <2> QED BY <2>1, <2>2, <2>4, <2>5, <2>6, <2>7, <2>8, <1>1, <1>2, <1>7, <1>11 DEF CkInv, NoLSN
<1>15. upd' \in 0 .. LastUpd
  BY <1>1 DEF RecInv
<1> QED BY <1>5, <1>7, <1>9, <1>10, <1>12, <1>13, <1>14, <1>15, TypePartsNext DEF RecInv, Quiet

\* The begin checkpoint log stays what it is.
LEMMA BegunKept ==
  ASSUME RecInv, ck.pc \in {"move", "flag", "write", "switch", "anchor"}, NEW n, n = Len(log), Longer(n),
         NEW b, b = ck.begin, NEW lo, lo = ck.redo
  PROVE  /\ phase = "run" /\ ck.scan = {} /\ n \in Nat /\ Agree(n)
         /\ lo \in Nat \ {0} /\ lo \in RedoLSN .. n + 1 /\ lo \in 1 .. n + 1 /\ lo <= b
         /\ b \in Nat \ {0} /\ b \in anchor.begin + 1 .. n /\ b \in 0 .. n
         /\ \A t \in Trans : Fst[t] = NoLSN \/ lo <= Fst[t]
         /\ BeginsAt(b, lo)' /\ \A t \in Trans : NobodyAcross(t, lo, b)'
         /\ ck.pc # "move" => /\ b <= synced
                              /\ \A r \in Rows : Same(r, b, lo)
                              /\ \A q \in ck.todo \cup ck.page : NotedIn(q, b)' /\ stat[q] # "init"
         /\ ck.pc \in {"flag", "write"} =>
              \A r \in Rows : PageOf[r] \in ck.todo \cup ck.page \/ Covers(file[r], r, lo, n)
<1>1. CkInv /\ CkTypeOK /\ log \in Seq(Record) /\ \A k \in 1 .. Len(log) : StepOK(k)
  BY DEF RecInv, LogInv
<1>2. /\ phase = "run" /\ ck.scan = {}
      /\ lo \in RedoLSN .. n + 1
      /\ \A t \in Trans : Fst[t] = NoLSN \/ lo <= Fst[t]
      /\ b \in anchor.begin + 1 .. n /\ BeginsAt(b, lo)
      /\ \A t \in Trans : NobodyAcross(t, lo, b)
      /\ ck.pc # "move" => /\ b <= synced
                           /\ \A r \in Rows : Same(r, b, lo)
                           /\ \A q \in ck.todo \cup ck.page : NotedIn(q, b) /\ stat[q] # "init"
      /\ ck.pc \in {"flag", "write"} =>
              \A r \in Rows : PageOf[r] \in ck.todo \cup ck.page \/ Covers(file[r], r, lo, n)
  BY <1>1 DEF CkInv, CkTypeOK
<1>3. n \in Nat /\ RedoLSN \in Nat \ {0} /\ anchor.begin \in Nat \ {0} /\ Agree(n)
  BY RedoLSNIs DEF Longer
<1>4. /\ lo \in Nat \ {0} /\ lo \in 1 .. n + 1
      /\ b \in Nat \ {0} /\ b \in 0 .. n /\ b \in 1 .. n /\ b <= b
  BY <1>2, <1>3
<1>5. lo <= b
  BY <1>1, <1>2, <1>4 DEF StepOK, BeginsAt
<1>6. BeginsAt(b, lo)'
  BY <1>2, <1>3, <1>4, BeginsKept
<1>7. \A t \in Trans : NobodyAcross(t, lo, b)'
  BY <1>2, <1>4, NobodyGrows
<1>8. ck.pc # "move" => \A q \in ck.todo \cup ck.page : NotedIn(q, b)' /\ stat[q] # "init"
  BY <1>2, <1>4, NotedGrows
<1> QED BY <1>2, <1>3, <1>4, <1>5, <1>6, <1>7, <1>8

\* It writes the page as it is, with changes that are not committed.
LEMMA WritePageStep ==
  ASSUME RecInv, NEW p \in Pages, WritePage(p)
  PROVE  RecInv'
<1> PICK n, b, lo : n = Len(log) /\ b = ck.begin /\ lo = ck.redo
  OBVIOUS
<1>1. /\ phase = "run" /\ ck.pc = "write" /\ ck.page = {p}
      /\ file' = [r \in Rows |-> IF PageOf[r] = p THEN mem[r] ELSE file[r]]
      /\ stat' = [stat EXCEPT ![p] = WrittenStat(p)]
      /\ ck' = [ck EXCEPT !.pc = "flag", !.page = {}]
      /\ UNCHANGED <<acked, mem, phase, history, upd, log, synced, dirty, listed, img, anchor>>
      /\ UNCHANGED transVars /\ UNCHANGED <<status, Fst, undoNxt, owner, wr>>
  BY DEF WritePage, At, logVars, diskVars, transVars, Fst
<1>2. /\ CkTypeOK /\ ck.scan = {} /\ CkInv /\ ListInv /\ p \notin ck.todo
      /\ TransType /\ DiskType
  BY <1>1, TypeParts DEF RecInv, CkTypeOK
<1>3. /\ ck' = [pc |-> "flag", redo |-> lo, begin |-> b, scan |-> {}, todo |-> ck.todo, page |-> {}]
      /\ lo \in Nat /\ b \in Nat /\ ck.todo \in SUBSET Pages
  <2>1. ck \in [pc : {"idle", "scan", "begin", "move", "flag", "write", "switch", "anchor"},
             redo : Nat, begin : Nat, scan : SUBSET Trans, todo : SUBSET Pages, page : SUBSET Pages]
    BY <1>2 DEF CkTypeOK
  <2> QED BY <2>1, <1>1, <1>2
<1>4. n \in Nat /\ synced \in 1 .. n /\ RedoLSN \in 1 .. n /\ anchor.begin \in 1 .. synced
  BY RedoLSNIs
<1>5. Quiet(n)
  BY <1>1, <1>4, QuietSame
<1>6. Longer(n)
  BY <1>5 DEF Quiet
<1>7. /\ lo \in Nat \ {0} /\ lo \in RedoLSN .. n + 1 /\ lo \in 1 .. n + 1 /\ Agree(n)
      /\ b \in Nat \ {0} /\ b \in anchor.begin + 1 .. n
      /\ \A t \in Trans : Fst[t] = NoLSN \/ lo <= Fst[t]
      /\ BeginsAt(b, lo)' /\ \A t \in Trans : NobodyAcross(t, lo, b)'
      /\ b <= synced
      /\ \A r \in Rows : Same(r, b, lo)
      /\ \A q \in ck.todo \cup ck.page : NotedIn(q, b)' /\ stat[q] # "init"
      /\ \A r \in Rows : PageOf[r] \in ck.todo \cup ck.page \/ Covers(file[r], r, lo, n)
  <2>1. ck.pc \in {"move", "flag", "write", "switch", "anchor"} /\ ck.pc # "move" /\ ck.pc \in {"flag", "write"}
    BY <1>1
  <2> QED BY <2>1, <1>6, BegunKept
<1>8. NotedIn(p, b)
  BY <1>1, <1>2 DEF CkInv
<1>9. NotedIn(p, anchor.begin)
  <2>1. PICK k \in b .. synced : log[k].op = "pages" /\ p \in log[k].pages
    BY <1>8 DEF NotedIn
  <2>2. k \in anchor.begin .. synced
    BY <1>4, <1>7
  <2> QED BY <2>1, <2>2 DEF NotedIn
<1>10. \A r \in Rows : PageOf[r] # p => file'[r] = file[r]
  BY <1>1
<1>11. AnchorInv' /\ RedoLSN' = RedoLSN
  <2>1. \A r \in Rows : img[0][r] = img[1][r] /\ file[r] = img[0][r] =>
                           \/ img'[0][r] = img'[1][r] /\ file'[r] = img'[0][r]
                           \/ NotedIn(PageOf[r], anchor.begin)
    BY <1>1, <1>9, <1>10
  <2> QED BY <2>1, <1>1, <1>6, AnchorKept
<1>12. \A u \in Trans : status[u] # "idle" => RedoLSN <= Fst[u]
  BY <1>1 DEF RecInv, RunInv
<1>13. TransType' /\ MemInv' /\ RunInv' /\ RestartInv'
  BY <1>1, <1>5, <1>11, <1>12, TransKept
<1>14. DiskType'
  <2>1. file' \in [Rows -> Val]
    BY <1>1, <1>2 DEF TransType, DiskType
  <2>2. stat' \in [Pages -> {"init", "flush", "remove"}]
    BY <1>1, <1>2 DEF DiskType, WrittenStat
  <2> QED BY <2>1, <2>2, <1>1, <1>2 DEF DiskType, Val
<1>15. /\ ck'.todo = ck.todo /\ ck'.page = {} /\ ck'.pc = "flag" /\ ck'.scan = {}
       /\ ck'.redo = lo /\ ck'.begin = b
  BY <1>3
<1>16. /\ stat'[p] = IF stat[p] = "remove" THEN "init" ELSE "remove"
       /\ stat[p] \in {"flush", "remove"}
       /\ \A q \in Pages : q # p => stat'[q] = stat[q]
  <2>1. stat[p] # "init"
    BY <1>1, <1>7
  <2> QED BY <2>1, <1>1, <1>2 DEF DiskType, WrittenStat
<1>17. ListInv'
  <2>1. \A q \in dirty' : q \in listed' \/ (q \in ck'.todo /\ stat'[q] = "flush") \/ LinkDue(q)
    <3>1. \A q \in dirty : q \in Pages
      BY <1>2 DEF DiskType
    <3> QED BY <3>1, <1>1, <1>2, <1>15, <1>16 DEF ListInv
  <2>2. /\ \A r : AtWork(r)' <=> AtWork(r)
        /\ \A q : LinkDue(q)' <=> LinkDue(q)
    BY <1>1 DEF AtWork, LinkDue, PageToMark, Idle
  <2>3. ASSUME NEW r \in Rows, PageOf[r] \notin listed, PageOf[r] \notin dirty, ~ LinkDue(PageOf[r]),
               ~ AtWork(r)
        PROVE  /\ stat'[PageOf[r]] = "init" => img[anchor.current][r] = mem[r] /\ file'[r] = mem[r]
               /\ stat'[PageOf[r]] = "remove" =>
                    IF PageOf[r] \notin ck'.todo \cup ck'.page
                    THEN file'[r] = mem[r] ELSE img[anchor.current][r] = mem[r]
    <3>0. PageOf[r] \in Pages /\ Writing
      BY <1>1, RecoveryAssumption DEF Writing
    <3>1. CASE PageOf[r] = p
      <4>1. file'[r] = mem[r]
        BY <3>1, <1>1
      <4>2. stat[p] = "remove" => img[anchor.current][r] = mem[r]
        BY <3>0, <3>1, <2>3, <1>1, <1>2 DEF ListInv
      <4> QED BY <3>1, <4>1, <4>2, <1>2, <1>15, <1>16
    <3>2. CASE PageOf[r] # p
      <4>1. PageOf[r] \in ck'.todo \cup ck'.page <=> PageOf[r] \in ck.todo \cup ck.page
        BY <3>2, <1>1, <1>15
      <4>2. file'[r] = file[r] /\ stat'[PageOf[r]] = stat[PageOf[r]]
        BY <3>0, <3>2, <1>10, <1>16
      <4> QED BY <3>0, <4>1, <4>2, <2>3, <1>1, <1>2 DEF ListInv
    <3> QED BY <3>1, <3>2
  <2>4. Writing'
    BY <1>15 DEF Writing
  <2> QED BY <2>1, <2>2, <2>3, <2>4, <1>1 DEF ListInv
<1>18. CkTypeOK'
  BY <1>3, <1>15 DEF CkTypeOK
<1>19. CkInv'
  <2>1. \A r \in Rows : Same(r, b, lo)'
    <3>1. NotedIn(p, b)'
      BY <1>1, <1>7
    <3>2. ASSUME NEW r \in Rows, PageOf[r] = p PROVE Same(r, b, lo)'
      BY <3>1, <3>2 DEF Same
    <3>3. ASSUME NEW r \in Rows, PageOf[r] # p PROVE Same(r, b, lo)'
      BY <3>3, <1>1, <1>6, <1>7, <1>10, SameGrows
    <3> QED BY <3>2, <3>3
  <2>2. \A q \in ck'.todo \cup ck'.page : NotedIn(q, b)' /\ stat'[q] # "init"
    BY <1>1, <1>2, <1>3, <1>7, <1>15, <1>16
  <2>3. ASSUME NEW r \in Rows, PageOf[r] \notin ck.todo
        PROVE  Covers(file[r], r, ck.redo, Len(log))'
    <3> PICK v : v = file'[r]
      OBVIOUS
    <3>1. Covers(v, r, lo, n)
      <4>1. CASE PageOf[r] = p
        <5>1. v = mem[r]
          BY <4>1, <1>1
        <5> QED BY <5>1, <1>1, MemCovers
      <4>2. CASE PageOf[r] # p
        BY <4>2, <2>3, <1>1, <1>7, <1>10
      <4> QED BY <4>1, <4>2
    <3>2. n \in 0 .. n /\ n <= n
      BY <1>4
    <3>3. Covers(v, r, lo, n)'
      BY <3>1, <3>2, <1>4, <1>6, <1>7, CoversGrows
    <3> QED BY <3>3, <1>1, <1>15
  <2> QED BY <2>1, <2>2, <2>3, <1>1, <1>7, <1>11, <1>15 DEF CkInv, NoLSN
<1>20. upd' \in 0 .. LastUpd
  BY <1>1 DEF RecInv
<1> QED BY <1>5, <1>11, <1>13, <1>14, <1>17, <1>18, <1>19, <1>20, TypePartsNext DEF RecInv, Quiet

\* It takes the list over, and notes the pages in the log.
LEMMA MoveDirtyPagesStep ==
  ASSUME RecInv, MoveDirtyPages, ~ MissesPage
  PROVE  RecInv'
<1> PICK n, m, b, lo, C : n = Len(log) /\ m = n + 1 /\ b = ck.begin /\ lo = ck.redo /\ C = Chain(Moved)
  OBVIOUS
<1> PICK l : l = [op |-> "pages", pages |-> C]
  OBVIOUS
<1>1. /\ phase = "run" /\ ck.pc = "move"
      /\ stat' = Moved /\ listed' = {} /\ log' = Append(log, l) /\ synced' = m
      /\ ck' = [ck EXCEPT !.pc = "flag", !.todo = C]
      /\ UNCHANGED <<acked, mem, phase, history, upd, dirty, img, file, anchor>>
      /\ UNCHANGED transVars /\ UNCHANGED <<status, Fst, undoNxt, owner, wr>>
  BY DEF MoveDirtyPages, At, diskVars, transVars, Fst
<1>2. /\ CkTypeOK /\ ck.todo = {} /\ ck.page = {} /\ ck.scan = {} /\ CkInv /\ ListInv /\ file = img[Other]
      /\ TransType /\ DiskType
  BY <1>1, TypeParts DEF RecInv, CkTypeOK, CkInv
<1>3. /\ ck' = [pc |-> "flag", redo |-> lo, begin |-> b, scan |-> {}, todo |-> C, page |-> {}]
      /\ lo \in Nat /\ b \in Nat
  <2>1. ck \in [pc : {"idle", "scan", "begin", "move", "flag", "write", "switch", "anchor"},
             redo : Nat, begin : Nat, scan : SUBSET Trans, todo : SUBSET Pages, page : SUBSET Pages]
    BY <1>2 DEF CkTypeOK
  <2> QED BY <2>1, <1>1, <1>2
<1>4. n \in Nat /\ m \in Nat /\ synced \in 1 .. n /\ RedoLSN \in 1 .. n /\ anchor.begin \in 1 .. synced
      /\ anchor.current \in {0, 1} /\ Other \in {0, 1} /\ Other # anchor.current
  BY RedoLSNIs
<1>5. C = {p \in Pages : Moved[p] # "init"} /\ C \in SUBSET Pages
  BY DEF Chain
<1>6. l \in Record /\ l.op = "pages" /\ l.pages = C
  BY <1>5 DEF Record
<1>7. Quiet(n) /\ Len(log') = m /\ log'[m] = l
  <2>1. synced' \in synced .. n + 1
    BY <1>1, <1>4
  <2>2. l.op \in {"begin", "pages"} /\ l.op # "begin"
    BY <1>6
  <2> QED BY <2>1, <2>2, <1>1, <1>6, QuietLog
<1>8. Longer(n)
  BY <1>7 DEF Quiet
<1>9. AnchorInv' /\ RedoLSN' = RedoLSN
  BY <1>1, <1>8, AnchorKept
<1>10. \A u \in Trans : status[u] # "idle" => RedoLSN <= Fst[u]
  BY <1>1 DEF RecInv, RunInv
<1>11. TransType' /\ MemInv' /\ RunInv' /\ RestartInv'
  BY <1>1, <1>7, <1>9, <1>10, TransKept
<1>12. Moved \in [Pages -> {"init", "flush", "remove"}]
  BY <1>2 DEF Moved, DiskType
<1>13. DiskType'
  <2>1. \A k : k \in 1 .. synced => k \in 1 .. m
    BY <1>4
  <2>2. anchor \in [current : {0, 1}, begin : 1 .. m] /\ acked \in 0 .. m
    BY <2>1, <1>2, <1>4 DEF DiskType
  <2>3. m \in 1 .. m
    BY <1>4
  <2> QED BY <2>2, <2>3, <1>1, <1>2, <1>7, <1>12 DEF DiskType, Val
<1>14. /\ ck'.todo = C /\ ck'.page = {} /\ ck'.pc = "flag" /\ ck'.scan = {}
       /\ ck'.redo = lo /\ ck'.begin = b
  BY <1>3
<1>15. \A q \in Pages : Moved[q] = IF q \in listed THEN "flush" ELSE stat[q]
  BY DEF Moved
\* What is in no list is the same in the images and, but for changes not yet made, the memory.
<1>16. ASSUME NEW r \in Rows, PageOf[r] \notin C
       PROVE  /\ ~ AtWork(r) => img[anchor.current][r] = mem[r] /\ file[r] = mem[r]
  <2>1. PageOf[r] \in Pages
    BY RecoveryAssumption
  <2>2. PageOf[r] \notin listed /\ stat[PageOf[r]] = "init"
    BY <2>1, <1>5, <1>15, <1>16
  <2>3. ~ LinkDue(PageOf[r])
    BY <1>16 DEF MissesPage, LinkDue
  <2>4. PageOf[r] \notin dirty
    BY <2>2, <2>3, <1>1, <1>2 DEF ListInv
  <2> QED BY <2>2, <2>3, <2>4, <1>1, <1>2 DEF ListInv
<1>17. ListInv'
  <2>1. \A q \in dirty : (q \in C /\ Moved[q] = "flush") \/ LinkDue(q)
    <3>1. \A q \in dirty : q \in Pages /\ (q \in listed \/ LinkDue(q))
      BY <1>1, <1>2 DEF DiskType, ListInv
    <3> QED BY <3>1, <1>5, <1>15
  <2>2. /\ \A r : AtWork(r)' <=> AtWork(r)
        /\ \A q : LinkDue(q)' <=> LinkDue(q)
    BY <1>1 DEF AtWork, LinkDue, PageToMark, Idle
  <2>3. ASSUME NEW r \in Rows, PageOf[r] \notin dirty, ~ LinkDue(PageOf[r]), ~ AtWork(r)
        PROVE  /\ Moved[PageOf[r]] = "init" => img[anchor.current][r] = mem[r] /\ file[r] = mem[r]
               /\ Moved[PageOf[r]] = "remove" => PageOf[r] \in C /\ img[anchor.current][r] = mem[r]
    <3>1. PageOf[r] \in Pages
      BY RecoveryAssumption
    <3>2. CASE Moved[PageOf[r]] = "init"
      BY <3>1, <3>2, <2>3, <1>5, <1>16
    <3>3. CASE Moved[PageOf[r]] = "remove"
      <4>1. PageOf[r] \in C /\ PageOf[r] \notin listed /\ stat[PageOf[r]] = "remove"
        BY <3>1, <3>3, <1>5, <1>15
      <4>2. ~ Writing
        BY <1>1 DEF Writing
      <4> QED BY <4>1, <4>2, <3>3, <2>3, <1>1, <1>2 DEF ListInv
    <3> QED BY <3>2, <3>3
  <2>4. Writing'
    BY <1>14 DEF Writing
  <2> QED BY <2>1, <2>2, <2>3, <2>4, <1>1, <1>14 DEF ListInv
<1>18. CkTypeOK'
  BY <1>3, <1>5, <1>14 DEF CkTypeOK
<1>19. CkInv'
  <2>1. /\ lo \in Nat \ {0} /\ lo \in RedoLSN .. n + 1 /\ lo \in 1 .. n + 1 /\ Agree(n)
        /\ b \in Nat \ {0} /\ b \in anchor.begin + 1 .. n
        /\ \A t \in Trans : Fst[t] = NoLSN \/ lo <= Fst[t]
        /\ BeginsAt(b, lo)' /\ \A t \in Trans : NobodyAcross(t, lo, b)'
    <3>1. ck.pc \in {"move", "flag", "write", "switch", "anchor"}
      BY <1>1
    <3> QED BY <3>1, <1>8, BegunKept
  <2>2. b <= synced' /\ m \in b .. synced' /\ n \in 0 .. n /\ n <= m
    BY <2>1, <1>1, <1>4
  <2>3. \A q \in C : NotedIn(q, b)' /\ Moved[q] # "init"
    BY <2>2, <1>5, <1>6, <1>7 DEF NotedIn
  <2>4. ASSUME NEW r \in Rows, AtWork(r) PROVE Written(r, lo, m)'
    <3>1. Written(r, lo, n)
      BY <2>4, <1>1, MemCovers
    <3> QED BY <3>1, <2>1, <2>2, <1>4, <1>8, WrittenGrows
  <2>5. ASSUME NEW r \in Rows PROVE Same(r, b, lo)'
    <3>1. CASE PageOf[r] \in C
      BY <3>1, <2>3 DEF Same
    <3>2. CASE AtWork(r)
      BY <3>2, <2>4, <1>1 DEF Same
    <3>3. CASE PageOf[r] \notin C /\ ~ AtWork(r)
      <4>1. img[anchor.current][r] = mem[r] /\ file[r] = mem[r]
        BY <3>3, <1>16
      <4>2. img[0][r] = img[1][r] /\ file[r] = img[0][r]
        BY <4>1, <1>2, <1>4
      <4> QED BY <4>2, <1>1 DEF Same
    <3> QED BY <3>1, <3>2, <3>3
  <2>6. ASSUME NEW r \in Rows, PageOf[r] \notin C PROVE Covers(file[r], r, ck.redo, Len(log))'
    <3> PICK v : v = file[r]
      OBVIOUS
    <3>1. Covers(v, r, lo, m)'
      <4>1. CASE AtWork(r)
        BY <4>1, <2>4 DEF Covers
      <4>2. CASE ~ AtWork(r)
        <5>1. v = mem[r]
          BY <4>2, <2>6, <1>16
        <5>2. Covers(v, r, lo, n)
          BY <5>1, <1>1, MemCovers
        <5> QED BY <5>2, <2>1, <2>2, <1>4, <1>8, CoversGrows
      <4> QED BY <4>1, <4>2
    <3> QED BY <3>1, <1>1, <1>7, <1>14
  <2>7. /\ ck'.redo \in RedoLSN' .. Len(log') + 1
        /\ ck'.begin \in anchor'.begin + 1 .. Len(log')
    BY <2>1, <1>1, <1>4, <1>7, <1>9, <1>14
  <2> QED BY <2>1, <2>2, <2>3, <2>5, <2>6, <2>7, <1>1, <1>14 DEF CkInv, NoLSN
<1>20. upd' \in 0 .. LastUpd
  BY <1>1 DEF RecInv
<1> QED BY <1>7, <1>9, <1>11, <1>13, <1>17, <1>18, <1>19, <1>20, TypePartsNext DEF RecInv, Quiet

-----------------------------------------------------------------------------
(* The checkpoint makes its image the current one.                         *)

\* The older image is complete, and covers what the redo LSN asks for.
LEMMA SyncDBStep ==
  ASSUME RecInv, SyncDB
  PROVE  RecInv'
<1> PICK n, b, lo : n = Len(log) /\ b = ck.begin /\ lo = ck.redo
  OBVIOUS
<1>1. /\ phase = "run" /\ ck.pc = "flag" /\ ck.todo = {}
      /\ img' = [img EXCEPT ![Other] = file] /\ synced' = n
      /\ ck' = [ck EXCEPT !.pc = "switch"]
      /\ UNCHANGED <<acked, mem, phase, history, upd, log, dirty, listed, stat, file, anchor>>
      /\ UNCHANGED transVars /\ UNCHANGED <<status, Fst, undoNxt, owner, wr>>
  BY DEF SyncDB, At, Goto, transVars, Fst
<1>2. /\ CkTypeOK /\ ck.page = {} /\ ck.scan = {}
      /\ TransType /\ DiskType
  BY <1>1, TypeParts DEF RecInv, CkTypeOK
<1>3. /\ ck' = [pc |-> "switch", redo |-> lo, begin |-> b, scan |-> {}, todo |-> {}, page |-> {}]
      /\ lo \in Nat /\ b \in Nat
  <2>1. ck \in [pc : {"idle", "scan", "begin", "move", "flag", "write", "switch", "anchor"},
             redo : Nat, begin : Nat, scan : SUBSET Trans, todo : SUBSET Pages, page : SUBSET Pages]
    BY <1>2 DEF CkTypeOK
  <2> QED BY <2>1, <1>1, <1>2
<1>4. /\ n \in Nat /\ synced \in 1 .. n /\ RedoLSN \in 1 .. n /\ anchor.begin \in 1 .. synced
      /\ anchor.current \in {0, 1} /\ Other \in {0, 1} /\ Other # anchor.current
  BY RedoLSNIs
<1>5. Quiet(n)
  <2>1. synced' \in synced .. Len(log)
    BY <1>1, <1>4
  <2> QED BY <2>1, <1>1, QuietSame
<1>6. Longer(n)
  BY <1>5 DEF Quiet
<1>7. /\ lo \in Nat \ {0} /\ lo \in RedoLSN .. n + 1 /\ lo \in 1 .. n + 1 /\ Agree(n)
      /\ b \in Nat \ {0} /\ b \in anchor.begin + 1 .. n
      /\ \A t \in Trans : Fst[t] = NoLSN \/ lo <= Fst[t]
      /\ BeginsAt(b, lo)' /\ \A t \in Trans : NobodyAcross(t, lo, b)'
      /\ b <= synced
      /\ \A r \in Rows : Same(r, b, lo)
      /\ \A r \in Rows : PageOf[r] \in ck.todo \cup ck.page \/ Covers(file[r], r, lo, n)
  <2>1. ck.pc \in {"move", "flag", "write", "switch", "anchor"} /\ ck.pc # "move" /\ ck.pc \in {"flag", "write"}
    BY <1>1
  <2> QED BY <2>1, <1>6, BegunKept
<1>8. /\ img'[Other] = file /\ img'[anchor.current] = img[anchor.current]
      /\ \A r : img[0][r] = img[1][r] /\ file[r] = img[0][r] =>
                  img'[0][r] = img'[1][r] /\ file'[r] = img'[0][r]
  BY <1>1, <1>2, <1>4 DEF DiskType
<1>9. AnchorInv' /\ RedoLSN' = RedoLSN
  BY <1>1, <1>6, <1>8, AnchorKept
<1>10. \A u \in Trans : status[u] # "idle" => RedoLSN <= Fst[u]
  BY <1>1 DEF RecInv, RunInv
<1>11. TransType' /\ MemInv' /\ RunInv' /\ RestartInv'
  BY <1>1, <1>5, <1>9, <1>10, TransKept
<1>12. DiskType'
  <2>1. \A k : k \in 1 .. synced => k \in 1 .. n
    BY <1>4
  <2>2. anchor \in [current : {0, 1}, begin : 1 .. n] /\ acked \in 0 .. n
    BY <2>1, <1>2, <1>4 DEF DiskType
  <2>3. n \in 1 .. n
    BY <1>4
  <2>4. img' \in [{0, 1} -> [Rows -> Val]]
    BY <1>1, <1>2, <1>4 DEF DiskType
  <2> QED BY <2>2, <2>3, <2>4, <1>1, <1>2 DEF DiskType, Val
<1>13. /\ ck'.todo = {} /\ ck'.page = {} /\ ck'.pc = "switch" /\ ck'.scan = {}
       /\ ck'.redo = lo /\ ck'.begin = b
  BY <1>3
<1>14. ListInv'
  <2>1. Writing' <=> Writing
    BY <1>1, <1>13 DEF Writing
  <2> QED BY <2>1, <1>1, <1>2, <1>8, <1>13, ListKept
<1>15. CkTypeOK'
  BY <1>3, <1>13 DEF CkTypeOK
<1>16. CkInv'
  <2>1. \A r \in Rows : Same(r, b, lo)'
    BY <1>6, <1>7, <1>8, SameGrows
  <2>2. ASSUME NEW r \in Rows PROVE Covers(file[r], r, ck.redo, synced)'
    <3> PICK v : v = file[r]
      OBVIOUS
    <3>1. n \in 0 .. n /\ n <= n /\ n \in Nat
      BY <1>4
    <3>2. Covers(v, r, lo, n)
      BY <1>1, <1>2, <1>7
    <3>3. Covers(v, r, lo, n)'
      BY <3>1, <3>2, <1>6, <1>7, CoversGrows
    <3> QED BY <3>3, <1>1, <1>13
  <2>3. file' = img'[Other']
    BY <1>1, <1>8 DEF Other
  <2>4. ck'.begin <= synced'
    BY <1>1, <1>7, <1>13
  <2>5. ck'.redo \in RedoLSN' .. Len(log') + 1 /\ ck'.begin \in anchor'.begin + 1 .. Len(log')
    BY <1>1, <1>7, <1>9, <1>13
  <2> QED BY <2>1, <2>2, <2>3, <2>4, <2>5, <1>1, <1>7, <1>13 DEF CkInv, NoLSN
<1>17. upd' \in 0 .. LastUpd
  BY <1>1 DEF RecInv
<1> QED BY <1>5, <1>9, <1>11, <1>12, <1>14, <1>15, <1>16, <1>17, TypePartsNext DEF RecInv, Quiet

\* It is the current one; the anchor still has the LSN of the checkpoint before.
LEMMA SwitchImageStep ==
  ASSUME RecInv, SwitchImage
  PROVE  RecInv'
<1> PICK n, b, lo, cur, oth : n = Len(log) /\ b = ck.begin /\ lo = ck.redo /\ cur = anchor.current /\ oth = Other
  OBVIOUS
<1>1. /\ phase = "run" /\ ck.pc = "switch"
      /\ anchor' = [anchor EXCEPT !.current = oth] /\ file' = img[cur]
      /\ ck' = [ck EXCEPT !.pc = "anchor"]
      /\ UNCHANGED <<acked, mem, phase, history, upd, log, synced, dirty, listed, stat, img>>
      /\ UNCHANGED transVars /\ UNCHANGED <<status, Fst, undoNxt, owner, wr>>
  BY DEF SwitchImage, At, Goto, transVars, logVars, Fst
<1>2. /\ CkTypeOK /\ ck.todo = {} /\ ck.page = {} /\ ck.scan = {} /\ CkInv /\ AnchorInv
      /\ TransType /\ DiskType /\ file = img[oth] /\ log \in Seq(Record)
  BY <1>1, TypeParts DEF RecInv, CkTypeOK, CkInv, LogInv
<1>3. /\ ck' = [pc |-> "anchor", redo |-> lo, begin |-> b, scan |-> {}, todo |-> {}, page |-> {}]
      /\ lo \in Nat /\ b \in Nat
  <2>1. ck \in [pc : {"idle", "scan", "begin", "move", "flag", "write", "switch", "anchor"},
             redo : Nat, begin : Nat, scan : SUBSET Trans, todo : SUBSET Pages, page : SUBSET Pages]
    BY <1>2 DEF CkTypeOK
  <2> QED BY <2>1, <1>1, <1>2
<1>4. /\ n \in Nat /\ synced \in 1 .. n /\ RedoLSN \in 1 .. n /\ anchor.begin \in 1 .. synced
      /\ cur \in {0, 1} /\ oth \in {0, 1} /\ oth # cur /\ RedoLSN \in 1 .. anchor.begin
  BY RedoLSNIs
<1>5. Quiet(n)
  BY <1>1, <1>4, QuietSame
<1>6. Longer(n)
  BY <1>5 DEF Quiet
<1>7. /\ lo \in Nat \ {0} /\ lo \in RedoLSN .. n + 1 /\ lo \in 1 .. n + 1 /\ Agree(n) /\ lo <= b
      /\ b \in Nat \ {0} /\ b \in anchor.begin + 1 .. n
      /\ \A t \in Trans : Fst[t] = NoLSN \/ lo <= Fst[t]
      /\ BeginsAt(b, lo)' /\ \A t \in Trans : NobodyAcross(t, lo, b)'
      /\ b <= synced
      /\ \A r \in Rows : Same(r, b, lo)
  <2>1. ck.pc \in {"move", "flag", "write", "switch", "anchor"} /\ ck.pc # "move"
    BY <1>1
  <2> QED BY <2>1, <1>6, BegunKept
<1>8. anchor' = [current |-> oth, begin |-> anchor.begin] /\ anchor'.current = oth /\ anchor'.begin = anchor.begin
  BY <1>1, <1>2 DEF DiskType
<1>9. RedoLSN' = RedoLSN
  BY <1>1, <1>8 DEF RedoLSN
<1>10. \A r : img[0][r] = img[1][r] /\ file[r] = img[0][r] =>
                  img'[0][r] = img'[1][r] /\ file'[r] = img'[0][r]
  BY <1>1, <1>4
<1>11. AnchorInv'
  <2> PICK a, l : a = anchor.begin /\ l = RedoLSN
    OBVIOUS
  <2>1. /\ log[a].op = "begin"
        /\ \A t \in Trans : NobodyAcross(t, l, a)
        /\ \A r \in Rows : Same(r, a, l)
    BY <1>2 DEF AnchorInv
  <2>2. a \in Nat \ {0} /\ l \in Nat \ {0} /\ a \in 0 .. n /\ a \in Nat /\ a <= a /\ l \in 1 .. n + 1
    BY <1>4
  <2>3. \A t \in Trans : NobodyAcross(t, l, a)'
    BY <2>1, <2>2, <1>6, NobodyGrows
  <2>4. \A r \in Rows : Same(r, a, l)'
    BY <2>1, <2>2, <1>6, <1>10, SameGrows
  <2>5. ASSUME NEW r \in Rows PROVE Covers(img[anchor.current][r], r, RedoLSN, synced)'
    <3> PICK v, h : v = img[oth][r] /\ h = synced
      OBVIOUS
    <3>1. Covers(v, r, lo, h)
      BY <1>1, <1>2 DEF CkInv
    <3>2. Covers(v, r, l, h)
      <4>1. /\ l <= lo /\ h \in Nat /\ h <= h /\ h <= Len(log) /\ lo - 1 <= h /\ lo \in Nat
        BY <1>4, <1>7
      <4> QED BY <3>1, <4>1, <2>2, <1>2, CoversLonger
    <3>3. h \in 0 .. n /\ h \in Nat /\ h <= h
      BY <1>4
    <3>4. Covers(v, r, l, h)'
      BY <3>2, <3>3, <2>2, <1>6, CoversGrows
    <3>5. img'[anchor'.current][r] = v /\ h = synced'
      BY <1>1, <1>8
    <3> QED BY <3>4, <3>5, <1>9
  <2> QED BY <2>1, <2>3, <2>4, <2>5, <1>1, <1>8, <1>9 DEF AnchorInv
<1>12. \A u \in Trans : status[u] # "idle" => RedoLSN <= Fst[u]
  BY <1>1 DEF RecInv, RunInv
<1>13. TransType' /\ MemInv' /\ RunInv' /\ RestartInv'
  BY <1>1, <1>5, <1>9, <1>12, TransKept
<1>14. DiskType'
  <2>1. file' \in [Rows -> Val]
    BY <1>1, <1>2, <1>4 DEF DiskType
  <2>2. anchor' \in [current : {0, 1}, begin : 1 .. synced]
    BY <1>4, <1>8
  <2> QED BY <2>1, <2>2, <1>1, <1>2 DEF DiskType, Val
<1>15. /\ ck'.todo = {} /\ ck'.page = {} /\ ck'.pc = "anchor" /\ ck'.scan = {}
       /\ ck'.redo = lo /\ ck'.begin = b
  BY <1>3
<1>16. ListInv'
  <2>1. ListInv /\ Writing
    BY <1>1 DEF RecInv, Writing
  <2>2. /\ \A r : AtWork(r)' <=> AtWork(r)
        /\ \A q : LinkDue(q)' <=> LinkDue(q)
    BY <1>1 DEF AtWork, LinkDue, PageToMark, Idle
  <2>3. ASSUME NEW r \in Rows, PageOf[r] \notin listed, PageOf[r] \notin dirty, ~ LinkDue(PageOf[r]),
               ~ AtWork(r)
        PROVE  /\ stat[PageOf[r]] = "init" => img[oth][r] = mem[r] /\ file'[r] = mem[r]
               /\ stat[PageOf[r]] = "remove" => img[oth][r] = mem[r]
    BY <2>1, <2>3, <1>1, <1>2 DEF ListInv
  <2>4. ~ Writing'
    BY <1>15 DEF Writing
  <2>5. \A q \in dirty : q \in listed \/ LinkDue(q)
    BY <2>1, <1>1, <1>2 DEF ListInv
  <2> QED BY <2>2, <2>3, <2>4, <2>5, <1>1, <1>8 DEF ListInv
<1>17. CkTypeOK'
  BY <1>3, <1>15 DEF CkTypeOK
<1>18. CkInv'
  <2>1. \A r \in Rows : Same(r, b, lo)'
    BY <1>6, <1>7, <1>10, SameGrows
  <2>2. ASSUME NEW r \in Rows PROVE Covers(img[anchor.current][r], r, ck.redo, synced)'
    <3> PICK v, h : v = img[oth][r] /\ h = synced
      OBVIOUS
    <3>1. Covers(v, r, lo, h)
      BY <1>1, <1>2 DEF CkInv
    <3>2. h \in 0 .. n /\ h \in Nat /\ h <= h
      BY <1>4
    <3>3. Covers(v, r, lo, h)'
      BY <3>1, <3>2, <1>6, <1>7, CoversGrows
    <3>4. img'[anchor'.current][r] = v /\ h = synced'
      BY <1>1, <1>8
    <3> QED BY <3>3, <3>4, <1>15
  <2>3. file' = img'[Other']
    <3>1. Other' = 1 - oth /\ oth = 1 - cur
      BY <1>8 DEF Other
    <3>2. Other' = cur
      BY <3>1, <1>4
    <3> QED BY <3>2, <1>1
  <2>4. ck'.begin <= synced'
    BY <1>1, <1>7, <1>15
  <2>5. ck'.redo \in RedoLSN' .. Len(log') + 1 /\ ck'.begin \in anchor'.begin + 1 .. Len(log')
    BY <1>1, <1>7, <1>8, <1>9, <1>15
  <2> QED BY <2>1, <2>2, <2>3, <2>4, <2>5, <1>1, <1>7, <1>15 DEF CkInv, NoLSN
<1>19. upd' \in 0 .. LastUpd
  BY <1>1 DEF RecInv
<1> QED BY <1>5, <1>11, <1>13, <1>14, <1>16, <1>17, <1>18, <1>19, TypePartsNext DEF RecInv, Quiet

\* The anchor gets the new LSN.
LEMMA UpdateChkptStep ==
  ASSUME RecInv, UpdateChkpt
  PROVE  RecInv'
<1> PICK n, b, lo, cur : n = Len(log) /\ b = ck.begin /\ lo = ck.redo /\ cur = anchor.current
  OBVIOUS
<1>1. /\ phase = "run" /\ ck.pc = "anchor"
      /\ anchor' = [anchor EXCEPT !.begin = b] /\ ck' = CkIdle
      /\ UNCHANGED <<acked, mem, phase, history, upd, log, synced, dirty, listed, stat, img, file>>
      /\ UNCHANGED transVars /\ UNCHANGED <<status, Fst, undoNxt, owner, wr>>
  BY DEF UpdateChkpt, At, transVars, logVars, Fst
<1>2. /\ CkTypeOK /\ ck.todo = {} /\ ck.page = {} /\ ck.scan = {} /\ CkInv
      /\ TransType /\ DiskType /\ file = img[Other]
      /\ \A r \in Rows : Covers(img[cur][r], r, lo, synced)
  BY <1>1, TypeParts DEF RecInv, CkTypeOK, CkInv
<1>3. /\ n \in Nat /\ synced \in 1 .. n /\ RedoLSN \in 1 .. n /\ anchor.begin \in 1 .. synced
      /\ cur \in {0, 1}
  BY RedoLSNIs
<1>4. Quiet(n)
  BY <1>1, <1>3, QuietSame
<1>5. Longer(n)
  BY <1>4 DEF Quiet
<1>6. /\ lo \in Nat \ {0} /\ lo \in RedoLSN .. n + 1 /\ lo \in 1 .. n + 1 /\ Agree(n) /\ lo <= b
      /\ b \in Nat \ {0} /\ b \in anchor.begin + 1 .. n
      /\ \A t \in Trans : Fst[t] = NoLSN \/ lo <= Fst[t]
      /\ BeginsAt(b, lo)' /\ \A t \in Trans : NobodyAcross(t, lo, b)'
      /\ b <= synced
      /\ \A r \in Rows : Same(r, b, lo)
  <2>1. ck.pc \in {"move", "flag", "write", "switch", "anchor"} /\ ck.pc # "move"
    BY <1>1
  <2> QED BY <2>1, <1>5, BegunKept
<1>7. anchor' = [current |-> cur, begin |-> b] /\ anchor'.current = cur /\ anchor'.begin = b
  BY <1>1, <1>2 DEF DiskType
<1>8. log'[b].op = "begin" /\ log'[b].redo = lo /\ RedoLSN' = lo
  BY <1>6, <1>7 DEF BeginsAt, RedoLSN
<1>9. AnchorInv'
  <2>1. \A r \in Rows : Same(r, b, lo)'
    BY <1>1, <1>5, <1>6, SameGrows
  <2>2. ASSUME NEW r \in Rows PROVE Covers(img[anchor.current][r], r, RedoLSN, synced)'
    <3> PICK v, h : v = img[cur][r] /\ h = synced
      OBVIOUS
    <3>1. Covers(v, r, lo, h)
      BY <1>2
    <3>2. h \in 0 .. n /\ h \in Nat /\ h <= h
      BY <1>3
    <3>3. Covers(v, r, lo, h)'
      BY <3>1, <3>2, <1>5, <1>6, CoversGrows
    <3>4. img'[anchor'.current][r] = v /\ h = synced'
      BY <1>1, <1>7
    <3> QED BY <3>3, <3>4, <1>8
  <2> QED BY <2>1, <2>2, <1>6, <1>7, <1>8 DEF AnchorInv
<1>10. \A u \in Trans : status[u] # "idle" => RedoLSN' <= Fst[u]
  <2>1. \A u \in Trans : status[u] # "idle" => Fst[u] # NoLSN
    BY <1>1 DEF RecInv, RunInv
  <2> QED BY <2>1, <1>6, <1>8
<1>11. TransType' /\ MemInv' /\ RunInv' /\ RestartInv'
  BY <1>1, <1>4, <1>10, TransKept
<1>12. DiskType'
  <2>1. anchor' \in [current : {0, 1}, begin : 1 .. synced]
    BY <1>3, <1>6, <1>7
  <2> QED BY <2>1, <1>1, <1>2 DEF DiskType, Val
<1>13. ListInv'
  BY <1>1, <1>2, <1>7, ListKept DEF CkIdle, Writing
<1>14. CkTypeOK'
  BY <1>1 DEF CkTypeOK, CkIdle, NoLSN
<1>15. CkInv'
  BY <1>1, <1>2, <1>7 DEF CkInv, CkIdle, Other
<1>16. upd' \in 0 .. LastUpd
  BY <1>1 DEF RecInv
<1> QED BY <1>4, <1>9, <1>11, <1>12, <1>13, <1>14, <1>15, <1>16, TypePartsNext DEF RecInv, Quiet

-----------------------------------------------------------------------------
(* Steps of transactions.                                                  *)

\* The checkpoint thread does not notice them.
LEMMA CkKept ==
  ASSUME RecInv, NEW n, n = Len(log), Longer(n), UNCHANGED <<ck, phase, anchor, img, file, stat>>,
         Len(log') \in Nat, n <= Len(log'),
         \A t \in Trans : Fst'[t] \in {Fst[t], NoLSN, n + 1}
  PROVE  CkTypeOK' /\ CkInv' /\ AnchorInv' /\ RedoLSN' = RedoLSN
<1> PICK m, b, lo : m = Len(log') /\ b = ck.begin /\ lo = ck.redo
  OBVIOUS
<1>1. CkTypeOK /\ CkInv
  BY DEF RecInv
<1>2. AnchorInv' /\ RedoLSN' = RedoLSN
  BY AnchorKept
<1>3. /\ n \in Nat /\ m \in Nat /\ synced \in 1 .. n /\ RedoLSN \in 1 .. n /\ anchor.begin \in 1 .. synced
      /\ RedoLSN \in Nat
  BY RedoLSNIs
<1>4. CkTypeOK'
  BY <1>1 DEF CkTypeOK, CkIdle, NoLSN
<1>5. ASSUME ck.pc # "idle"
      PROVE  /\ ck.redo \in RedoLSN .. m + 1 /\ lo \in Nat \ {0} /\ lo \in 1 .. n + 1
             /\ \A t \in Trans \ ck.scan : Fst'[t] = NoLSN \/ ck.redo <= Fst'[t]
  <2>1. /\ lo \in Nat \ {0} /\ RedoLSN <= lo /\ lo <= n + 1
        /\ \A t \in Trans \ ck.scan : Fst[t] = NoLSN \/ lo <= Fst[t]
    BY <1>5, AtCheckpoint
  <2>2. \A t \in Trans \ ck.scan : Fst'[t] = NoLSN \/ lo <= Fst'[t]
    BY <2>1
  <2> QED BY <2>1, <2>2, <1>3
<1>6. ASSUME ck.pc \in {"scan", "begin"}, NEW t \in Trans \ ck.scan
      PROVE  NobodyAcross(t, lo, m)'
  <2>1. NobodyAcross(t, lo, n)
    BY <1>1, <1>6 DEF CkInv
  <2>2. lo \in Nat \ {0} /\ n \in 0 .. n
    BY <1>3, <1>5, <1>6
  <2> QED BY <2>1, <2>2, <1>3, NobodyGrows
<1>7. ASSUME ck.pc \in {"move", "flag", "write", "switch", "anchor"}
      PROVE  /\ b \in anchor.begin + 1 .. n /\ b \in Nat \ {0} /\ lo \in Nat \ {0} /\ lo \in 1 .. n + 1
             /\ BeginsAt(b, lo)' /\ \A t \in Trans : NobodyAcross(t, lo, b)'
             /\ ck.pc # "move" => /\ b <= synced
                                  /\ \A r \in Rows : Same(r, b, lo)
                                  /\ \A q \in ck.todo \cup ck.page : NotedIn(q, b)' /\ stat[q] # "init"
             /\ ck.pc \in {"flag", "write"} =>
                  \A r \in Rows : PageOf[r] \in ck.todo \cup ck.page \/ Covers(file[r], r, lo, n)
  BY <1>7, BegunKept
<1>8. ASSUME ck.pc \in {"flag", "write", "switch", "anchor"}, NEW r \in Rows
      PROVE  Same(r, b, lo)'
  BY <1>7, <1>8, SameGrows
<1>9. ASSUME ck.pc \in {"flag", "write", "switch", "anchor"},
             NEW r \in Rows, NEW v, NEW h \in 0 .. n, NEW h2 \in Nat, h <= h2, Covers(v, r, lo, h)
      PROVE  Covers(v, r, lo, h2)'
  BY <1>7, <1>9, CoversGrows
<1>10. synced' \in Nat /\ synced <= synced' /\ synced \in 0 .. n /\ n \in 0 .. n
  BY <1>3 DEF Longer
<1>11. ASSUME ck.pc \in {"flag", "write"}, NEW r \in Rows, PageOf[r] \notin ck.todo \cup ck.page
       PROVE  Covers(file[r], r, ck.redo, Len(log))'
  <2> PICK v : v = file[r]
    OBVIOUS
  <2>1. Covers(v, r, lo, m)'
    BY <1>3, <1>7, <1>9, <1>10, <1>11
  <2> QED BY <2>1
<1>12. ASSUME ck.pc = "switch", NEW r \in Rows PROVE Covers(file[r], r, ck.redo, synced)'
  <2> PICK v, h : v = file[r] /\ h = synced'
    OBVIOUS
  <2>1. Covers(v, r, lo, synced)
    BY <1>1, <1>12 DEF CkInv
  <2>2. Covers(v, r, lo, h)'
    BY <2>1, <1>9, <1>10, <1>12
  <2> QED BY <2>2
<1>13. ASSUME ck.pc = "anchor", NEW r \in Rows PROVE Covers(img[anchor.current][r], r, ck.redo, synced)'
  <2> PICK v, h : v = img[anchor.current][r] /\ h = synced'
    OBVIOUS
  <2>1. Covers(v, r, lo, synced)
    BY <1>1, <1>13 DEF CkInv
  <2>2. Covers(v, r, lo, h)'
    BY <2>1, <1>9, <1>10, <1>13
  <2>3. v = img'[anchor'.current][r]
    OBVIOUS
  <2> QED BY <2>2, <2>3
<1>14. ck.pc \in {"move", "flag", "write", "switch", "anchor"} => ck'.begin \in anchor'.begin + 1 .. Len(log')
  BY <1>3, <1>7
<1>15. ck.pc \notin {"flag", "write"} => file' = img'[Other']
  BY <1>1 DEF CkInv, Other
<1>16. ck.pc \in {"flag", "write", "switch", "anchor"} => ck'.begin <= synced'
  BY <1>3, <1>7, <1>10
<1>17. ck.pc # "idle" => phase' = "run"
  BY <1>1 DEF CkInv
<1>18. ck.pc # "idle" =>
         /\ ck'.redo \in RedoLSN' .. Len(log') + 1
         /\ \A t \in Trans \ ck'.scan : Fst'[t] = NoLSN \/ ck'.redo <= Fst'[t]
  BY <1>2, <1>5
<1>19. ck.pc \in {"scan", "begin"} => \A t \in Trans \ ck'.scan : NobodyAcross(t, ck.redo, Len(log))'
  BY <1>6
<1>20. ck.pc \in {"move", "flag", "write", "switch", "anchor"} =>
         BeginsAt(ck.begin, ck.redo)' /\ \A t \in Trans : NobodyAcross(t, ck.redo, ck.begin)'
  BY <1>7
<1>21. ck.pc \in {"flag", "write", "switch", "anchor"} =>
         /\ \A r \in Rows : Same(r, ck.begin, ck.redo)'
         /\ \A q \in ck'.todo \cup ck'.page : NotedIn(q, ck.begin)' /\ stat'[q] # "init"
  BY <1>7, <1>8
<1>22. CkInv'
  BY <1>11, <1>12, <1>13, <1>14, <1>15, <1>16, <1>17, <1>18, <1>19, <1>20, <1>21 DEF CkInv, NoLSN
<1> QED BY <1>2, <1>4, <1>22

\* What RunInv says of one transaction.
RunOf(t) ==
  /\ status[t] = "idle" => Fst[t] = NoLSN /\ undoNxt[t] = <<>> /\ wr[t] = Idle
  /\ status[t] = "active" => undoNxt[t] # <<>>
  /\ status[t] # "idle" =>
       /\ Fst[t] # NoLSN /\ RedoLSN <= Fst[t]
       /\ Stack(Fst[t] - 1)[t] = <<>>
  /\ wr[t] # Idle => owner[wr[t].row] = t /\ Written(wr[t].row, Fst[t], Len(log))
  /\ wr[t].step = "log" => first[t] = NoLSN
  /\ \A k \in Pending(Len(log), t) : owner[log[k].row] = t

\* RunInv for each transaction.
LEMMA RunParts == (RunInv <=> (phase = "run" => \A t \in Trans : RunOf(t)))
BY DEF RunInv, RunOf

\* The same after a step.
LEMMA RunPartsNext == (RunInv <=> (phase = "run" => \A t \in Trans : RunOf(t)))'
BY RunParts, PTL

\* It stays true of a transaction while others go on.
LEMMA RunKept ==
  ASSUME RecInv, phase = "run", NEW n, n = Len(log), Longer(n), NEW t \in Trans,
         RedoLSN' = RedoLSN, Len(log') \in Nat, n <= Len(log'),
         status'[t] = status[t], Fst'[t] = Fst[t], undoNxt'[t] = undoNxt[t],
         wr'[t] # Idle => wr[t] # Idle /\ wr'[t].row = wr[t].row /\ owner'[wr[t].row] = t,
         wr'[t].step = "log" => first'[t] = NoLSN,
         Pending(Len(log), t)' \subseteq Pending(n, t),
         \A k \in Pending(n, t) : owner'[log[k].row] = t
  PROVE  RunOf(t)'
<1>1. /\ status[t] = "idle" => Fst[t] = NoLSN /\ undoNxt[t] = <<>> /\ wr[t] = Idle
      /\ status[t] = "active" => undoNxt[t] # <<>>
      /\ status[t] # "idle" => Fst[t] # NoLSN /\ RedoLSN <= Fst[t] /\ Stack(Fst[t] - 1)[t] = <<>>
      /\ wr[t] # Idle => owner[wr[t].row] = t /\ Written(wr[t].row, Fst[t], n)
  BY DEF RecInv, RunInv
<1>2. Fst[t] \in 0 .. n /\ n \in Nat /\ Agree(n)
  BY TypeParts DEF RecInv, TransType, Longer, Agree
<1>3. status[t] # "idle" => Stack(Fst[t] - 1)'[t] = <<>>
  <2> SUFFICES ASSUME status[t] # "idle" PROVE Stack(Fst[t] - 1)'[t] = <<>>
    OBVIOUS
  <2> PICK f : f = Fst[t] - 1
    OBVIOUS
  <2>1. f \in 0 .. n
    BY <1>1, <1>2 DEF NoLSN
  <2>2. Stack(f)' = Stack(f)
    BY <2>1, <1>2, FullKept
  <2> QED BY <2>2, <1>1
<1>4. wr'[t] # Idle => Written(wr[t].row, Fst[t], Len(log))'
  <2> SUFFICES ASSUME wr'[t] # Idle PROVE Written(wr[t].row, Fst[t], Len(log))'
    OBVIOUS
  <2>1. Fst[t] \in Nat \ {0} /\ n \in 0 .. n /\ wr'[t].row = wr[t].row /\ wr[t] # Idle
    BY <1>1, <1>2 DEF NoLSN
  <2> PICK f, r, m : f = Fst[t] /\ r = wr[t].row /\ m = Len(log')
    OBVIOUS
  <2>2. Written(r, f, n)
    BY <2>1, <1>1
  <2>3. Written(r, f, m)'
    BY <2>1, <2>2, <1>2, WrittenGrows
  <2> QED BY <2>1, <2>3
<1>5. \A k \in Pending(n, t) : log'[k] = log[k]
  <2>1. n \in 0 .. Len(log) /\ log \in Seq(Record) /\ \A k \in 1 .. n : log'[k] = log[k]
    BY <1>2 DEF Agree
  <2> QED BY <2>1, PendingType
<1>6. /\ status'[t] = "idle" => Fst'[t] = NoLSN /\ undoNxt'[t] = <<>> /\ wr'[t] = Idle
      /\ status'[t] = "active" => undoNxt'[t] # <<>>
  BY <1>1
<1>7. /\ status'[t] # "idle" => Fst'[t] # NoLSN /\ RedoLSN' <= Fst'[t] /\ Stack(Fst[t] - 1)'[t] = <<>>
      /\ wr'[t] # Idle => owner'[wr'[t].row] = t
  BY <1>1, <1>3
<1>8. \A k \in Pending(Len(log), t)' : owner'[log'[k].row] = t
  BY <1>5
<1> QED BY <1>4, <1>6, <1>7, <1>8 DEF RunOf, NoLSN, Idle

\* The writer t goes on, from wr[t] to w.
WriterMoves(n, t, w) ==
  /\ n = Len(log) /\ wr[t] # Idle
  /\ w \in WrType(n) /\ w.step # "log" /\ (w # Idle => w.row = wr[t].row /\ w.val = wr[t].val)
  /\ wr' = [wr EXCEPT ![t] = w]
  /\ UNCHANGED <<log, synced, acked, stat, img, file, anchor, status, owner, undoNxt, ck, phase,
                 history, upd>>

\* Who is at work while t goes on.
LEMMA WriterFacts ==
  ASSUME RecInv, NEW n, NEW t \in Trans, NEW w, WriterMoves(n, t, w)
  PROVE  /\ wr'[t] = w /\ \A u \in Trans : u # t => wr'[u] = wr[u]
         /\ \A u \in Trans : wr'[u] # Idle => wr[u] # Idle /\ wr'[u].row = wr[u].row
         /\ wr[t] \in WrType(n) /\ wr[t].row \in Rows /\ wr[t].val \in Val /\ wr[t].lsn \in 1 .. n
         /\ phase # "down" /\ n \in Nat /\ Quiet(n) /\ ListInv
         /\ PageToMark(t) \in Pages
<1>1. /\ n = Len(log) /\ wr[t] # Idle /\ log' = log /\ history' = history /\ synced' = synced
      /\ wr' = [wr EXCEPT ![t] = w] /\ (w # Idle => w.row = wr[t].row)
  BY DEF WriterMoves
<1>2. TransType /\ RestartInv /\ ListInv
  BY TypeParts DEF RecInv
<1>3. wr'[t] = w /\ \A u \in Trans : u # t => wr'[u] = wr[u]
  BY <1>1, <1>2 DEF TransType
<1>4. wr[t] \in WrType(n)
  BY <1>1, <1>2 DEF TransType
<1>5. wr[t].row \in Rows /\ wr[t].val \in Val /\ wr[t].lsn \in 1 .. n
  BY <1>1, <1>4 DEF WrType
<1>6. phase # "down"
  BY <1>1, <1>2 DEF RestartInv
<1>7. n \in Nat /\ synced \in 1 .. n
  BY <1>1, RedoLSNIs
<1>8. Quiet(n)
  BY <1>1, <1>7, QuietSame
<1>9. PageToMark(t) \in Pages
  BY <1>5, RecoveryAssumption DEF PageToMark
<1> QED BY <1>1, <1>2, <1>3, <1>4, <1>5, <1>6, <1>7, <1>8, <1>9

\* All but the memory and the lists stays as it was, if the first LSN does.
LEMMA WriterStep ==
  ASSUME RecInv, NEW n, NEW t \in Trans, NEW w, WriterMoves(n, t, w),
         first' \in [Trans -> 0 .. n], Fst' = Fst, \A u \in Trans : u # t => first'[u] = first[u],
         mem' \in [Rows -> Val], dirty' \subseteq Pages, listed' \subseteq Pages,
         MemInv', ListInv'
  PROVE  RecInv'
<1>1. /\ n = Len(log) /\ wr[t] # Idle /\ w \in WrType(n) /\ w.step # "log"
      /\ wr' = [wr EXCEPT ![t] = w]
      /\ UNCHANGED <<log, synced, acked, stat, img, file, anchor, status, owner, undoNxt, ck, phase,
                     history, upd>>
  BY DEF WriterMoves
<1>2. TransType /\ DiskType /\ RunInv /\ RestartInv
  BY TypeParts DEF RecInv
<1>3. /\ wr'[t] = w /\ \A u \in Trans : u # t => wr'[u] = wr[u]
      /\ \A u \in Trans : wr'[u] # Idle => wr[u] # Idle /\ wr'[u].row = wr[u].row
      /\ phase # "down" /\ n \in Nat /\ Quiet(n)
  BY WriterFacts
<1>4. /\ Longer(n)
      /\ \A u \in Trans : Pending(Len(log), u)' \subseteq Pending(n, u)
  BY <1>3 DEF Quiet
<1>5. CkTypeOK' /\ CkInv' /\ AnchorInv' /\ RedoLSN' = RedoLSN
  BY <1>1, <1>3, <1>4, CkKept
<1>6. TransType'
  <2>1. wr' \in [Trans -> WrType(n)]
    BY <1>1, <1>2 DEF TransType
  <2> QED BY <2>1, <1>1, <1>2 DEF TransType
<1>7. DiskType'
  BY <1>1, <1>2 DEF DiskType
<1>8. RunInv'
  <2>1. ASSUME phase = "run", NEW u \in Trans PROVE RunOf(u)'
    <3>1. /\ wr[u] # Idle => owner[wr[u].row] = u
          /\ wr[u].step = "log" => first[u] = NoLSN
          /\ \A k \in Pending(n, u) : owner[log[k].row] = u
      BY <2>1, <1>1, <1>2 DEF RunInv
    <3>2. /\ wr'[u] # Idle => wr[u] # Idle /\ wr'[u].row = wr[u].row /\ owner'[wr[u].row] = u
          /\ wr'[u].step = "log" => first'[u] = NoLSN
      BY <3>1, <1>1, <1>3
    <3> QED BY <2>1, <3>1, <3>2, <1>1, <1>3, <1>4, <1>5, RunKept
  <2> QED BY <2>1, <1>1, RunPartsNext
<1>9. RestartInv'
  BY <1>1, <1>2, <1>3 DEF RestartInv, CkIdle, NoLSN, Idle
<1>10. upd' \in 0 .. LastUpd
  BY <1>1 DEF RecInv
<1> QED BY <1>3, <1>5, <1>6, <1>7, <1>8, <1>9, <1>10, TypePartsNext DEF RecInv, Quiet

\* The memory, while writers go on that do not touch it.
LEMMA MemSame ==
  ASSUME RecInv, NEW n, NEW t \in Trans, NEW w, WriterMoves(n, t, w), mem' = mem,
         wr[t].step \in {"log", "change"} <=> w.step \in {"log", "change"}
  PROVE  MemInv'
<1>1. /\ n = Len(log) /\ (w # Idle => w.row = wr[t].row /\ w.val = wr[t].val)
      /\ log' = log /\ undoNxt' = undoNxt
  BY DEF WriterMoves
<1>2. /\ wr'[t] = w /\ \A u \in Trans : u # t => wr'[u] = wr[u]
      /\ \A u \in Trans : wr'[u] # Idle => wr[u] # Idle /\ wr'[u].row = wr[u].row
      /\ phase # "down" /\ Quiet(n)
  BY WriterFacts
<1>3. Db(Len(log))' = Db(n) /\ Stack(Len(log))' = Stack(n)
  BY <1>2 DEF Quiet
<1>4. \A u \in Trans : \A r \in Rows : (Changing(u, r)' <=> Changing(u, r)) /\ (Changing(u, r) => wr'[u].val = wr[u].val)
  BY <1>1, <1>2 DEF Changing, Idle
<1>5. /\ undoNxt = Stack(n)
      /\ \A r \in Rows :
           \/ \E u \in Trans : Changing(u, r) /\ wr[u].val = Db(n)[r]
           \/ (\A u \in Trans : ~ Changing(u, r)) /\ mem[r] = Db(n)[r]
      /\ \A u, v \in Trans : u # v /\ wr[u] # Idle /\ wr[v] # Idle => wr[u].row # wr[v].row
  BY <1>1, <1>2 DEF RecInv, MemInv
<1>6. ASSUME NEW r \in Rows
      PROVE  \/ \E u \in Trans : Changing(u, r)' /\ wr'[u].val = Db(Len(log))'[r]
             \/ (\A u \in Trans : ~ Changing(u, r)') /\ mem'[r] = Db(Len(log))'[r]
  BY <1>3, <1>4, <1>5
<1>7. \A u, v \in Trans : u # v /\ wr'[u] # Idle /\ wr'[v] # Idle => wr'[u].row # wr'[v].row
  BY <1>2, <1>5
<1> QED BY <1>1, <1>3, <1>5, <1>6, <1>7 DEF MemInv, Idle

\* Who is at work and who is to link a page, while t goes on.
LEMMA WorkFacts ==
  ASSUME RecInv, NEW n, NEW t \in Trans, NEW w, WriterMoves(n, t, w)
  PROVE  /\ \A r : AtWork(r)' => AtWork(r)
         /\ \A r : (w # Idle \/ r # wr[t].row) /\ AtWork(r) => AtWork(r)'
         /\ \A q : LinkDue(q) /\ (wr[t].step # "link" \/ q # PageToMark(t)) => LinkDue(q)'
         /\ \A q : LinkDue(q)' => LinkDue(q) \/ (w.step = "link" /\ q = PageToMark(t))
         /\ \A q : w.step = "link" /\ q = PageToMark(t) => LinkDue(q)'
<1>1. /\ (w # Idle => w.row = wr[t].row)
      /\ wr'[t] = w /\ \A u \in Trans : u # t => wr'[u] = wr[u]
      /\ \A u \in Trans : wr'[u] # Idle => wr[u] # Idle /\ wr'[u].row = wr[u].row
      /\ wr[t] # Idle
  BY WriterFacts DEF WriterMoves
<1>2. Idle.step # "link"
  BY DEF Idle
<1>3. \A r : AtWork(r)' => AtWork(r)
  BY <1>1 DEF AtWork, Idle
<1>4. ASSUME NEW r, w # Idle \/ r # wr[t].row, AtWork(r) PROVE AtWork(r)'
  BY <1>1, <1>4 DEF AtWork, Idle
<1>5. ASSUME NEW q, LinkDue(q), wr[t].step # "link" \/ q # PageToMark(t) PROVE LinkDue(q)'
  <2>1. PICK u \in Trans : wr[u].step = "link" /\ PageToMark(u) = q
    BY <1>5 DEF LinkDue
  <2>2. u # t
    BY <2>1, <1>5
  <2>3. wr'[u] = wr[u]
    BY <2>2, <1>1
  <2> QED BY <2>1, <2>3 DEF LinkDue, PageToMark
<1>6. ASSUME NEW q, LinkDue(q)' PROVE LinkDue(q) \/ (w.step = "link" /\ q = PageToMark(t))
  <2>1. PICK u \in Trans : wr'[u].step = "link" /\ PageOf[wr'[u].row] = q
    BY <1>6 DEF LinkDue, PageToMark
  <2>2. CASE u = t
    <3>1. w.step = "link" /\ w # Idle /\ w.row = wr[t].row
      BY <2>1, <2>2, <1>1, <1>2
    <3> QED BY <2>1, <2>2, <3>1, <1>1 DEF PageToMark
  <2>3. CASE u # t
    <3>1. wr'[u] = wr[u]
      BY <2>3, <1>1
    <3> QED BY <2>1, <3>1 DEF LinkDue, PageToMark
  <2> QED BY <2>2, <2>3
<1>7. ASSUME NEW q, w.step = "link", q = PageToMark(t) PROVE LinkDue(q)'
  <2>1. w # Idle /\ wr'[t].row = wr[t].row /\ wr'[t].step = "link"
    BY <1>1, <1>2, <1>7
  <2> QED BY <2>1, <1>7 DEF LinkDue, PageToMark
<1> QED BY <1>3, <1>4, <1>5, <1>6, <1>7

\* A step in the middle of a change is nothing to the lists.
LEMMA ListSame ==
  ASSUME RecInv, NEW n, NEW t \in Trans, NEW w, WriterMoves(n, t, w), w # Idle,
         wr[t].step # "link", w.step # "link", UNCHANGED <<dirty, listed>>,
         \A r \in Rows : r # wr[t].row => mem'[r] = mem[r]
  PROVE  ListInv'
<1>1. UNCHANGED <<stat, img, file, anchor, ck, phase>> /\ wr[t] # Idle
  BY DEF WriterMoves
<1>2. \A r : AtWork(r)' <=> AtWork(r)
  BY WorkFacts
<1>3. \A q : LinkDue(q)' <=> LinkDue(q)
  BY WorkFacts
<1>4. AtWork(wr[t].row)
  BY <1>1 DEF AtWork
<1>5. ListInv /\ phase # "down" /\ (Writing' <=> Writing)
  BY <1>1, WriterFacts DEF Writing
<1> QED BY <1>1, <1>2, <1>3, <1>4, <1>5 DEF ListInv

\* The first LSN of a transaction is set.
LEMMA SetLstUndoNxtLSNStep ==
  ASSUME RecInv, NEW t \in Trans, SetLstUndoNxtLSN(t)
  PROVE  RecInv'
<1> PICK n, w : n = Len(log) /\ w = [wr[t] EXCEPT !.step = "change"]
  OBVIOUS
<1>1. /\ wr[t].step = "log"
      /\ first' = [first EXCEPT ![t] = wr[t].lsn]
      /\ wr' = [wr EXCEPT ![t] = w]
      /\ UNCHANGED <<log, synced, acked, mem, dirty, listed, stat, img, file, anchor, status, owner,
                     undoNxt, ck, phase, history, upd>>
  BY DEF SetLstUndoNxtLSN, logVars, pageVars, diskVars, bounds
<1>2. TransType /\ DiskType
  BY TypeParts DEF RecInv
<1>3. wr[t] # Idle /\ wr[t] \in WrType(n)
  BY <1>1, <1>2 DEF TransType, Idle
<1>4. /\ wr[t] \in [step : {"log", "change", "test", "set", "link"}, row : Rows, val : Val, lsn : 1 .. n]
  BY <1>3 DEF WrType
<1>5. /\ w \in WrType(n) /\ w # Idle /\ w.step = "change" /\ w.row = wr[t].row /\ w.val = wr[t].val
      /\ wr[t].lsn \in 1 .. n
  BY <1>4 DEF WrType, Idle
<1>6. WriterMoves(n, t, w)
  BY <1>1, <1>3, <1>5 DEF WriterMoves
<1>7. first' \in [Trans -> 0 .. n]
  <2>1. n \in Nat
    BY RedoLSNIs
  <2>2. wr[t].lsn \in 0 .. n
    BY <2>1, <1>5
  <2> QED BY <2>2, <1>1, <1>2 DEF TransType
<1>8. Fst' = Fst
  <2>1. ASSUME NEW u \in Trans PROVE Fst[u]' = Fst[u]
    BY <1>1, <1>2, <1>5, <1>6, WriterFacts DEF TransType, Fst
  <2> QED BY <2>1 DEF Fst
<1>9. MemInv'
  BY <1>1, <1>5, <1>6, MemSame
<1>10. ListInv'
  BY <1>1, <1>5, <1>6, ListSame
<1> QED BY <1>1, <1>2, <1>6, <1>7, <1>8, <1>9, <1>10, WriterStep DEF TransType, DiskType

\* Steps after that leave it.
LEMMA FstSame ==
  ASSUME RecInv, NEW n, NEW t \in Trans, NEW w, WriterMoves(n, t, w), first' = first,
         wr[t].step # "log"
  PROVE  /\ Fst' = Fst /\ first' \in [Trans -> 0 .. n]
         /\ \A u \in Trans : u # t => first'[u] = first[u]
<1>1. w.step # "log" /\ n = Len(log)
  BY DEF WriterMoves
<1>2. wr'[t] = w /\ \A u \in Trans : u # t => wr'[u] = wr[u]
  BY WriterFacts
<1>3. \A u \in Trans : (wr'[u].step = "log" <=> wr[u].step = "log") /\ (wr'[u].step = "log" => wr'[u] = wr[u])
  BY <1>1, <1>2
<1>4. Fst' = Fst
  BY <1>3 DEF Fst
<1> QED BY <1>1, <1>4, TypeParts DEF RecInv, TransType

\* A logged change is made in memory.
LEMMA ChangeRowStep ==
  ASSUME RecInv, NEW t \in Trans, ChangeRow(t)
  PROVE  RecInv'
<1> PICK n, x, v, w : n = Len(log) /\ x = wr[t].row /\ v = wr[t].val /\ w = [wr[t] EXCEPT !.step = "test"]
  OBVIOUS
<1>1. /\ wr[t].step = "change"
      /\ mem' = [mem EXCEPT ![x] = v]
      /\ wr' = [wr EXCEPT ![t] = w]
      /\ UNCHANGED <<log, synced, acked, dirty, listed, stat, img, file, anchor, status, first, owner,
                     undoNxt, ck, phase, history, upd>>
  BY DEF ChangeRow, logVars, diskVars, bounds
<1>2. TransType /\ DiskType
  BY TypeParts DEF RecInv
<1>3. wr[t] # Idle /\ wr[t] \in WrType(n)
  BY <1>1, <1>2 DEF TransType, Idle
<1>4. /\ wr[t] \in [step : {"log", "change", "test", "set", "link"}, row : Rows, val : Val, lsn : 1 .. n]
  BY <1>3 DEF WrType
<1>5. w \in WrType(n) /\ w # Idle /\ w.step = "test" /\ w.row = x /\ w.val = v /\ x \in Rows /\ v \in Val
  BY <1>4 DEF WrType, Idle
<1>6. WriterMoves(n, t, w)
  BY <1>1, <1>3, <1>5 DEF WriterMoves
<1>7. /\ mem' \in [Rows -> Val] /\ mem'[x] = v
      /\ \A r \in Rows : r # x => mem'[r] = mem[r]
  BY <1>1, <1>2, <1>5 DEF TransType
<1>8. /\ wr'[t] = w /\ \A u \in Trans : u # t => wr'[u] = wr[u]
      /\ \A u \in Trans : wr'[u] # Idle => wr[u] # Idle /\ wr'[u].row = wr[u].row
      /\ phase # "down" /\ Quiet(n)
  BY ONLY RecInv, t \in Trans, <1>6, WriterFacts
<1>9. Db(Len(log))' = Db(n) /\ Stack(Len(log))' = Stack(n)
  BY <1>8 DEF Quiet
<1>10. /\ undoNxt = Stack(n)
       /\ \A r \in Rows :
            \/ \E u \in Trans : Changing(u, r) /\ wr[u].val = Db(n)[r]
            \/ (\A u \in Trans : ~ Changing(u, r)) /\ mem[r] = Db(n)[r]
       /\ \A u, z \in Trans : u # z /\ wr[u] # Idle /\ wr[z] # Idle => wr[u].row # wr[z].row
  BY <1>8 DEF RecInv, MemInv
<1>11. \A u \in Trans : \A r \in Rows : Changing(u, r)' <=> u # t /\ Changing(u, r)
  BY <1>5, <1>8 DEF Changing
<1>12. MemInv'
  <2>1. ASSUME NEW r \in Rows
        PROVE  \/ \E u \in Trans : Changing(u, r)' /\ wr'[u].val = Db(n)[r]
               \/ (\A u \in Trans : ~ Changing(u, r)') /\ mem'[r] = Db(n)[r]
    <3>1. CASE r = x
      <4>1. Changing(t, x)
        BY <1>1 DEF Changing
      <4>2. \A u \in Trans : Changing(u, x) => u = t
        BY <1>3, <1>10 DEF Changing, Idle
      <4>3. v = Db(n)[x]
        BY <4>1, <4>2, <1>5, <1>10
      <4> QED BY <3>1, <4>2, <4>3, <1>5, <1>7, <1>11
    <3>2. CASE r # x
      <4>1. mem'[r] = mem[r] /\ ~ Changing(t, r)
        BY <3>2, <1>7 DEF Changing
      <4> QED BY <4>1, <1>8, <1>10, <1>11
    <3> QED BY <3>1, <3>2
  <2>2. \A u, z \in Trans : u # z /\ wr'[u] # Idle /\ wr'[z] # Idle => wr'[u].row # wr'[z].row
    BY <1>8, <1>10
  <2> QED BY <2>1, <2>2, <1>1, <1>9, <1>10 DEF MemInv, Idle
<1>13. ListInv'
  BY <1>1, <1>5, <1>6, <1>7, ListSame
<1>14. /\ Fst' = Fst /\ first' \in [Trans -> 0 .. n] /\ \A u \in Trans : u # t => first'[u] = first[u]
  BY <1>1, <1>6, FstSame
<1> QED BY <1>1, <1>2, <1>6, <1>7, <1>12, <1>13, <1>14, WriterStep DEF DiskType

\* Who finds the flag of the page set is done.
LEMMA TestDirtyStep ==
  ASSUME RecInv, NEW t \in Trans, TestDirty(t)
  PROVE  RecInv'
<1> PICK n, w : n = Len(log) /\ w = IF PageToMark(t) \in dirty THEN Idle ELSE [wr[t] EXCEPT !.step = "set"]
  OBVIOUS
<1>1. /\ wr[t].step = "test"
      /\ wr' = [wr EXCEPT ![t] = w]
      /\ UNCHANGED <<log, synced, acked, mem, dirty, listed, stat, img, file, anchor, status, first,
                     owner, undoNxt, ck, phase, history, upd>>
  BY DEF TestDirty, logVars, pageVars, diskVars, bounds
<1>2. TransType /\ DiskType
  BY TypeParts DEF RecInv
<1>3. wr[t] # Idle /\ wr[t] \in WrType(n)
  BY <1>1, <1>2 DEF TransType, Idle
<1>4. /\ wr[t] \in [step : {"log", "change", "test", "set", "link"}, row : Rows, val : Val, lsn : 1 .. n]
  BY <1>3 DEF WrType
<1>5. /\ w \in WrType(n) /\ w.step \in {"none", "set"}
      /\ (w # Idle => w.row = wr[t].row /\ w.val = wr[t].val)
      /\ (w = Idle => PageToMark(t) \in dirty)
  BY <1>4 DEF WrType, Idle
<1>6. WriterMoves(n, t, w)
  BY <1>1, <1>3, <1>5 DEF WriterMoves
<1>7. MemInv'
  BY <1>1, <1>5, <1>6, MemSame
<1>8. ListInv'
  <2>1. CASE w # Idle
    BY <2>1, <1>1, <1>5, <1>6, ListSame
  <2>2. CASE w = Idle
    <3>1. \A q : LinkDue(q)' <=> LinkDue(q)
      BY <1>1, <1>5, <1>6, WorkFacts
    <3>2. \A r \in Rows : PageOf[r] \notin dirty /\ AtWork(r) => AtWork(r)'
      BY <2>2, <1>5, <1>6, WorkFacts DEF PageToMark
    <3>3. ListInv /\ phase # "down" /\ (Writing' <=> Writing)
      BY <1>1, <1>6, WriterFacts DEF Writing
    <3> QED BY <3>1, <3>2, <3>3, <1>1 DEF ListInv
  <2> QED BY <2>1, <2>2
<1>9. /\ Fst' = Fst /\ first' \in [Trans -> 0 .. n] /\ \A u \in Trans : u # t => first'[u] = first[u]
  BY <1>1, <1>6, FstSame
<1> QED BY <1>1, <1>2, <1>6, <1>7, <1>8, <1>9, WriterStep DEF TransType, DiskType

\* Who did not, sets it.
LEMMA SetDirtyStep ==
  ASSUME RecInv, NEW t \in Trans, SetDirty(t)
  PROVE  RecInv'
<1> PICK n, w, p : n = Len(log) /\ w = [wr[t] EXCEPT !.step = "link"] /\ p = PageToMark(t)
  OBVIOUS
<1>1. /\ wr[t].step = "set"
      /\ dirty' = dirty \cup {p}
      /\ wr' = [wr EXCEPT ![t] = w]
      /\ UNCHANGED <<log, synced, acked, mem, listed, stat, img, file, anchor, status, first,
                     owner, undoNxt, ck, phase, history, upd>>
  BY DEF SetDirty, logVars, diskVars, bounds
<1>2. TransType /\ DiskType
  BY TypeParts DEF RecInv
<1>3. wr[t] # Idle /\ wr[t] \in WrType(n)
  BY <1>1, <1>2 DEF TransType, Idle
<1>4. /\ wr[t] \in [step : {"log", "change", "test", "set", "link"}, row : Rows, val : Val, lsn : 1 .. n]
  BY <1>3 DEF WrType
<1>5. w \in WrType(n) /\ w # Idle /\ w.step = "link" /\ w.row = wr[t].row /\ w.val = wr[t].val
  BY <1>4 DEF WrType, Idle
<1>6. WriterMoves(n, t, w)
  BY <1>1, <1>3, <1>5 DEF WriterMoves
<1>7. MemInv'
  BY <1>1, <1>5, <1>6, MemSame
<1>8. ListInv'
  <2>1. LinkDue(p)' /\ \A q : LinkDue(q) => LinkDue(q)'
    <3>1. wr[t].step # "link"
      BY <1>1
    <3>2. p = PageToMark(t)
      OBVIOUS
    <3> QED BY ONLY RecInv, t \in Trans, <3>1, <3>2, <1>5, <1>6, WorkFacts
  <2>2. \A r \in Rows : AtWork(r) => AtWork(r)'
    BY <1>5, <1>6, WorkFacts
  <2>3. ListInv /\ phase # "down" /\ (Writing' <=> Writing)
    BY <1>1, <1>6, WriterFacts DEF Writing
  <2>4. ASSUME NEW q \in dirty' PROVE q \in listed' \/ (q \in ck'.todo /\ stat'[q] = "flush") \/ LinkDue(q)'
    BY <2>1, <2>3, <2>4, <1>1 DEF ListInv
  <2> QED BY <2>1, <2>2, <2>3, <2>4, <1>1 DEF ListInv
<1>9. /\ Fst' = Fst /\ first' \in [Trans -> 0 .. n] /\ \A u \in Trans : u # t => first'[u] = first[u]
  BY <1>1, <1>6, FstSame
<1>10. dirty' \subseteq Pages
  <2>1. PageToMark(t) \in Pages
    BY ONLY RecInv, t \in Trans, <1>6, WriterFacts
  <2> QED BY <2>1, <1>1, <1>2 DEF DiskType
<1> QED BY <1>1, <1>2, <1>6, <1>7, <1>8, <1>9, <1>10, WriterStep DEF TransType, DiskType

\* And puts the page in a list.
LEMMA AddDirtyPageStep ==
  ASSUME RecInv, NEW t \in Trans, AddDirtyPage(t)
  PROVE  RecInv'
<1> PICK n, p : n = Len(log) /\ p = PageToMark(t)
  OBVIOUS
<1>1. /\ wr[t].step = "link"
      /\ listed' = listed \cup {p}
      /\ wr' = [wr EXCEPT ![t] = Idle]
      /\ UNCHANGED <<log, synced, acked, mem, dirty, stat, img, file, anchor, status, first,
                     owner, undoNxt, ck, phase, history, upd>>
  BY DEF AddDirtyPage, logVars, diskVars, bounds
<1>2. TransType /\ DiskType
  BY TypeParts DEF RecInv
<1>3. wr[t] # Idle
  BY <1>1 DEF Idle
<1>4. Idle \in WrType(n) /\ Idle.step = "none"
  BY DEF WrType, Idle
<1>5. WriterMoves(n, t, Idle)
  BY <1>1, <1>3, <1>4 DEF WriterMoves
<1>6. MemInv'
  BY <1>1, <1>4, <1>5, MemSame
<1>7. ListInv'
  <2>1. \A q : q # p /\ LinkDue(q) => LinkDue(q)'
    BY <1>4, <1>5, WorkFacts
  <2>2. \A r \in Rows : PageOf[r] # p /\ AtWork(r) => AtWork(r)'
    BY <1>5, WorkFacts DEF PageToMark
  <2>3. ListInv /\ phase # "down" /\ (Writing' <=> Writing)
    BY <1>1, <1>5, WriterFacts DEF Writing
  <2>4. \A q \in dirty : q \in listed' \/ (q \in ck.todo /\ stat[q] = "flush") \/ LinkDue(q)'
    BY <2>1, <2>3, <1>1 DEF ListInv
  <2> QED BY <2>1, <2>2, <2>3, <2>4, <1>1 DEF ListInv
<1>8. /\ Fst' = Fst /\ first' \in [Trans -> 0 .. n] /\ \A u \in Trans : u # t => first'[u] = first[u]
  BY <1>1, <1>5, FstSame
<1>9. listed' \subseteq Pages
  <2>1. PageToMark(t) \in Pages
    BY ONLY RecInv, t \in Trans, <1>5, WriterFacts
  <2> QED BY <2>1, <1>1, <1>2 DEF DiskType
<1> QED BY <1>1, <1>2, <1>5, <1>6, <1>7, <1>8, <1>9, WriterStep DEF TransType, DiskType

\* The three steps of insDirtyPage.
LEMMA InsDirtyPageStep ==
  ASSUME RecInv, NEW t \in Trans, InsDirtyPage(t)
  PROVE  RecInv'
BY TestDirtyStep, SetDirtyStep, AddDirtyPageStep DEF InsDirtyPage

\* A row at work says nothing of the images.
LEMMA ListWork ==
  ASSUME RecInv, UNCHANGED <<mem, dirty, listed, stat, phase, anchor, img, file, ck>>,
         \A r \in Rows : AtWork(r) => AtWork(r)', \A q : LinkDue(q)' <=> LinkDue(q)
  PROVE  ListInv'
<1>1. ListInv
  BY DEF RecInv
<1>2. Writing' <=> Writing
  BY DEF Writing
<1> QED BY <1>1, <1>2 DEF ListInv

\* A longer log leaves the types of the disk.
LEMMA DiskGrows ==
  ASSUME DiskType, UNCHANGED <<dirty, listed, stat, img, file, anchor>>, Len(log) \in Nat,
         Len(log') \in Nat, synced' \in synced .. Len(log'), acked' \in 0 .. synced'
  PROVE  DiskType'
<1>1. synced \in Nat /\ synced >= 1 /\ synced' \in Nat /\ synced <= synced' /\ synced' \in 1 .. Len(log')
  BY DEF DiskType
<1>2. \A k : k \in 1 .. synced => k \in 1 .. synced'
  BY <1>1
<1>3. anchor \in [current : {0, 1}, begin : 1 .. synced']
  BY <1>2 DEF DiskType
<1> QED BY <1>1, <1>3 DEF DiskType, Val

\* The step of an update or of its undoing, but for what is of one of the two.
Makes(n, m, l, t) ==
  /\ n = Len(log) /\ m = n + 1 /\ MayLog(n, l) /\ Logs(n, m, l)
  /\ log' = Append(log, l) /\ l.op \in {"update", "undo"} /\ l.tr = t /\ wr[t] = Idle
  /\ wr' = [wr EXCEPT ![t] = [step |-> IF first[t] = NoLSN THEN "log" ELSE "change",
                              row |-> l.row, val |-> l.val, lsn |-> m]]
  /\ first' = first
  /\ undoNxt' = [undoNxt EXCEPT ![t] = IF l.op = "update" THEN <<m>> \o @ ELSE Tail(@)]
  /\ status' = [status EXCEPT ![t] = IF l.op = "update" THEN "active" ELSE "rollback"]
  /\ owner' \in [Rows -> {0} \cup Trans]
  /\ \A u \in Trans \ {t} : wr[u] # Idle => wr[u].row # l.row
  /\ phase # "down"
  /\ UNCHANGED <<synced, acked, mem, phase, history, dirty, listed, stat, img, file, anchor, ck>>
  /\ phase = "run" =>
       /\ owner'[l.row] = t
       /\ \A u \in Trans : /\ wr[u] # Idle => owner'[wr[u].row] = u
                           /\ \A k \in Pending(n, u) : owner'[log[k].row] = u
       /\ status[t] = "idle" => Stack(n)[t] = <<>>
  /\ phase = "restart" =>
       /\ status[t] = "rollback" /\ l.op = "undo" /\ owner' = owner
       /\ \A u \in Trans : wr[u] = Idle
  /\ upd' \in 0 .. LastUpd

\* What an update or its undoing leaves in the transaction t.
LEMMA LoggedStep ==
  ASSUME RecInv, NEW n, NEW m, NEW l, NEW t \in Trans, Makes(n, m, l, t)
  PROVE  RecInv'
<1>1. /\ n = Len(log) /\ m = n + 1 /\ MayLog(n, l) /\ Logs(n, m, l)
      /\ log' = Append(log, l) /\ l.op \in {"update", "undo"} /\ l.tr = t /\ wr[t] = Idle
      /\ wr' = [wr EXCEPT ![t] = [step |-> IF first[t] = NoLSN THEN "log" ELSE "change",
                                  row |-> l.row, val |-> l.val, lsn |-> m]]
      /\ first' = first
      /\ undoNxt' = [undoNxt EXCEPT ![t] = IF l.op = "update" THEN <<m>> \o @ ELSE Tail(@)]
      /\ status' = [status EXCEPT ![t] = IF l.op = "update" THEN "active" ELSE "rollback"]
      /\ owner' \in [Rows -> {0} \cup Trans]
      /\ \A u \in Trans \ {t} : wr[u] # Idle => wr[u].row # l.row
      /\ phase # "down"
      /\ UNCHANGED <<synced, acked, mem, phase, history, dirty, listed, stat, img, file, anchor, ck>>
      /\ phase = "run" =>
           /\ owner'[l.row] = t
           /\ \A u \in Trans : /\ wr[u] # Idle => owner'[wr[u].row] = u
                               /\ \A k \in Pending(n, u) : owner'[log[k].row] = u
           /\ status[t] = "idle" => Stack(n)[t] = <<>>
      /\ phase = "restart" =>
           /\ status[t] = "rollback" /\ l.op = "undo" /\ owner' = owner
           /\ \A u \in Trans : wr[u] = Idle
      /\ upd' \in 0 .. LastUpd
  BY Zenon DEF Makes
<1> USE <1>1
<1>2. /\ Agree(n) /\ n \in Nat /\ m \in Nat /\ Len(log') = m /\ log'[m] = l
      /\ Db(m)' \in [Rows -> Val] /\ Stack(m)' \in [Trans -> Seq(1 .. m)]
      /\ \A r \in Rows : Db(m)'[r] = IF l.op \in {"update", "undo"} /\ l.row = r THEN l.val ELSE Db(n)[r]
      /\ l.op = "update" => Stack(m)' = [Stack(n) EXCEPT ![l.tr] = <<m>> \o @]
      /\ l.op = "undo" => Stack(m)' = [Stack(n) EXCEPT ![l.tr] = Tail(@)]
      /\ \A u \in Trans :
              /\ l.op = "update" /\ l.tr = u => Pending(m, u)' = Pending(n, u) \cup {m}
              /\ l.op # "update" \/ l.tr # u => Pending(m, u)' \subseteq Pending(n, u)
  BY DEF Logs
<1>3. TransType /\ DiskType /\ MemInv /\ RunInv /\ RestartInv /\ Len(history) = Committed(Len(log)) /\ LogInv
  BY TypeParts DEF RecInv
<1>4. l \in Record /\ l.row \in Rows /\ l.val \in Val
  BY RecordFields DEF MayLog
<1>5. synced \in 1 .. n /\ n >= 1 /\ RedoLSN \in 1 .. n /\ RedoLSN \in Nat \ {0}
  BY RedoLSNIs
<1>6. LogInv' /\ Len(history)' = Committed(m)'
  BY <1>3, <1>5, LogAppended
<1>7. Longer(n) /\ n <= m
  BY <1>2, <1>5 DEF Longer
<1>10. /\ wr'[t] = [step |-> IF first[t] = NoLSN THEN "log" ELSE "change",
                     row |-> l.row, val |-> l.val, lsn |-> m]
       /\ wr'[t] # Idle /\ wr'[t].row = l.row /\ wr'[t].val = l.val /\ wr'[t].lsn = m
       /\ wr'[t].step = (IF first[t] = NoLSN THEN "log" ELSE "change")
       /\ wr'[t].step \in {"log", "change"} /\ Idle' = Idle
       /\ \A u \in Trans : u # t => wr'[u] = wr[u]
  BY <1>3 DEF TransType, Idle
<1>8. /\ Fst \in [Trans -> 0 .. n] /\ Fst' = [Fst EXCEPT ![t] = IF @ = NoLSN THEN m ELSE @]
      /\ \A u \in Trans : Fst'[u] \in {Fst[u], NoLSN, n + 1}
  <2>1. Fst \in [Trans -> 0 .. n] /\ Fst[t] = first[t]
    BY <1>3 DEF TransType, Fst, Idle
  <2>2. Fst'[t] = IF Fst[t] = NoLSN THEN m ELSE Fst[t]
    BY <2>1, <1>10 DEF Fst
  <2>3. \A u \in Trans : u # t => Fst'[u] = Fst[u]
    BY <1>10 DEF Fst
  <2>4. Fst' = [Fst EXCEPT ![t] = IF @ = NoLSN THEN m ELSE @]
    <3>1. Fst' \in [Trans -> {Fst'[u] : u \in Trans}]
      BY DEF Fst
    <3> QED BY <2>1, <2>2, <2>3, <3>1
  <2> QED BY <2>1, <2>2, <2>3, <2>4
<1>9. CkTypeOK' /\ CkInv' /\ AnchorInv' /\ RedoLSN' = RedoLSN
  <2>1. \A u \in Trans : Fst'[u] \in {Fst[u], NoLSN, n + 1}
    BY <1>8
  <2>2. UNCHANGED <<ck, phase, anchor, img, file, stat>> /\ n = Len(log) /\ Len(log') \in Nat /\ n <= Len(log')
    BY <1>2, <1>7
  <2> QED BY ONLY RecInv, <2>1, <2>2, <1>7, CkKept
<1>11. undoNxt = Stack(n)
  BY <1>3 DEF MemInv
<1>12. undoNxt' = Stack(m)'
  BY <1>2, <1>11
<1>13. TransType'
  <2>1. wr' \in [Trans -> WrType(m)]
    <3>1. WrType(n) \subseteq WrType(m)
      BY <1>2, <1>7, WrTypeMono
    <3>2. m \in 1 .. m
      BY <1>2
    <3>3. wr'[t] \in WrType(m)
      BY <3>2, <1>4, <1>10 DEF WrType
    <3> QED BY <3>1, <3>3, <1>3, <1>10 DEF TransType
  <2>2. first' \in [Trans -> 0 .. m] /\ Fst' \in [Trans -> 0 .. m]
    <3>1. \A k : k \in 0 .. n => k \in 0 .. m
      BY <1>2
    <3>2. m \in 0 .. m
      BY <1>2
    <3> QED BY <3>1, <3>2, <1>3, <1>8 DEF TransType
  <2>3. undoNxt' \in [Trans -> Seq(1 .. m)]
    BY <1>2, <1>12
  <2>4. status' \in [Trans -> {"idle", "active", "rollback"}]
    BY <1>3 DEF TransType
  <2> QED BY <2>1, <2>2, <2>3, <2>4, <1>2, <1>3, <1>10 DEF TransType, Val
<1>14. DiskType'
  <2>1. synced' \in synced .. Len(log') /\ acked' \in 0 .. synced'
    BY <1>2, <1>3, <1>5 DEF DiskType
  <2> QED BY <2>1, <1>2, <1>3, DiskGrows
<1>15. MemInv'
  <2>1. /\ \A r \in Rows :
             \/ \E u \in Trans : Changing(u, r) /\ wr[u].val = Db(n)[r]
             \/ (\A u \in Trans : ~ Changing(u, r)) /\ mem[r] = Db(n)[r]
        /\ \A u, w \in Trans : u # w /\ wr[u] # Idle /\ wr[w] # Idle => wr[u].row # wr[w].row
    BY <1>3 DEF MemInv
  <2>2. \A u \in Trans : \A r \in Rows : Changing(u, r)' <=> (u = t /\ r = l.row) \/ (u # t /\ Changing(u, r))
    BY <1>10 DEF Changing
  <2>3. \A r \in Rows : ~ Changing(t, r)
    BY DEF Changing, Idle
  <2>4. ASSUME NEW r \in Rows
        PROVE  \/ \E u \in Trans : Changing(u, r)' /\ wr'[u].val = Db(m)'[r]
               \/ (\A u \in Trans : ~ Changing(u, r)') /\ mem'[r] = Db(m)'[r]
    <3>1. CASE r = l.row
      BY <3>1, <2>2, <1>2, <1>4, <1>10
    <3>2. CASE r # l.row
      <4>1. Db(m)'[r] = Db(n)[r]
        BY <3>2, <1>2
      <4> QED BY <4>1, <3>2, <2>1, <2>2, <2>3, <1>10
    <3> QED BY <3>1, <3>2
  <2>5. \A u, w \in Trans : u # w /\ wr'[u] # Idle /\ wr'[w] # Idle => wr'[u].row # wr'[w].row
    BY <2>1, <1>10
  <2>6. Len(log') = m /\ Idle' = Idle
    BY <1>2, <1>10
  <2>7. undoNxt' = Stack(Len(log))'
    BY <1>12, <2>6
  <2>8. \A r \in Rows :
             \/ \E u \in Trans : Changing(u, r)' /\ wr'[u].val = Db(Len(log))'[r]
             \/ (\A u \in Trans : ~ Changing(u, r)') /\ mem'[r] = Db(Len(log))'[r]
    <3>1. Db(Len(log))' = Db(m)'
      BY <2>6
    <3> QED BY <3>1, <2>4
  <2> QED BY <2>5, <2>6, <2>7, <2>8 DEF MemInv
<1>16. RunInv'
  <2>1. ASSUME phase = "run", NEW u \in Trans, u # t PROVE RunOf(u)'
    <3>1. /\ status'[u] = status[u] /\ Fst'[u] = Fst[u] /\ undoNxt'[u] = undoNxt[u] /\ wr'[u] = wr[u]
      BY <2>1, <1>3, <1>8, <1>10 DEF TransType
    <3>2. wr'[u] # Idle => wr[u] # Idle /\ wr'[u].row = wr[u].row /\ owner'[wr[u].row] = u
      BY <2>1, <3>1
    <3>3. Pending(Len(log), u)' \subseteq Pending(n, u)
      BY <2>1, <1>2
    <3>4. \A k \in Pending(n, u) : owner'[log[k].row] = u
      BY <2>1
    <3>5. /\ wr'[u].step = "log" => first'[u] = NoLSN
          /\ RedoLSN' = RedoLSN /\ Len(log') \in Nat /\ n <= Len(log')
      BY <2>1, <3>1, <1>2, <1>3, <1>7, <1>9 DEF RunInv
    <3> QED BY ONLY <2>1, <3>1, <3>2, <3>3, <3>4, <3>5, <1>7, RunKept, RecInv, n = Len(log), t \in Trans, u \in Trans
  <2>2. ASSUME phase = "run" PROVE RunOf(t)'
    <3>1. /\ status[t] = "idle" => Fst[t] = NoLSN /\ Stack(n)[t] = <<>>
          /\ status[t] # "idle" => Fst[t] # NoLSN /\ RedoLSN <= Fst[t] /\ Stack(Fst[t] - 1)[t] = <<>>
      BY <2>2, <1>3 DEF RunInv
    <3> PICK f : f = Fst'[t]
      OBVIOUS
    <3>2. f = IF Fst[t] = NoLSN THEN m ELSE Fst[t]
      BY <1>8
    <3>3. /\ f \in 1 .. m /\ RedoLSN <= f /\ f - 1 \in 0 .. n /\ Stack(f - 1)[t] = <<>>
      <4>1. CASE Fst[t] = NoLSN
        <5>1. f = m /\ f - 1 = n
          BY <4>1, <3>2, <1>2
        <5>2. Stack(n)[t] = <<>>
          BY <4>1, <3>1
        <5> QED BY <5>1, <5>2, <1>2, <1>5
      <4>2. CASE Fst[t] # NoLSN
        <5>1. Fst[t] \in 0 .. n
          BY <1>3 DEF TransType
        <5>2. f = Fst[t] /\ f # 0
          BY <4>2, <3>2 DEF NoLSN
        <5> QED BY <5>1, <5>2, <4>2, <3>1, <1>2
      <4> QED BY <4>1, <4>2
    <3>4. Stack(f - 1)'[t] = <<>>
      <4>1. Stack(f - 1)' = Stack(f - 1)
        BY <3>3, <1>2, FullKept
      <4> QED BY <4>1, <3>3
    <3>5. status'[t] # "idle" /\ (status'[t] = "active" => undoNxt'[t] # <<>>)
      <4>1. status'[t] = IF l.op = "update" THEN "active" ELSE "rollback"
        BY <1>3 DEF TransType
      <4>2. l.op = "update" => undoNxt'[t] = <<m>> \o undoNxt[t]
        BY <1>3 DEF TransType
      <4>3. undoNxt[t] \in Seq(1 .. n) /\ undoNxt[t] \in Seq(1 .. m) /\ m \in 1 .. m
        BY <1>2, <1>3, <1>7, SeqMono DEF TransType
      <4>4. <<m>> \o undoNxt[t] # <<>>
        BY <4>3, Push
      <4> QED BY <4>1, <4>2, <4>4
    <3>6. Written(l.row, f, m)'
      <4>1. m \in f .. m
        BY <3>3, <1>2
      <4>2. Writes(m, l.row)'
        BY <1>2 DEF Writes
      <4> QED BY <4>1, <4>2 DEF Written
    <3>7. \A k \in Pending(m, t)' : owner'[log'[k].row] = t
      <4>1. ASSUME NEW k \in Pending(n, t) PROVE owner'[log'[k].row] = t
        <5>1. n \in 0 .. Len(log) /\ log \in Seq(Record) /\ \A j \in 1 .. n : log'[j] = log[j]
          BY <1>2 DEF Agree
        <5>2. log'[k] = log[k]
          BY <5>1, PendingType
        <5> QED BY <5>2, <4>1, <2>2
      <4>2. owner'[log'[m].row] = t
        BY <1>2, <2>2
      <4>3. \A k \in Pending(m, t)' : k \in Pending(n, t) \/ k = m
        BY <1>2
      <4> QED BY <4>1, <4>2, <4>3
    <3>8. Fst'[t] # NoLSN /\ RedoLSN' <= Fst'[t] /\ Stack(Fst[t] - 1)'[t] = <<>>
      BY <3>3, <3>4, <1>9 DEF NoLSN
    <3>9. owner'[wr'[t].row] = t /\ Written(wr[t].row, Fst[t], Len(log))'
      BY <2>2, <3>6, <1>2, <1>10
    <3>10. \A k \in Pending(Len(log), t)' : owner'[log'[k].row] = t
      BY <3>7, <1>2
    <3>11. wr'[t].step = "log" => first'[t] = NoLSN
      BY <1>10
    <3> QED BY <3>5, <3>8, <3>9, <3>10, <3>11 DEF RunOf, NoLSN
  <2> QED BY <2>1, <2>2, RunPartsNext
<1>17. RestartInv'
  <2> SUFFICES ASSUME phase = "restart" PROVE RestartInv'
    BY <1>3 DEF RestartInv, TransType
  <2>1. ASSUME NEW u \in Trans, u # t
        PROVE  /\ status'[u] = status[u] /\ Fst'[u] = Fst[u] /\ undoNxt'[u] = undoNxt[u] /\ wr'[u] = Idle
    BY <2>1, <1>3, <1>8, <1>10 DEF TransType
  <2>2. status'[t] = "rollback"
    BY <1>3 DEF TransType
  <2> QED BY <2>1, <2>2, <1>3, <1>10 DEF RestartInv, CkIdle, NoLSN
<1>18. ListInv'
  <2>1. \A r \in Rows : AtWork(r) => AtWork(r)'
    BY <1>10 DEF AtWork
  <2>2. \A q : LinkDue(q)' <=> LinkDue(q)
    BY <1>10 DEF LinkDue, PageToMark, Idle
  <2> QED BY <2>1, <2>2, ListWork
<1> QED BY <1>2, <1>6, <1>9, <1>13, <1>14, <1>15, <1>16, <1>17, <1>18, TypePartsNext DEF RecInv

\* A change is logged, by who has the row.
LEMMA UpdateStep ==
  ASSUME RecInv, NEW t \in Trans, NEW r \in Rows, Update(t, r)
  PROVE  RecInv'
<1> PICK n, m, l : /\ n = Len(log) /\ m = n + 1
                   /\ l = [op |-> "update", tr |-> t, row |-> r, old |-> mem[r], val |-> upd + 1,
                           begins |-> first[t] = NoLSN]
  OBVIOUS
<1>1. /\ phase = "run" /\ upd < LastUpd /\ status[t] \in {"idle", "active"} /\ wr[t] = Idle
      /\ owner[r] \in {0, t} /\ owner' = [owner EXCEPT ![r] = t]
      /\ status' = [status EXCEPT ![t] = "active"] /\ upd' = upd + 1
      /\ log' = Append(log, l)
      /\ undoNxt' = [undoNxt EXCEPT ![t] = <<m>> \o undoNxt[t]]
      /\ first' = first
      /\ wr' = [wr EXCEPT ![t] = [step |-> IF first[t] = NoLSN THEN "log" ELSE "change",
                                  row |-> l.row, val |-> l.val, lsn |-> m]]
      /\ UNCHANGED <<synced, acked, mem, phase, history, dirty, listed, stat, img, file, anchor, ck>>
  BY DEF Update, Logged, pageVars, diskVars
<1>2. TransType /\ DiskType /\ MemInv /\ RunInv /\ LogInv /\ upd \in 0 .. LastUpd
  BY TypeParts DEF RecInv
<1>3. n \in Nat /\ n >= 1
  BY RedoLSNIs
<1>4. l.op = "update" /\ l.tr = t /\ l.row = r /\ l.old = mem[r] /\ l.val = upd + 1
      /\ (l.begins <=> first[t] = NoLSN)
  OBVIOUS
<1>5. upd + 1 \in Val /\ upd' \in 0 .. LastUpd
  BY <1>1, <1>2, RecoveryAssumption DEF Val
<1>6. l \in Record
  <2>1. mem[r] \in Val /\ (first[t] = NoLSN) \in BOOLEAN
    BY <1>2 DEF TransType
  <2> QED BY <2>1, <1>5 DEF Record
<1>7. /\ undoNxt = Stack(n)
      /\ \A u \in Trans : wr[u] # Idle => owner[wr[u].row] = u
      /\ \A u \in Trans : \A k \in Pending(n, u) : owner[log[k].row] = u
      /\ status[t] = "idle" => Fst[t] = NoLSN /\ undoNxt[t] = <<>>
      /\ status[t] = "active" => undoNxt[t] # <<>> /\ Fst[t] # NoLSN
      /\ first[t] = Fst[t]
  BY <1>1, <1>2 DEF MemInv, RunInv, Fst, Idle
<1>8. \A u \in Trans \ {t} : wr[u] # Idle => wr[u].row # r
  BY <1>1, <1>7, RecoveryAssumption
<1>9. \A u \in Trans \ {t} : \A k \in Pending(n, u) : log[k].row # r
  BY <1>1, <1>7, RecoveryAssumption
<1>10. mem[r] = Db(n)[r]
  <2>1. \A u \in Trans : ~ Changing(u, r)
    BY <1>1, <1>8 DEF Changing, Idle
  <2> QED BY <2>1, <1>1, <1>2 DEF MemInv
<1>11. MayLog(n, l)
  <2>1. first[t] = NoLSN <=> Stack(n)[t] = <<>>
    BY <1>1, <1>7
  <2> QED BY <2>1, <1>4, <1>6, <1>9, <1>10 DEF MayLog
<1>12. log \in Seq(Record) /\ n \in 0 .. Len(log) /\ StackOK(n)
  <2>1. n \in 0 .. Len(log)
    BY <1>3
  <2> QED BY <2>1, <1>2 DEF LogInv
<1>13. Logs(n, m, l)
  BY <1>1, <1>11, <1>12, Appended
<1>14. /\ undoNxt' = [undoNxt EXCEPT ![t] = IF l.op = "update" THEN <<m>> \o @ ELSE Tail(@)]
       /\ status' = [status EXCEPT ![t] = IF l.op = "update" THEN "active" ELSE "rollback"]
  BY <1>1, <1>4
<1>15. /\ owner' \in [Rows -> {0} \cup Trans] /\ owner'[r] = t
       /\ \A q \in Rows : q # r => owner'[q] = owner[q]
  BY <1>1, <1>2 DEF TransType
<1>16. ASSUME NEW u \in Trans
       PROVE  /\ wr[u] # Idle => owner'[wr[u].row] = u
              /\ \A k \in Pending(n, u) : owner'[log[k].row] = u
  <2>1. wr[u] # Idle => owner'[wr[u].row] = u
    <3>1. wr[u] # Idle => u # t /\ wr[u].row \in Rows
      BY <1>1, <1>2 DEF TransType, WrType
    <3> QED BY <3>1, <1>7, <1>8, <1>15
  <2>2. ASSUME NEW k \in Pending(n, u) PROVE owner'[log[k].row] = u
    <3>1. k \in 1 .. n
      BY <1>12, PendingType
    <3>2. log[k] \in Record /\ log[k].op = "update"
      BY <3>1, <1>12, LogRecord DEF StackOK
    <3>3. log[k].row \in Rows
      BY <3>2, RecordFields
    <3> QED BY <3>3, <1>7, <1>9, <1>15
  <2> QED BY <2>1, <2>2
<1>17. status[t] = "idle" => Stack(n)[t] = <<>>
  BY <1>7
<1>18. /\ l.op \in {"update", "undo"} /\ l.tr = t /\ phase # "down"
       /\ \A u \in Trans \ {t} : wr[u] # Idle => wr[u].row # l.row
  BY <1>1, <1>4, <1>8
<1>19. phase = "run" =>
         /\ owner'[l.row] = t
         /\ \A u \in Trans : /\ wr[u] # Idle => owner'[wr[u].row] = u
                             /\ \A k \in Pending(n, u) : owner'[log[k].row] = u
         /\ status[t] = "idle" => Stack(n)[t] = <<>>
  BY <1>4, <1>15, <1>16, <1>17
<1>20. phase = "restart" =>
         /\ status[t] = "rollback" /\ l.op = "undo" /\ owner' = owner
         /\ \A u \in Trans : wr[u] = Idle
  BY <1>1
<1>21. Makes(n, m, l, t)
  BY <1>1, <1>5, <1>11, <1>13, <1>14, <1>15, <1>18, <1>19, <1>20 DEF Makes
<1> QED BY <1>21, LoggedStep

\* The last change of a transaction is undone, in service or by the restart.
LEMMA UndoStep ==
  ASSUME RecInv, NEW t \in Trans, Undo(t)
  PROVE  RecInv'
<1> PICK n, m, k0 : n = Len(log) /\ m = n + 1 /\ k0 = undoNxt[t][1]
  OBVIOUS
<1> PICK l : l = [op |-> "undo", tr |-> t, row |-> log[k0].row, val |-> log[k0].old]
  OBVIOUS
<1>1. /\ status[t] \in {"active", "rollback"} /\ wr[t] = Idle /\ undoNxt[t] # <<>>
      /\ phase = "restart" => \A u \in Trans : wr[u] = Idle
      /\ status' = [status EXCEPT ![t] = "rollback"]
      /\ log' = Append(log, l)
      /\ undoNxt' = [undoNxt EXCEPT ![t] = Tail(undoNxt[t])]
      /\ first' = first
      /\ wr' = [wr EXCEPT ![t] = [step |-> IF first[t] = NoLSN THEN "log" ELSE "change",
                                  row |-> l.row, val |-> l.val, lsn |-> m]]
      /\ UNCHANGED <<synced, acked, mem, owner, phase, history, dirty, listed, stat, img, file, anchor, ck, upd>>
  BY DEF Undo, Logged, pageVars, diskVars, bounds
<1>2. TransType /\ DiskType /\ MemInv /\ RunInv /\ RestartInv /\ LogInv /\ upd \in 0 .. LastUpd
  BY TypeParts DEF RecInv
<1>3. n \in Nat /\ n >= 1
  BY RedoLSNIs
<1>4. phase # "down" /\ phase \in {"run", "restart"} /\ undoNxt = Stack(n)
  BY <1>1, <1>2 DEF RestartInv, MemInv, TransType
<1>5. log \in Seq(Record) /\ n \in 0 .. Len(log) /\ StackOK(n)
  <2>1. n \in 0 .. Len(log)
    BY <1>3
  <2> QED BY <2>1, <1>2 DEF LogInv
<1>6. k0 \in Pending(n, t) /\ k0 \in 1 .. n
  BY <1>1, <1>4, <1>5, PendingType
<1>7. log[k0].op = "update" /\ log[k0] \in Record
  BY <1>6, <1>5, LogRecord DEF StackOK
<1>8. log[k0].row \in Rows /\ log[k0].old \in Val
  BY <1>7, RecordFields
<1>9. l.op = "undo" /\ l.tr = t /\ l.row = log[k0].row /\ l.val = log[k0].old /\ l \in Record
  BY <1>8 DEF Record
<1>10. MayLog(n, l)
  BY <1>1, <1>4, <1>9 DEF MayLog
<1>11. Logs(n, m, l)
  BY <1>1, <1>10, <1>5, Appended
<1>12. /\ undoNxt' = [undoNxt EXCEPT ![t] = IF l.op = "update" THEN <<m>> \o @ ELSE Tail(@)]
       /\ status' = [status EXCEPT ![t] = IF l.op = "update" THEN "active" ELSE "rollback"]
  BY <1>1, <1>9
<1>13. owner' \in [Rows -> {0} \cup Trans]
  BY <1>1, <1>2 DEF TransType
<1>14. ASSUME phase = "run"
       PROVE  /\ owner'[l.row] = t
              /\ \A u \in Trans : /\ wr[u] # Idle => owner'[wr[u].row] = u
                                  /\ \A k \in Pending(n, u) : owner'[log[k].row] = u
              /\ status[t] = "idle" => Stack(n)[t] = <<>>
  BY <1>1, <1>2, <1>6, <1>9, <1>14 DEF RunInv
<1>15. \A u \in Trans \ {t} : wr[u] # Idle => wr[u].row # l.row
  BY <1>1, <1>4, <1>14
<1>16. phase = "restart" =>
         status[t] = "rollback" /\ l.op = "undo" /\ owner' = owner /\ \A u \in Trans : wr[u] = Idle
  BY <1>1, <1>2, <1>9 DEF RestartInv
<1>17. l.op \in {"update", "undo"} /\ upd' \in 0 .. LastUpd
  BY <1>1, <1>2, <1>9
<1>18. l.tr = t /\ phase # "down"
  BY <1>4, <1>9
<1>19. phase = "run" =>
         /\ owner'[l.row] = t
         /\ \A u \in Trans : /\ wr[u] # Idle => owner'[wr[u].row] = u
                             /\ \A k \in Pending(n, u) : owner'[log[k].row] = u
         /\ status[t] = "idle" => Stack(n)[t] = <<>>
  BY <1>14
<1>20. phase = "restart" =>
         /\ status[t] = "rollback" /\ l.op = "undo" /\ owner' = owner
         /\ \A u \in Trans : wr[u] = Idle
  BY <1>16
<1>21. Makes(n, m, l, t)
  BY <1>1, <1>10, <1>11, <1>12, <1>13, <1>15, <1>17, <1>18, <1>19, <1>20 DEF Makes
<1> QED BY <1>21, LoggedStep

\* The step of a commit or an abort, but for what is of one of the two.
Ends(n, m, l, t) ==
  /\ n = Len(log) /\ m = n + 1 /\ Logs(n, m, l)
  /\ log' = Append(log, l) /\ l.op \in {"commit", "abort"} /\ l.tr = t /\ wr[t] = Idle
  /\ LogInv' /\ Len(history)' = Committed(m)'
  /\ synced' \in synced .. m /\ acked' \in 0 .. synced'
  /\ status' = [status EXCEPT ![t] = "idle"]
  /\ first' = [first EXCEPT ![t] = NoLSN]
  /\ undoNxt' = [undoNxt EXCEPT ![t] = <<>>]
  /\ owner' = [r \in Rows |-> IF owner[r] = t THEN 0 ELSE owner[r]]
  /\ phase # "down"
  /\ phase = "restart" => \A u \in Trans : undoNxt[u] = <<>> /\ wr[u] = Idle
  /\ UNCHANGED <<wr, mem, phase, dirty, listed, stat, img, file, anchor, ck, upd>>

\* The end of a transaction.
LEMMA EndedStep ==
  ASSUME RecInv, NEW n, NEW m, NEW l, NEW t \in Trans, Ends(n, m, l, t)
  PROVE  RecInv'
<1>1. /\ n = Len(log) /\ m = n + 1 /\ Logs(n, m, l)
      /\ log' = Append(log, l) /\ l.op \in {"commit", "abort"} /\ l.tr = t /\ wr[t] = Idle
      /\ LogInv' /\ Len(history)' = Committed(m)'
      /\ synced' \in synced .. m /\ acked' \in 0 .. synced'
      /\ status' = [status EXCEPT ![t] = "idle"]
      /\ first' = [first EXCEPT ![t] = NoLSN]
      /\ undoNxt' = [undoNxt EXCEPT ![t] = <<>>]
      /\ owner' = [r \in Rows |-> IF owner[r] = t THEN 0 ELSE owner[r]]
      /\ phase # "down"
      /\ phase = "restart" => \A u \in Trans : undoNxt[u] = <<>> /\ wr[u] = Idle
      /\ UNCHANGED <<wr, mem, phase, dirty, listed, stat, img, file, anchor, ck, upd>>
  BY Zenon DEF Ends
<1>2. TransType /\ DiskType /\ MemInv /\ RunInv /\ RestartInv /\ upd \in 0 .. LastUpd
  BY TypeParts DEF RecInv
<1>3. /\ Agree(n) /\ n \in Nat /\ m \in Nat /\ Len(log') = m /\ log'[m] = l
      /\ Stack(m)' = [Stack(n) EXCEPT ![t] = <<>>]
      /\ \A u \in Trans : /\ Pending(m, u)' \subseteq Pending(n, u)
                          /\ u = t => Pending(m, u)' = {}
      /\ \A r \in Rows : Db(m)'[r] = Db(n)[r]
  BY <1>1 DEF Logs
<1>4. synced \in 1 .. n /\ n >= 1 /\ RedoLSN \in Nat \ {0}
  BY <1>1, RedoLSNIs
<1>5. Longer(n) /\ n <= Len(log')
  BY <1>1, <1>3, <1>4 DEF Longer
<1>6. /\ Fst \in [Trans -> 0 .. n] /\ Fst' = [Fst EXCEPT ![t] = NoLSN]
      /\ \A u \in Trans : Fst'[u] \in {Fst[u], NoLSN, n + 1}
  <2>1. Fst \in [Trans -> 0 .. n]
    BY <1>1, <1>2 DEF TransType
  <2>2. Fst'[t] = NoLSN /\ \A u \in Trans : u # t => Fst'[u] = Fst[u]
    BY <1>1, <1>2 DEF TransType, Fst, Idle
  <2>3. Fst' \in [Trans -> {Fst'[u] : u \in Trans}]
    BY DEF Fst
  <2> QED BY <2>1, <2>2, <2>3
<1>7. CkTypeOK' /\ CkInv' /\ AnchorInv' /\ RedoLSN' = RedoLSN
  <2>1. \A u \in Trans : Fst'[u] \in {Fst[u], NoLSN, n + 1}
    BY <1>6
  <2> QED BY <2>1, <1>1, <1>3, <1>5, CkKept
<1>8. \A u \in Trans : /\ u # t => status'[u] = status[u] /\ Fst'[u] = Fst[u] /\ undoNxt'[u] = undoNxt[u]
                       /\ wr'[u] = wr[u] /\ (u # t => first'[u] = first[u])
  BY <1>1, <1>2, <1>6 DEF TransType
<1>9. status'[t] = "idle" /\ Fst'[t] = NoLSN /\ undoNxt'[t] = <<>> /\ wr'[t] = Idle
  BY <1>1, <1>2, <1>6 DEF TransType
<1>10. Idle' = Idle /\ Len(log)' = m
  BY <1>3 DEF Idle
<1>11. TransType'
  <2>1. first' \in [Trans -> 0 .. m] /\ Fst' \in [Trans -> 0 .. m]
    <3>1. \A k : k \in 0 .. n => k \in 0 .. m
      BY <1>1, <1>3
    <3>2. 0 \in 0 .. m
      BY <1>3
    <3> QED BY <3>1, <3>2, <1>1, <1>2, <1>6 DEF TransType, NoLSN
  <2>2. undoNxt' \in [Trans -> Seq(1 .. m)]
    <3>1. <<>> \in Seq(1 .. m)
      OBVIOUS
    <3>2. \A u \in Trans : undoNxt[u] \in Seq(1 .. m)
      BY <1>1, <1>2, <1>3, <1>5, SeqMono DEF TransType
    <3> QED BY <3>1, <3>2, <1>1, <1>2 DEF TransType
  <2>3. status' \in [Trans -> {"idle", "active", "rollback"}]
    BY <1>1, <1>2 DEF TransType
  <2>4. owner' \in [Rows -> {0} \cup Trans]
    BY <1>1, <1>2 DEF TransType
  <2>5. wr' \in [Trans -> WrType(m)]
    <3>1. WrType(n) \subseteq WrType(m)
      BY <1>1, <1>3, <1>5, WrTypeMono
    <3> QED BY <3>1, <1>1, <1>2 DEF TransType
  <2> QED BY <2>1, <2>2, <2>3, <2>4, <2>5, <1>1, <1>2, <1>10 DEF TransType, Val
<1>12. DiskType'
  <2>1. synced' \in synced .. Len(log')
    BY <1>1, <1>3
  <2> QED BY <2>1, <1>1, <1>2, <1>3, <1>4, DiskGrows
<1>13. MemInv'
  <2>1. undoNxt' = Stack(m)'
    BY <1>1, <1>2, <1>3 DEF MemInv
  <2>2. \A u \in Trans : \A r \in Rows : Changing(u, r)' <=> Changing(u, r)
    BY <1>1 DEF Changing
  <2>3. /\ \A r \in Rows :
             \/ \E u \in Trans : Changing(u, r) /\ wr[u].val = Db(n)[r]
             \/ (\A u \in Trans : ~ Changing(u, r)) /\ mem[r] = Db(n)[r]
        /\ \A u, w \in Trans : u # w /\ wr[u] # Idle /\ wr[w] # Idle => wr[u].row # wr[w].row
    BY <1>1, <1>2 DEF MemInv
  <2>4. ASSUME NEW r \in Rows
        PROVE  \/ \E u \in Trans : Changing(u, r)' /\ wr'[u].val = Db(Len(log))'[r]
               \/ (\A u \in Trans : ~ Changing(u, r)') /\ mem'[r] = Db(Len(log))'[r]
    <3>1. Db(Len(log))' = Db(m)'
      BY <1>3
    <3>2. Db(Len(log))'[r] = Db(n)[r]
      BY <3>1, <1>3
    <3> QED BY <3>2, <2>2, <2>3, <1>1
  <2>5. \A u, w \in Trans : u # w /\ wr'[u] # Idle /\ wr'[w] # Idle => wr'[u].row # wr'[w].row
    BY <2>3, <1>1
  <2>6. Stack(Len(log))' = Stack(m)'
    BY <1>3
  <2> QED BY <2>1, <2>4, <2>5, <2>6, <1>10 DEF MemInv
<1>14. RunInv'
  <2>1. ASSUME phase = "run", NEW u \in Trans, u # t PROVE RunOf(u)'
    <3>1. /\ wr[u] # Idle => owner[wr[u].row] = u
          /\ \A k \in Pending(n, u) : owner[log[k].row] = u
      BY <2>1, <1>1, <1>2 DEF RunInv
    <3>2. wr'[u] # Idle => wr[u] # Idle /\ wr'[u].row = wr[u].row /\ owner'[wr[u].row] = u
      <4>1. wr[u] # Idle => wr[u].row \in Rows
        BY <1>2 DEF TransType, WrType
      <4> QED BY <4>1, <3>1, <2>1, <1>1, <1>8
    <3>3. \A k \in Pending(n, u) : owner'[log[k].row] = u
      <4>1. ASSUME NEW k \in Pending(n, u) PROVE log[k].row \in Rows
        <5>1. log \in Seq(Record) /\ n \in 0 .. Len(log) /\ StackOK(n)
          BY <1>1, <1>4 DEF RecInv, LogInv
        <5>2. k \in 1 .. n
          BY <5>1, PendingType
        <5>3. log[k] \in Record /\ log[k].op = "update"
          BY <5>1, <5>2, <1>1, LogRecord DEF StackOK
        <5> QED BY <5>3, RecordFields
      <4> QED BY <4>1, <3>1, <2>1, <1>1
    <3>4. Pending(Len(log), u)' \subseteq Pending(n, u)
      <4>1. Pending(Len(log), u)' = Pending(m, u)'
        BY <1>3
      <4> QED BY <4>1, <1>3
    <3>5. (wr'[u].step = "log" => first'[u] = NoLSN) /\ Len(log') \in Nat
      BY <2>1, <1>1, <1>2, <1>3, <1>8 DEF RunInv
    <3> QED BY <2>1, <3>2, <3>3, <3>4, <3>5, <1>1, <1>5, <1>7, <1>8, RunKept
  <2>2. RunOf(t)'
    <3>1. Pending(Len(log), t)' = {}
      <4>1. Pending(Len(log), t)' = Pending(m, t)'
        BY <1>3
      <4> QED BY <4>1, <1>3
    <3> QED BY <3>1, <1>9, <1>10 DEF RunOf, NoLSN, Idle
  <2> QED BY <2>1, <2>2, <1>1, RunPartsNext
<1>15. RestartInv'
  <2> SUFFICES ASSUME phase = "restart" PROVE RestartInv'
    BY <1>1, <1>2 DEF RestartInv, TransType
  <2>1. owner' = [r \in Rows |-> 0]
    BY <1>1, <1>2 DEF RestartInv
  <2>2. CkIdle' = ck
    BY <1>2 DEF RestartInv, CkIdle, NoLSN
  <2>3. \A u \in Trans : /\ status'[u] # "active" /\ undoNxt'[u] = <<>> /\ wr'[u] = Idle
                         /\ status'[u] = "idle" => Fst'[u] = NoLSN
    BY <1>1, <1>2, <1>8, <1>9 DEF RestartInv
  <2> QED BY <2>1, <2>2, <2>3, <1>1, <1>10 DEF RestartInv, NoLSN
<1>16. ListInv'
  <2>1. \A r \in Rows : AtWork(r) => AtWork(r)'
    BY <1>1, <1>10 DEF AtWork
  <2>2. \A q : LinkDue(q)' <=> LinkDue(q)
    BY <1>1 DEF LinkDue, PageToMark
  <2> QED BY <2>1, <2>2, <1>1, ListWork
<1> QED BY <1>1, <1>2, <1>3, <1>7, <1>11, <1>12, <1>13, <1>14, <1>15, <1>16, TypePartsNext DEF RecInv

\* The rows a commit makes the committed ones are those the log has then.
LEMMA CommitStep ==
  ASSUME RecInv, NEW t \in Trans, NEW wait \in BOOLEAN, Commit(t, wait)
  PROVE  /\ RecInv'
         /\ history' = Append(history, Latest') /\ Latest' = [r \in Rows |-> IF owner[r] = t THEN mem[r] ELSE Latest[r]]
         /\ phase = "run"
<1> PICK n, m, l, h : /\ n = Len(log) /\ m = n + 1 /\ l = [op |-> "commit", tr |-> t]
                      /\ h = [r \in Rows |-> IF owner[r] = t THEN mem[r] ELSE Latest[r]]
  OBVIOUS
<1>1. /\ status[t] = "active" /\ wr[t] = Idle /\ log' = Append(log, l)
      /\ synced' = (IF wait THEN m ELSE synced) /\ acked' = (IF wait THEN Len(log') ELSE acked)
      /\ history' = Append(history, h)
      /\ status' = [status EXCEPT ![t] = "idle"]
      /\ first' = [first EXCEPT ![t] = NoLSN]
      /\ undoNxt' = [undoNxt EXCEPT ![t] = <<>>]
      /\ owner' = [r \in Rows |-> IF owner[r] = t THEN 0 ELSE owner[r]]
      /\ UNCHANGED <<wr, mem, phase, dirty, listed, stat, img, file, anchor, ck, upd>>
  BY DEF Commit, EndTrans, Synced, pageVars, diskVars, bounds
<1>2. TransType /\ DiskType /\ MemInv /\ RunInv /\ RestartInv /\ LogInv /\ Len(history) = Committed(n)
  BY TypeParts DEF RecInv
<1>3. n \in Nat /\ n >= 1 /\ synced \in 1 .. n /\ acked \in 0 .. synced
  BY <1>2, RedoLSNIs DEF DiskType
<1>4. phase = "run"
  BY <1>1, <1>2 DEF RestartInv
<1>5. log \in Seq(Record) /\ n \in 0 .. Len(log) /\ n \in 1 .. Len(log) /\ StackOK(n)
  <2>1. n \in 0 .. Len(log) /\ n \in 1 .. Len(log)
    BY <1>3
  <2> QED BY <2>1, <1>2 DEF LogInv
<1>6. l.op = "commit" /\ l.tr = t /\ l \in Record
  BY DEF Record
<1>7. MayLog(n, l)
  BY <1>6 DEF MayLog
<1>8. Logs(n, m, l)
  BY <1>1, <1>5, <1>7, Appended
<1>9. Len(log') = m /\ m \in Nat
  BY <1>8 DEF Logs
<1>10. /\ \A u \in Trans : wr[u] # Idle => owner[wr[u].row] = u
       /\ \A u \in Trans : \A k \in Pending(n, u) : owner[log[k].row] = u
  BY <1>2, <1>4 DEF RunInv
<1>11. Latest = Rolled(Full(n))
  BY <1>2, <1>5 DEF LogInv, Latest
<1>12. ASSUME NEW r \in Rows, owner[r] = t
       PROVE  mem[r] = Db(n)[r] /\ (PendingRow(n, r) = {} \/ \E k \in Pending(n, t) : log[k].row = r)
  <2>1. mem[r] = Db(n)[r]
    <3>1. \A u \in Trans : ~ Changing(u, r)
      BY <1>1, <1>10, <1>12 DEF Changing, Idle
    <3> QED BY <3>1, <1>2, <1>4 DEF MemInv
  <2>2. \A k \in PendingRow(n, r) : k \in Pending(n, t) /\ log[k].row = r
    BY <1>10, <1>12 DEF PendingRow
  <2> QED BY <2>1, <2>2
<1>13. ASSUME NEW r \in Rows
       PROVE  Rolled(Full(m))'[r] = IF owner[r] = t THEN mem[r] ELSE Latest[r]
  <2>1. Rolled(Full(m))'[r] =
          IF \E k \in Pending(n, t) : log[k].row = r THEN Db(n)[r] ELSE Rolled(Full(n))[r]
    BY <1>6, <1>8 DEF Logs
  <2>2. CASE owner[r] = t
    BY <2>1, <2>2, <1>12, RolledRow
  <2>3. CASE owner[r] # t
    BY <2>1, <2>3, <1>10, <1>11
  <2> QED BY <2>2, <2>3
<1>14. h = Rolled(Full(m))'
  <2>1. Rolled(Full(m))' = [r \in Rows |-> Rolled(Full(m))'[r]]
    BY RolledTypeNext
  <2> QED BY <2>1, <1>13
<1>15. history \in Seq([Rows -> Val]) /\ Latest \in [Rows -> Val] /\ Len(history) \in Nat \ {0}
  <2>1. history \in Seq([Rows -> Val])
    BY <1>2 DEF LogInv
  <2>2. Len(history) \in Nat \ {0}
    BY <1>2, <1>3, CommittedNext
  <2> QED BY <2>1, <2>2 DEF Latest
<1>16. h \in [Rows -> Val]
  BY <1>2, <1>15 DEF TransType
<1>17. LogInv' /\ Len(history)' = Committed(m)'
  <2>1. \E g \in [Rows -> Val] : history' = Append(history, g) /\ g = Rolled(Full(m))'
    BY <1>1, <1>14, <1>16
  <2> QED BY <2>1, <1>1, <1>2, <1>3, <1>6, <1>7, LogAppended
<1>18. synced' \in synced .. m /\ acked' \in 0 .. synced'
  BY <1>1, <1>3, <1>9
<1>19. Ends(n, m, l, t)
  BY <1>1, <1>4, <1>6, <1>8, <1>17, <1>18 DEF Ends
<1>20. RecInv'
  BY <1>19, EndedStep
<1>21. Latest' = h
  BY <1>1, <1>15 DEF Latest
<1> QED BY <1>1, <1>4, <1>20, <1>21

\* Everything is undone: the transaction ends.
LEMMA AbortStep ==
  ASSUME RecInv, NEW t \in Trans, Abort(t)
  PROVE  RecInv'
<1> PICK n, m, l : n = Len(log) /\ m = n + 1 /\ l = [op |-> "abort", tr |-> t]
  OBVIOUS
<1>1. /\ status[t] = "rollback" /\ undoNxt[t] = <<>> /\ wr[t] = Idle /\ log' = Append(log, l)
      /\ phase = "restart" => \A u \in Trans : undoNxt[u] = <<>> /\ wr[u] = Idle
      /\ status' = [status EXCEPT ![t] = "idle"]
      /\ first' = [first EXCEPT ![t] = NoLSN]
      /\ undoNxt' = [undoNxt EXCEPT ![t] = <<>>]
      /\ owner' = [r \in Rows |-> IF owner[r] = t THEN 0 ELSE owner[r]]
      /\ UNCHANGED <<synced, acked, history, wr, mem, phase, dirty, listed, stat, img, file, anchor, ck, upd>>
  BY DEF Abort, EndTrans, pageVars, diskVars, bounds
<1>2. TransType /\ DiskType /\ MemInv /\ RestartInv /\ LogInv /\ Len(history) = Committed(n)
  BY TypeParts DEF RecInv
<1>3. n \in Nat /\ n >= 1 /\ synced \in 1 .. n /\ acked \in 0 .. synced
  BY <1>2, RedoLSNIs DEF DiskType
<1>4. phase # "down"
  BY <1>1, <1>2 DEF RestartInv
<1>5. log \in Seq(Record) /\ n \in 0 .. Len(log) /\ StackOK(n)
  <2>1. n \in 0 .. Len(log)
    BY <1>3
  <2> QED BY <2>1, <1>2 DEF LogInv
<1>6. l.op = "abort" /\ l.tr = t /\ l \in Record
  BY DEF Record
<1>7. MayLog(n, l)
  BY <1>1, <1>2, <1>4, <1>6 DEF MayLog, MemInv
<1>8. Logs(n, m, l)
  BY <1>1, <1>5, <1>7, Appended
<1>9. LogInv' /\ Len(history)' = Committed(m)'
  BY <1>1, <1>2, <1>3, <1>6, <1>7, LogAppended
<1>10. synced' \in synced .. m /\ acked' \in 0 .. synced'
  BY <1>1, <1>3
<1>11. Ends(n, m, l, t)
  BY <1>1, <1>4, <1>6, <1>8, <1>9, <1>10 DEF Ends
<1> QED BY <1>11, EndedStep

-----------------------------------------------------------------------------
(* Crash and restart.                                                      *)

\* A crash at any moment leaves a part of the log with all that is acknowledged, and
\* some of the page writes of the checkpoint.
LEMMA CrashStep ==
  ASSUME RecInv, Crash
  PROVE  /\ RecInv'
         /\ \E n \in 1 .. Len(log) : /\ acked <= n /\ Agree(n) /\ Len(log') = n
                                     /\ history' = SubSeq(history, 1, Committed(n))
                                     /\ Committed(n) \in 1 .. Len(history)
<1>1. PICK n \in synced .. Len(log) :
        log' = SubSeq(log, 1, n) /\ synced' = n /\ history' = SubSeq(history, 1, Committed(n))
  BY DEF Crash
<1> PICK oth, cur : oth = Other /\ cur = anchor.current
  OBVIOUS
<1>2. PICK W \in SUBSET Pages :
        LET left == [r \in Rows |-> IF PageOf[r] \in W THEN file[r] ELSE img[Other][r]]
        IN  img' = [img EXCEPT ![Other] = left] /\ file' = left
  BY DEF Crash
<1>3. /\ phase' = "down" /\ mem' = Zero /\ dirty' = {} /\ listed' = {}
      /\ stat' = [p \in Pages |-> "init"] /\ status' = [t \in Trans |-> "idle"]
      /\ first' = [t \in Trans |-> NoLSN] /\ undoNxt' = [t \in Trans |-> <<>>]
      /\ owner' = [r \in Rows |-> 0] /\ wr' = [t \in Trans |-> Idle] /\ ck' = CkIdle
      /\ acked' = acked /\ anchor' = anchor /\ upd' = upd
      /\ file' = [r \in Rows |-> IF PageOf[r] \in W THEN file[r] ELSE img[oth][r]]
      /\ img' = [img EXCEPT ![oth] = file']
  BY <1>2 DEF Crash
<1>4. LogInv /\ Len(history) = Committed(Len(log)) /\ DiskType /\ upd \in 0 .. LastUpd
  BY TypeParts DEF RecInv
<1>5. /\ Len(log) \in Nat /\ synced \in 1 .. Len(log) /\ anchor.begin \in 1 .. synced
      /\ cur \in {0, 1} /\ oth \in {0, 1} /\ oth # cur
  BY RedoLSNIs
<1>6. n \in Nat /\ n \in 1 .. Len(log) /\ n >= synced
  BY <1>1, <1>5
<1>7. LogInv' /\ Agree(n) /\ Len(log') = n /\ Len(history)' = Committed(n)'
  BY <1>1, <1>4, <1>6, LogCut
<1>8. Longer(n)
  BY <1>1, <1>5, <1>6, <1>7 DEF Longer
<1>9. file' \in [Rows -> Val] /\ img' \in [{0, 1} -> [Rows -> Val]] /\ img'[oth] = file' /\ img'[cur] = img[cur]
  <2>1. file' \in [Rows -> Val]
    BY <1>3, <1>4, <1>5 DEF DiskType
  <2> QED BY <2>1, <1>3, <1>4, <1>5 DEF DiskType
<1>10. ASSUME NEW r \in Rows, img[0][r] = img[1][r], file[r] = img[0][r]
       PROVE  img'[0][r] = img'[1][r] /\ file'[r] = img'[0][r]
  <2>1. file'[r] = img[cur][r]
    BY <1>3, <1>5, <1>10
  <2> QED BY <2>1, <1>5, <1>9
<1>11. AnchorInv'
  BY <1>3, <1>8, <1>9, <1>10, AnchorKept
<1>12. TransType'
  <2>1. /\ Zero \in [Rows -> Val]
        /\ [t \in Trans |-> NoLSN] \in [Trans -> 0 .. n]
        /\ [t \in Trans |-> <<>>] \in [Trans -> Seq(1 .. n)]
    BY <1>6, ZeroType DEF NoLSN
  <2>2. [t \in Trans |-> Idle] \in [Trans -> WrType(n)]
    BY DEF WrType
  <2>3. Fst' = [t \in Trans |-> NoLSN]
    BY <1>3 DEF Fst, Idle
  <2> QED BY <2>1, <2>2, <2>3, <1>3, <1>7 DEF TransType
<1>13. DiskType'
  <2>1. acked \in 0 .. n /\ n \in 1 .. n
    BY <1>4, <1>5, <1>6 DEF DiskType
  <2>2. anchor \in [current : {0, 1}, begin : 1 .. n]
    <3>1. \A k : k \in 1 .. synced => k \in 1 .. n
      BY <1>5, <1>6
    <3> QED BY <3>1, <1>4 DEF DiskType
  <2>3. stat' \in [Pages -> {"init", "flush", "remove"}]
    BY <1>3
  <2> QED BY <2>1, <2>2, <2>3, <1>1, <1>3, <1>7, <1>9 DEF DiskType, Val
<1>14. MemInv' /\ RunInv' /\ ListInv'
  BY <1>3 DEF MemInv, RunInv, ListInv
<1>15. Idle' = Idle /\ CkIdle' = CkIdle /\ Other' = Other
  BY <1>3 DEF Idle, CkIdle, NoLSN, Other
<1>16. RestartInv'
  <2>1. Fst' = [t \in Trans |-> NoLSN]
    BY <1>3 DEF Fst, Idle
  <2> QED BY <2>1, <1>1, <1>3, <1>7, <1>15 DEF RestartInv, NoLSN
<1>17. CkTypeOK' /\ CkInv'
  BY <1>3, <1>9, <1>15 DEF CkTypeOK, CkInv, CkIdle, NoLSN
<1>18. acked <= n
  BY <1>4, <1>5, <1>6 DEF DiskType
<1>19. Committed(n) \in 1 .. Len(history)
  <2>1. n >= 1
    BY <1>6
  <2> QED BY <2>1, <1>4, <1>7, LogKept
<1>20. RecInv'
  BY <1>3, <1>4, <1>7, <1>11, <1>12, <1>13, <1>14, <1>16, <1>17, TypePartsNext DEF RecInv
<1> QED BY <1>1, <1>6, <1>7, <1>18, <1>19, <1>20

\* The restart: the current image and the redo make the state of the whole log.
LEMMA RedoAllStep ==
  ASSUME RecInv, RedoAll
  PROVE  RecInv'
<1> PICK n, lo, b, cur : n = Len(log) /\ lo = RedoLSN /\ b = anchor.begin /\ cur = anchor.current
  OBVIOUS
<1> PICK acc : acc = Redone(img[cur], lo, n)
  OBVIOUS
<1>1. /\ phase = "down" /\ phase' = "restart" /\ mem' = acc.db /\ dirty' = Touched /\ listed' = Touched
      /\ stat' = [p \in Pages |-> IF p \in Noted THEN "flush" ELSE "init"]
      /\ undoNxt' = acc.undo
      /\ status' = [t \in Trans |-> IF acc.undo[t] # <<>> THEN "rollback" ELSE "idle"]
      /\ first' = [t \in Trans |-> IF acc.undo[t] # <<>> THEN acc.undo[t][Len(acc.undo[t])] ELSE NoLSN]
      /\ UNCHANGED <<log, synced, acked, img, file, anchor, owner, wr, ck, history, upd>>
  BY DEF RedoAll, logVars, diskVars, bounds
<1>2. TransType /\ DiskType /\ RestartInv /\ LogInv /\ AnchorInv /\ CkTypeOK /\ CkInv /\ upd \in 0 .. LastUpd
  BY TypeParts DEF RecInv
<1>3. /\ synced = n /\ ck = CkIdle /\ owner = [r \in Rows |-> 0]
      /\ \A t \in Trans : status[t] = "idle" /\ Fst[t] = NoLSN /\ wr[t] = Idle
  BY <1>1, <1>2 DEF RestartInv
<1>4. /\ n \in Nat /\ n \in 1 .. n /\ b \in 1 .. n /\ lo \in 1 .. n /\ lo \in Nat \ {0} /\ b \in lo - 1 .. Len(log)
      /\ n \in lo - 1 .. Len(log) /\ n \in 0 .. Len(log) /\ n \in b .. Len(log) /\ cur \in {0, 1}
  BY <1>3, RedoLSNIs
<1>5. log \in Seq(Record) /\ \A k \in 1 .. Len(log) : StepOK(k)
  BY <1>2 DEF LogInv
<1>6. /\ \A t \in Trans : NobodyAcross(t, lo, b)
      /\ \A r \in Rows : Covers(img[cur][r], r, lo, n)
      /\ \A r \in Rows : Same(r, b, lo)
  BY <1>2, <1>3 DEF AnchorInv
<1>7. img[cur] \in [Rows -> Val]
  BY <1>2, <1>4 DEF DiskType
<1>8. acc = Full(n)
  <2>1. lo \in 1 .. Len(log) /\ n \in n .. Len(log)
    BY <1>4
  <2> QED BY <2>1, <1>4, <1>5, <1>6, <1>7, RedoIsFull
<1>9. /\ mem' = Db(n) /\ undoNxt' = Stack(n)
      /\ Db(n) \in [Rows -> Val] /\ Stack(n) \in [Trans -> Seq(1 .. n)]
  <2>1. Db(n) \in [Rows -> Val] /\ Stack(n) \in [Trans -> Seq(1 .. n)]
    BY <1>4, <1>5, FullNext
  <2> QED BY <2>1, <1>1, <1>8 DEF Db, Stack
<1>10. Quiet(n)
  <2>1. synced' \in synced .. Len(log)
    BY <1>1, <1>3, <1>4
  <2> QED BY <2>1, <1>1, QuietSame
<1>11. /\ LogInv' /\ Len(history)' = Committed(Len(log))' /\ Longer(n)
       /\ Db(Len(log))' = Db(n) /\ Stack(Len(log))' = Stack(n)
  BY <1>10 DEF Quiet
<1>12. Idle' = Idle /\ CkIdle' = CkIdle
  BY DEF Idle, CkIdle, NoLSN
<1>13. AnchorInv' /\ RedoLSN' = RedoLSN
  BY <1>1, <1>11, AnchorKept
<1>14. TransType'
  <2>1. status' \in [Trans -> {"idle", "active", "rollback"}]
    BY <1>1
  <2>2. ASSUME NEW t \in Trans PROVE first'[t] \in 0 .. n
    <3>1. CASE acc.undo[t] = <<>>
      BY <3>1, <1>1, <1>4 DEF NoLSN
    <3>2. CASE acc.undo[t] # <<>>
      <4>1. acc.undo[t] \in Seq(1 .. n)
        BY <1>1, <1>9
      <4>2. Len(acc.undo[t]) \in 1 .. Len(acc.undo[t])
        BY <3>2, <4>1
      <4>3. acc.undo[t][Len(acc.undo[t])] \in 1 .. n
        BY <4>1, <4>2
      <4> QED BY <3>2, <4>3, <1>1
    <3> QED BY <3>1, <3>2
  <2>3. first' \in [Trans -> 0 .. n]
    BY <2>2, <1>1
  <2>4. Fst' = first'
    <3>1. \A t \in Trans : wr'[t] = Idle
      BY <1>1, <1>3
    <3> QED BY <3>1, <1>1 DEF Fst, Idle
  <2> QED BY <2>1, <2>3, <2>4, <1>1, <1>2, <1>9, <1>12 DEF TransType
<1>15. DiskType'
  <2>1. Touched \subseteq Pages
    <3> SUFFICES ASSUME NEW k \in RedoLSN .. Len(log), log[k].op \in {"update", "undo"}
                 PROVE  PageOf[log[k].row] \in Pages
      BY DEF Touched
    <3>1. k \in 1 .. Len(log)
      BY <1>4
    <3>2. log[k] \in Record
      BY <3>1, <1>5, LogRecord
    <3>3. log[k].row \in Rows
      BY <3>2, RecordFields
    <3> QED BY <3>3, RecoveryAssumption
  <2>2. stat' \in [Pages -> {"init", "flush", "remove"}]
    BY <1>1
  <2> QED BY <2>1, <2>2, <1>1, <1>2 DEF DiskType, Val
<1>16. MemInv'
  <2>1. \A t \in Trans : wr'[t] = Idle
    BY <1>1, <1>3
  <2>2. \A t \in Trans : \A r \in Rows : ~ Changing(t, r)'
    BY <2>1 DEF Changing, Idle
  <2> QED BY <2>1, <2>2, <1>9, <1>11, <1>12 DEF MemInv
<1>17. RunInv'
  BY <1>1 DEF RunInv
<1>18. RestartInv'
  <2>1. ASSUME NEW t \in Trans
        PROVE  /\ status'[t] # "active" /\ wr'[t] = Idle
               /\ status'[t] = "idle" => undoNxt'[t] = <<>> /\ Fst'[t] = NoLSN
    <3>1. wr'[t] = Idle /\ Fst'[t] = first'[t]
      BY <1>1, <1>3 DEF Fst, Idle
    <3> QED BY <3>1, <1>1, <1>3
  <2> QED BY <2>1, <1>1, <1>3, <1>12 DEF RestartInv, NoLSN
<1>19. CkTypeOK' /\ CkInv'
  <2>1. file' = img'[Other']
    BY <1>1, <1>2, <1>3 DEF CkInv, CkIdle, Other
  <2> QED BY <2>1, <1>1, <1>2, <1>3, <1>12 DEF CkTypeOK, CkInv, CkIdle, NoLSN
<1>20. ASSUME NEW r \in Rows, PageOf[r] \notin Touched, PageOf[r] \notin Noted
       PROVE  img[cur][r] = Db(n)[r] /\ file[r] = Db(n)[r]
  <2>1. ~ Written(r, lo, n)
    <3> SUFFICES ASSUME NEW k \in lo .. n, Writes(k, r) PROVE FALSE
      BY DEF Written
    <3> QED BY <1>20 DEF Touched, Writes
  <2>2. ~ NotedIn(PageOf[r], b)
    <3> SUFFICES ASSUME NEW k \in b .. n, log[k].op = "pages", PageOf[r] \in log[k].pages PROVE FALSE
      BY <1>3 DEF NotedIn
    <3> QED BY <1>20 DEF Noted
  <2>3. img[0][r] = img[1][r] /\ file[r] = img[0][r]
    BY <2>1, <2>2, <1>3, <1>6 DEF Same
  <2>4. img[cur][r] = Db(lo - 1)[r]
    BY <2>1, <1>6 DEF Covers
  <2>5. Db(n)[r] = Db(lo - 1)[r]
    BY <2>1, <1>4, <1>5, DbKept
  <2> QED BY <2>3, <2>4, <2>5, <1>4
<1>21. ListInv'
  <2>1. \A p \in dirty' : p \in listed'
    BY <1>1
  <2>2. ASSUME NEW r \in Rows, PageOf[r] \notin listed'
        PROVE  /\ stat'[PageOf[r]] # "remove"
               /\ stat'[PageOf[r]] = "init" => img'[anchor'.current][r] = mem'[r] /\ file'[r] = mem'[r]
    <3>1. PageOf[r] \in Pages
      BY RecoveryAssumption
    <3>2. stat'[PageOf[r]] = IF PageOf[r] \in Noted THEN "flush" ELSE "init"
      BY <3>1, <1>1
    <3>3. anchor'.current = cur
      BY <1>1
    <3> QED BY <2>2, <3>2, <3>3, <1>1, <1>9, <1>20
  <2> QED BY <2>1, <2>2 DEF ListInv
<1> QED BY <1>1, <1>2, <1>11, <1>13, <1>14, <1>15, <1>16, <1>17, <1>18, <1>19, <1>21, TypePartsNext DEF RecInv

\* The service begins when everything unfinished is undone.
LEMMA EndRestartStep ==
  ASSUME RecInv, EndRestart
  PROVE  RecInv'
<1> PICK n : n = Len(log)
  OBVIOUS
<1>1. /\ phase = "restart" /\ phase' = "run" /\ \A t \in Trans : status[t] = "idle"
      /\ UNCHANGED <<log, synced, acked, mem, dirty, listed, stat, img, file, anchor, status, first,
                     Fst, undoNxt, owner, wr, ck, history, upd>>
  BY DEF EndRestart, Undone, logVars, pageVars, diskVars, transVars, bounds, Fst
<1>2. /\ TransType /\ DiskType /\ RestartInv /\ LogInv /\ AnchorInv /\ CkTypeOK /\ CkInv /\ MemInv /\ ListInv
      /\ upd \in 0 .. LastUpd
  BY TypeParts DEF RecInv
<1>3. /\ ck = CkIdle
      /\ \A t \in Trans : Fst[t] = NoLSN /\ wr[t] = Idle /\ undoNxt[t] = <<>>
  BY <1>1, <1>2 DEF RestartInv
<1>4. n \in Nat /\ synced \in 1 .. n
  BY RedoLSNIs
<1>5. Quiet(n)
  <2>1. synced' \in synced .. Len(log)
    BY <1>1, <1>4
  <2> QED BY <2>1, <1>1, QuietSame
<1>6. /\ LogInv' /\ Len(history)' = Committed(Len(log))' /\ Longer(n)
      /\ Db(Len(log))' = Db(n) /\ Stack(Len(log))' = Stack(n)
      /\ \A t \in Trans : Pending(Len(log), t)' \subseteq Pending(n, t)
  BY <1>5 DEF Quiet
<1>7. Idle' = Idle /\ CkIdle' = CkIdle
  BY DEF Idle, CkIdle, NoLSN
<1>8. AnchorInv' /\ RedoLSN' = RedoLSN
  BY <1>1, <1>6, AnchorKept
<1>9. TransType' /\ DiskType'
  BY <1>1, <1>2, <1>7 DEF TransType, DiskType
<1>10. undoNxt = Stack(n)
  BY <1>1, <1>2 DEF MemInv
<1>11. MemInv'
  <2>1. \A t \in Trans : \A r \in Rows : ~ Changing(t, r) /\ ~ Changing(t, r)'
    BY <1>1, <1>3 DEF Changing, Idle
  <2>2. \A r \in Rows : mem[r] = Db(n)[r]
    BY <2>1, <1>1, <1>2 DEF MemInv
  <2> QED BY <2>1, <2>2, <1>1, <1>3, <1>6, <1>7, <1>10 DEF MemInv
<1>12. RunInv'
  <2> SUFFICES ASSUME NEW t \in Trans PROVE RunOf(t)'
    BY RunPartsNext
  <2>1. Pending(n, t) = {}
    <3>1. Stack(n)[t] = <<>>
      BY <1>3, <1>10
    <3> QED BY <3>1 DEF Pending
  <2>2. Pending(Len(log), t)' = {}
    BY <2>1, <1>6
  <2> QED BY <2>2, <1>1, <1>3, <1>7 DEF RunOf, NoLSN, Idle
<1>13. RestartInv'
  BY <1>1 DEF RestartInv
<1>14. CkTypeOK' /\ CkInv'
  <2>1. file' = img'[Other']
    BY <1>1, <1>2, <1>3 DEF CkInv, CkIdle, Other
  <2> QED BY <2>1, <1>1, <1>2, <1>3, <1>7 DEF CkTypeOK, CkInv, CkIdle, NoLSN
<1>15. ListInv'
  <2>1. ListInv /\ phase # "down"
    BY <1>1, <1>2
  <2>2. /\ \A r \in Rows : ~ AtWork(r) /\ ~ AtWork(r)'
        /\ \A q : LinkDue(q)' <=> LinkDue(q)
    BY <1>1, <1>3, <1>7 DEF AtWork, LinkDue, PageToMark
  <2>3. Writing' <=> Writing
    BY <1>1 DEF Writing
  <2> QED BY <2>1, <2>2, <2>3, <1>1 DEF ListInv
<1> QED BY <1>1, <1>2, <1>6, <1>8, <1>9, <1>11, <1>12, <1>13, <1>14, <1>15, TypePartsNext DEF RecInv

\* Nothing happens.
LEMMA StutterStep ==
  ASSUME RecInv, UNCHANGED recVars
  PROVE  RecInv'
<1> PICK n : n = Len(log)
  OBVIOUS
<1>1. UNCHANGED <<log, synced, acked, mem, dirty, listed, stat, img, file, anchor, status, first,
                  Fst, undoNxt, owner, wr, ck, phase, history, upd>> /\ UNCHANGED transVars
  BY DEF recVars, pageVars, diskVars, transVars, bounds, Fst
<1>2. TransType /\ DiskType /\ upd \in 0 .. LastUpd
  BY TypeParts DEF RecInv
<1>3. n \in Nat /\ synced \in 1 .. n
  BY RedoLSNIs
<1>4. Quiet(n)
  <2>1. synced' \in synced .. Len(log)
    BY <1>1, <1>3
  <2> QED BY <2>1, <1>1, QuietSame
<1>5. LogInv' /\ Len(history)' = Committed(Len(log))' /\ Longer(n) /\ n <= Len(log')
  BY <1>4 DEF Quiet
<1>6. \A t \in Trans : Fst'[t] \in {Fst[t], NoLSN, n + 1}
  BY <1>1
<1>7. CkTypeOK' /\ CkInv' /\ AnchorInv' /\ RedoLSN' = RedoLSN
  BY <1>1, <1>3, <1>5, <1>6, CkKept
<1>8. phase = "run" => \A t \in Trans : status[t] # "idle" => RedoLSN' <= Fst[t]
  BY <1>7 DEF RecInv, RunInv
<1>9. TransType' /\ MemInv' /\ RunInv' /\ RestartInv'
  BY <1>1, <1>4, <1>8, TransKept
<1>10. DiskType'
  BY <1>1, <1>2 DEF DiskType, Val
<1>11. ListInv'
  <2>1. Writing' <=> Writing
    BY <1>1 DEF Writing
  <2> QED BY <2>1, <1>1, ListKept
<1> QED BY <1>1, <1>2, <1>5, <1>7, <1>9, <1>10, <1>11, TypePartsNext DEF RecInv

\* A new database.
LEMMA InitHolds == RecInit => RecInv
<1> SUFFICES ASSUME RecInit PROVE RecInv
  OBVIOUS
<1> PICK l : l = [op |-> "begin", redo |-> 1]
  OBVIOUS
<1>1. /\ log = <<l>> /\ synced = 1 /\ acked = 0 /\ mem = Zero /\ dirty = {} /\ listed = {}
      /\ stat = [p \in Pages |-> "init"] /\ img = [i \in {0, 1} |-> Zero] /\ file = Zero
      /\ anchor = [current |-> 0, begin |-> 1] /\ status = [t \in Trans |-> "idle"]
      /\ first = [t \in Trans |-> 0] /\ undoNxt = [t \in Trans |-> <<>>]
      /\ owner = [r \in Rows |-> 0] /\ wr = [t \in Trans |-> Idle] /\ ck = CkIdle
      /\ phase = "run" /\ history = <<Zero>> /\ upd = 0
      /\ Fst = [t \in Trans |-> 0]
  BY DEF RecInit, NoLSN, Fst, Idle
<1>2. /\ l \in Record /\ l.op = "begin" /\ l.redo = 1
      /\ Len(log) = 1 /\ log[1] = l /\ log \in Seq(Record)
  <2>1. l \in Record
    BY DEF Record
  <2> QED BY <2>1, <1>1
<1>3. /\ Zero \in [Rows -> Val] /\ \A r \in Rows : Zero[r] = 0
      /\ 0 \in 0 .. LastUpd
  BY ZeroType DEF Zero, Val
<1>4. /\ Stack(0) = [t \in Trans |-> <<>>] /\ Stack(1) = [t \in Trans |-> <<>>]
      /\ \A r \in Rows : Db(0)[r] = 0 /\ Db(1)[r] = 0
  <2>1. /\ Db(0) = Zero /\ Stack(0) = [t \in Trans |-> <<>>] /\ Stack(1) \in [Trans -> Seq(1 .. 1)]
        /\ \A r \in Rows : Db(1)[r] = IF Writes(1, r) THEN log[1].val ELSE Db(0)[r]
        /\ \A t \in Trans : Stack(1)[t] = NextStack(Stack(0)[t], t, 1)
    <3>1. 1 \in 1 .. Len(log) /\ 1 \in 0 .. Len(log) /\ 1 - 1 = 0
      BY <1>2
    <3> QED BY <3>1, <1>2, FullNext
  <2>2. \A t \in Trans : Stack(1)[t] = <<>>
    BY <2>1, <1>2 DEF NextStack
  <2>3. \A r \in Rows : Db(1)[r] = 0
    BY <2>1, <1>2, <1>3 DEF Writes
  <2> QED BY <2>1, <2>2, <2>3, <1>3
<1>5. \A t \in Trans : Pending(0, t) = {} /\ Pending(1, t) = {}
  BY <1>4 DEF Pending
<1>6. Committed(1) = 1
  <2>1. Committed(0) = 1 /\ Committed(0 + 1) = Committed(0) + (IF log[0 + 1].op = "commit" THEN 1 ELSE 0)
    <3>1. 0 \in Nat
      OBVIOUS
    <3> QED BY <3>1, CommittedNext
  <2>2. 0 + 1 = 1
    OBVIOUS
  <2>3. Committed(1) = Committed(0) + (IF log[1].op = "commit" THEN 1 ELSE 0)
    BY <2>1, <2>2, Zenon
  <2> QED BY <2>1, <2>3, <1>2
<1>7. LogInv
  <2>1. \A n \in 1 .. Len(log) : StepOK(n)
    BY <1>2 DEF StepOK
  <2>2. \A n \in 0 .. Len(log) : StackOK(n)
    <3>1. ASSUME NEW n \in {0, 1} PROVE StackOK(n)
      <4>1. \A t \in Trans : Stack(n)[t] = <<>> /\ Pending(n, t) = {}
        BY <1>4, <1>5
      <4> QED BY <4>1 DEF StackOK
    <3>2. \A n \in 0 .. Len(log) : n \in {0, 1}
      BY <1>2
    <3> QED BY <3>1, <3>2
  <2>3. Rolled(Full(1)) = Zero
    <3>1. \A r \in Rows : PendingRow(1, r) = {}
      BY <1>5 DEF PendingRow
    <3>2. \A r \in Rows : Rolled(Full(1))[r] = 0
      BY <3>1, <1>4, RolledRow
    <3> QED BY <3>2, RolledType DEF Zero
  <2>4. history \in Seq([Rows -> Val]) /\ history[1] = Zero
    BY <1>1, <1>3
  <2>5. \A n \in 1 .. Len(log) : n = 1
    BY <1>2
  <2> QED BY <2>1, <2>2, <2>3, <2>4, <2>5, <1>2, <1>6 DEF LogInv
<1>8. TransType
  <2>1. undoNxt \in [Trans -> Seq(1 .. Len(log))]
    BY <1>1
  <2>2. first \in [Trans -> 0 .. Len(log)] /\ Fst \in [Trans -> 0 .. Len(log)]
    BY <1>1, <1>2
  <2> QED BY <2>1, <2>2, <1>1, <1>3 DEF TransType, WrType
<1>9. DiskType
  BY <1>1, <1>2, <1>3 DEF DiskType
<1>10. \A t \in Trans : \A r \in Rows : ~ Changing(t, r)
  BY <1>1 DEF Changing, Idle
<1>11. MemInv
  BY <1>1, <1>2, <1>3, <1>4, <1>10 DEF MemInv
<1>12. RunInv
  BY <1>1, <1>2, <1>5 DEF RunInv, NoLSN, Idle
<1>13. RestartInv
  BY <1>1 DEF RestartInv
<1>14. AnchorInv
  <2>1. RedoLSN = 1
    BY <1>1, <1>2 DEF RedoLSN
  <2>2. \A t \in Trans : NobodyAcross(t, 1, 1)
    BY <1>4 DEF NobodyAcross
  <2>3. \A r \in Rows : Covers(img[anchor.current][r], r, 1, synced)
    BY <1>1, <1>3, <1>4 DEF Covers
  <2>4. \A r \in Rows : Same(r, 1, 1)
    BY <1>1 DEF Same
  <2> QED BY <2>1, <2>2, <2>3, <2>4, <1>1, <1>2 DEF AnchorInv
<1>15. ListInv
  BY <1>1, RecoveryAssumption DEF ListInv
<1>16. CkTypeOK /\ CkInv
  <2>1. file = img[Other]
    BY <1>1 DEF Other
  <2> QED BY <2>1, <1>1 DEF CkTypeOK, CkInv, CkIdle, NoLSN
<1>17. Len(history) = Committed(Len(log))
  BY <1>1, <1>2, <1>6
<1> QED BY <1>1, <1>3, <1>7, <1>8, <1>9, <1>11, <1>12, <1>13, <1>14, <1>15, <1>16, <1>17, TypeParts DEF RecInv

\* What a checkpoint has missed stays missed.
LEMMA MissedGrows == [RecNext]_recVars => missed \subseteq missed'
BY DEF RecNext, recVars, User, Update, SetLstUndoNxtLSN, ChangeRow, InsDirtyPage, TestDirty, SetDirty,
       AddDirtyPage, Undo, Abort, Commit, EndTrans, Checkpoint, CalcRedoLSN, ScanTrans, WriteBeginChkptLog,
       MoveDirtyPages, ClearDirty, WritePage, SyncDB, SwitchImage, UpdateChkpt, Crash, RedoAll, EndRestart

\* Every step of users, of the checkpoint, of a crash and of the restart.
LEMMA NextStep ==
  ASSUME RecInv, [RecNext]_recVars, missed' = {}
  PROVE  RecInv'
<1>1. ASSUME NEW t \in Trans, User(t) PROVE RecInv'
  <2>1. ASSUME NEW r \in Rows, Update(t, r) PROVE RecInv'
    BY <2>1, UpdateStep
  <2>2. CASE ChangeRow(t)
    BY <2>2, ChangeRowStep
  <2>3. CASE InsDirtyPage(t)
    BY <2>3, InsDirtyPageStep
  <2>4. CASE Undo(t)
    BY <2>4, UndoStep
  <2>5. CASE Abort(t)
    BY <2>5, AbortStep
  <2>6. ASSUME NEW wait \in BOOLEAN, Commit(t, wait) PROVE RecInv'
    BY <2>6, CommitStep
  <2>7. CASE SetLstUndoNxtLSN(t)
    BY <2>7, SetLstUndoNxtLSNStep
  <2> QED BY <1>1, <2>1, <2>2, <2>3, <2>4, <2>5, <2>6, <2>7 DEF User
<1>2. ASSUME Checkpoint PROVE RecInv'
  <2>1. CASE CalcRedoLSN
    BY <2>1, CalcRedoLSNStep
  <2>2. ASSUME NEW t \in Trans, ScanTrans(t) PROVE RecInv'
    <3>1. ~ MissesFirst(t)
      BY <2>2 DEF ScanTrans
    <3> QED BY <2>2, <3>1, ScanTransStep
  <2>3. CASE WriteBeginChkptLog
    BY <2>3, WriteBeginChkptLogStep
  <2>4. CASE MoveDirtyPages
    <3>1. ~ MissesPage
      BY <2>4 DEF MoveDirtyPages
    <3> QED BY <2>4, <3>1, MoveDirtyPagesStep
  <2>5. ASSUME NEW p \in Pages, ClearDirty(p) PROVE RecInv'
    BY <2>5, ClearDirtyStep
  <2>6. ASSUME NEW p \in Pages, WritePage(p) PROVE RecInv'
    BY <2>6, WritePageStep
  <2>7. CASE SyncDB
    BY <2>7, SyncDBStep
  <2>8. CASE SwitchImage
    BY <2>8, SwitchImageStep
  <2>9. CASE UpdateChkpt
    BY <2>9, UpdateChkptStep
  <2> QED BY <1>2, <2>1, <2>2, <2>3, <2>4, <2>5, <2>6, <2>7, <2>8, <2>9 DEF Checkpoint
<1>3. CASE Crash
  BY <1>3, CrashStep
<1>4. CASE RedoAll
  BY <1>4, RedoAllStep
<1>5. CASE EndRestart
  BY <1>5, EndRestartStep
<1>6. CASE UNCHANGED recVars
  BY <1>6, StutterStep
<1> QED BY <1>1, <1>2, <1>3, <1>4, <1>5, <1>6 DEF RecNext

-----------------------------------------------------------------------------
(* The theorems.                                                           *)

\* The parts of RecInv hold whatever transactions, checkpoints, crashes and restarts
\* do, one within the other (smrRecoveryMgr, smrChkptThread, smmDirtyPageMgr), until a
\* checkpoint misses a first LSN or a page in one of the two windows.
THEOREM RecoveryInvariance == RecSpec => [](missed = {} => RecInv)
<1>1. RecInit => (missed = {} => RecInv)
  BY InitHolds
<1>2. (missed = {} => RecInv) /\ [RecNext]_recVars => (missed = {} => RecInv)'
  <2> SUFFICES ASSUME missed = {} => RecInv, [RecNext]_recVars, missed' = {} PROVE RecInv'
    OBVIOUS
  <2>1. missed = {}
    BY MissedGrows
  <2> QED BY <2>1, NextStep
<1> QED BY <1>1, <1>2, PTL DEF RecSpec

\* A crash at any moment, whatever is lost of the log behind the last sync: the
\* current image, redone from the redo LSN, with what is unfinished rolled back, is
\* what the rest of the log has committed (chkptCalcRedoLSN, redoAll, undoAll), if no
\* checkpoint has missed a writer.
THEOREM RestartSound == RecSpec => []RecoverySound
<1>1. ASSUME RecInv PROVE RestartsRight
  <2> SUFFICES ASSUME NEW n \in synced .. Len(log)
               PROVE  Rolled(Redone(img[anchor.current], RedoLSN, n)) = history[Committed(n)]
    BY DEF RestartsRight
  <2> PICK lo, b, cur : lo = RedoLSN /\ b = anchor.begin /\ cur = anchor.current
    OBVIOUS
  <2>1. /\ n \in 1 .. Len(log) /\ lo \in 1 .. Len(log) /\ b \in lo - 1 .. Len(log)
        /\ synced \in b .. Len(log) /\ cur \in {0, 1}
    BY <1>1, RedoLSNIs
  <2>2. log \in Seq(Record) /\ \A k \in 1 .. Len(log) : StepOK(k)
    BY <1>1 DEF RecInv, LogInv
  <2>3. /\ \A t \in Trans : NobodyAcross(t, lo, b)
        /\ \A r \in Rows : Covers(img[cur][r], r, lo, synced)
    BY <1>1 DEF RecInv, AnchorInv
  <2>4. img[cur] \in [Rows -> Val]
    BY <1>1, <2>1, TypeParts DEF RecInv, DiskType
  <2>5. Redone(img[cur], lo, n) = Full(n)
    BY <2>1, <2>2, <2>3, <2>4, RedoIsFull
  <2> QED BY <1>1, <2>1, <2>5 DEF RecInv, LogInv
<1>2. (missed = {} => RecInv) => RecoverySound
  BY <1>1 DEF RecoverySound
<1> QED BY <1>2, RecoveryInvariance, PTL

\* What no list will bring to the images is in both of them while no checkpoint is at
\* work: a page leaves the lists after it has been written to each (writeDirtyPages,
\* SMR_LT_DIRTY_PAGE), whatever its flag says.
THEOREM ImagesCovered == RecSpec => []BothImagesCovered
<1>1. ASSUME missed = {} => RecInv PROVE BothImagesCovered
  <2> SUFFICES ASSUME RecInv, phase = "run", ck.pc = "idle", NEW r \in Rows,
                      PageOf[r] \notin listed, PageOf[r] \notin Chain(stat),
                      \A t \in Trans : wr[t] # Idle => PageToMark(t) # PageOf[r],
                      NEW i \in {0, 1}
               PROVE  img[i][r] = mem[r]
    BY <1>1 DEF BothImagesCovered
  <2>1. stat[PageOf[r]] = "init"
    BY RecoveryAssumption DEF Chain
  <2>2. ~ AtWork(r) /\ ~ LinkDue(PageOf[r])
    BY DEF AtWork, LinkDue, PageToMark, Idle
  <2>3. PageOf[r] \notin dirty
    <3>1. ck.todo = {} /\ ListInv /\ phase # "down"
      BY DEF RecInv, CkTypeOK
    <3> QED BY <2>2, <3>1 DEF ListInv
  <2>4. img[anchor.current][r] = mem[r] /\ file[r] = mem[r]
    BY <2>1, <2>2, <2>3 DEF RecInv, ListInv
  <2>5. file = img[Other]
    BY DEF RecInv, CkInv
  <2>6. anchor.current \in {0, 1}
    BY RedoLSNIs
  <2> QED BY <2>4, <2>5, <2>6 DEF Other
<1> QED BY <1>1, RecoveryInvariance, PTL

-----------------------------------------------------------------------------
(* DurableStore.                                                           *)

\* What readers see in service is the last committed state.
LEMMA ShownIsLatest == RecInv /\ phase = "run" => Shown = Latest
<1> SUFFICES ASSUME RecInv, phase = "run" PROVE Shown = Latest
  OBVIOUS
<1> PICK n : n = Len(log)
  OBVIOUS
<1>1. TransType /\ MemInv /\ RunInv /\ LogInv /\ Len(history) = Committed(n)
  BY TypeParts DEF RecInv
<1>2. n \in 1 .. Len(log) /\ n \in Nat
  BY RedoLSNIs
<1>3. Latest = Rolled(Full(n)) /\ Latest = [r \in Rows |-> Latest[r]]
  <2>1. Latest = Rolled(Full(n))
    BY <1>1, <1>2 DEF LogInv, Latest
  <2> QED BY <2>1, RolledType
<1>4. ASSUME NEW r \in Rows, owner[r] = 0 PROVE mem[r] = Latest[r]
  <2>1. \A t \in Trans : ~ Changing(t, r)
    BY <1>1, <1>4, RecoveryAssumption DEF RunInv, Changing, Idle
  <2>2. mem[r] = Db(n)[r]
    BY <2>1, <1>1 DEF MemInv
  <2>3. PendingRow(n, r) = {}
    BY <1>1, <1>4, RecoveryAssumption DEF RunInv, PendingRow
  <2> QED BY <2>2, <2>3, <1>3, RolledRow
<1> QED BY <1>3, <1>4 DEF Shown

\* The same after a step.
LEMMA ShownIsLatestNext == (RecInv /\ phase = "run" => Shown = Latest)'
BY ShownIsLatest, PTL

\* What the store is taken to serve.
View == IF phase = "run" THEN {Shown} ELSE {}

\* A log that only grows keeps the count of what was acknowledged.
LEMMA AckedKept ==
  ASSUME RecInv, RecInv', NEW m, Agree(m), acked <= m, acked' = acked
  PROVE  Committed(acked)' = Committed(acked)
<1> PICK a : a = acked
  OBVIOUS
<1>1. a \in 0 .. m
  BY TypeParts, RedoLSNIs DEF RecInv, DiskType, Agree
<1>2. Committed(a)' = Committed(a)
  BY <1>1, PrefixKept
<1> QED BY <1>2

\* A log that stays or gets a record keeps what was acknowledged.
LEMMA Grown ==
  ASSUME RecInv, RecInv', log' = log \/ \E l : log' = Append(log, l)
  PROVE  Agree(Len(log)) /\ acked <= Len(log) /\ acked \in Nat /\ Len(log) \in Nat
<1>1. log \in Seq(Record) /\ log' \in Seq(Record)
  BY DEF RecInv, LogInv
<1>2. acked \in 0 .. synced /\ synced \in 1 .. Len(log) /\ Len(log) \in Nat
  BY TypeParts, RedoLSNIs DEF RecInv, DiskType
<1>3. CASE log' = log
  BY <1>1, <1>2, <1>3 DEF Agree
<1>4. CASE \E l : log' = Append(log, l)
  <2> PICK l : log' = Append(log, l)
    BY <1>4
  <2>1. Len(log') = Len(log) + 1 /\ \A k \in 1 .. Len(log) : log'[k] = log[k]
    BY <1>1
  <2> QED BY <2>1, <1>1, <1>2 DEF Agree
<1> QED BY <1>3, <1>4

\* A step that commits nothing, in the phase it is in.
LEMMA StoreStutters ==
  ASSUME RecInv, RecInv', history' = history, acked' = acked, phase' = phase \/ {phase, phase'} = {"down", "restart"},
         log' = log \/ \E l : log' = Append(log, l)
  PROVE  UNCHANGED <<history, Committed(acked), View>>
<1>1. Committed(acked)' = Committed(acked)
  BY Grown, AckedKept
<1>2. Latest' = Latest
  BY DEF Latest
<1>3. View' = View
  <2>1. CASE phase = "run"
    BY <2>1, <1>2, ShownIsLatest, ShownIsLatestNext DEF View
  <2>2. CASE phase # "run"
    BY <2>2 DEF View
  <2> QED BY <2>1, <2>2
<1> QED BY <1>1, <1>3

\* A step commits, crashes, ends the restart or is nothing to the users.
LEMMA StepKeepsPromise ==
  ASSUME RecInv, RecInv', [RecNext]_recVars
  PROVE  Store!Next \/ UNCHANGED <<history, Committed(acked), View>>
<1> DEFINE Quietly == /\ history' = history /\ acked' = acked
                      /\ phase' = phase \/ {phase, phase'} = {"down", "restart"}
                      /\ log' = log \/ \E l : log' = Append(log, l)
<1>1. ASSUME Quietly PROVE UNCHANGED <<history, Committed(acked), View>>
  BY <1>1, StoreStutters
<1>2. ASSUME NEW t \in Trans, NEW wait \in BOOLEAN, Commit(t, wait) PROVE Store!Next
  <2> PICK h, a : h = history /\ a = acked
    OBVIOUS
  <2>1. /\ history' = Append(history, Latest') /\ phase = "run" /\ phase' = "run"
        /\ log' = Append(log, [op |-> "commit", tr |-> t])
        /\ acked' = acked \/ acked' = Len(log')
    BY <1>2, CommitStep DEF Commit, EndTrans
  <2>2. history \in Seq([Rows -> Val]) /\ Len(history) \in Nat
    BY DEF RecInv, LogInv
  <2>3. /\ Len(history') = Len(history) + 1 /\ history'[Len(history')] = Latest'
        /\ SubSeq(history', 1, Len(history)) = history
    BY <2>1, <2>2
  <2>4. Committed(acked)' \in {Committed(acked), Len(history')}
    <3>1. CASE acked' = acked
      BY <2>1, <3>1, Grown, AckedKept
    <3>2. CASE acked' = Len(log')
      <4>1. Len(history)' = Committed(Len(log))'
        BY TypePartsNext DEF RecInv
      <4> QED BY <4>1, <3>2
    <3> QED BY <2>1, <3>1, <3>2
  <2>5. View # {} /\ View' = {history'[Len(history')]}
    BY <2>1, <2>3, ShownIsLatestNext DEF View
  <2> QED BY <2>3, <2>4, <2>5 DEF Store!Next, Store!Commit, Store!LatestOf, View
<1>3. ASSUME NEW t \in Trans, User(t) PROVE Store!Next \/ Quietly
  BY <1>2, <1>3 DEF User, Update, Logged, SetLstUndoNxtLSN, ChangeRow, InsDirtyPage, TestDirty, SetDirty,
       AddDirtyPage, Undo, Abort, EndTrans, logVars
<1>4. ASSUME Checkpoint PROVE Quietly
  BY <1>4 DEF Checkpoint, At, CalcRedoLSN, ScanTrans, WriteBeginChkptLog, MoveDirtyPages, ClearDirty, WritePage, SyncDB,
       SwitchImage, UpdateChkpt, logVars
<1>5. ASSUME Crash PROVE Store!Next
  <2>1. PICK n \in 1 .. Len(log) : /\ acked <= n /\ Agree(n) /\ Len(log') = n
                                   /\ history' = SubSeq(history, 1, Committed(n))
                                   /\ Committed(n) \in 1 .. Len(history)
    BY <1>5, CrashStep
  <2>2. acked' = acked /\ phase' = "down"
    BY <1>5 DEF Crash
  <2>3. Committed(acked)' = Committed(acked)
    BY <2>1, <2>2, AckedKept
  <2>4. Committed(acked) <= Committed(n) /\ Committed(acked) \in Nat /\ Len(history) \in Nat
    <3>1. acked \in Nat /\ n \in Nat
      BY <2>1, TypeParts, RedoLSNIs DEF RecInv, DiskType
    <3>2. Len(history) \in Nat
      BY DEF RecInv, LogInv
    <3> QED BY <3>1, <3>2, <2>1, CommittedNext
  <2>5. Committed(n) \in Committed(acked) .. Len(history)
    BY <2>1, <2>4
  <2>6. View' = {}
    BY <2>2 DEF View
  <2> QED BY <2>1, <2>3, <2>5, <2>6 DEF Store!Next, Store!Crash, View
<1>6. ASSUME RedoAll PROVE Quietly
  BY <1>6 DEF RedoAll, logVars
<1>7. ASSUME EndRestart PROVE Store!Next
  <2>1. /\ phase = "restart" /\ phase' = "run" /\ history' = history /\ acked' = acked /\ log' = log
    BY <1>7 DEF EndRestart, logVars
  <2>2. Committed(acked)' = Committed(acked)
    BY <2>1, Grown, AckedKept
  <2>3. View = {} /\ View' = {history[Len(history)]}
    BY <2>1, ShownIsLatestNext DEF View, Latest
  <2> QED BY <2>1, <2>2, <2>3 DEF Store!Next, Store!Restarted, Store!LatestOf, View
<1>8. CASE UNCHANGED recVars
  BY <1>1, <1>8 DEF recVars
<1> HIDE DEF Quietly
<1> QED BY <1>1, <1>3, <1>4, <1>5, <1>6, <1>7, <1>8 DEF RecNext

\* The log, the checkpoints and the restart keep the promise of DurableStore as long as
\* no checkpoint has missed a writer: nothing acknowledged is lost, no state between two
\* commits is ever served.
THEOREM RecoveryImplementsStore == RecSpec => ImplementsDurableStore
<1>1. RecInit => Store!Init
  <2> SUFFICES ASSUME RecInit PROVE Store!Init
    OBVIOUS
  <2>1. RecInv /\ phase = "run" /\ Len(history) = 1 /\ acked = 0
    BY InitHolds DEF RecInit, NoLSN
  <2>2. Shown = history[Len(history)]
    BY <2>1, ShownIsLatest DEF Latest
  <2>3. Committed(acked) = 1
    BY <2>1, CommittedNext
  <2> QED BY <2>1, <2>2, <2>3 DEF Store!Init, Store!LatestOf
<1>2. (missed = {} => RecInv) /\ (missed = {} => RecInv)' /\ [RecNext]_recVars
        => [missed' = {} => Store!Next]_(Store!vars)
  <2> SUFFICES ASSUME missed = {} => RecInv, missed' = {} => RecInv', [RecNext]_recVars, missed' = {}
               PROVE  Store!Next \/ UNCHANGED Store!vars
    OBVIOUS
  <2>1. RecInv /\ RecInv'
    BY MissedGrows
  <2> QED BY <2>1, StepKeepsPromise DEF Store!vars, View
<1> QED BY <1>1, <1>2, RecoveryInvariance, PTL DEF RecSpec, ImplementsDurableStore

\* A step that leaves the begin checkpoint LSN in the anchor and the log before it.
LEMMA RedoStays ==
  ASSUME RecInv, anchor'.begin = anchor.begin,
         log' = log \/ (\E l : log' = Append(log, l)) \/ (\E n \in synced .. Len(log) : log' = SubSeq(log, 1, n))
  PROVE  RedoLSN' = RedoLSN
<1> PICK b : b = anchor.begin
  OBVIOUS
<1>1. log \in Seq(Record) /\ Len(log) \in Nat /\ synced \in 1 .. Len(log) /\ b \in 1 .. synced
  BY RedoLSNIs DEF RecInv, LogInv
<1>2. log'[b] = log[b]
  <2>1. ASSUME NEW n \in synced .. Len(log), log' = SubSeq(log, 1, n) PROVE log'[b] = log[b]
    BY <1>1, <2>1
  <2>2. ASSUME NEW l, log' = Append(log, l) PROVE log'[b] = log[b]
    BY <1>1, <2>2
  <2> QED BY <2>1, <2>2
<1> QED BY <1>2 DEF RedoLSN

\* The redo LSN of the anchor does not go back, over any number of checkpoints, crashes
\* and restarts, until a checkpoint misses a writer: what a checkpoint lets be removed
\* of the log is not asked for again.
THEOREM RedoNeverGoesBack == RecSpec => RedoGoesOn
<1>1. ASSUME RecInv, [RecNext]_recVars PROVE RedoLSN' >= RedoLSN
  <2>0. RedoLSN \in Nat
    BY <1>1, RedoLSNIs
  <2> DEFINE Stays == /\ anchor'.begin = anchor.begin
                      /\ \/ log' = log
                         \/ \E l : log' = Append(log, l)
                         \/ \E n \in synced .. Len(log) : log' = SubSeq(log, 1, n)
  <2>1. ASSUME Stays PROVE RedoLSN' >= RedoLSN
    BY <1>1, <2>0, <2>1, RedoStays
  <2>2. ASSUME NEW t \in Trans, User(t) PROVE Stays
    BY <2>2 DEF User, Update, Logged, SetLstUndoNxtLSN, ChangeRow, InsDirtyPage, TestDirty, SetDirty,
         AddDirtyPage, Undo, Abort, Commit, EndTrans, logVars, diskVars
  <2>3. ASSUME UpdateChkpt PROVE RedoLSN' >= RedoLSN
    <3>1. ck.pc = "anchor" /\ anchor' = [anchor EXCEPT !.begin = ck.begin] /\ log' = log
      BY <2>3 DEF UpdateChkpt, At, logVars
    <3>2. /\ BeginsAt(ck.begin, ck.redo) /\ ck.redo >= RedoLSN
      BY <1>1, <2>0, <3>1, AtCheckpoint DEF RecInv, CkInv
    <3>3. anchor'.begin = ck.begin
      BY <1>1, <3>1, TypeParts DEF RecInv, DiskType
    <3>4. RedoLSN' = ck.redo
      BY <3>1, <3>2, <3>3 DEF RedoLSN, BeginsAt
    <3> QED BY <3>2, <3>4
  <2>4. ASSUME SwitchImage PROVE Stays
    BY <1>1, <2>4, TypeParts DEF SwitchImage, RecInv, DiskType, logVars
  <2>5. ASSUME Checkpoint PROVE Stays \/ UpdateChkpt
    BY <2>4, <2>5 DEF Checkpoint, CalcRedoLSN, ScanTrans, WriteBeginChkptLog, MoveDirtyPages, ClearDirty, WritePage, SyncDB,
         logVars, diskVars
  <2>6. ASSUME Crash PROVE Stays
    BY <2>6 DEF Crash
  <2>7. ASSUME RedoAll \/ EndRestart \/ UNCHANGED recVars PROVE Stays
    BY <2>7 DEF RedoAll, EndRestart, recVars, logVars, diskVars
  <2> HIDE DEF Stays
  <2> QED BY <1>1, <2>1, <2>2, <2>3, <2>5, <2>6, <2>7 DEF RecNext
<1>2. (missed = {} => RecInv) /\ [RecNext]_recVars => [missed' = {} => RedoLSN' >= RedoLSN]_recVars
  BY <1>1, MissedGrows
<1> QED BY <1>2, RecoveryInvariance, PTL DEF RecSpec, RedoGoesOn
=============================================================================
