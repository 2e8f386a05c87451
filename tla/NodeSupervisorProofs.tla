------------------------ MODULE NodeSupervisorProofs ------------------------
(***************************************************************************)
(* Theorems about NodeSupervisor, for any number of callers and processes  *)
(* and any limits of the restarts.  The record of failures is ordered by   *)
(* age and is only ever shortened at its old end, so what is counted in it *)
(* can be compared, age by age, with the attempts that were made.          *)
(***************************************************************************)
EXTENDS NodeSupervisor, FiniteSetTheorems, WellFoundedInduction, TLAPS

-----------------------------------------------------------------------------
(* The inductive invariant.                                                *)

\* The oldest first.
Ordered(ages) == \A i, j \in 1 .. Len(ages) : i < j => ages[i] >= ages[j]

Younger(ages, k) == {i \in 1 .. Len(ages) : ages[i] < k}

\* The processes that still have to be reaped and that no StopNode is about to
\* tell: the attempts that started them came after the last stop, or never count.
Unreaped == {p \in Processes : /\ proc[p] \in {"alive", "gone"}
                               /\ \A c \in Callers : calls[c].p # p}

\* A process that is about to be told is no longer in the record.
ProcessInv ==
    /\ NoProcessIsLost
    /\ \A c \in Callers : calls[c].p # NoProcess => /\ calls[c].at = "tell"
                                                    /\ calls[c].p # lc.process
    /\ \A c \in Callers : calls[c].at = "tell" => calls[c].p # NoProcess

\* At every age: no more attempts are younger than failures, n excepted.
Covers(window, attempts, n) ==
    \A k \in 0 .. Window :
        Cardinality(Younger(attempts, k)) <= Cardinality(Younger(window, k)) + n

\* What was attempted was counted since or still is to be.  A node that is not
\* wanted was not started since the stop.
CountInv ==
    /\ Ordered(lc.window) /\ Ordered(tries)
    /\ ~lc.wanted => tries = <<>>
    /\ Covers(lc.window, tries, Cardinality(Unreaped))

IInv == TypeOK /\ ProcessInv /\ CountInv

-----------------------------------------------------------------------------
(* The ages of failures and attempts.                                      *)

USE SupervisorAssumption

LEMMA Numbers == MaxAttempts \in Nat \ {0} /\ Window \in Nat \ {0} /\ MaxBackoff \in Nat \ {0}
  OBVIOUS

\* Every set of natural numbers that has a member has a least one.
LEMMA LeastExists ==
    ASSUME NEW T, T \subseteq Nat, T # {}
    PROVE  \E x \in T : \A y \in T : x <= y
<1> DEFINE R == OpToRel(<, Nat)
<1>1. IsWellFoundedOn(R, Nat)
  BY NatLessThanWellFounded
<1> HIDE DEF R
<1>2. PICK x \in T : \A y \in T : <<y, x>> \notin R
  BY <1>1, WFMin
<1>3. ASSUME NEW y \in T PROVE x <= y
  <2>1. <<y, x>> \notin R /\ x \in Nat /\ y \in Nat
    BY <1>2
  <2>2. ~(y < x)
    BY <2>1 DEF R, OpToRel
  <2> QED BY <2>1, <2>2
<1> QED BY <1>3

LEMMA FirstRecentIsFirst ==
    ASSUME NEW s \in Seq(0 .. Window)
    PROVE  /\ FirstRecent(s) \in 1 .. Len(s) + 1
           /\ \A j \in 1 .. FirstRecent(s) - 1 : s[j] >= Window
           /\ FirstRecent(s) <= Len(s) => s[FirstRecent(s)] < Window
<1> DEFINE T == {i \in 1 .. Len(s) + 1 : i <= Len(s) => s[i] < Window}
<1>1. Len(s) \in Nat
  OBVIOUS
<1>2. Len(s) + 1 \in T /\ T \subseteq Nat
  BY <1>1
<1>3. PICK x \in T : \A y \in T : x <= y
  BY <1>2, LeastExists
<1>4. ASSUME NEW j \in 1 .. x - 1 PROVE s[j] >= Window
  <2>1. j \in Nat /\ j < x /\ j \notin T /\ j \in 1 .. Len(s)
    BY <1>1, <1>3
  <2>2. ~(s[j] < Window) /\ s[j] \in 0 .. Window
    BY <2>1
  <2> QED BY <2>2
<1>5. /\ x \in 1 .. Len(s) + 1
      /\ \A j \in 1 .. x - 1 : s[j] >= Window
      /\ x <= Len(s) => s[x] < Window
  BY <1>3, <1>4
<1> QED BY <1>5 DEF FirstRecent

\* What pruning keeps: the end of the record, from the first recent failure on.
LEMMA PrunedIsSuffix ==
    ASSUME NEW s \in Seq(0 .. Window)
    PROVE  /\ Pruned(s) \in Seq(0 .. Window)
           /\ Len(Pruned(s)) = Len(s) - FirstRecent(s) + 1
           /\ \A i \in 1 .. Len(Pruned(s)) : /\ i + FirstRecent(s) - 1 \in 1 .. Len(s)
                                             /\ Pruned(s)[i] = s[i + FirstRecent(s) - 1]
<1> DEFINE f == FirstRecent(s)
<1>1. f \in 1 .. Len(s) + 1 /\ Len(s) \in Nat
  BY FirstRecentIsFirst
<1>2. Pruned(s) = SubSeq(s, f, Len(s))
  BY DEF Pruned
<1> HIDE DEF f
<1>3. Len(Pruned(s)) = Len(s) - f + 1
  BY <1>1, <1>2
<1>4. \A i \in 1 .. Len(s) - f + 1 : i + f - 1 \in 1 .. Len(s) /\ Pruned(s)[i] = s[i + f - 1]
  BY <1>1, <1>2
<1>5. Pruned(s) \in Seq(0 .. Window)
  BY <1>1, <1>2
<1> QED BY <1>3, <1>4, <1>5 DEF f

LEMMA PrunedIsRecent ==
    ASSUME NEW s \in Seq(0 .. Window), Ordered(s)
    PROVE  /\ Ordered(Pruned(s))
           /\ \A i \in 1 .. Len(Pruned(s)) : Pruned(s)[i] < Window
           /\ Pruned(s) \in Seq(0 .. Window - 1)
<1> DEFINE f == FirstRecent(s)
           p == Pruned(s)
<1>1. /\ f \in 1 .. Len(s) + 1 /\ Len(s) \in Nat
      /\ f <= Len(s) => s[f] < Window
  BY FirstRecentIsFirst
<1>2. /\ p \in Seq(0 .. Window) /\ Len(p) = Len(s) - f + 1
      /\ \A i \in 1 .. Len(p) : i + f - 1 \in 1 .. Len(s) /\ p[i] = s[i + f - 1]
  BY PrunedIsSuffix
<1> HIDE DEF f, p
<1>3. ASSUME NEW i \in 1 .. Len(p), NEW j \in 1 .. Len(p), i < j PROVE p[i] >= p[j]
  <2>1. i + f - 1 < j + f - 1
    BY <1>1, <1>2, <1>3
  <2> QED BY <1>2, <2>1 DEF Ordered
<1>4. ASSUME NEW i \in 1 .. Len(p) PROVE p[i] < Window
  <2>1. p[i] = s[i + f - 1] /\ i + f - 1 \in 1 .. Len(s)
    BY <1>2
  <2>a. f \in 1 .. Len(s) /\ i + f - 1 \in 1 .. Len(s)
    BY <1>1, <2>1
  <2>2. f \in 1 .. Len(s) /\ s[f] < Window /\ s[f] \in 0 .. Window /\ s[i + f - 1] \in 0 .. Window
    BY <1>1, <2>a
  <2>3. i + f - 1 = f \/ f < i + f - 1
    BY <1>1, <1>2
  <2>4. s[i + f - 1] <= s[f]
    BY <2>1, <2>2, <2>3 DEF Ordered
  <2> QED BY <2>1, <2>2, <2>4, Numbers
<1>5. p \in Seq(0 .. Window - 1)
  <2>1. \A i \in 1 .. Len(p) : p[i] \in 0 .. Window - 1
    BY <1>2, <1>4, Numbers
  <2> QED BY <1>2, <2>1
<1> QED BY <1>3, <1>4, <1>5 DEF p, Ordered

LEMMA YoungerIsFinite ==
    ASSUME NEW s \in Seq(0 .. Window), NEW k
    PROVE  IsFiniteSet(Younger(s, k)) /\ Cardinality(Younger(s, k)) \in Nat
<1>1. Len(s) \in Nat /\ IsFiniteSet(1 .. Len(s))
  BY FS_Interval
<1>2. Younger(s, k) \in SUBSET (1 .. Len(s))
  BY DEF Younger
<1> QED BY <1>1, <1>2, FS_Subset, FS_CardinalityType

\* Pruning loses no failure of the window.
LEMMA PrunedKeepsYounger ==
    ASSUME NEW s \in Seq(0 .. Window), NEW k \in 0 .. Window
    PROVE  Cardinality(Younger(Pruned(s), k)) = Cardinality(Younger(s, k))
<1> DEFINE f == FirstRecent(s)
           p == Pruned(s)
           S == Younger(p, k)
           T == Younger(s, k)
           shift == [i \in S |-> i + f - 1]
<1>1. /\ f \in 1 .. Len(s) + 1 /\ Len(s) \in Nat
      /\ \A j \in 1 .. f - 1 : s[j] >= Window
  BY FirstRecentIsFirst
<1>2. /\ p \in Seq(0 .. Window) /\ Len(p) = Len(s) - f + 1
      /\ \A i \in 1 .. Len(p) : i + f - 1 \in 1 .. Len(s) /\ p[i] = s[i + f - 1]
  BY PrunedIsSuffix
<1>3. IsFiniteSet(S)
  BY <1>2, YoungerIsFinite
<1>4. S = {i \in 1 .. Len(p) : p[i] < k} /\ T = {i \in 1 .. Len(s) : s[i] < k}
  BY DEF Younger
<1> HIDE DEF f, p, S, T
<1>5. shift \in [S -> T]
  BY <1>2, <1>4
<1>6. \A i, j \in S : shift[i] = shift[j] => i = j
  BY <1>1, <1>2, <1>4
<1>7. ASSUME NEW t \in T PROVE \E i \in S : shift[i] = t
  <2>1. t \in 1 .. Len(s) /\ s[t] < k /\ s[t] \in 0 .. Window
    BY <1>4
  <2>2. ~(s[t] >= Window)
    BY <2>1, Numbers
  <2>3. t >= f
    BY <1>1, <2>1, <2>2
  <2>4. t - f + 1 \in 1 .. Len(p) /\ t - f + 1 + f - 1 = t
    BY <1>1, <1>2, <2>1, <2>3
  <2>5. t - f + 1 \in S
    BY <1>2, <1>4, <2>1, <2>4
  <2> QED BY <2>4, <2>5
<1> HIDE DEF shift
<1>8. shift \in Bijection(S, T)
  BY <1>5, <1>6, <1>7 DEF Bijection, Injection, Surjection, IsInjective
<1>9. ExistsBijection(S, T)
  BY <1>8 DEF ExistsBijection
<1> QED BY <1>3, <1>9, FS_Bijection DEF S, T, p

\* One more failure, or attempt, is one more at every age.
LEMMA AppendedIsYoungest ==
    ASSUME NEW s \in Seq(0 .. Window), NEW k \in 0 .. Window
    PROVE  /\ Append(s, 0) \in Seq(0 .. Window)
           /\ Ordered(s) => Ordered(Append(s, 0))
           /\ Cardinality(Younger(Append(s, 0), k)) =
                  Cardinality(Younger(s, k)) + (IF k = 0 THEN 0 ELSE 1)
<1> DEFINE a == Append(s, 0)
<1>1. /\ Len(s) \in Nat /\ Len(a) = Len(s) + 1 /\ a[Len(s) + 1] = 0
      /\ \A i \in 1 .. Len(s) : a[i] = s[i] /\ s[i] \in 0 .. Window
      /\ a \in Seq(0 .. Window)
  BY Numbers
<1> HIDE DEF a
<1>2. Ordered(s) => Ordered(a)
  <2> SUFFICES ASSUME Ordered(s), NEW i \in 1 .. Len(a), NEW j \in 1 .. Len(a), i < j
               PROVE  a[i] >= a[j]
    BY DEF Ordered
  <2>1. i \in 1 .. Len(s) /\ a[i] = s[i] /\ s[i] \in 0 .. Window
    BY <1>1
  <2>2. CASE j = Len(s) + 1
    BY <1>1, <2>1, <2>2
  <2>3. CASE j \in 1 .. Len(s)
    BY <1>1, <2>1, <2>3 DEF Ordered
  <2> QED BY <1>1, <2>2, <2>3
<1>3. CASE k = 0
  <2>1. Younger(a, 0) = {} /\ Younger(s, 0) = {}
    <3>1. \A i \in 1 .. Len(a) : a[i] \in 0 .. Window
      BY <1>1
    <3>2. \A x \in 0 .. Window : ~(x < 0)
      BY Numbers
    <3>3. Younger(a, 0) = {}
      BY <3>1, <3>2 DEF Younger
    <3>4. Younger(s, 0) = {}
      BY <1>1, <3>2 DEF Younger
    <3> QED BY <3>3, <3>4
  <2>2. Cardinality(Younger(a, k)) = 0 /\ Cardinality(Younger(s, k)) = 0
    BY <1>3, <2>1, FS_EmptySet
  <2> QED BY <1>1, <1>2, <1>3, <2>2 DEF a
<1>4. CASE k # 0
  <2>1. 0 < k
    BY <1>4
  <2>2. Younger(a, k) = Younger(s, k) \cup {Len(s) + 1}
    BY <1>1, <2>1 DEF Younger
  <2>3. Len(s) + 1 \notin Younger(s, k)
    BY <1>1 DEF Younger
  <2>4. Cardinality(Younger(a, k)) = Cardinality(Younger(s, k)) + 1
    BY <2>2, <2>3, YoungerIsFinite, FS_AddElement
  <2> QED BY <1>1, <1>2, <1>4, <2>4 DEF a
<1> QED BY <1>3, <1>4

\* A tick moves every failure and every attempt up by one age.
LEMMA AgedIsOlder ==
    ASSUME NEW s \in Seq(0 .. Window), NEW k \in 0 .. Window
    PROVE  /\ Aged(s) \in Seq(0 .. Window)
           /\ Ordered(s) => Ordered(Aged(s))
           /\ Younger(Aged(s), k) = IF k = 0 THEN {} ELSE Younger(s, k - 1)
<1> DEFINE a == Aged(s)
<1>1. /\ Len(s) \in Nat /\ DOMAIN s = 1 .. Len(s)
      /\ \A i \in 1 .. Len(s) : s[i] \in 0 .. Window
  OBVIOUS
<1>2. a = [i \in 1 .. Len(s) |-> Older(s[i])]
  BY <1>1 DEF Aged
<1>3. \A x \in 0 .. Window : /\ Older(x) \in 0 .. Window
                             /\ \A y \in 0 .. Window : x >= y => Older(x) >= Older(y)
                             /\ k # 0 => (Older(x) < k <=> x < k - 1)
                             /\ ~(Older(x) < 0)
  BY Numbers DEF Older, Least
<1>4. a \in Seq(0 .. Window) /\ Len(a) = Len(s)
  BY <1>1, <1>2, <1>3
<1>5. \A i \in 1 .. Len(s) : a[i] = Older(s[i])
  BY <1>2
<1> HIDE DEF a
<1>6. Ordered(s) => Ordered(a)
  BY <1>1, <1>3, <1>4, <1>5 DEF Ordered
<1>7. Younger(a, k) = IF k = 0 THEN {} ELSE Younger(s, k - 1)
  BY <1>1, <1>3, <1>4, <1>5 DEF Younger
<1> QED BY <1>4, <1>6, <1>7 DEF a

\* What the steps of the node do to the count.
LEMMA NothingIsCovered ==
    ASSUME NEW w \in Seq(0 .. Window), NEW n \in Nat
    PROVE  Covers(w, <<>>, n) /\ Ordered(<<>>)
<1>1. \A k : Younger(<<>>, k) = {}
  BY DEF Younger
<1>2. \A k : Cardinality(Younger(<<>>, k)) = 0
  BY <1>1, FS_EmptySet
<1> QED BY <1>2, YoungerIsFinite DEF Covers, Ordered

LEMMA CountMoves ==
    ASSUME NEW w \in Seq(0 .. Window), NEW t \in Seq(0 .. Window), NEW n \in Nat, Covers(w, t, n)
    PROVE  /\ Covers(Pruned(w), t, n)
           /\ Covers(Append(w, 0), Append(t, 0), n)
           /\ Covers(w, Append(t, 0), n + 1)
           /\ \A m \in Nat : n <= m => Covers(w, t, m)
           /\ \A m \in Nat : n <= m + 1 => Covers(Append(w, 0), t, m)
<1> SUFFICES ASSUME NEW k \in 0 .. Window
             PROVE  /\ Cardinality(Younger(t, k)) <= Cardinality(Younger(Pruned(w), k)) + n
                    /\ Cardinality(Younger(Append(t, 0), k)) <= Cardinality(Younger(Append(w, 0), k)) + n
                    /\ Cardinality(Younger(Append(t, 0), k)) <= Cardinality(Younger(w, k)) + (n + 1)
                    /\ \A m \in Nat : n <= m =>
                           Cardinality(Younger(t, k)) <= Cardinality(Younger(w, k)) + m
                    /\ \A m \in Nat : n <= m + 1 =>
                           Cardinality(Younger(t, k)) <= Cardinality(Younger(Append(w, 0), k)) + m
  BY DEF Covers
<1> DEFINE yt == Cardinality(Younger(t, k))
           yw == Cardinality(Younger(w, k))
           yta == Cardinality(Younger(Append(t, 0), k))
           ywa == Cardinality(Younger(Append(w, 0), k))
           ywp == Cardinality(Younger(Pruned(w), k))
<1>1. yt \in Nat /\ yw \in Nat
  BY YoungerIsFinite
<1>2. yt <= yw + n
  BY DEF Covers
<1>3. yta = yt + (IF k = 0 THEN 0 ELSE 1) /\ ywa = yw + (IF k = 0 THEN 0 ELSE 1)
  BY AppendedIsYoungest
<1>4. ywp = yw
  BY PrunedKeepsYounger
<1>5. k = 0 => yt = 0 /\ yw = 0
  <2>1. k = 0 => Younger(t, k) = {} /\ Younger(w, k) = {}
    BY DEF Younger
  <2> QED BY <2>1, FS_EmptySet
<1> HIDE DEF yt, yw, yta, ywa, ywp
<1>6. /\ yt <= ywp + n
      /\ yta <= ywa + n
      /\ yta <= yw + (n + 1)
      /\ \A m \in Nat : n <= m => yt <= yw + m
      /\ \A m \in Nat : n <= m + 1 => yt <= ywa + m
  BY <1>1, <1>2, <1>3, <1>4, <1>5
<1> QED BY <1>6 DEF yt, yw, yta, ywa, ywp

LEMMA TickKeepsCount ==
    ASSUME NEW w \in Seq(0 .. Window), NEW t \in Seq(0 .. Window), NEW n \in Nat,
           Ordered(t), Covers(w, t, n)
    PROVE  Covers(Aged(w), Pruned(Aged(t)), n)
<1> SUFFICES ASSUME NEW k \in 0 .. Window
             PROVE  Cardinality(Younger(Pruned(Aged(t)), k)) <= Cardinality(Younger(Aged(w), k)) + n
  BY DEF Covers
<1>1. Aged(t) \in Seq(0 .. Window) /\ Aged(w) \in Seq(0 .. Window)
  BY AgedIsOlder
<1>2. Cardinality(Younger(Pruned(Aged(t)), k)) = Cardinality(Younger(Aged(t), k))
  BY <1>1, PrunedKeepsYounger
<1>3. CASE k = 0
  <2>1. Younger(Aged(t), k) = {} /\ Younger(Aged(w), k) = {}
    BY <1>3, AgedIsOlder
  <2>2. Cardinality(Younger(Aged(t), k)) = 0 /\ Cardinality(Younger(Aged(w), k)) = 0
    BY <2>1, FS_EmptySet
  <2> QED BY <1>2, <2>2
<1>4. CASE k # 0
  <2>1. Younger(Aged(t), k) = Younger(t, k - 1) /\ Younger(Aged(w), k) = Younger(w, k - 1)
    BY <1>4, AgedIsOlder
  <2>2. k - 1 \in 0 .. Window
    BY <1>4, Numbers
  <2>3. Cardinality(Younger(t, k - 1)) <= Cardinality(Younger(w, k - 1)) + n
    BY <2>2 DEF Covers
  <2> QED BY <1>2, <2>1, <2>3
<1> QED BY <1>3, <1>4

-----------------------------------------------------------------------------
(* The steps.                                                              *)

Lifecycles == [wanted : BOOLEAN, process : Processes \cup {NoProcess},
               window : Seq(0 .. Window), wait : 0 .. MaxBackoff,
               reason : {"none", "hard", "transient", "backoff"}]

CallRecords == [at : {"idle", "asked", "tell", "start"}, op : Operations \cup {"none"},
                p : Processes \cup {NoProcess}]

\* No call takes up or drops the process it is to tell.
NoneTold == /\ calls' \in [Callers -> CallRecords]
            /\ \A c \in Callers : /\ calls'[c].p = calls[c].p
                                  /\ calls'[c].at = "tell" <=> calls[c].at = "tell"

LEMMA WellTyped ==
    ASSUME IInv
    PROVE  /\ lc \in Lifecycles /\ lc.window \in Seq(0 .. Window) /\ lc.wait \in 0 .. MaxBackoff
           /\ lc.process \in Processes \cup {NoProcess} /\ lc.wanted \in BOOLEAN
           /\ proc \in [Processes -> Stages]
           /\ calls \in [Callers -> CallRecords]
           /\ tries \in Seq(0 .. Window - 1) /\ tries \in Seq(0 .. Window)
           /\ due \in BOOLEAN /\ looked \in BOOLEAN
<1>1. /\ lc \in Lifecycles /\ proc \in [Processes -> Stages] /\ calls \in [Callers -> CallRecords]
      /\ tries \in Seq(0 .. Window - 1) /\ due \in BOOLEAN /\ looked \in BOOLEAN
  BY DEF IInv, TypeOK, Lifecycles, CallRecords
<1>2. tries \in Seq(0 .. Window)
  <2>1. 0 .. Window - 1 \subseteq 0 .. Window
    BY Numbers
  <2> QED BY <1>1, <2>1
<1> QED BY <1>1, <1>2 DEF Lifecycles

LEMMA UnreapedIsFinite == IsFiniteSet(Unreaped) /\ Cardinality(Unreaped) \in Nat
<1>1. Unreaped \in SUBSET Processes
  BY DEF Unreaped
<1> QED BY <1>1, FS_Subset, FS_CardinalityType

\* The record and the attempts after a step, put together.
LEMMA RecordKeepsInv ==
    ASSUME IInv, NEW l \in Lifecycles, lc' = l, proc' = proc,
           l.process = lc.process,
           tries' \in Seq(0 .. Window - 1), Ordered(tries'), Ordered(l.window),
           l.wanted \/ tries' = <<>>,
           Covers(l.window, tries', Cardinality(Unreaped)),
           NoneTold, due' \in BOOLEAN, looked' \in BOOLEAN
    PROVE  IInv'
<1>1. TypeOK'
  BY DEF IInv, TypeOK, Lifecycles, CallRecords, NoneTold
<1>2. ProcessInv'
  BY DEF IInv, ProcessInv, NoProcessIsLost, NoneTold
<1>3. Unreaped' = Unreaped
  BY DEF Unreaped, NoneTold
<1>4. CountInv'
  BY <1>3 DEF CountInv
<1> QED BY <1>1, <1>2, <1>4 DEF IInv

\* A start that is made, whoever makes it.
LEMMA AttemptKeepsInv ==
    ASSUME IInv, NEW blocks \in BOOLEAN, AttemptStart([lc EXCEPT !.wanted = TRUE], blocks),
           NoneTold, due' \in BOOLEAN, looked' \in BOOLEAN
    PROVE  IInv'
<1> DEFINE l == [lc EXCEPT !.wanted = TRUE]
           window == Pruned(l.window)
           seen == [l EXCEPT !.window = window]
           n == Cardinality(Unreaped)
<1>1. /\ l \in Lifecycles /\ l.wanted /\ l.process = lc.process /\ l.window = lc.window
      /\ l.wait = lc.wait
  BY WellTyped DEF Lifecycles
<1>2. /\ window \in Seq(0 .. Window) /\ Ordered(window) /\ Covers(window, tries, n)
      /\ n \in Nat
  BY <1>1, WellTyped, UnreapedIsFinite, PrunedIsSuffix, PrunedIsRecent, CountMoves
     DEF IInv, CountInv
<1>3. /\ Ordered(l.window) /\ Covers(l.window, tries, n) /\ Ordered(tries)
      /\ tries \in Seq(0 .. Window - 1) /\ tries \in Seq(0 .. Window)
  BY <1>1, WellTyped DEF IInv, CountInv
<1>4. \/ MayLookAlive /\ lc' = l /\ UNCHANGED <<proc, tries>>
      \/ /\ MayLookDead
         /\ \/ lc' = [seen EXCEPT !.reason = "hard"] /\ UNCHANGED <<proc, tries>>
            \/ lc' = [seen EXCEPT !.reason = "backoff"] /\ UNCHANGED <<proc, tries>>
            \/ lc' = seen /\ UNCHANGED <<proc, tries>>
            \/ /\ Len(window) < MaxAttempts
               /\ lc' = Failed(l, window) /\ tries' = Append(tries, 0) /\ UNCHANGED proc
            \/ \E p \in Unused : Started(seen, p)
  BY DEF AttemptStart
<1> HIDE DEF l, window, n
<1>5. /\ seen \in Lifecycles /\ seen.wanted /\ seen.process = lc.process /\ seen.window = window
  BY <1>1, <1>2 DEF Lifecycles
<1>6. CASE lc' = l /\ UNCHANGED <<proc, tries>>
  BY <1>1, <1>3, <1>6, RecordKeepsInv DEF n
<1> HIDE DEF seen
<1>7. ASSUME NEW r \in {"hard", "backoff"}, lc' = [seen EXCEPT !.reason = r],
             UNCHANGED <<proc, tries>>
      PROVE  IInv'
  <2> DEFINE x == [seen EXCEPT !.reason = r]
  <2>1. x \in Lifecycles /\ x.wanted /\ x.process = lc.process /\ x.window = window
    BY <1>5 DEF Lifecycles
  <2> HIDE DEF x
  <2> QED BY <1>2, <1>3, <1>7, <2>1, RecordKeepsInv DEF x, n
<1>8. CASE lc' = seen /\ UNCHANGED <<proc, tries>>
  BY <1>2, <1>3, <1>5, <1>8, RecordKeepsInv DEF n
<1>9. CASE /\ Len(window) < MaxAttempts
           /\ lc' = Failed(l, window) /\ tries' = Append(tries, 0) /\ UNCHANGED proc
  <2> DEFINE x == Failed(l, window)
  <2>1. Len(window) + 1 \in 1 .. MaxAttempts
    BY <1>2, <1>9, Numbers
  <2>2. Backoff(Len(window) + 1) \in 0 .. MaxBackoff
    BY <2>1, BackoffIsCapped
  <2>3. Append(window, 0) \in Seq(0 .. Window) /\ Ordered(Append(window, 0))
    BY <1>2, Numbers, AppendedIsYoungest
  <2>4. x \in Lifecycles /\ x.wanted /\ x.process = lc.process /\ x.window = Append(window, 0)
    BY <1>1, <2>2, <2>3 DEF Failed, Lifecycles
  <2> HIDE DEF x
  <2>5. tries' \in Seq(0 .. Window - 1) /\ Ordered(tries')
    BY <1>3, <1>9, Numbers, AppendedIsYoungest
  <2>6. Covers(x.window, tries', n)
    BY <1>2, <1>3, <1>9, <2>4, CountMoves
  <2> QED BY <1>9, <2>3, <2>4, <2>5, <2>6, RecordKeepsInv DEF x, n
<1>10. ASSUME MayLookDead, NEW p \in Unused, Started(seen, p) PROVE IInv'
  <2> DEFINE x == [seen EXCEPT !.process = p, !.wait = 0, !.reason = "none"]
  <2>1. p \in Processes /\ proc[p] = "free" /\ \A c \in Callers : calls[c].p # p
    BY DEF Unused
  <2>a. 0 \in 0 .. MaxBackoff
    BY Numbers
  <2>2. x \in Lifecycles /\ x.wanted /\ x.process = p /\ x.window = window
    BY <1>5, <2>1, <2>a DEF Lifecycles
  <2>3. lc' = x /\ proc' = [proc EXCEPT ![p] = "alive"] /\ tries' = Append(tries, 0)
    BY <1>10 DEF Started
  <2> HIDE DEF x
  <2>4. proc' \in [Processes -> Stages] /\ proc'[p] = "alive"
        /\ \A q \in Processes : q # p => proc'[q] = proc[q]
    BY <2>1, <2>3, WellTyped DEF Stages
  <2>5. tries' \in Seq(0 .. Window - 1) /\ Ordered(tries')
    BY <1>3, <2>3, Numbers, AppendedIsYoungest
  <2>6. TypeOK'
    BY <2>1, <2>2, <2>3, <2>4, <2>5 DEF TypeOK, Lifecycles, CallRecords, NoneTold
  <2>7. ProcessInv'
    <3>1. p # NoProcess
      BY <2>1
    <3>2. ASSUME NEW q \in Processes, proc'[q] = "alive"
          PROVE  lc'.process = q \/ \E c \in Callers : calls'[c].p = q
      <4>1. CASE q = p
        BY <2>2, <2>3, <4>1
      <4>2. CASE q # p
        <5>1. proc[q] = "alive" /\ lc.process # q
          BY <2>4, <3>2, <4>2, <1>10 DEF MayLookDead, MayLookAlive
        <5> QED BY <5>1 DEF IInv, ProcessInv, NoProcessIsLost, NoneTold
      <4> QED BY <4>1, <4>2
    <3> QED BY <2>1, <2>2, <2>3, <3>1, <3>2 DEF IInv, ProcessInv, NoProcessIsLost, NoneTold
  <2>8. Unreaped' = Unreaped \cup {p} /\ p \notin Unreaped
    BY <2>1, <2>4 DEF Unreaped, NoneTold
  <2>9. Cardinality(Unreaped') = n + 1
    BY <2>8, UnreapedIsFinite, FS_AddElement DEF n
  <2>10. Covers(window, tries', n + 1)
    BY <1>2, <1>3, <2>3, CountMoves
  <2>11. CountInv'
    BY <1>2, <2>2, <2>3, <2>5, <2>9, <2>10 DEF CountInv
  <2> QED BY <2>6, <2>7, <2>11 DEF IInv
<1> QED BY <1>4, <1>6, <1>7, <1>8, <1>9, <1>10

\* A stop, and a restart of the core, leave a blank record and no attempt.
LEMMA BlankIsTyped ==
    /\ Blank \in Lifecycles /\ Blank.process = NoProcess /\ ~Blank.wanted /\ Blank.window = <<>>
    /\ <<>> \in Seq(0 .. Window) /\ <<>> \in Seq(0 .. Window - 1)
    /\ Idle \in CallRecords /\ Idle.p = NoProcess /\ Idle.at = "idle"
<1>1. 0 \in 0 .. MaxBackoff
  BY Numbers
<1> QED BY <1>1 DEF Blank, Lifecycles, Idle, CallRecords

LEMMA BlankKeepsCount ==
    ASSUME lc' = Blank, tries' = <<>>, IsFiniteSet(Unreaped')
    PROVE  CountInv'
<1>1. Cardinality(Unreaped') \in Nat
  BY FS_CardinalityType
<1>2. Covers(<<>>, <<>>, Cardinality(Unreaped')) /\ Ordered(<<>>)
  BY <1>1, BlankIsTyped, NothingIsCovered
<1> QED BY <1>2, BlankIsTyped DEF CountInv

LEMMA UnreapedStaysFinite == IsFiniteSet(Unreaped')
<1>1. Unreaped' \in SUBSET Processes
  BY DEF Unreaped
<1> QED BY <1>1, FS_Subset

\* A call that waits, is lost or is done, with the processes it tells unchanged.
LEMMA CallKeepsInv ==
    ASSUME IInv, NoneTold, UNCHANGED <<lc, proc, due, looked, tries>>
    PROVE  IInv'
<1>1. /\ lc \in Lifecycles /\ tries \in Seq(0 .. Window - 1) /\ due \in BOOLEAN /\ looked \in BOOLEAN
  BY WellTyped
<1>2. /\ Ordered(tries) /\ Ordered(lc.window) /\ (lc.wanted \/ tries = <<>>)
      /\ Covers(lc.window, tries, Cardinality(Unreaped))
  BY DEF IInv, CountInv
<1>3. /\ lc' = lc /\ proc' = proc /\ tries' = tries /\ due' \in BOOLEAN /\ looked' \in BOOLEAN
  BY <1>1
<1>4. tries' \in Seq(0 .. Window - 1) /\ Ordered(tries') /\ (lc.wanted \/ tries' = <<>>)
      /\ Covers(lc.window, tries', Cardinality(Unreaped))
  BY <1>1, <1>2, <1>3
<1> QED BY <1>1, <1>2, <1>3, <1>4, RecordKeepsInv

LEMMA OneCallUntold ==
    ASSUME IInv, NEW c \in Callers, NEW r \in CallRecords, r.p = NoProcess, r.at # "tell",
           calls[c].at # "tell", calls' = [calls EXCEPT ![c] = r]
    PROVE  NoneTold
<1>1. calls \in [Callers -> CallRecords]
  BY WellTyped
<1>2. calls[c].p = NoProcess
  BY DEF IInv, ProcessInv
<1> QED BY <1>1, <1>2 DEF NoneTold

LEMMA AskKeepsInv ==
    ASSUME IInv, NEW c \in Callers, NEW op \in Operations, Ask(c, op)
    PROVE  IInv'
<1> DEFINE r == [Idle EXCEPT !.at = "asked", !.op = op]
<1>1. r \in CallRecords /\ r.p = NoProcess /\ r.at # "tell"
  BY BlankIsTyped DEF CallRecords
<1>2. calls[c].at # "tell" /\ calls' = [calls EXCEPT ![c] = r]
      /\ UNCHANGED <<lc, proc, due, looked, tries>>
  BY DEF Ask
<1> HIDE DEF r
<1> QED BY <1>1, <1>2, OneCallUntold, CallKeepsInv

LEMMA LoseKeepsInv ==
    ASSUME IInv, NEW c \in Callers, Lose(c)
    PROVE  IInv'
<1>1. NoneTold
  BY BlankIsTyped, OneCallUntold DEF Lose
<1> QED BY <1>1, CallKeepsInv DEF Lose

LEMMA StartNodeKeepsInv ==
    ASSUME IInv, NEW c \in Callers, StartNode(c)
    PROVE  IInv'
<1>1. NoneTold
  BY BlankIsTyped, OneCallUntold DEF StartNode
<1>2. due' \in BOOLEAN /\ looked' \in BOOLEAN /\ UNCHANGED <<due, looked>>
  BY WellTyped DEF StartNode
<1>3. CASE AttemptStart([lc EXCEPT !.wanted = TRUE], TRUE)
  BY <1>1, <1>2, <1>3, AttemptKeepsInv
<1>4. CASE UNCHANGED <<lc, proc, tries>>
  BY <1>1, <1>2, <1>4, CallKeepsInv
<1> QED BY <1>3, <1>4 DEF StartNode

LEMMA AfterStopIsUntold ==
    ASSUME IInv, NEW c \in Callers
    PROVE  /\ AfterStop(c) \in CallRecords
           /\ AfterStop(c).p = NoProcess /\ AfterStop(c).at # "tell"
<1> DEFINE r == [Idle EXCEPT !.at = "start"]
<1>1. r \in CallRecords /\ r.p = NoProcess /\ r.at = "start"
  BY BlankIsTyped DEF CallRecords
<1>2. AfterStop(c) = IF calls[c].op = "restart" THEN r ELSE Idle
  BY DEF AfterStop
<1> HIDE DEF r
<1> QED BY <1>1, <1>2, BlankIsTyped

\* A stop lets go of the process and is about to tell it.
LEMMA StopNodeKeepsInv ==
    ASSUME IInv, NEW c \in Callers, StopNode(c)
    PROVE  IInv'
<1> DEFINE told == [calls[c] EXCEPT !.at = "tell", !.p = lc.process]
           r == IF lc.process = NoProcess THEN AfterStop(c) ELSE told
<1>1. /\ lc' = Blank /\ tries' = <<>> /\ UNCHANGED <<proc, due, looked>>
      /\ calls[c].at = "asked" /\ calls' = [calls EXCEPT ![c] = r]
  BY DEF StopNode
<1>2. /\ calls \in [Callers -> CallRecords] /\ lc.process \in Processes \cup {NoProcess}
      /\ calls[c].p = NoProcess
  BY <1>1, WellTyped DEF IInv, ProcessInv
<1>3. told \in CallRecords /\ told.at = "tell" /\ told.p = lc.process
  BY <1>2 DEF CallRecords
<1> HIDE DEF told
<1>4. /\ r \in CallRecords /\ r.p = lc.process
      /\ r.at = "tell" <=> lc.process # NoProcess
  BY <1>3, AfterStopIsUntold
<1> HIDE DEF r
<1>5. calls' \in [Callers -> CallRecords] /\ calls'[c] = r
      /\ \A d \in Callers : d # c => calls'[d] = calls[d]
  BY <1>1, <1>2, <1>4
<1>6. TypeOK'
  BY <1>1, <1>5, BlankIsTyped, WellTyped DEF TypeOK, Lifecycles, CallRecords
<1>7. ProcessInv'
  <2>1. \A d \in Callers : /\ calls'[d].p # NoProcess => calls'[d].at = "tell"
                           /\ calls'[d].at = "tell" => calls'[d].p # NoProcess
    BY <1>4, <1>5 DEF IInv, ProcessInv
  <2>2. ASSUME NEW q \in Processes, proc'[q] = "alive" PROVE \E d \in Callers : calls'[d].p = q
    <3>1. CASE lc.process = q
      BY <1>4, <1>5, <3>1
    <3>2. CASE lc.process # q
      <4>1. PICK d \in Callers : calls[d].p = q
        BY <1>1, <2>2, <3>2 DEF IInv, ProcessInv, NoProcessIsLost
      <4>2. d # c
        BY <1>2, <4>1
      <4> QED BY <1>5, <4>1, <4>2
    <3> QED BY <3>1, <3>2
  <2> QED BY <1>1, <2>1, <2>2, BlankIsTyped DEF ProcessInv, NoProcessIsLost
<1>8. CountInv'
  BY <1>1, UnreapedStaysFinite, BlankKeepsCount
<1> QED BY <1>6, <1>7, <1>8 DEF IInv

\* The process that is told was let go of before, so the count does not miss it.
LEMMA SignalNodeKeepsInv ==
    ASSUME IInv, NEW c \in Callers, SignalNode(c)
    PROVE  IInv'
<1> DEFINE p == calls[c].p
           n == Cardinality(Unreaped)
<1>1. /\ calls[c].at = "tell" /\ UNCHANGED <<lc, due, looked, tries>>
      /\ proc' = [proc EXCEPT ![p] = IF @ = "alive" THEN "told" ELSE @]
      /\ calls' = [calls EXCEPT ![c] = AfterStop(c)]
  BY DEF SignalNode
<1>2. /\ calls \in [Callers -> CallRecords] /\ proc \in [Processes -> Stages]
      /\ p \in Processes /\ p # lc.process /\ p # NoProcess
  BY <1>1, WellTyped DEF IInv, ProcessInv, CallRecords
<1> HIDE DEF p
<1>3. /\ calls' \in [Callers -> CallRecords] /\ calls'[c].p = NoProcess /\ calls'[c].at # "tell"
      /\ \A d \in Callers : d # c => calls'[d] = calls[d]
  BY <1>1, <1>2, AfterStopIsUntold
<1>4. /\ proc' \in [Processes -> Stages] /\ proc'[p] = (IF proc[p] = "alive" THEN "told" ELSE proc[p])
      /\ \A q \in Processes : q # p => proc'[q] = proc[q]
  BY <1>1, <1>2 DEF Stages
<1>5. TypeOK'
  BY <1>1, <1>2, <1>3, <1>4 DEF IInv, TypeOK, CallRecords
<1>6. ProcessInv'
  <2>1. \A d \in Callers : /\ calls'[d].p # NoProcess => /\ calls'[d].at = "tell"
                                                         /\ calls'[d].p # lc'.process
                           /\ calls'[d].at = "tell" => calls'[d].p # NoProcess
    BY <1>1, <1>3 DEF IInv, ProcessInv
  <2>2. ASSUME NEW q \in Processes, proc'[q] = "alive"
        PROVE  lc'.process = q \/ \E d \in Callers : calls'[d].p = q
    <3>1. q # p /\ proc[q] = "alive"
      BY <1>4, <2>2
    <3>2. CASE lc.process = q
      BY <1>1, <3>2
    <3>3. CASE lc.process # q
      <4>1. PICK d \in Callers : calls[d].p = q
        BY <3>1, <3>3 DEF IInv, ProcessInv, NoProcessIsLost
      <4>2. d # c
        BY <3>1, <4>1 DEF p
      <4> QED BY <1>3, <4>1, <4>2
    <3> QED BY <3>2, <3>3
  <2> QED BY <2>1, <2>2 DEF ProcessInv, NoProcessIsLost
<1>7. CountInv'
  <2>1. Unreaped \subseteq Unreaped'
    <3> SUFFICES ASSUME NEW q \in Unreaped PROVE q \in Unreaped'
      OBVIOUS
    <3>1. q \in Processes /\ proc[q] \in {"alive", "gone"} /\ \A d \in Callers : calls[d].p # q
      BY DEF Unreaped
    <3>2. q # p /\ q # NoProcess
      BY <3>1 DEF p
    <3>3. proc'[q] = proc[q] /\ \A d \in Callers : calls'[d].p # q
      BY <1>3, <1>4, <3>1, <3>2
    <3> QED BY <3>1, <3>3 DEF Unreaped
  <2>2. n \in Nat /\ Cardinality(Unreaped') \in Nat /\ n <= Cardinality(Unreaped')
    BY <2>1, UnreapedIsFinite, UnreapedStaysFinite, FS_Subset, FS_CardinalityType
  <2>3. Covers(lc.window, tries, Cardinality(Unreaped'))
    BY <2>2, WellTyped, CountMoves DEF IInv, CountInv
  <2> QED BY <1>1, <2>3 DEF IInv, CountInv
<1> QED BY <1>5, <1>6, <1>7 DEF IInv

LEMMA TickKeepsInv ==
    ASSUME IInv, Tick
    PROVE  IInv'
<1> DEFINE wait == IF lc.wait = 0 THEN 0 ELSE lc.wait - 1
           l == [lc EXCEPT !.window = Aged(lc.window), !.wait = wait]
<1>1. lc' = l /\ tries' = Pruned(Aged(tries)) /\ UNCHANGED <<proc, looked, calls>> /\ due' = TRUE
  BY DEF Tick
<1>2. lc.wait \in 0 .. MaxBackoff /\ wait \in 0 .. MaxBackoff
  BY WellTyped, Numbers
<1> HIDE DEF wait
<1>3. /\ Aged(lc.window) \in Seq(0 .. Window) /\ Ordered(Aged(lc.window))
      /\ Aged(tries) \in Seq(0 .. Window) /\ Ordered(Aged(tries))
  <2>1. 0 \in 0 .. Window
    BY Numbers
  <2> QED BY <2>1, WellTyped, AgedIsOlder DEF IInv, CountInv
<1>4. tries' \in Seq(0 .. Window - 1) /\ Ordered(tries')
  BY <1>1, <1>3, PrunedIsRecent
<1>5. /\ l \in Lifecycles /\ l.wanted = lc.wanted /\ l.process = lc.process
      /\ l.window = Aged(lc.window)
  BY <1>2, <1>3, WellTyped DEF Lifecycles
<1>6. Covers(Aged(lc.window), tries', Cardinality(Unreaped))
  BY <1>1, WellTyped, UnreapedIsFinite, TickKeepsCount DEF IInv, CountInv
<1>7. lc.wanted \/ tries' = <<>>
  <2>1. ASSUME ~lc.wanted PROVE tries' = <<>>
    <3>1. tries = <<>> /\ Len(tries) = 0
      BY <2>1 DEF IInv, CountInv
    <3>2. Aged(tries) = <<>>
      BY <3>1 DEF Aged
    <3>3. Len(Pruned(<<>>)) = Len(<<>>) - FirstRecent(<<>>) + 1
          /\ FirstRecent(<<>>) \in 1 .. Len(<<>>) + 1 /\ Pruned(<<>>) \in Seq(0 .. Window)
      BY BlankIsTyped, PrunedIsSuffix, FirstRecentIsFirst
    <3>4. Len(Pruned(<<>>)) = 0
      BY <3>3
    <3> QED BY <1>1, <3>2, <3>3, <3>4
  <2> QED BY <2>1, WellTyped
<1>8. NoneTold /\ due' \in BOOLEAN /\ looked' \in BOOLEAN
  BY <1>1, WellTyped DEF NoneTold
<1> HIDE DEF l
<1> QED BY <1>1, <1>3, <1>4, <1>5, <1>6, <1>7, <1>8, RecordKeepsInv

LEMMA LookKeepsInv ==
    ASSUME IInv, Look
    PROVE  IInv'
<1>1. UNCHANGED <<lc, proc, calls, tries>> /\ due' \in BOOLEAN /\ looked' \in BOOLEAN
  BY DEF Look
<1>2. /\ lc \in Lifecycles /\ tries \in Seq(0 .. Window - 1) /\ Ordered(tries) /\ Ordered(lc.window)
      /\ lc.wanted \/ tries = <<>>
      /\ Covers(lc.window, tries, Cardinality(Unreaped))
  BY WellTyped DEF IInv, CountInv
<1>3. NoneTold
  BY <1>1, WellTyped DEF NoneTold
<1>4. tries' = tries
  BY <1>1
<1> QED BY <1>1, <1>2, <1>3, <1>4, RecordKeepsInv

LEMMA SuperviseStartKeepsInv ==
    ASSUME IInv, SuperviseStart
    PROVE  IInv'
<1>1. NoneTold /\ due' \in BOOLEAN /\ looked' \in BOOLEAN
  BY WellTyped DEF NoneTold, SuperviseStart
<1>2. CASE AttemptStart([lc EXCEPT !.wanted = TRUE], FALSE)
  BY <1>1, <1>2, AttemptKeepsInv
<1>3. CASE lc' = [lc EXCEPT !.reason = "hard"] /\ UNCHANGED <<proc, tries>>
  <2> DEFINE l == [lc EXCEPT !.reason = "hard"]
  <2>1. /\ l \in Lifecycles /\ l.wanted = lc.wanted /\ l.process = lc.process
        /\ l.window = lc.window
    BY WellTyped DEF Lifecycles
  <2>2. /\ tries \in Seq(0 .. Window - 1) /\ Ordered(tries) /\ Ordered(lc.window)
        /\ lc.wanted \/ tries = <<>>
        /\ Covers(lc.window, tries, Cardinality(Unreaped))
    BY WellTyped DEF IInv, CountInv
  <2>3. lc' = l /\ proc' = proc /\ tries' = tries
    BY <1>3
  <2> HIDE DEF l
  <2> QED BY <1>1, <2>1, <2>2, <2>3, RecordKeepsInv
<1> QED BY <1>2, <1>3 DEF SuperviseStart

\* The end of a process, before anybody has noticed.
LEMMA ExitKeepsInv ==
    ASSUME IInv, NEW p \in Processes, Exit(p)
    PROVE  IInv'
<1> DEFINE stage == IF proc[p] = "orphan" THEN "free" ELSE "gone"
<1>1. /\ UNCHANGED <<lc, due, looked, calls, tries>>
      /\ proc[p] \in {"alive", "told", "orphan"}
      /\ proc' = [proc EXCEPT ![p] = stage]
  BY DEF Exit
<1>2. proc \in [Processes -> Stages] /\ stage \in {"free", "gone"}
  BY WellTyped
<1>3. /\ proc' \in [Processes -> Stages] /\ proc'[p] = stage
      /\ \A q \in Processes : q # p => proc'[q] = proc[q]
  BY <1>1, <1>2 DEF Stages
<1>4. proc[p] = "alive" => stage = "gone"
  OBVIOUS
<1> HIDE DEF stage
<1>5. TypeOK'
  <2>1. lc.process # NoProcess => proc'[lc.process] \in {"alive", "gone"}
    <3>1. lc.process = p => proc[p] = "alive"
      BY <1>1 DEF IInv, TypeOK
    <3> QED BY <1>3, <1>4, <3>1 DEF IInv, TypeOK
  <2> QED BY <1>1, <1>3, <2>1 DEF IInv, TypeOK
<1>6. ProcessInv'
  BY <1>1, <1>2, <1>3 DEF IInv, ProcessInv, NoProcessIsLost
<1>7. CountInv'
  <2>1. Unreaped \subseteq Unreaped'
    BY <1>1, <1>3, <1>4 DEF Unreaped
  <2>2. Cardinality(Unreaped) <= Cardinality(Unreaped') /\ Cardinality(Unreaped') \in Nat
    BY <2>1, UnreapedStaysFinite, FS_Subset, FS_CardinalityType
  <2>3. Covers(lc.window, tries, Cardinality(Unreaped'))
    BY <2>2, WellTyped, UnreapedIsFinite, CountMoves DEF IInv, CountInv
  <2> QED BY <1>1, <2>3 DEF IInv, CountInv
<1> QED BY <1>5, <1>6, <1>7 DEF IInv

\* The exit is noticed: what is no longer to be reaped is counted, as long as the
\* node is wanted.
LEMMA WaitKeepsInv ==
    ASSUME IInv, NEW p \in Processes, WaitForNodeExit(p)
    PROVE  IInv'
<1> DEFINE window == Pruned(lc.window)
           l == Released(p)
           hard == [l EXCEPT !.window = Append(window, 0), !.reason = "hard"]
<1>1. /\ proc[p] = "gone" /\ proc' = [proc EXCEPT ![p] = "free"]
      /\ UNCHANGED <<due, looked, calls, tries>>
      /\ lc' = IF ~lc.wanted THEN l
               ELSE IF Len(window) + 1 >= MaxAttempts THEN hard ELSE Failed(l, window)
  BY DEF WaitForNodeExit, Counts
<1>2. /\ l \in Lifecycles /\ l.wanted = lc.wanted /\ l.window = lc.window
      /\ l.process # p
      /\ l.process = lc.process \/ (l.process = NoProcess /\ lc.process = p)
  <2>1. CASE lc.process = p
    <3>1. l = [lc EXCEPT !.process = NoProcess]
      BY <2>1 DEF Released
    <3> QED BY <2>1, <3>1, WellTyped DEF Lifecycles
  <2>2. CASE lc.process # p
    <3>1. l = lc
      BY <2>2 DEF Released
    <3>2. lc \in Lifecycles /\ lc.process # p
      BY <2>2, WellTyped
    <3> HIDE DEF l
    <3> QED BY <3>1, <3>2
  <2> QED BY <2>1, <2>2
<1>3. /\ window \in Seq(0 .. Window) /\ Ordered(window)
      /\ Covers(window, tries, Cardinality(Unreaped))
      /\ Append(window, 0) \in Seq(0 .. Window) /\ Ordered(Append(window, 0))
  <2>1. window \in Seq(0 .. Window) /\ Ordered(window)
    BY WellTyped, PrunedIsSuffix, PrunedIsRecent DEF IInv, CountInv
  <2>2. Covers(window, tries, Cardinality(Unreaped))
    BY WellTyped, UnreapedIsFinite, CountMoves DEF IInv, CountInv
  <2>3. 0 \in 0 .. Window
    BY Numbers
  <2> QED BY <2>1, <2>2, <2>3, AppendedIsYoungest
<1> HIDE DEF window, l
<1>4. hard \in Lifecycles /\ hard.wanted = lc.wanted /\ hard.process = l.process
      /\ hard.window = Append(window, 0)
  BY <1>2, <1>3 DEF Lifecycles
<1>5. ASSUME ~(Len(window) + 1 >= MaxAttempts)
      PROVE  /\ Failed(l, window) \in Lifecycles /\ Failed(l, window).wanted = lc.wanted
             /\ Failed(l, window).process = l.process
             /\ Failed(l, window).window = Append(window, 0)
  <2>1. Len(window) + 1 \in 1 .. MaxAttempts
    BY <1>3, <1>5, Numbers
  <2>2. Backoff(Len(window) + 1) \in 0 .. MaxBackoff
    BY <2>1, BackoffIsCapped
  <2> QED BY <1>2, <1>3, <2>2 DEF Failed, Lifecycles
<1> HIDE DEF hard
<1>6. /\ lc' \in Lifecycles /\ lc'.wanted = lc.wanted /\ lc'.process = l.process
      /\ lc'.window = IF lc.wanted THEN Append(window, 0) ELSE lc.window
  BY <1>1, <1>2, <1>4, <1>5
<1>7. /\ proc \in [Processes -> Stages]
      /\ proc' \in [Processes -> Stages] /\ proc'[p] = "free"
      /\ \A q \in Processes : q # p => proc'[q] = proc[q]
  BY <1>1, WellTyped DEF Stages
<1>8. TypeOK'
  <2>1. lc'.process # NoProcess => proc'[lc'.process] \in {"alive", "gone"}
    BY <1>2, <1>6, <1>7, WellTyped DEF IInv, TypeOK
  <2> QED BY <1>1, <1>6, <1>7, <2>1 DEF IInv, TypeOK, Lifecycles
<1>9. ProcessInv'
  <2>1. ASSUME NEW q \in Processes, proc'[q] = "alive"
        PROVE  lc'.process = q \/ \E c \in Callers : calls'[c].p = q
    <3>1. q # p /\ proc[q] = "alive"
      BY <1>7, <2>1
    <3>2. lc.process = q => lc'.process = q
      BY <1>2, <1>6, <3>1
    <3> QED BY <1>1, <3>1, <3>2 DEF IInv, ProcessInv, NoProcessIsLost
  <2>2. \A c \in Callers : /\ calls'[c].p # NoProcess => /\ calls'[c].at = "tell"
                                                         /\ calls'[c].p # lc'.process
                           /\ calls'[c].at = "tell" => calls'[c].p # NoProcess
    BY <1>1, <1>2, <1>6 DEF IInv, ProcessInv
  <2> QED BY <2>1, <2>2 DEF ProcessInv, NoProcessIsLost
<1>10. CountInv'
  <2>1. Unreaped' = Unreaped \ {p}
    BY <1>1, <1>7 DEF Unreaped
  <2>2. /\ Cardinality(Unreaped) \in Nat /\ Cardinality(Unreaped') \in Nat
        /\ Cardinality(Unreaped) <= Cardinality(Unreaped') + 1
    BY <2>1, UnreapedIsFinite, UnreapedStaysFinite, FS_RemoveElement, FS_CardinalityType
  <2>3. CASE lc.wanted
    <3>1. Covers(Append(window, 0), tries, Cardinality(Unreaped'))
      BY <1>3, <2>2, WellTyped, CountMoves
    <3> QED BY <1>1, <1>3, <1>6, <2>3, <3>1 DEF IInv, CountInv
  <2>4. CASE ~lc.wanted
    <3>1. tries = <<>>
      BY <2>4 DEF IInv, CountInv
    <3>2. Covers(lc.window, <<>>, Cardinality(Unreaped'))
      BY <2>2, WellTyped, NothingIsCovered
    <3> QED BY <1>1, <1>6, <2>4, <3>1, <3>2 DEF IInv, CountInv
  <2> QED BY <2>3, <2>4
<1> QED BY <1>8, <1>9, <1>10 DEF IInv

LEMMA RestartCoreKeepsInv ==
    ASSUME IInv, RestartCore
    PROVE  IInv'
<1>1. /\ lc' = Blank /\ tries' = <<>> /\ due' = FALSE /\ looked' = FALSE
      /\ calls' = [c \in Callers |-> Idle]
      /\ proc' = [p \in Processes |-> CASE proc[p] \in {"alive", "told"} -> "orphan"
                                        [] proc[p] = "gone" -> "free"
                                        [] OTHER -> proc[p]]
  BY DEF RestartCore
<1>2. \A p \in Processes : proc'[p] \in {"orphan", "free"}
  BY <1>1, WellTyped DEF Stages
<1>3. proc' \in [Processes -> Stages]
  BY <1>1, <1>2 DEF Stages
<1>4. TypeOK'
  BY <1>1, <1>3, BlankIsTyped DEF TypeOK, Lifecycles, CallRecords
<1>5. ProcessInv'
  BY <1>1, <1>2, BlankIsTyped DEF ProcessInv, NoProcessIsLost
<1>6. CountInv'
  BY <1>1, UnreapedStaysFinite, BlankKeepsCount
<1> QED BY <1>4, <1>5, <1>6 DEF IInv

-----------------------------------------------------------------------------
(* The theorems.                                                           *)

LEMMA InitEstablishesInv == Init => IInv
<1> SUFFICES ASSUME Init PROVE IInv
  OBVIOUS
<1>1. /\ lc = Blank /\ tries = <<>> /\ due = FALSE /\ looked = FALSE
      /\ calls = [c \in Callers |-> Idle] /\ proc = [p \in Processes |-> "free"]
  BY DEF Init
<1>2. TypeOK
  BY <1>1, BlankIsTyped DEF TypeOK, Lifecycles, CallRecords, Stages
<1>3. ProcessInv
  BY <1>1, BlankIsTyped DEF ProcessInv, NoProcessIsLost
<1>4. CountInv
  <2>1. Covers(<<>>, <<>>, Cardinality(Unreaped)) /\ Ordered(<<>>)
    BY BlankIsTyped, UnreapedIsFinite, NothingIsCovered
  <2> QED BY <1>1, <2>1, BlankIsTyped DEF CountInv
<1> QED BY <1>2, <1>3, <1>4 DEF IInv

LEMMA NextKeepsInv == IInv /\ [Next]_nodeVars => IInv'
<1> SUFFICES ASSUME IInv, [Next]_nodeVars PROVE IInv'
  OBVIOUS
<1>1. CASE UNCHANGED nodeVars
  <2>1. NoneTold
    BY <1>1, WellTyped DEF NoneTold, nodeVars
  <2> QED BY <1>1, <2>1, CallKeepsInv DEF nodeVars
<1> QED BY <1>1, AskKeepsInv, LoseKeepsInv, StartNodeKeepsInv, StopNodeKeepsInv,
           SignalNodeKeepsInv, TickKeepsInv, LookKeepsInv, SuperviseStartKeepsInv,
           ExitKeepsInv, WaitKeepsInv, RestartCoreKeepsInv DEF Next

\* What the callers, the supervisor and the goroutines of the node manager may
\* rely on, however their sections of the lock interleave.
THEOREM Invariant == Spec => []IInv
<1> QED BY InitEstablishesInv, NextKeepsInv, PTL DEF Spec

\* Every variable keeps its type, and the record never names a process that was
\* reaped (services.go, waitForNodeExit).
THEOREM TypeCorrect == Spec => []TypeOK
<1>1. IInv => TypeOK
  BY DEF IInv
<1> QED BY <1>1, Invariant, PTL

\* A process that runs is in the record, or a StopNode that let go of it is about
\* to tell it to end (services.go, StopNode and attemptStartLocked).
THEOREM ProcessesAreKept == Spec => []NoProcessIsLost
<1>1. IInv => NoProcessIsLost
  BY DEF IInv, ProcessInv
<1> QED BY <1>1, Invariant, PTL

\* No attempt to start the node escapes the count that gives the node up
\* (services.go, attemptStartLocked and waitForNodeExit).
THEOREM NoAttemptEscapes == Spec => []AttemptsAreCounted
<1>1. ASSUME IInv PROVE AttemptsAreCounted
  <2> DEFINE p == Pruned(lc.window)
             all == {q \in Processes : proc[q] \in {"alive", "gone"}}
  <2>1. /\ p \in Seq(0 .. Window) /\ \A i \in 1 .. Len(p) : p[i] < Window
    BY <1>1, WellTyped, PrunedIsSuffix, PrunedIsRecent DEF IInv, CountInv
  <2>2. tries \in Seq(0 .. Window - 1) /\ tries \in Seq(0 .. Window)
    BY <1>1, WellTyped
  <2> HIDE DEF p
  <2>3. Younger(tries, Window) = 1 .. Len(tries) /\ Younger(p, Window) = 1 .. Len(p)
    <3>1. \A i \in 1 .. Len(tries) : tries[i] \in 0 .. Window - 1 /\ tries[i] < Window
      BY <2>2, Numbers
    <3> QED BY <2>1, <3>1 DEF Younger
  <2>4. Cardinality(1 .. Len(tries)) = Len(tries) /\ Cardinality(1 .. Len(p)) = Len(p)
    <3>1. Len(tries) \in Nat /\ Len(p) \in Nat
      BY <2>1, <2>2
    <3>2. \A n \in Nat : Cardinality(1 .. n) = IF 1 > n THEN 0 ELSE n - 1 + 1
      BY FS_Interval
    <3>3. \A n \in Nat : (IF 1 > n THEN 0 ELSE n - 1 + 1) = n
      OBVIOUS
    <3> QED BY <3>1, <3>2, <3>3
  <2>5. Covers(p, tries, Cardinality(Unreaped))
    BY <1>1, WellTyped, UnreapedIsFinite, CountMoves DEF IInv, CountInv, p
  <2>6. Len(tries) <= Len(p) + Cardinality(Unreaped)
    BY <2>3, <2>4, <2>5, Numbers DEF Covers
  <2>7. Cardinality(Unreaped) <= Cardinality(all) /\ Cardinality(all) \in Nat
    <3>1. Unreaped \in SUBSET all /\ all \in SUBSET Processes
      BY DEF Unreaped
    <3>2. IsFiniteSet(all)
      BY <3>1, FS_Subset
    <3> QED BY <3>1, <3>2, FS_Subset, FS_CardinalityType
  <2>8. Len(tries) <= Len(p) + Cardinality(all)
    BY <2>1, <2>2, <2>6, <2>7, UnreapedIsFinite
  <2> QED BY <2>8 DEF AttemptsAreCounted, p
<1> QED BY <1>1, Invariant, PTL

=============================================================================
