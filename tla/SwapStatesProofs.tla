-------------------------- MODULE SwapStatesProofs --------------------------
(***************************************************************************)
(* Theorems about the table of SwapStates and the path search over it: the *)
(* table has no cycle, its longest walk has LongestWalk moves at most, and *)
(* TransitionPath is a shortest walk of the table, or empty when there is  *)
(* none.  The walks are built by recursion on their length, a bounded one: *)
(* the step from one length to the next is a lemma, applied once for each. *)
(***************************************************************************)
EXTENDS SwapStates, TLAPS

\* How far a state is from open, at most.
Rank == [s \in States |->
            CASE s = "open"                       -> 0
              [] s = "locked"                     -> 1
              [] s = "commit_started"             -> 2
              [] s = "waiting"                    -> 3
              [] s = "waiting_claim_details"      -> 4
              [] s = "refund_coop_waiting"        -> 4
              [] s = "signing_musig2_partial"     -> 5
              [] s = "sent_partial_to_provider"   -> 6
              [] s = "waiting_provider_broadcast" -> 7
              [] s = "fallback_script_ready"      -> 8
              [] s = "refunding"                  -> 9
              [] OTHER                            -> 10]

\* Every state the table leads to is a state, and none leads back to open.
LEMMA TransitionsAreStates ==
    \A s \in States : ValidTransitions[s] \subseteq States \ {"open"}
BY DEF States, ValidTransitions

\* Every move of the table leads further from open.
LEMMA MovesRaiseRank ==
    /\ Rank \in [States -> 0..10]
    /\ \A s \in States : \A t \in ValidTransitions[s] : Rank[s] < Rank[t]
<1>1. Rank \in [States -> 0..10]
  BY DEF Rank
<1>2. ASSUME NEW s \in States, NEW t \in ValidTransitions[s]
      PROVE  Rank[s] < Rank[t]
  <2>1. t \in States
    BY TransitionsAreStates
  <2> QED
    BY <1>2, <2>1 DEF States, ValidTransitions, Rank
<1> QED
  BY <1>1, <1>2

-----------------------------------------------------------------------------
(* Walks.                                                                  *)

\* Where a walk stands before its i-th move.
Before(from, w, i) == IF i = 1 THEN from ELSE w[i - 1]

\* A walk of the table: a sequence of states, each led to by the one before.
IsWalk(from, w) ==
    /\ w \in Seq(States)
    /\ \A i \in 1..Len(w) : w[i] \in ValidTransitions[Before(from, w, i)]

\* A walk may go on with any move the table allows where it ends.
LEMMA LongerWalk ==
    ASSUME NEW from \in States, NEW v, IsWalk(from, v),
           NEW t \in ValidTransitions[EndOf(from, v)]
    PROVE  IsWalk(from, Append(v, t)) /\ Len(Append(v, t)) = Len(v) + 1
<1> DEFINE n == Len(v)
<1>1. v \in Seq(States) /\ EndOf(from, v) \in States /\ n \in Nat
  BY DEF IsWalk, EndOf
<1>2. t \in States
  BY <1>1, TransitionsAreStates
<1>3. Append(v, t) \in Seq(States) /\ Len(Append(v, t)) = n + 1
  BY <1>1, <1>2
<1>4. ASSUME NEW i \in 1..(n + 1)
      PROVE  Append(v, t)[i] \in ValidTransitions[Before(from, Append(v, t), i)]
  <2>1. CASE i = n + 1
    <3>1. Before(from, Append(v, t), i) = EndOf(from, v)
      BY <1>1, <2>1 DEF Before, EndOf
    <3> QED
      BY <1>1, <2>1, <3>1
  <2>2. CASE i # n + 1
    <3>1. i \in 1..n
      BY <1>1, <2>2
    <3>2. Append(v, t)[i] = v[i] /\ Before(from, Append(v, t), i) = Before(from, v, i)
      BY <1>1, <3>1 DEF Before
    <3> QED
      BY <3>1, <3>2 DEF IsWalk
  <2> QED
    BY <2>1, <2>2
<1> QED
  BY <1>3, <1>4 DEF IsWalk

\* The beginning of a walk is a walk.
LEMMA BeginningOfWalk ==
    ASSUME NEW from \in States, NEW w, IsWalk(from, w), NEW n \in 0..Len(w)
    PROVE  /\ IsWalk(from, SubSeq(w, 1, n)) /\ Len(SubSeq(w, 1, n)) = n
           /\ \A i \in 1..n : SubSeq(w, 1, n)[i] = w[i]
<1> DEFINE v == SubSeq(w, 1, n)
<1>1. w \in Seq(States) /\ Len(w) \in Nat /\ n \in Nat
  BY DEF IsWalk
<1>2. /\ v \in Seq(States) /\ Len(v) = n
      /\ \A i \in 1..n : v[i] = w[i]
  BY <1>1
<1> HIDE DEF v
<1>3. ASSUME NEW i \in 1..n
      PROVE  v[i] \in ValidTransitions[Before(from, v, i)]
  <2>1. w[i] \in ValidTransitions[Before(from, w, i)]
    BY <1>1 DEF IsWalk
  <2>2. Before(from, w, i) = Before(from, v, i)
    BY <1>2 DEF Before
  <2> QED
    BY <1>2, <2>1, <2>2
<1> QED
  BY <1>2, <1>3 DEF IsWalk, v

\* One move more: the walks of n + 1 moves are the extensions of those of n.
LEMMA ExtendedAreWalks ==
    ASSUME NEW from \in States, NEW n \in Nat, NEW W,
           \A w : w \in W <=> IsWalk(from, w) /\ Len(w) = n
    PROVE  \A w : w \in Extended(from, W) <=> IsWalk(from, w) /\ Len(w) = n + 1
<1>1. ASSUME NEW v, IsWalk(from, v), Len(v) = n,
             NEW t \in ValidTransitions[EndOf(from, v)]
      PROVE  IsWalk(from, Append(v, t)) /\ Len(Append(v, t)) = n + 1
  BY <1>1, LongerWalk
<1>2. ASSUME NEW w, IsWalk(from, w), Len(w) = n + 1
      PROVE  \E v \in W : \E t \in ValidTransitions[EndOf(from, v)] : w = Append(v, t)
  <2> DEFINE v == SubSeq(w, 1, n)
             t == w[n + 1]
  <2>1. w \in Seq(States) /\ n \in 0..Len(w)
    BY <1>2 DEF IsWalk
  <2>2. /\ IsWalk(from, v) /\ Len(v) = n
        /\ \A i \in 1..n : v[i] = w[i]
    BY <1>2, <2>1, BeginningOfWalk
  <2>3. t \in ValidTransitions[EndOf(from, v)]
    <3>1. t \in ValidTransitions[Before(from, w, n + 1)]
      BY <1>2 DEF IsWalk
    <3>2. Before(from, w, n + 1) = EndOf(from, v)
      BY <1>2, <2>1, <2>2 DEF Before, EndOf, IsWalk
    <3> QED
      BY <3>1, <3>2
  <2>4. w = Append(v, t)
    BY <1>2, <2>1, <2>2 DEF IsWalk
  <2>6. v \in W
    BY <2>2
  <2> HIDE DEF v, t
  <2> QED
    BY <2>3, <2>4, <2>6
<1> SUFFICES ASSUME NEW w
             PROVE  w \in Extended(from, W) <=> IsWalk(from, w) /\ Len(w) = n + 1
  OBVIOUS
<1>3. w \in Extended(from, W) <=>
          \E v \in W : \E t \in ValidTransitions[EndOf(from, v)] : w = Append(v, t)
  BY DEF Extended
<1>4. ASSUME NEW v \in W, NEW t \in ValidTransitions[EndOf(from, v)], w = Append(v, t)
      PROVE  IsWalk(from, w) /\ Len(w) = n + 1
  <2>1. IsWalk(from, v) /\ Len(v) = n
    OBVIOUS
  <2> QED
    BY <1>1, <1>4, <2>1
<1> QED
  BY <1>2, <1>3, <1>4

\* The recursion of WalksByLength has a solution: its twelve values, one by one.
LEMMA WalksByLengthIsRecursive ==
    ASSUME NEW from
    PROVE  /\ WalksByLength(from)[0] = {<<>>}
           /\ \A n \in 1..LongestWalk :
                  WalksByLength(from)[n] = Extended(from, WalksByLength(from)[n - 1])
<1> DEFINE More(W) == Extended(from, W)
           Step(f) == [n \in 0..LongestWalk |-> IF n = 0 THEN {<<>>} ELSE More(f[n - 1])]
<1> HIDE DEF More
<1>1. \E f : f = Step(f)
  <2> DEFINE w0 == {<<>>}
             w1 == More(w0)   w2 == More(w1)   w3 == More(w2)   w4 == More(w3)
             w5 == More(w4)   w6 == More(w5)   w7 == More(w6)   w8 == More(w7)
             w9 == More(w8)   w10 == More(w9)  w11 == More(w10)
             g == <<w0, w1, w2, w3, w4, w5, w6, w7, w8, w9, w10, w11>>
             f == [n \in 0..LongestWalk |-> g[n + 1]]
  <2>0. /\ w1 = More(w0) /\ w2 = More(w1) /\ w3 = More(w2) /\ w4 = More(w3)
        /\ w5 = More(w4) /\ w6 = More(w5) /\ w7 = More(w6) /\ w8 = More(w7)
        /\ w9 = More(w8) /\ w10 = More(w9) /\ w11 = More(w10) /\ w0 = {<<>>}
    OBVIOUS
  <2> HIDE DEF w0, w1, w2, w3, w4, w5, w6, w7, w8, w9, w10, w11
  <2>1. /\ g[1] = {<<>>}
        /\ \A n \in 1..LongestWalk : g[n + 1] = More(g[n])
    <3>1. /\ g[1] = w0 /\ g[2] = w1 /\ g[3] = w2 /\ g[4] = w3 /\ g[5] = w4 /\ g[6] = w5
          /\ g[7] = w6 /\ g[8] = w7 /\ g[9] = w8 /\ g[10] = w9 /\ g[11] = w10 /\ g[12] = w11
      OBVIOUS
    <3> HIDE DEF g
    <3>2. /\ g[2] = More(g[1]) /\ g[3] = More(g[2]) /\ g[4] = More(g[3]) /\ g[5] = More(g[4])
          /\ g[6] = More(g[5]) /\ g[7] = More(g[6]) /\ g[8] = More(g[7]) /\ g[9] = More(g[8])
          /\ g[10] = More(g[9]) /\ g[11] = More(g[10]) /\ g[12] = More(g[11])
      BY <2>0, <3>1
    <3>3. ASSUME NEW n \in 1..LongestWalk PROVE g[n + 1] = More(g[n])
      BY <3>2 DEF LongestWalk
    <3> QED
      BY <2>0, <3>1, <3>3
  <2> HIDE DEF g
  <2>2. ASSUME NEW n \in 0..LongestWalk
        PROVE  f[n] = IF n = 0 THEN {<<>>} ELSE More(f[n - 1])
    <3>1. CASE n = 0
      BY <2>1, <3>1
    <3>2. CASE n # 0
      <4>1. n \in 1..LongestWalk /\ n - 1 \in 0..LongestWalk
        BY <3>2 DEF LongestWalk
      <4> QED
        BY <2>1, <3>2, <4>1
    <3> QED
      BY <3>1, <3>2
  <2>3. f = Step(f)
    BY <2>2
  <2> QED
    BY <2>3
<1>2. WalksByLength(from) = CHOOSE f : f = Step(f)
  BY DEF WalksByLength, More
<1>3. WalksByLength(from) = Step(WalksByLength(from))
  BY <1>1, <1>2
<1> DEFINE W == WalksByLength(from)
<1>4. W = [n \in 0..LongestWalk |-> IF n = 0 THEN {<<>>} ELSE More(W[n - 1])]
  BY <1>3
<1> HIDE DEF W
<1>5. /\ W[0] = {<<>>}
      /\ \A n \in 1..LongestWalk : W[n] = More(W[n - 1])
  <2>1. ASSUME NEW n \in 0..LongestWalk
        PROVE  W[n] = IF n = 0 THEN {<<>>} ELSE More(W[n - 1])
    BY <1>4
  <2> QED
    BY <2>1 DEF LongestWalk
<1> QED
  BY <1>5 DEF More, W

(* What WalksByLength holds: of each length the walks of that length.      *)
LEMMA WalksAreByLength ==
    ASSUME NEW from \in States
    PROVE  \A n \in 0..LongestWalk : \A w :
               w \in WalksByLength(from)[n] <=> IsWalk(from, w) /\ Len(w) = n
<1> DEFINE W == WalksByLength(from)
           Right(n) == \A w : w \in W[n] <=> IsWalk(from, w) /\ Len(w) = n
<1>0. Right(0)
  <2>1. IsWalk(from, <<>>)
    BY DEF IsWalk
  <2>2. \A w \in Seq(States) : Len(w) = 0 => w = <<>>
    OBVIOUS
  <2>3. W[0] = {<<>>}
    BY WalksByLengthIsRecursive
  <2> HIDE DEF W
  <2>4. ASSUME NEW w PROVE w \in {<<>>} <=> IsWalk(from, w) /\ Len(w) = 0
    <3>1. CASE w = <<>>
      BY <2>1, <3>1
    <3>2. CASE w # <<>>
      BY <2>2, <3>2 DEF IsWalk
    <3> QED
      BY <3>1, <3>2
  <2> QED
    BY <2>3, <2>4
<1>1. ASSUME NEW n \in 1..LongestWalk, Right(n - 1)
      PROVE  Right(n)
  <2>1. n - 1 \in Nat /\ (n - 1) + 1 = n
    BY DEF LongestWalk
  <2>2. W[n] = Extended(from, W[n - 1])
    BY WalksByLengthIsRecursive
  <2> HIDE DEF W
  <2>3. \A w : w \in Extended(from, W[n - 1]) <=> IsWalk(from, w) /\ Len(w) = (n - 1) + 1
    BY <1>1, <2>1, ExtendedAreWalks
  <2> QED
    BY <2>1, <2>2, <2>3
<1> HIDE DEF Right
<1>2. 1..LongestWalk = 1..11 /\ 0..LongestWalk = 0..11
  BY DEF LongestWalk
<1>a. Right(1)   BY <1>0, <1>1, <1>2
<1>b. Right(2)   BY <1>a, <1>1, <1>2
<1>c. Right(3)   BY <1>b, <1>1, <1>2
<1>d. Right(4)   BY <1>c, <1>1, <1>2
<1>e. Right(5)   BY <1>d, <1>1, <1>2
<1>f. Right(6)   BY <1>e, <1>1, <1>2
<1>g. Right(7)   BY <1>f, <1>1, <1>2
<1>h. Right(8)   BY <1>g, <1>1, <1>2
<1>i. Right(9)   BY <1>h, <1>1, <1>2
<1>j. Right(10)  BY <1>i, <1>1, <1>2
<1>k. Right(11)  BY <1>j, <1>1, <1>2
<1>3. \A n \in 0..11 : Right(n)
  BY <1>0, <1>a, <1>b, <1>c, <1>d, <1>e, <1>f, <1>g, <1>h, <1>i, <1>j, <1>k
<1> QED
  BY <1>2, <1>3 DEF Right

(* Each move of a walk leads at least one rank further.                    *)
LEMMA WalksRaiseRank ==
    ASSUME NEW from \in States, NEW w, IsWalk(from, w)
    PROVE  Len(w) < LongestWalk /\ \A i \in 1..Len(w) : Rank[from] + i <= Rank[w[i]]
<1> DEFINE Higher(i) == i <= Len(w) => Rank[from] + i <= Rank[w[i]]
<1>1. w \in Seq(States) /\ Len(w) \in Nat /\ Rank[from] \in 0..10
  BY MovesRaiseRank DEF IsWalk
<1>2. ASSUME NEW i \in Nat \ {0}, i <= Len(w)
      PROVE  /\ w[i] \in States /\ Rank[w[i]] \in 0..10
             /\ Rank[Before(from, w, i)] < Rank[w[i]] /\ Rank[Before(from, w, i)] \in 0..10
  <2>1. w[i] \in States /\ Before(from, w, i) \in States
    BY <1>1, <1>2 DEF Before
  <2>2. w[i] \in ValidTransitions[Before(from, w, i)]
    BY <1>1, <1>2 DEF IsWalk
  <2> QED
    BY <2>1, <2>2, MovesRaiseRank
<1>3. Higher(1)
  <2> SUFFICES ASSUME 1 <= Len(w) PROVE Rank[from] + 1 <= Rank[w[1]]
    OBVIOUS
  <2>1. Before(from, w, 1) = from
    BY DEF Before
  <2> QED
    BY <1>1, <1>2, <2>1
<1>4. ASSUME NEW i \in Nat \ {0}, Higher(i) PROVE Higher(i + 1)
  <2> SUFFICES ASSUME i + 1 <= Len(w) PROVE Rank[from] + (i + 1) <= Rank[w[i + 1]]
    OBVIOUS
  <2> DEFINE a == Rank[from]   b == Rank[w[i]]   c == Rank[w[i + 1]]
  <2>1. i <= Len(w) /\ i + 1 \in Nat \ {0}
    BY <1>1
  <2>2. a + i <= b
    BY <1>4, <2>1
  <2>3. Before(from, w, i + 1) = w[i]
    BY DEF Before
  <2>4. Rank[Before(from, w, i + 1)] < Rank[w[i + 1]]
    BY <1>2, <2>1
  <2>5. b < c
    BY <2>3, <2>4
  <2>6. a \in 0..10 /\ b \in 0..10 /\ c \in 0..10
    BY <1>1, <1>2, <2>1
  <2> HIDE DEF a, b, c
  <2>7. a + (i + 1) <= c
    BY <2>2, <2>5, <2>6
  <2> QED
    BY <2>7 DEF a, c
<1> HIDE DEF Higher
<1>a. Higher(2)   BY <1>3, <1>4
<1>b. Higher(3)   BY <1>a, <1>4
<1>c. Higher(4)   BY <1>b, <1>4
<1>d. Higher(5)   BY <1>c, <1>4
<1>e. Higher(6)   BY <1>d, <1>4
<1>f. Higher(7)   BY <1>e, <1>4
<1>g. Higher(8)   BY <1>f, <1>4
<1>h. Higher(9)   BY <1>g, <1>4
<1>i. Higher(10)  BY <1>h, <1>4
<1>j. Higher(11)  BY <1>i, <1>4
<1>5. ~(11 <= Len(w))
  <2> SUFFICES ASSUME 11 <= Len(w) PROVE FALSE
    OBVIOUS
  <2>1. Rank[from] + 11 <= Rank[w[11]]
    BY <1>j DEF Higher
  <2> DEFINE a == Rank[from]   b == Rank[w[11]]
  <2>2. a \in 0..10 /\ b \in 0..10 /\ a + 11 <= b
    BY <1>1, <1>2, <2>1
  <2> HIDE DEF a, b
  <2> QED
    BY <2>2
<1>6. ASSUME NEW i \in 1..Len(w) PROVE Higher(i)
  <2>1. i \in 1..10
    BY <1>1, <1>5
  <2> QED
    BY <2>1, <1>3, <1>a, <1>b, <1>c, <1>d, <1>e, <1>f, <1>g, <1>h, <1>i
<1> QED
  BY <1>1, <1>5, <1>6 DEF LongestWalk, Higher

(* The table has no cycle, and no walk of it is as long as LongestWalk.    *)
THEOREM WalksAreShort ==
    ASSUME NEW from \in States, NEW w, IsWalk(from, w)
    PROVE  Len(w) < LongestWalk /\ (EndOf(from, w) = from => w = <<>>)
<1>1. ASSUME w # <<>> PROVE EndOf(from, w) # from
  <2>1. Len(w) \in 1..Len(w) /\ w \in Seq(States)
    BY <1>1 DEF IsWalk
  <2>2. Rank[from] + Len(w) <= Rank[w[Len(w)]]
    BY <2>1, WalksRaiseRank
  <2>3. Rank[from] \in Nat /\ Rank[w[Len(w)]] \in Nat
    BY <2>1, MovesRaiseRank
  <2> QED
    BY <1>1, <2>1, <2>2, <2>3 DEF EndOf
<1> QED
  BY <1>1, WalksRaiseRank

-----------------------------------------------------------------------------
\* Lengths of walks are among those the recursion goes through.
LEMMA LengthsBelowLongest ==
    \A n \in Nat : n < LongestWalk =>
        n \in 0..LongestWalk /\ (n # 0 => n \in 1..LongestWalk)
BY DEF LongestWalk

(* The path search.                                                        *)

\* ShortestWalks has the shortest of all walks of at least one move.
LEMMA ShortestWalksAreShortest ==
    ASSUME NEW from \in States, NEW to \in States
    PROVE  \A w : w \in ShortestWalks(from, to) <=>
                      /\ IsWalk(from, w) /\ w # <<>> /\ EndOf(from, w) = to
                      /\ \A v : IsWalk(from, v) /\ v # <<>> /\ EndOf(from, v) = to =>
                                    Len(w) <= Len(v)
<1>1. \A w : w \in WalksFrom(from) <=> IsWalk(from, w) /\ w # <<>>
  <2>1. \A w : w \in WalksFrom(from) <=>
                   \E n \in 1..LongestWalk : w \in WalksByLength(from)[n]
    BY DEF WalksFrom
  <2>2. ASSUME NEW w PROVE w \in WalksFrom(from) => IsWalk(from, w) /\ w # <<>>
    <3> SUFFICES ASSUME w \in WalksFrom(from)
                 PROVE  IsWalk(from, w) /\ w # <<>>
      OBVIOUS
    <3>1. PICK n \in 1..LongestWalk : w \in WalksByLength(from)[n]
      BY <2>1
    <3>2. n \in 0..LongestWalk /\ n # 0
      BY DEF LongestWalk
    <3>3. IsWalk(from, w) /\ Len(w) = n
      BY <3>1, <3>2, WalksAreByLength
    <3> QED
      BY <3>2, <3>3
  <2>3. ASSUME NEW w, IsWalk(from, w), w # <<>> PROVE w \in WalksFrom(from)
    <3>1. Len(w) < LongestWalk
      BY <2>3, WalksAreShort
    <3>2. w \in Seq(States)
      BY <2>3 DEF IsWalk
    <3>3. Len(w) \in 1..LongestWalk /\ Len(w) \in 0..LongestWalk
      <4>1. Len(w) \in Nat /\ Len(w) # 0
        BY <2>3, <3>2
      <4> QED
        BY <3>1, <4>1, LengthsBelowLongest
    <3>4. w \in WalksByLength(from)[Len(w)]
      BY <2>3, <3>3, WalksAreByLength
    <3> QED
      BY <2>1, <3>3, <3>4
  <2> QED
    BY <2>2, <2>3
<1> QED
  BY <1>1 DEF ShortestWalks

\* Of lengths of walks one is the least.
LEMMA SetsOfLengthsHaveLeast ==
    ASSUME NEW S, S \subseteq 0..LongestWalk, S # {}
    PROVE  \E n \in S : \A m \in S : n <= m
<1> DEFINE Least(n) == n \in S /\ \A m \in S : n <= m
           Above(k) == (\A m \in S : k <= m) \/ \E n : Least(n)
<1>1. \A m \in S : m \in Nat /\ m < 12
  BY DEF LongestWalk
<1>2. Above(0)
  BY <1>1
<1>3. ASSUME NEW k \in Nat, Above(k) PROVE Above(k + 1)
  BY <1>1, <1>3
<1> HIDE DEF Above
<1>a. Above(1)   BY <1>2, <1>3
<1>b. Above(2)   BY <1>a, <1>3
<1>c. Above(3)   BY <1>b, <1>3
<1>d. Above(4)   BY <1>c, <1>3
<1>e. Above(5)   BY <1>d, <1>3
<1>f. Above(6)   BY <1>e, <1>3
<1>g. Above(7)   BY <1>f, <1>3
<1>h. Above(8)   BY <1>g, <1>3
<1>i. Above(9)   BY <1>h, <1>3
<1>j. Above(10)  BY <1>i, <1>3
<1>k. Above(11)  BY <1>j, <1>3
<1>l. Above(12)  BY <1>k, <1>3
<1> QED
  <2>1. ~\A m \in S : 12 <= m
    <3>1. PICK m \in S : m \in Nat /\ m < 12
      BY <1>1
    <3>2. ~(12 <= m)
      BY <3>1
    <3> QED
      BY <3>2
  <2> QED
    BY <1>l, <2>1 DEF Above

(* What findTransitionPath returns: a shortest walk of the table from one  *)
(* state to another, and nothing exactly when the table has no such walk,  *)
(* or when the two are the same.                                           *)
THEOREM PathIsShortestWalk ==
    ASSUME NEW from \in States, NEW to \in States
    PROVE  LET path == TransitionPath[from][to]
           IN  /\ path # <<>> =>
                      /\ IsWalk(from, path) /\ EndOf(from, path) = to
                      /\ \A v : IsWalk(from, v) /\ v # <<>> /\ EndOf(from, v) = to =>
                                    Len(path) <= Len(v)
               /\ path = <<>> <=> \A v : IsWalk(from, v) /\ EndOf(from, v) = to => v = <<>>
<1> DEFINE path == TransitionPath[from][to]
<1>1. path = IF ShortestWalks(from, to) = {} THEN <<>>
             ELSE CHOOSE w \in ShortestWalks(from, to) : TRUE
  BY DEF TransitionPath
<1> HIDE DEF path
<1>2. CASE ShortestWalks(from, to) # {}
  <2>1. path \in ShortestWalks(from, to)
    BY <1>1, <1>2
  <2> QED
    BY <2>1, ShortestWalksAreShortest DEF path
<1>3. CASE ShortestWalks(from, to) = {}
  <2>1. path = <<>>
    BY <1>1, <1>3
  <2>2. ASSUME NEW v, IsWalk(from, v), EndOf(from, v) = to, v # <<>>
        PROVE  FALSE
    (* Some walk from one to the other is shortest. *)
    <3> DEFINE Hit(n) == \E w : IsWalk(from, w) /\ w # <<>> /\ EndOf(from, w) = to /\ Len(w) = n
               Hits == {n \in 0..LongestWalk : Hit(n)}
    <3>1. Len(v) \in Hits
      <4>1. Len(v) \in Nat
        BY <2>2 DEF IsWalk
      <4>2. Len(v) < LongestWalk
        BY <2>2, WalksAreShort
      <4> QED
        BY <2>2, <4>1, <4>2, LengthsBelowLongest
    <3>2. PICK n \in Hits : \A m \in Hits : n <= m
      <4>1. Hits \subseteq 0..LongestWalk /\ Hits # {}
        BY <3>1
      <4> HIDE DEF Hits
      <4> QED
        BY <4>1, SetsOfLengthsHaveLeast
    <3>3. PICK w : IsWalk(from, w) /\ w # <<>> /\ EndOf(from, w) = to /\ Len(w) = n
      BY <3>2
    <3>4. ASSUME NEW u, IsWalk(from, u), u # <<>>, EndOf(from, u) = to
          PROVE  Len(w) <= Len(u)
      <4>1. Len(u) \in Nat
        BY <3>4 DEF IsWalk
      <4>0. Len(u) < LongestWalk
        BY <3>4, WalksAreShort
      <4>2. Len(u) \in Hits
        BY <3>4, <4>0, <4>1, LengthsBelowLongest
      <4> QED
        BY <3>2, <3>3, <4>2
    <3>5. w \in ShortestWalks(from, to)
      BY <3>3, <3>4, ShortestWalksAreShortest
    <3> QED
      BY <1>3, <3>5
  <2> QED
    BY <2>1, <2>2 DEF path
<1> QED
  BY <1>2, <1>3

\* A swap in refunding is not completed by a path: where a path may complete it
\* after refunding, the shorter one completes it before.
LEMMA PathsDoNotCompleteRefunds ==
    ASSUME NEW from \in States, NEW to \in States
    PROVE  LET path == TransitionPath[from][to]
           IN  /\ path \in Seq(States)
               /\ \A i \in 1..(Len(path) - 1) :
                      path[i] = "refunding" => path[i + 1] # "completed"
<1> DEFINE path == TransitionPath[from][to]
<1> HIDE DEF path
<1>0. CASE path = <<>>
  BY <1>0 DEF path
<1> SUFFICES ASSUME path # <<>>
             PROVE  /\ path \in Seq(States)
                    /\ \A i \in 1..(Len(path) - 1) :
                           path[i] = "refunding" => path[i + 1] # "completed"
  BY <1>0 DEF path
<1>1. /\ IsWalk(from, path) /\ EndOf(from, path) = to
      /\ \A v : IsWalk(from, v) /\ v # <<>> /\ EndOf(from, v) = to => Len(path) <= Len(v)
  BY PathIsShortestWalk DEF path
<1>2. path \in Seq(States) /\ Len(path) \in Nat
  BY <1>1 DEF IsWalk
<1>3. ASSUME NEW i \in 1..(Len(path) - 1),
             path[i] = "refunding", path[i + 1] = "completed"
      PROVE  FALSE
  <2>1. /\ i \in 1..Len(path) /\ i + 1 \in 1..Len(path) /\ i - 1 \in 0..Len(path)
        /\ path[i] \in States /\ Before(from, path, i) \in States
    BY <1>2 DEF Before
  <2>2. Len(path) = i + 1
    <3> SUFFICES ASSUME Len(path) # i + 1 PROVE FALSE
      OBVIOUS
    <3>1. i + 2 \in 1..Len(path)
      BY <1>2
    <3>2. path[i + 2] \in ValidTransitions[Before(from, path, i + 2)]
      BY <1>1, <3>1 DEF IsWalk
    <3>3. Before(from, path, i + 2) = "completed"
      BY <1>3 DEF Before
    <3> QED
      BY <3>2, <3>3 DEF ValidTransitions, States
  <2>3. to = "completed"
    BY <1>1, <1>2, <1>3, <2>2 DEF EndOf
  <2>4. Before(from, path, i) = "fallback_script_ready"
    <3>1. "refunding" \in ValidTransitions[Before(from, path, i)]
      BY <1>1, <1>3, <2>1 DEF IsWalk
    <3> QED
      BY <2>1, <3>1 DEF ValidTransitions, States
  <2> DEFINE v == SubSeq(path, 1, i - 1)
  <2>5. /\ IsWalk(from, v) /\ Len(v) = i - 1
        /\ \A j \in 1..(i - 1) : v[j] = path[j]
    BY <1>1, <2>1, BeginningOfWalk
  <2>6. v \in Seq(States)
    BY <2>5 DEF IsWalk
  <2> HIDE DEF v
  <2>7. EndOf(from, v) = "fallback_script_ready"
    BY <2>4, <2>5, <2>6 DEF EndOf, Before
  <2>8. "completed" \in ValidTransitions[EndOf(from, v)]
    BY <2>7 DEF ValidTransitions, States
  <2>9. IsWalk(from, Append(v, "completed")) /\ Len(Append(v, "completed")) = i
    BY <2>5, <2>8, LongerWalk
  <2>10. Append(v, "completed") # <<>> /\ EndOf(from, Append(v, "completed")) = "completed"
    BY <2>5, <2>6, <2>9 DEF EndOf, IsWalk
  <2>11. Len(path) <= Len(Append(v, "completed"))
    BY <1>1, <2>3, <2>9, <2>10
  <2> QED
    BY <2>2, <2>9, <2>11
<1> QED
  BY <1>2, <1>3

-----------------------------------------------------------------------------
(* What can be reached.                                                    *)

Reaches(from, to) == \E w : IsWalk(from, w) /\ w # <<>> /\ EndOf(from, w) = to

LEMMA OneMoveReaches ==
    ASSUME NEW from \in States, NEW to \in ValidTransitions[from]
    PROVE  Reaches(from, to)
<1>1. IsWalk(from, <<>>) /\ EndOf(from, <<>>) = from
  BY DEF IsWalk, EndOf
<1>2. IsWalk(from, <<to>>)
  <2>1. to \in ValidTransitions[EndOf(from, <<>>)]
    BY <1>1
  <2>2. IsWalk(from, Append(<<>>, to))
    BY <1>1, <2>1, LongerWalk
  <2>3. Append(<<>>, to) = <<to>>
    OBVIOUS
  <2> QED
    BY <2>2, <2>3
<1>3. <<to>> # <<>> /\ EndOf(from, <<to>>) = to
  BY DEF EndOf
<1> QED
  BY <1>2, <1>3 DEF Reaches

LEMMA ReachesOn ==
    ASSUME NEW from \in States, NEW mid, Reaches(from, mid), NEW to \in ValidTransitions[mid]
    PROVE  Reaches(from, to)
<1>1. PICK w : IsWalk(from, w) /\ w # <<>> /\ EndOf(from, w) = mid
  BY DEF Reaches
<1> DEFINE v == Append(w, to)
<1>2. IsWalk(from, v) /\ Len(v) = Len(w) + 1
  BY <1>1, LongerWalk
<1>3. w \in Seq(States) /\ to \in States /\ Len(w) \in Nat
  BY <1>1, <1>2 DEF IsWalk
<1>4. v # <<>> /\ v[Len(v)] = to
  BY <1>2, <1>3
<1> QED
  BY <1>2, <1>4 DEF Reaches, EndOf

\* findTransitionPath finds a path wherever there is one (watcher.go).
THEOREM PathWhereThereIsOne ==
    ASSUME NEW from \in States, NEW to \in States
    PROVE  TransitionPath[from][to] # <<>> <=> Reaches(from, to)
  BY PathIsShortestWalk DEF Reaches

\* From every state an end is in reach: no swap is in a dead end of the table
\* (engine.go, ValidTransitions).
THEOREM AnEndIsInReach ==
    ASSUME NEW s \in States \ Terminal
    PROVE  \E end \in Terminal : Reaches(s, end)
<1>1. /\ "canceled" \in ValidTransitions["open"] /\ "canceled" \in ValidTransitions["locked"]
      /\ "failed" \in ValidTransitions["commit_started"]
      /\ "refund_coop_waiting" \in ValidTransitions["waiting"]
      /\ "signing_musig2_partial" \in ValidTransitions["waiting_claim_details"]
      /\ "sent_partial_to_provider" \in ValidTransitions["signing_musig2_partial"]
      /\ "waiting_provider_broadcast" \in ValidTransitions["sent_partial_to_provider"]
  BY DEF States, ValidTransitions
<1>2. \A m \in {"waiting_provider_broadcast", "refund_coop_waiting", "fallback_script_ready",
                "refunding"} : "completed" \in ValidTransitions[m]
  BY DEF States, ValidTransitions
<1>3. CASE s \in {"open", "locked", "commit_started", "waiting_provider_broadcast",
                  "refund_coop_waiting", "fallback_script_ready", "refunding"}
  BY <1>1, <1>2, <1>3, OneMoveReaches DEF Terminal
<1>4. CASE s = "waiting"
  BY <1>1, <1>2, <1>4, OneMoveReaches, ReachesOn DEF Terminal
<1>5. CASE s = "sent_partial_to_provider"
  BY <1>1, <1>2, <1>5, OneMoveReaches, ReachesOn DEF Terminal
<1>6. CASE s = "signing_musig2_partial"
  <2>1. Reaches(s, "waiting_provider_broadcast")
    BY <1>1, <1>6, OneMoveReaches, ReachesOn
  <2> QED
    BY <1>2, <2>1, ReachesOn DEF Terminal
<1>7. CASE s = "waiting_claim_details"
  <2>1. Reaches(s, "sent_partial_to_provider")
    BY <1>1, <1>7, OneMoveReaches, ReachesOn
  <2>2. Reaches(s, "waiting_provider_broadcast")
    BY <1>1, <2>1, ReachesOn
  <2> QED
    BY <1>2, <2>2, ReachesOn DEF Terminal
<1> QED
  BY <1>3, <1>4, <1>5, <1>6, <1>7 DEF States, Terminal

=============================================================================
