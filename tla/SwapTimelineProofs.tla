------------------------- MODULE SwapTimelineProofs -------------------------
(***************************************************************************)
(* Theorems about SwapTimeline, for any swaps, any number of events, of    *)
(* runs of the effect and of calls in flight: the stream of the selected   *)
(* swap leaves no gap.                                                     *)
(***************************************************************************)
EXTENDS SwapTimeline, FiniteSetTheorems, WellFoundedInduction, TLAPS

-----------------------------------------------------------------------------
(* The inductive invariant.                                                *)

WellTyped == TypeOK /\ IsFiniteSet(requests)

\* Positions are positions in the log, and the current effect is not disposed.
PositionsInv ==
    /\ shown \subseteq 1 .. Len(log) /\ lastSeq <= Len(log)
    /\ \A g \in 1 .. Len(effects) : effects[g].seq <= Len(log)
    /\ \A g \in Current : ~effects[g].disposed

\* An answer has no gap: what precedes one of its events and was asked for is in it.
Gapless(r) ==
    /\ r.got \subseteq FetchSwapEvents(r.swap, r.after)
    /\ \A d \in r.got, e \in FetchSwapEvents(r.swap, r.after) : e <= d => e \in r.got

\* A call belongs to an effect for its swap.  The first fetch precedes the
\* stream, and a poll asks from where the stream stands or stood.
CallOK(r) ==
    /\ r.got # Waiting => Gapless(r)
    /\ r.kind # "refetch" => /\ r.by \in 1 .. Len(effects)
                             /\ effects[r.by].swap = r.swap
    /\ r.kind = "snapshot" => r.after = 0 /\ effects[r.by].source = "none"
    /\ r.kind = "stream" => effects[r.by].source # "none" /\ r.after <= effects[r.by].seq

CallsInv ==
    /\ \A r \in requests : CallOK(r)
    /\ \A q, r \in requests :
           q.kind = "snapshot" /\ r.kind = "snapshot" /\ q.by = r.by => q = r

IInv == WellTyped /\ PositionsInv /\ CallsInv /\ StreamSkipsNothing

USE TimelineAssumption

-----------------------------------------------------------------------------
(* Greatest and least sequence numbers.                                    *)

\* Every set of natural numbers that has a member has a least one.
LEMMA LeastExists ==
    ASSUME NEW T, T \subseteq Nat, T # {}
    PROVE  \E x \in T : \A y \in T : x <= y
<1> DEFINE R == OpToRel(<, Nat)
<1>1. IsWellFoundedOn(R, Nat)
  BY NatLessThanWellFounded
<1> HIDE DEF R
<1>2. PICK x \in T : \A y \in T : <<y, x>> \notin R
  BY <1>1, WFMin
<1>3. ASSUME NEW y \in T PROVE x <= y
  <2>1. <<y, x>> \notin R /\ x \in Nat /\ y \in Nat
    BY <1>2
  <2>2. ~(y < x)
    BY <2>1 DEF R, OpToRel
  <2> QED BY <2>1, <2>2
<1> QED BY <1>3

LEMMA MinIsLeast ==
    ASSUME NEW T, T \subseteq Nat, T # {}
    PROVE  Min(T) \in T /\ (\A y \in T : Min(T) <= y)
<1>1. PICK x \in T : \A y \in T : x <= y
  BY LeastExists
<1> QED BY <1>1 DEF Min

\* What the position after a list of events is.
LEMMA TopIsLast ==
    ASSUME NEW n \in Nat, NEW E, E \subseteq 0 .. n
    PROVE  /\ Top(E) \in 0 .. n
           /\ E # {} => Top(E) \in E
           /\ \A e \in E : e <= Top(E)
<1>1. CASE E = {}
  <2>1. Top(E) = 0 /\ 0 \in 0 .. n
    BY <1>1 DEF Top
  <2> QED BY <1>1, <2>1
<1>2. CASE E # {}
  <2> DEFINE T == {n - e : e \in E}
  <2>1. T \subseteq Nat /\ T # {}
    <3>1. \A e \in E : e \in 0 .. n /\ n - e \in Nat
      OBVIOUS
    <3>2. PICK e \in E : TRUE
      BY <1>2
    <3>3. n - e \in T
      OBVIOUS
    <3> QED BY <3>1, <3>3
  <2>2. PICK x \in T : \A y \in T : x <= y
    BY <2>1, LeastExists
  <2>3. PICK m \in E : x = n - m
    BY <2>2
  <2>4. ASSUME NEW e \in E PROVE m >= e
    <3>1. n - e \in T /\ e \in Nat /\ m \in Nat
      OBVIOUS
    <3>2. n - m <= n - e
      BY <2>2, <2>3, <3>1
    <3> QED BY <3>1, <3>2
  <2>5. Max(E) \in E /\ (\A e \in E : Max(E) >= e)
    BY <2>4 DEF Max
  <2>6. Top(E) = Max(E)
    BY <1>2 DEF Top
  <2> HIDE DEF T
  <2>7. \A e \in E : e <= Top(E)
    BY <2>5, <2>6
  <2> QED BY <2>5, <2>6, <2>7
<1> QED BY <1>1, <1>2

-----------------------------------------------------------------------------
(* What steps have in common.                                              *)

LEMMA Facts ==
    ASSUME IInv
    PROVE  /\ log \in Seq(Swaps) /\ Len(log) \in Nat /\ Len(log) <= MaxEvents
           /\ transport \in {"ipc", "http"} /\ focus \in Swaps \cup {NoSwap}
           /\ shown \subseteq 1 .. Len(log) /\ lastSeq \in 0 .. Len(log)
           /\ effects \in Seq(Effect) /\ Len(effects) \in Nat /\ Len(effects) <= MaxInstances
           /\ requests \subseteq Request /\ IsFiniteSet(requests)
           /\ Cardinality(requests) \in Nat /\ Cardinality(requests) <= MaxRequests
           /\ seen \subseteq Seqs
           /\ {MaxEvents, MaxInstances, MaxRequests} \subseteq Nat
<1>1. WellTyped /\ PositionsInv
  BY DEF IInv
<1>2. Cardinality(requests) \in Nat
  BY <1>1, FS_CardinalityType DEF WellTyped
<1>3. lastSeq \in 0 .. Len(log)
  BY <1>1 DEF WellTyped, TypeOK, PositionsInv
<1> QED BY <1>1, <1>2, <1>3 DEF WellTyped, TypeOK, PositionsInv

LEMMA PositionsAreNumbers ==
    ASSUME IInv, NEW g \in 1 .. Len(effects)
    PROVE  /\ effects[g] \in Effect /\ effects[g].seq \in Nat
           /\ effects[g].seq <= Len(log)
<1>1. effects[g] \in Effect
  BY Facts
<1>2. effects[g].seq \in 0 .. MaxEvents
  BY <1>1 DEF Effect
<1>3. effects[g].seq <= Len(log)
  BY DEF IInv, PositionsInv
<1> QED BY <1>1, <1>2, <1>3, Facts

LEMMA FetchedAreLogged ==
    ASSUME log \in Seq(Swaps), NEW s, NEW after
    PROVE  FetchSwapEvents(s, after) \subseteq 1 .. Len(log)
  BY DEF FetchSwapEvents

\* The steps that leave the log alone and add neither an effect nor a call.
LEMMA StepKeepsInv ==
    ASSUME IInv, UNCHANGED <<log, transport, focus>>,
           shown' \subseteq 1 .. Len(log), lastSeq' \in 0 .. Len(log),
           seen \subseteq seen', seen' \subseteq Seqs,
           effects' \in Seq(Effect), Len(effects') = Len(effects),
           \A g \in 1 .. Len(effects) : /\ effects'[g].swap = effects[g].swap
                                        /\ effects'[g].disposed = effects[g].disposed
                                        /\ effects'[g].seq <= Len(log),
           requests' \subseteq requests,
           \A r \in requests' :
               /\ r.kind = "snapshot" => effects'[r.by].source = "none"
               /\ r.kind = "stream" => /\ effects'[r.by].source # "none"
                                       /\ r.after <= effects'[r.by].seq,
           StreamSkipsNothing'
    PROVE  IInv'
<1>1. WellTyped'
  <2>1. IsFiniteSet(requests') /\ Cardinality(requests') <= Cardinality(requests)
    BY Facts, FS_Subset
  <2>2. Cardinality(requests') \in Nat
    BY <2>1, FS_CardinalityType
  <2>3. Cardinality(requests') <= MaxRequests
    BY <2>1, <2>2, Facts
  <2>4. shown' \subseteq Seqs /\ lastSeq' \in 0 .. MaxEvents
    BY Facts DEF Seqs
  <2>5. requests' \subseteq Request /\ Len(effects') <= MaxInstances /\ log' \in Seq(Swaps)
        /\ Len(log') <= MaxEvents /\ transport' \in {"ipc", "http"}
        /\ focus' \in Swaps \cup {NoSwap}
    BY Facts
  <2> QED BY <2>1, <2>3, <2>4, <2>5 DEF WellTyped, TypeOK
<1>2. PositionsInv'
  <2>1. Current' = Current /\ Current \subseteq 1 .. Len(effects)
    BY Facts DEF Current
  <2>2. \A g \in Current : ~effects'[g].disposed
    BY <2>1 DEF IInv, PositionsInv
  <2> QED BY <2>1, <2>2 DEF PositionsInv
<1>3. CallsInv'
  <2>1. ASSUME NEW r \in requests' PROVE CallOK(r)'
    <3>1. CallOK(r)
      BY DEF IInv, CallsInv
    <3>2. Gapless(r)' <=> Gapless(r)
      BY DEF Gapless, FetchSwapEvents
    <3> QED BY <3>1, <3>2 DEF CallOK
  <2> QED BY <2>1 DEF IInv, CallsInv
<1> QED BY <1>1, <1>2, <1>3 DEF IInv

\* The list and the effects stay; calls go.
LEMMA EffectsStay ==
    ASSUME IInv, UNCHANGED <<log, transport, focus, effects>>,
           shown' \subseteq 1 .. Len(log), lastSeq' \in 0 .. Len(log),
           seen \subseteq seen', seen' \subseteq Seqs, requests' \subseteq requests
    PROVE  IInv'
<1>1. StreamSkipsNothing'
  BY DEF IInv, StreamSkipsNothing, Current, FetchSwapEvents
<1>2. \A r \in requests : CallOK(r)
  BY DEF IInv, CallsInv
<1>3. \A g \in 1 .. Len(effects) : effects[g].seq <= Len(log)
  BY DEF IInv, PositionsInv
<1> QED BY <1>1, <1>2, <1>3, Facts, StepKeepsInv DEF CallOK

\* One effect changes.
LEMMA EffectChanges ==
    ASSUME IInv, NEW g \in 1 .. Len(effects), NEW fx \in Effect, Changed(g, fx),
           fx.swap = effects[g].swap, fx.disposed = effects[g].disposed, fx.seq <= Len(log),
           UNCHANGED <<log, transport, focus>>,
           shown' \subseteq 1 .. Len(log), lastSeq' \in 0 .. Len(log),
           seen \subseteq seen', seen' \subseteq Seqs, requests' \subseteq requests,
           \A r \in requests' : r.by = g =>
               /\ r.kind = "snapshot" => fx.source = "none"
               /\ r.kind = "stream" => fx.source # "none" /\ r.after <= fx.seq,
           g \in Current => {e \in FetchSwapEvents(fx.swap, 0) : e <= fx.seq} \subseteq seen'
    PROVE  IInv'
<1>1. /\ effects' \in Seq(Effect) /\ Len(effects') = Len(effects) /\ effects'[g] = fx
      /\ \A h \in 1 .. Len(effects) : h # g => effects'[h] = effects[h]
  BY Facts DEF Changed
<1>2. ASSUME NEW h \in 1 .. Len(effects)
      PROVE  /\ effects'[h].swap = effects[h].swap
             /\ effects'[h].disposed = effects[h].disposed
             /\ effects'[h].seq <= Len(log)
  BY <1>1 DEF IInv, PositionsInv
<1>3. ASSUME NEW r \in requests'
      PROVE  /\ r.kind = "snapshot" => effects'[r.by].source = "none"
             /\ r.kind = "stream" => /\ effects'[r.by].source # "none"
                                     /\ r.after <= effects'[r.by].seq
  <2>1. CallOK(r)
    BY DEF IInv, CallsInv
  <2> QED BY <1>1, <2>1 DEF CallOK
<1>4. StreamSkipsNothing'
  <2>1. \A h \in Current : h \in 1 .. Len(effects)
    BY Facts DEF Current
  <2>2. \A h \in Current : {e \in FetchSwapEvents(effects'[h].swap, 0) : e <= effects'[h].seq}
                               \subseteq seen'
    <3>1. ASSUME NEW h \in Current, h # g
          PROVE  {e \in FetchSwapEvents(effects'[h].swap, 0) : e <= effects'[h].seq} \subseteq seen'
      BY <1>1, <2>1, <3>1 DEF IInv, StreamSkipsNothing
    <3> QED BY <1>1, <3>1
  <2>3. Current' = Current
    BY <1>1, Facts DEF Current
  <2> QED BY <2>2, <2>3 DEF StreamSkipsNothing, FetchSwapEvents
<1> QED BY <1>1, <1>2, <1>3, <1>4, StepKeepsInv

-----------------------------------------------------------------------------
(* Answers and failures.                                                   *)

\* What is in an answer can be shown.
LEMMA AnswersAreLogged ==
    ASSUME IInv, NEW r \in requests, r.got # Waiting
    PROVE  /\ r.got \subseteq 1 .. Len(log) /\ r.got \subseteq Seqs
           /\ Gapless(r)
<1>1. Gapless(r)
  BY DEF IInv, CallsInv, CallOK
<1>2. r.got \subseteq 1 .. Len(log)
  BY <1>1, Facts, FetchedAreLogged DEF Gapless
<1>3. 1 .. Len(log) \subseteq Seqs
  BY Facts DEF Seqs
<1> QED BY <1>1, <1>2, <1>3

LEMMA ReplacedList ==
    ASSUME IInv, NEW E \in SUBSET (1 .. Len(log)), Replace(E)
    PROVE  /\ shown' \subseteq 1 .. Len(log) /\ lastSeq' \in 0 .. Len(log)
           /\ seen \subseteq seen' /\ seen' \subseteq Seqs /\ E \subseteq seen'
<1>1. E \subseteq 0 .. Len(log) /\ 1 .. Len(log) \subseteq Seqs
  BY Facts DEF Seqs
<1>2. Top(E) \in 0 .. Len(log)
  BY <1>1, Facts, TopIsLast
<1> QED BY <1>1, <1>2, Facts DEF Replace

LEMMA MergedList ==
    ASSUME IInv, NEW E \in SUBSET (1 .. Len(log)), Merge(E)
    PROVE  /\ shown' \subseteq 1 .. Len(log) /\ lastSeq' \in 0 .. Len(log)
           /\ seen \subseteq seen' /\ seen' \subseteq Seqs /\ E \subseteq seen'
<1>1. shown \cup E \subseteq 0 .. Len(log)
  <2>1. shown \subseteq 1 .. Len(log) /\ 1 .. Len(log) \subseteq 0 .. Len(log)
    BY Facts
  <2> QED BY <2>1
<1>3. 1 .. Len(log) \subseteq Seqs
  BY Facts DEF Seqs
<1>2. Top(shown \cup E) \in 0 .. Len(log)
  BY <1>1, Facts, TopIsLast
<1> QED BY <1>2, <1>3, Facts DEF Merge

LEMMA DegradedEffect ==
    ASSUME NEW fx \in Effect
    PROVE  /\ Degraded(fx) \in Effect
           /\ Degraded(fx).swap = fx.swap /\ Degraded(fx).disposed = fx.disposed
           /\ Degraded(fx).seq = fx.seq /\ Degraded(fx).source = fx.source
<1> DEFINE b == fx.fallback \/ ~fx.disposed
<1>1. b \in BOOLEAN
  OBVIOUS
<1>2. Degraded(fx) = [fx EXCEPT !.fallback = b]
  BY DEF Degraded
<1> HIDE DEF b
<1> QED BY <1>1, <1>2 DEF Effect

LEMMA FailKeepsInv ==
    ASSUME IInv, NEW r \in requests, Fail(r)
    PROVE  IInv'
<1>1. /\ requests' \subseteq requests
      /\ UNCHANGED <<log, transport, focus, shown, lastSeq, seen>>
  BY DEF Fail, Answered
<1>2. CASE UNCHANGED effects
  BY <1>1, <1>2, Facts, EffectsStay
<1>3. CASE r.kind \in {"snapshot", "stream"}
  <2> DEFINE g == r.by
  <2>1. g \in 1 .. Len(effects)
    BY <1>3 DEF IInv, CallsInv, CallOK
  <2>2. effects[g] \in Effect /\ Changed(g, Degraded(effects[g]))
    BY <1>3, <2>1, Facts DEF Fail
  <2>3. effects[g].seq <= Len(log)
    BY <2>1 DEF IInv, PositionsInv
  <2>4. \A q \in requests : CallOK(q)
    BY DEF IInv, CallsInv
  <2>5. g \in Current => {e \in FetchSwapEvents(effects[g].swap, 0) : e <= effects[g].seq} \subseteq seen
    BY DEF IInv, StreamSkipsNothing
  <2>6. ASSUME NEW fx \in Effect, fx = Degraded(effects[g])
        PROVE  IInv'
    <3>1. /\ fx.swap = effects[g].swap /\ fx.disposed = effects[g].disposed
          /\ fx.seq = effects[g].seq /\ fx.source = effects[g].source
      BY <2>2, <2>6, DegradedEffect
    <3>2. Changed(g, fx)
      BY <2>2, <2>6
    <3>3. \A q \in requests' : q.by = g =>
               /\ q.kind = "snapshot" => fx.source = "none"
               /\ q.kind = "stream" => fx.source # "none" /\ q.after <= fx.seq
      BY <1>1, <2>4, <3>1 DEF CallOK
    <3> HIDE DEF g
    <3> QED BY <1>1, <2>1, <2>3, <2>5, <3>1, <3>2, <3>3, Facts, EffectChanges
  <2> QED BY <2>2, <2>6, DegradedEffect
<1> QED BY <1>2, <1>3 DEF Fail

LEMMA TakeRefetchKeepsInv ==
    ASSUME IInv, NEW r \in requests, TakeRefetch(r) \/ TakeFallback(r)
    PROVE  IInv'
<1>1. /\ requests' \subseteq requests /\ UNCHANGED <<log, transport, focus, effects>>
      /\ r.got # Waiting /\ (Replace(r.got) \/ Merge(r.got))
  BY DEF TakeRefetch, TakeFallback, Answered
<1>2. r.got \in SUBSET (1 .. Len(log))
  BY <1>1, AnswersAreLogged
<1> QED BY <1>1, <1>2, ReplacedList, MergedList, EffectsStay

\* The stream opens where the first fetch of this effect has come to.
LEMMA TakeSnapshotKeepsInv ==
    ASSUME IInv, NEW r \in requests, TakeSnapshot(r)
    PROVE  IInv'
<1> DEFINE g == r.by
           fx == [effects[g] EXCEPT !.source = "open", !.seq = lastSeq']
<1>1. /\ requests' = requests \ {r} /\ UNCHANGED <<log, transport, focus>>
      /\ r.kind = "snapshot" /\ r.got # Waiting /\ Changed(g, fx)
      /\ IF effects[g].disposed THEN KeepList ELSE Replace(r.got)
  BY DEF TakeSnapshot, Answered, OpenStream
<1>2. /\ g \in 1 .. Len(effects) /\ effects[g] \in Effect
      /\ r.swap = effects[g].swap /\ r.after = 0 /\ effects[g].source = "none"
  BY <1>1, Facts DEF IInv, CallsInv, CallOK
<1>3. r.got \in SUBSET (1 .. Len(log)) /\ Gapless(r)
  BY <1>1, AnswersAreLogged
<1>4. /\ shown' \subseteq 1 .. Len(log) /\ lastSeq' \in 0 .. Len(log)
      /\ seen \subseteq seen' /\ seen' \subseteq Seqs
  BY <1>1, <1>3, ReplacedList, Facts DEF KeepList
<1>5. lastSeq' \in 0 .. MaxEvents /\ lastSeq' <= Len(log)
  BY <1>4, Facts
<1>6. /\ fx \in Effect /\ fx.swap = effects[g].swap /\ fx.disposed = effects[g].disposed
      /\ fx.seq = lastSeq' /\ fx.source = "open"
  BY <1>2, <1>5 DEF Effect, Sources
<1> HIDE DEF fx
<1>7. \A q \in requests' : q.by = g => q.kind # "snapshot" /\ q.kind # "stream"
  <2>1. ASSUME NEW q \in requests', q.by = g
        PROVE  q.kind # "snapshot" /\ q.kind # "stream"
    <3>1. q \in requests /\ q # r
      BY <1>1
    <3>2. q.kind # "snapshot"
      BY <1>1, <2>1, <3>1 DEF IInv, CallsInv
    <3>3. q.kind # "stream"
      BY <1>2, <2>1, <3>1 DEF IInv, CallsInv, CallOK
    <3> QED BY <3>2, <3>3
  <2> QED BY <2>1
<1>8. ASSUME g \in Current
      PROVE  {e \in FetchSwapEvents(fx.swap, 0) : e <= fx.seq} \subseteq seen'
  <2>1. Replace(r.got)
    BY <1>1, <1>8 DEF IInv, PositionsInv
  <2>2. lastSeq' = Top(r.got) /\ r.got \subseteq seen'
    BY <2>1 DEF Replace
  <2>3. r.got \subseteq 0 .. Len(log)
    BY <1>3
  <2>4. r.got # {} => Top(r.got) \in r.got
    BY <2>3, Facts, TopIsLast
  <2>5. r.got = {} => Top(r.got) = 0
    BY DEF Top
  <2>6. ASSUME NEW e \in FetchSwapEvents(r.swap, 0), e <= Top(r.got)
        PROVE  e \in r.got
    <3>1. e \in 1 .. Len(log) /\ ~(e <= 0)
      BY Facts, FetchedAreLogged
    <3>2. r.got # {}
      BY <2>5, <2>6, <3>1
    <3> QED BY <1>2, <1>3, <2>4, <2>6, <3>2 DEF Gapless
  <2> QED BY <1>2, <1>6, <2>2, <2>6
<1> HIDE DEF g
<1> QED BY <1>1, <1>2, <1>4, <1>5, <1>6, <1>7, <1>8, EffectChanges

\* The next poll asks from the last event of this one.
LEMMA TakeStreamPollKeepsInv ==
    ASSUME IInv, NEW r \in requests, TakeStreamPoll(r)
    PROVE  IInv'
<1> DEFINE g == r.by
           seq == Top({effects[g].seq} \cup r.got)
           fallback == effects[g].fallback /\ r.got = {}
           fx == [effects[g] EXCEPT !.seq = seq, !.fallback = fallback]
<1>1. /\ requests' \subseteq requests /\ UNCHANGED <<log, transport, focus>>
      /\ r.kind = "stream" /\ r.got # Waiting /\ Changed(g, fx) /\ Merge(r.got)
  BY DEF TakeStreamPoll, Answered
<1>2. /\ g \in 1 .. Len(effects) /\ effects[g] \in Effect /\ r.swap = effects[g].swap
      /\ effects[g].source # "none" /\ r.after <= effects[g].seq /\ r \in Request
  BY <1>1, Facts DEF IInv, CallsInv, CallOK
<1>3. r.got \in SUBSET (1 .. Len(log)) /\ Gapless(r)
  BY <1>1, AnswersAreLogged
<1>4. /\ shown' \subseteq 1 .. Len(log) /\ lastSeq' \in 0 .. Len(log)
      /\ seen \subseteq seen' /\ seen' \subseteq Seqs /\ r.got \subseteq seen'
  BY <1>1, <1>3, MergedList
<1>5. /\ seq \in 0 .. Len(log) /\ seq \in {effects[g].seq} \cup r.got
      /\ \A e \in {effects[g].seq} \cup r.got : e <= seq
  <2>1. effects[g].seq \in 0 .. Len(log)
    BY <1>2, Facts DEF IInv, PositionsInv, Effect
  <2>2. {effects[g].seq} \cup r.got \subseteq 0 .. Len(log)
    BY <1>3, <2>1
  <2> HIDE DEF g
  <2> QED BY <2>2, Facts, TopIsLast
<1>6. seq \in 0 .. MaxEvents /\ seq <= Len(log) /\ fallback \in BOOLEAN
  BY <1>5, Facts
<1> HIDE DEF seq, fallback
<1>7. /\ fx \in Effect /\ fx.swap = effects[g].swap /\ fx.disposed = effects[g].disposed
      /\ fx.seq = seq /\ fx.source = effects[g].source
  BY <1>2, <1>6 DEF Effect
<1> HIDE DEF fx
<1>8. ASSUME NEW q \in requests', q.by = g
      PROVE  /\ q.kind = "snapshot" => fx.source = "none"
             /\ q.kind = "stream" => fx.source # "none" /\ q.after <= fx.seq
  <2>1. CallOK(q) /\ q \in Request
    BY <1>1, Facts DEF IInv, CallsInv
  <2>2. effects[g].seq <= seq /\ effects[g].seq \in Nat /\ seq \in Nat /\ q.after \in Nat
    BY <1>2, <1>5, <2>1 DEF Effect, Request
  <2> QED BY <1>7, <1>8, <2>1, <2>2 DEF CallOK
<1>9. ASSUME g \in Current
      PROVE  {e \in FetchSwapEvents(fx.swap, 0) : e <= fx.seq} \subseteq seen'
  <2>1. ASSUME NEW e \in FetchSwapEvents(fx.swap, 0), e <= seq
        PROVE  e \in seen'
    <3>1. e \in 1 .. Len(log) /\ e \in FetchSwapEvents(r.swap, 0)
      BY <1>2, <1>7, <2>1, Facts, FetchedAreLogged
    <3>2. CASE e <= effects[g].seq
      BY <1>4, <1>7, <1>9, <2>1, <3>2 DEF IInv, StreamSkipsNothing
    <3>3. CASE ~(e <= effects[g].seq)
      <4>1. effects[g].seq \in Nat /\ r.after \in Nat /\ e \in Nat
        BY <1>2, <3>1 DEF Effect, Request
      <4>2. e > r.after /\ seq # effects[g].seq
        BY <1>2, <2>1, <3>3, <4>1
      <4>3. e \in FetchSwapEvents(r.swap, r.after) /\ seq \in r.got
        BY <1>5, <3>1, <4>2 DEF FetchSwapEvents
      <4> QED BY <1>3, <1>4, <2>1, <4>3 DEF Gapless
    <3> QED BY <3>2, <3>3
  <2> QED BY <1>7, <2>1
<1> HIDE DEF g
<1> QED BY <1>1, <1>2, <1>4, <1>6, <1>7, <1>8, <1>9, EffectChanges

-----------------------------------------------------------------------------
(* The log, timers and the event source.                                   *)

LEMMA LogEventKeepsInv ==
    ASSUME IInv, NEW s \in Swaps, LogEvent(s)
    PROVE  IInv'
<1> DEFINE n == Len(log)
<1>1. /\ n < MaxEvents /\ log' = Append(log, s)
      /\ UNCHANGED <<transport, focus, shown, lastSeq, effects, requests, seen>>
  BY DEF LogEvent
<1>2. n \in Nat /\ log \in Seq(Swaps) /\ MaxEvents \in Nat
  BY Facts
<1>3. /\ log' \in Seq(Swaps) /\ Len(log') = n + 1 /\ n + 1 <= MaxEvents
      /\ \A e \in 1 .. n : log'[e] = log[e]
  BY <1>1, <1>2
<1> HIDE DEF n
<1>4. WellTyped'
  BY <1>1, <1>3 DEF IInv, WellTyped, TypeOK
<1>5. PositionsInv'
  <2>1. shown \subseteq 1 .. n + 1 /\ lastSeq <= n + 1
    <3>1. shown \subseteq 1 .. n /\ lastSeq \in 0 .. n
      BY Facts DEF n
    <3> QED BY <1>2, <3>1
  <2>2. ASSUME NEW g \in 1 .. Len(effects) PROVE effects[g].seq <= n + 1
    <3>1. effects[g].seq \in Nat /\ effects[g].seq <= n
      BY PositionsAreNumbers DEF n
    <3> QED BY <1>2, <3>1
  <2> QED BY <1>1, <1>3, <2>1, <2>2 DEF IInv, PositionsInv, Current
<1>6. ASSUME NEW r, NEW after
      PROVE  \A e : e \in FetchSwapEvents(r, after)'
                        => e = n + 1 \/ (e \in 1 .. n /\ e \in FetchSwapEvents(r, after))
  BY <1>2, <1>3 DEF FetchSwapEvents, n
<1>7. ASSUME NEW r, NEW after
      PROVE  FetchSwapEvents(r, after) \subseteq FetchSwapEvents(r, after)'
  BY <1>2, <1>3 DEF FetchSwapEvents, n
<1>8. CallsInv'
  <2>1. ASSUME NEW r \in requests PROVE CallOK(r)'
    <3>1. CallOK(r)
      BY DEF IInv, CallsInv
    <3>2. ASSUME r.got # Waiting PROVE Gapless(r)'
      <4>1. r.got \subseteq FetchSwapEvents(r.swap, r.after)
        BY <3>1, <3>2 DEF CallOK, Gapless
      <4>2. r.got \subseteq FetchSwapEvents(r.swap, r.after)'
        BY <1>7, <4>1
      <4>3. ASSUME NEW d \in r.got, NEW e \in FetchSwapEvents(r.swap, r.after)', e <= d
            PROVE  e \in r.got
        <5>1. d \in 1 .. n
          BY <1>2, <3>2, AnswersAreLogged DEF n
        <5>2. e # n + 1
          BY <1>2, <4>3, <5>1
        <5>3. e \in FetchSwapEvents(r.swap, r.after)
          BY <1>6, <5>2
        <5> QED BY <3>1, <3>2, <4>3, <5>3 DEF CallOK, Gapless
      <4> QED BY <4>2, <4>3 DEF Gapless
    <3> QED BY <1>1, <3>1, <3>2 DEF CallOK
  <2> QED BY <1>1, <2>1 DEF IInv, CallsInv
<1>9. StreamSkipsNothing'
  <2>1. ASSUME NEW g \in Current, NEW e \in 1 .. n + 1, log'[e] = effects[g].swap,
               e <= effects[g].seq
        PROVE  e \in seen
    <3>1. g \in 1 .. Len(effects)
      BY Facts DEF Current
    <3>2. effects[g].seq \in Nat /\ effects[g].seq <= n
      BY <3>1, PositionsAreNumbers DEF n
    <3>3. e \in 1 .. n /\ e > 0
      BY <1>2, <2>1, <3>2
    <3>4. e \in FetchSwapEvents(effects[g].swap, 0)
      BY <1>2, <1>3, <2>1, <3>3 DEF FetchSwapEvents, n
    <3> QED BY <2>1, <3>4 DEF IInv, StreamSkipsNothing
  <2>2. DOMAIN log' = 1 .. n + 1
    BY <1>3
  <2> QED BY <1>1, <2>1, <2>2 DEF StreamSkipsNothing, Current, FetchSwapEvents
<1> QED BY <1>4, <1>5, <1>8, <1>9 DEF IInv

\* The browser is handed the next event, and none is between.
LEMMA DeliverKeepsInv ==
    ASSUME IInv, NEW g \in 1 .. Len(effects), Deliver(g)
    PROVE  IInv'
<1> DEFINE next == FetchSwapEvents(effects[g].swap, effects[g].seq)
           seq == Min(next)
           fx == [effects[g] EXCEPT !.seq = seq, !.fallback = FALSE]
<1>1. /\ next # {} /\ effects[g].source = "open" /\ Merge({seq}) /\ Changed(g, fx)
      /\ UNCHANGED <<log, transport, focus, requests>>
  BY DEF Deliver
<1>2. next \subseteq 1 .. Len(log) /\ next \subseteq Nat /\ effects[g] \in Effect
  BY Facts, FetchedAreLogged
<1>3. seq \in next /\ (\A e \in next : seq <= e)
  BY <1>1, <1>2, MinIsLeast
<1>4. /\ seq \in 1 .. Len(log) /\ effects[g].seq \in Nat /\ effects[g].seq < seq
      /\ seq \in 0 .. MaxEvents /\ seq <= Len(log)
  <2>1. seq \in 1 .. Len(log) /\ effects[g].seq \in Nat
    BY <1>2, <1>3, PositionsAreNumbers
  <2>2. seq > effects[g].seq
    BY <1>3 DEF FetchSwapEvents
  <2> HIDE DEF seq
  <2> QED BY <2>1, <2>2, Facts
<1>5. \A e \in FetchSwapEvents(effects[g].swap, 0) :
          e <= seq => e <= effects[g].seq \/ e = seq
  <2>1. ASSUME NEW e \in FetchSwapEvents(effects[g].swap, 0), e <= seq, ~(e <= effects[g].seq)
        PROVE  e = seq
    <3>1. e \in 1 .. Len(log)
      BY Facts, FetchedAreLogged
    <3>2. e \in next
      BY <1>4, <2>1, <3>1 DEF FetchSwapEvents
    <3>3. seq <= e
      BY <1>3, <3>2
    <3> HIDE DEF seq
    <3> QED BY <1>4, <2>1, <3>1, <3>3
  <2> QED BY <2>1
<1> HIDE DEF seq, next
<1>6. /\ fx \in Effect /\ fx.swap = effects[g].swap /\ fx.disposed = effects[g].disposed
      /\ fx.seq = seq /\ fx.source = effects[g].source
  BY <1>2, <1>4 DEF Effect
<1> HIDE DEF fx
<1>7. /\ shown' \subseteq 1 .. Len(log) /\ lastSeq' \in 0 .. Len(log)
      /\ seen \subseteq seen' /\ seen' \subseteq Seqs /\ seq \in seen'
  <2>1. {seq} \in SUBSET (1 .. Len(log))
    BY <1>4
  <2> QED BY <1>1, <2>1, MergedList
<1>8. ASSUME NEW q \in requests', q.by = g
      PROVE  /\ q.kind = "snapshot" => fx.source = "none"
             /\ q.kind = "stream" => fx.source # "none" /\ q.after <= fx.seq
  <2>1. CallOK(q) /\ q.after \in Nat
    BY <1>1, Facts DEF IInv, CallsInv, Request
  <2> QED BY <1>4, <1>6, <1>8, <2>1 DEF CallOK
<1>9. ASSUME g \in Current
      PROVE  {e \in FetchSwapEvents(fx.swap, 0) : e <= fx.seq} \subseteq seen'
  <2>1. {e \in FetchSwapEvents(effects[g].swap, 0) : e <= effects[g].seq} \subseteq seen
    BY <1>9 DEF IInv, StreamSkipsNothing
  <2> QED BY <1>5, <1>6, <1>7, <2>1
<1> QED BY <1>1, <1>4, <1>6, <1>7, <1>8, <1>9, EffectChanges

\* The source goes down, is opened again or given up: its position stays.
LEMMA SourceKeepsInv ==
    ASSUME IInv, NEW g \in 1 .. Len(effects), Drop(g) \/ Reconnect(g) \/ Unimplemented(g)
    PROVE  IInv'
<1>1. /\ effects[g].source # "none"
      /\ UNCHANGED <<log, transport, focus, shown, lastSeq, requests, seen>>
  BY DEF Drop, Reconnect, Unimplemented
<1>2. effects[g] \in Effect
  BY Facts
<1>3. PICK fx \in Effect :
         /\ Changed(g, fx) /\ fx.swap = effects[g].swap /\ fx.disposed = effects[g].disposed
         /\ fx.seq = effects[g].seq /\ fx.source # "none"
  <2>1. CASE Drop(g)
    <3> DEFINE fx == [Degraded(effects[g]) EXCEPT !.source = "down"]
    <3>1. Changed(g, fx)
      BY <2>1 DEF Drop
    <3>2. /\ fx \in Effect /\ fx.swap = effects[g].swap /\ fx.disposed = effects[g].disposed
          /\ fx.seq = effects[g].seq /\ fx.source = "down"
      BY <1>2, DegradedEffect DEF Effect, Sources
    <3> HIDE DEF fx
    <3> QED BY <3>1, <3>2
  <2>2. CASE Unimplemented(g)
    <3> DEFINE fx == [Degraded(effects[g]) EXCEPT !.source = "off"]
    <3>1. Changed(g, fx)
      BY <2>2 DEF Unimplemented
    <3>2. /\ fx \in Effect /\ fx.swap = effects[g].swap /\ fx.disposed = effects[g].disposed
          /\ fx.seq = effects[g].seq /\ fx.source = "off"
      BY <1>2, DegradedEffect DEF Effect, Sources
    <3> HIDE DEF fx
    <3> QED BY <3>1, <3>2
  <2>3. CASE Reconnect(g)
    <3> DEFINE fx == [effects[g] EXCEPT !.source = "open"]
    <3>1. Changed(g, fx)
      BY <2>3 DEF Reconnect
    <3>2. /\ fx \in Effect /\ fx.swap = effects[g].swap /\ fx.disposed = effects[g].disposed
          /\ fx.seq = effects[g].seq /\ fx.source = "open"
      BY <1>2 DEF Effect, Sources
    <3> HIDE DEF fx
    <3> QED BY <3>1, <3>2
  <2> QED BY <2>1, <2>2, <2>3
<1>4. \A q \in requests' : q.by = g =>
          /\ q.kind = "snapshot" => fx.source = "none"
          /\ q.kind = "stream" => fx.source # "none" /\ q.after <= fx.seq
  BY <1>1, <1>3 DEF IInv, CallsInv, CallOK
<1>5. g \in Current => {e \in FetchSwapEvents(fx.swap, 0) : e <= fx.seq} \subseteq seen'
  BY <1>1, <1>3 DEF IInv, StreamSkipsNothing
<1>6. fx.seq <= Len(log)
  BY <1>3 DEF IInv, PositionsInv
<1>7. /\ requests' \subseteq requests /\ shown' \subseteq 1 .. Len(log)
      /\ lastSeq' \in 0 .. Len(log) /\ seen \subseteq seen' /\ seen' \subseteq Seqs
  BY <1>1, Facts
<1> QED BY <1>1, <1>3, <1>4, <1>5, <1>6, <1>7, EffectChanges

-----------------------------------------------------------------------------
(* Calls.                                                                  *)

\* What the core reads has no gap.
LEMMA ServeKeepsInv ==
    ASSUME IInv, NEW r \in requests, Serve(r)
    PROVE  IInv'
<1> DEFINE got == FetchSwapEvents(r.swap, r.after)
           others == requests \ {r}
<1>0. PICK a : a = [r EXCEPT !.got = got]
  OBVIOUS
<1>1. /\ r.got = Waiting /\ requests' = others \cup {a}
      /\ UNCHANGED <<log, transport, focus, shown, lastSeq, effects, seen>>
  BY <1>0 DEF Serve
<1>2. r \in Request /\ got \subseteq 1 .. Len(log) /\ got \in SUBSET (0 .. MaxEvents)
  <2>1. got \subseteq 1 .. Len(log) /\ r \in Request
    BY Facts, FetchedAreLogged
  <2> HIDE DEF got
  <2>2. 1 .. Len(log) \subseteq 0 .. MaxEvents
    BY Facts
  <2> QED BY <2>1, <2>2
<1>3. Gapless(a)
  BY <1>0, <1>2 DEF Gapless, Request
<1> HIDE DEF got
<1>4. /\ a \in Request /\ a.kind = r.kind /\ a.by = r.by /\ a.swap = r.swap
      /\ a.after = r.after /\ a.got = got
  BY <1>0, <1>2 DEF Request
<1>5. WellTyped'
  <2>1. /\ IsFiniteSet(others)
        /\ Cardinality(others) = Cardinality(requests) - 1
    BY Facts, FS_RemoveElement
  <2>2. /\ IsFiniteSet(others \cup {a})
        /\ Cardinality(others \cup {a}) \in {Cardinality(others), Cardinality(others) + 1}
    BY <2>1, FS_AddElement
  <2>3. Cardinality(others \cup {a}) <= MaxRequests
    BY <2>1, <2>2, Facts
  <2>4. requests' \subseteq Request
    BY <1>1, <1>4, Facts
  <2> QED BY <1>1, <2>2, <2>3, <2>4 DEF IInv, WellTyped, TypeOK
<1>6. PositionsInv' /\ StreamSkipsNothing'
  BY <1>1 DEF IInv, PositionsInv, StreamSkipsNothing, Current, FetchSwapEvents
<1>7. CallsInv'
  <2>1. ASSUME NEW q \in requests' PROVE CallOK(q)'
    <3>1. CASE q = a
      <4>1. CallOK(r)
        BY DEF IInv, CallsInv
      <4>2. Gapless(a)'
        BY <1>1, <1>3 DEF Gapless, FetchSwapEvents
      <4> QED BY <1>1, <1>4, <3>1, <4>1, <4>2 DEF CallOK, Gapless
    <3>2. CASE q \in others
      BY <1>1, <3>2 DEF IInv, CallsInv, CallOK, Gapless, FetchSwapEvents
    <3> QED BY <1>1, <3>1, <3>2
  <2>2. ASSUME NEW p \in requests', NEW q \in requests',
               p.kind = "snapshot", q.kind = "snapshot", p.by = q.by
        PROVE  p = q
    BY <1>1, <1>4, <2>2 DEF IInv, CallsInv
  <2> QED BY <2>1, <2>2 DEF CallsInv
<1> QED BY <1>5, <1>6, <1>7 DEF IInv

LEMMA CallIsTyped ==
    ASSUME NEW kind \in Kinds, NEW g \in 0 .. MaxInstances, NEW s \in Swaps,
           NEW after \in 0 .. MaxEvents, NEW c, c = Call(kind, g, s, after)
    PROVE  /\ c \in Request /\ c.kind = kind /\ c.by = g /\ c.swap = s /\ c.after = after
           /\ c.got = Waiting
<1>1. Waiting \in SUBSET (0 .. MaxEvents)
  BY DEF Waiting
<1> QED BY <1>1 DEF Call, Request

\* Calls are issued for effects that exist, and no second first fetch.
LEMMA CallsIssued ==
    ASSUME IInv, NEW new \in SUBSET Request, IsFiniteSet(new), Issue(new),
           \A c \in new : c.kind # "snapshot" /\ CallOK(c),
           UNCHANGED <<log, transport, focus, shown, lastSeq, effects, seen>>
    PROVE  IInv'
<1>1. requests' = requests \cup new /\ Cardinality(requests') <= MaxRequests
  BY DEF Issue
<1>2. WellTyped'
  <2>1. IsFiniteSet(requests')
    BY <1>1, Facts, FS_Union
  <2>2. requests' \subseteq Request
    BY <1>1, Facts
  <2> QED BY <1>1, <2>1, <2>2 DEF IInv, WellTyped, TypeOK
<1>3. PositionsInv' /\ StreamSkipsNothing'
  BY DEF IInv, PositionsInv, StreamSkipsNothing, Current, FetchSwapEvents
<1>4. CallsInv'
  <2>1. ASSUME NEW q \in requests' PROVE CallOK(q)'
    <3>1. CallOK(q)
      BY <1>1 DEF IInv, CallsInv
    <3> QED BY <3>1 DEF CallOK, Gapless, FetchSwapEvents
  <2>2. ASSUME NEW p \in requests', NEW q \in requests',
               p.kind = "snapshot", q.kind = "snapshot", p.by = q.by
        PROVE  p = q
    BY <1>1, <2>2 DEF IInv, CallsInv
  <2> QED BY <2>1, <2>2 DEF CallsInv
<1> QED BY <1>2, <1>3, <1>4 DEF IInv

LEMMA TicksKeepInv ==
    ASSUME IInv, NEW g \in 1 .. Len(effects), FallbackTick(g) \/ PollTick(g)
    PROVE  IInv'
<1>1. /\ g \in 0 .. MaxInstances /\ effects[g].swap \in Swaps
      /\ effects[g].seq \in 0 .. MaxEvents /\ lastSeq \in 0 .. MaxEvents
      /\ effects[g].seq \in Nat
  BY Facts, PositionsAreNumbers DEF Effect
<1>2. UNCHANGED <<log, transport, focus, shown, lastSeq, effects, seen>>
  BY DEF FallbackTick, PollTick
<1>3. CASE FallbackTick(g)
  <2>1. PICK c : c = Call("fallback", g, effects[g].swap, lastSeq)
    OBVIOUS
  <2>2. /\ c \in Request /\ c.kind = "fallback" /\ c.by = g /\ c.swap = effects[g].swap
        /\ c.got = Waiting
    BY <1>1, <2>1, CallIsTyped DEF Kinds
  <2>3. Issue({c}) /\ CallOK(c)
    BY <1>3, <2>1, <2>2 DEF FallbackTick, CallOK
  <2> QED BY <1>2, <2>2, <2>3, FS_Singleton, CallsIssued
<1>4. CASE PollTick(g)
  <2>1. PICK c : c = Call("stream", g, effects[g].swap, effects[g].seq)
    OBVIOUS
  <2>2. /\ c \in Request /\ c.kind = "stream" /\ c.by = g /\ c.swap = effects[g].swap
        /\ c.after = effects[g].seq /\ c.got = Waiting
    BY <1>1, <2>1, CallIsTyped DEF Kinds
  <2>3. Issue({c}) /\ CallOK(c)
    BY <1>1, <1>4, <2>1, <2>2 DEF PollTick, CallOK
  <2> QED BY <1>2, <2>2, <2>3, FS_Singleton, CallsIssued
<1> QED BY <1>3, <1>4

-----------------------------------------------------------------------------
(* The user selects a swap.                                                *)

LEMMA SelectSwapKeepsInv ==
    ASSUME IInv, NEW s \in Swaps, SelectSwap(s)
    PROVE  IInv'
<1> DEFINE n == Len(effects)
           old == IF focus = NoSwap THEN {} ELSE {Call("refetch", 0, focus, 0)}
<1>1. UNCHANGED <<log, transport, lastSeq>> /\ focus' = s
  BY DEF SelectSwap
<1>2. /\ n \in Nat /\ MaxInstances \in Nat /\ MaxEvents \in Nat /\ 0 \in 0 .. MaxEvents
      /\ 0 \in 0 .. MaxInstances
  BY Facts
<1>3. /\ old \subseteq Request /\ IsFiniteSet(old)
      /\ \A c \in old : c.kind = "refetch" /\ c.got = Waiting
  <2>1. CASE focus = NoSwap
    BY <2>1, FS_EmptySet
  <2>2. CASE focus # NoSwap
    <3>1. focus \in Swaps
      BY <2>2, Facts
    <3>2. PICK c : c = Call("refetch", 0, focus, 0)
      OBVIOUS
    <3>3. c \in Request /\ c.kind = "refetch" /\ c.got = Waiting
      BY <1>2, <3>1, <3>2, CallIsTyped DEF Kinds
    <3> QED BY <2>2, <3>2, <3>3, FS_Singleton
  <2> QED BY <2>1, <2>2
<1>4. shown' \subseteq 1 .. Len(log) /\ shown' \subseteq Seqs
  <2>1. shown' \subseteq shown
    BY DEF SelectSwap
  <2> QED BY <2>1, Facts DEF Seqs
<1>5. CASE s = focus
  <2>1. Issue(old) /\ UNCHANGED <<effects, seen>>
    BY <1>5 DEF SelectSwap
  <2> HIDE DEF old
  <2>2. requests' = requests \cup old /\ Cardinality(requests') <= MaxRequests
    BY <2>1 DEF Issue
  <2>3. WellTyped'
    <3>1. IsFiniteSet(requests') /\ requests' \subseteq Request
      BY <1>3, <2>2, Facts, FS_Union
    <3> QED BY <1>1, <1>4, <2>1, <2>2, <3>1 DEF IInv, WellTyped, TypeOK
  <2>4. PositionsInv' /\ StreamSkipsNothing'
    BY <1>1, <1>4, <2>1
    DEF IInv, PositionsInv, StreamSkipsNothing, Current, FetchSwapEvents
  <2>5. CallsInv'
    <3>1. ASSUME NEW q \in requests' PROVE CallOK(q)'
      <4>1. CallOK(q)
        BY <1>3, <2>2 DEF IInv, CallsInv, CallOK
      <4> QED BY <1>1, <2>1, <4>1 DEF CallOK, Gapless, FetchSwapEvents
    <3>2. ASSUME NEW p \in requests', NEW q \in requests',
                 p.kind = "snapshot", q.kind = "snapshot", p.by = q.by
          PROVE  p = q
      BY <1>3, <2>2, <3>2 DEF IInv, CallsInv
    <3> QED BY <3>1, <3>2 DEF CallsInv
  <2> QED BY <2>3, <2>4, <2>5 DEF IInv
<1>6. CASE s # focus
  <2> DEFINE front == [g \in 1 .. n |-> IF g = n THEN Dispose(effects[g]) ELSE effects[g]]
             both == old \cup {Call("refetch", 0, s, 0), Call("snapshot", n + 1, s, 0)}
  <2>1. /\ n < MaxInstances /\ effects' = Append(front, Mounted(s)) /\ Issue(both)
        /\ seen' = {}
    BY <1>6 DEF SelectSwap
  <2>2. PICK again, first : /\ again = Call("refetch", 0, s, 0)
                            /\ first = Call("snapshot", n + 1, s, 0)
    OBVIOUS
  <2>3. n + 1 \in 0 .. MaxInstances /\ n + 1 <= MaxInstances
    BY <1>2, <2>1
  <2>4. again \in Request /\ again.kind = "refetch" /\ again.got = Waiting
    BY <1>2, <2>2, CallIsTyped DEF Kinds
  <2>5. /\ first \in Request /\ first.kind = "snapshot" /\ first.by = n + 1 /\ first.swap = s
        /\ first.after = 0 /\ first.got = Waiting
    BY <1>2, <2>2, <2>3, CallIsTyped DEF Kinds
  <2>6. requests' = requests \cup old \cup {again, first} /\ Cardinality(requests') <= MaxRequests
    BY <2>1, <2>2 DEF Issue
  <2> HIDE DEF old, both
  <2>7. /\ Mounted(s) \in Effect /\ Mounted(s).swap = s /\ Mounted(s).source = "none"
        /\ Mounted(s).seq = 0 /\ ~Mounted(s).disposed
    BY <1>2 DEF Mounted, Effect, Sources
  <2>8. ASSUME NEW g \in 1 .. n
        PROVE  /\ Dispose(effects[g]) \in Effect
               /\ Dispose(effects[g]).swap = effects[g].swap
               /\ Dispose(effects[g]).seq = effects[g].seq
               /\ Dispose(effects[g]).source = "none" <=> effects[g].source = "none"
    <3>1. effects[g] \in Effect
      BY Facts
    <3> QED BY <3>1 DEF Dispose, Effect, Sources
  <2>9. /\ front \in Seq(Effect) /\ Len(front) = n
        /\ \A g \in 1 .. n : /\ front[g].swap = effects[g].swap
                             /\ front[g].seq = effects[g].seq
                             /\ front[g].source = "none" <=> effects[g].source = "none"
    <3>1. \A g \in 1 .. n : effects[g] \in Effect
      BY Facts
    <3> QED BY <1>2, <2>8, <3>1
  <2> HIDE DEF front
  <2>10. /\ effects' \in Seq(Effect) /\ Len(effects') = n + 1 /\ effects'[n + 1] = Mounted(s)
         /\ \A g \in 1 .. n : effects'[g] = front[g]
    BY <1>2, <2>1, <2>7, <2>9
  <2>11. \A g \in 1 .. n + 1 : g \in 1 .. n \/ g = n + 1
    BY <1>2
  <2>12. WellTyped'
    <3>1. IsFiniteSet(requests') /\ requests' \subseteq Request
      <4>1. IsFiniteSet({again, first})
        <5>1. {again, first} = {again} \cup {first}
          OBVIOUS
        <5>2. IsFiniteSet({again}) /\ IsFiniteSet({first})
          BY FS_Singleton
        <5>3. IsFiniteSet({again} \cup {first})
          BY <5>2, FS_Union
        <5> QED BY <5>1, <5>3
      <4>2. IsFiniteSet(requests \cup old)
        BY <1>3, Facts, FS_Union
      <4> QED BY <1>3, <2>4, <2>5, <2>6, <4>1, <4>2, Facts, FS_Union
    <3>2. seen' \subseteq Seqs /\ Len(effects') <= MaxInstances
      BY <2>1, <2>3, <2>10
    <3>3. /\ log' \in Seq(Swaps) /\ Len(log') <= MaxEvents /\ transport' \in {"ipc", "http"}
          /\ focus' \in Swaps \cup {NoSwap} /\ lastSeq' \in 0 .. MaxEvents
      BY <1>1, Facts
    <3> QED BY <1>4, <2>6, <2>10, <3>1, <3>2, <3>3 DEF WellTyped, TypeOK
  <2>13. Current' = {n + 1}
    BY <1>2, <2>10 DEF Current
  <2>14. PositionsInv'
    <3>1. \A g \in 1 .. Len(effects') : effects'[g].seq <= Len(log')
      <4>1. 0 <= Len(log)
        BY Facts
      <4> QED BY <1>1, <2>7, <2>9, <2>10, <2>11, <4>1, PositionsAreNumbers
    <3>2. lastSeq' <= Len(log')
      BY <1>1, Facts
    <3> QED BY <1>1, <1>4, <2>7, <2>10, <2>13, <3>1, <3>2 DEF PositionsInv
  <2>15. StreamSkipsNothing'
    <3>1. \A e \in 1 .. Len(log) : ~(e <= 0)
      BY Facts
    <3>2. log \in Seq(Swaps)
      BY Facts
    <3> QED BY <1>1, <2>7, <2>10, <2>13, <3>1, <3>2 DEF StreamSkipsNothing, FetchSwapEvents
  <2>16. CallsInv'
    <3>1. \A q \in requests : /\ CallOK(q)
                              /\ q.kind # "refetch" => q.by \in 1 .. n
      BY DEF IInv, CallsInv, CallOK
    <3>2. ASSUME NEW q \in requests' PROVE CallOK(q)'
      <4>1. CASE q \in requests
        <5>1. Gapless(q)' <=> Gapless(q)
          BY <1>1 DEF Gapless, FetchSwapEvents
        <5> QED BY <1>2, <2>9, <2>10, <3>1, <4>1, <5>1 DEF CallOK
      <4>2. CASE q \in old \/ q = again
        BY <1>3, <2>4, <4>2 DEF CallOK
      <4>3. CASE q = first
        <5>1. n + 1 \in 1 .. n + 1
          BY <1>2
        <5> QED BY <2>5, <2>7, <2>10, <4>3, <5>1 DEF CallOK
      <4> QED BY <2>6, <4>1, <4>2, <4>3
    <3>3. n + 1 \notin 1 .. n
      BY <1>2
    <3>4. ASSUME NEW p \in requests', NEW q \in requests',
                 p.kind = "snapshot", q.kind = "snapshot", p.by = q.by
          PROVE  p = q
      <4>1. (p \in requests \/ p = first) /\ (q \in requests \/ q = first)
        BY <1>3, <2>4, <2>6, <3>4
      <4>2. \A c \in requests : c.kind = "snapshot" => c.by # n + 1
        BY <3>1, <3>3
      <4> QED BY <2>5, <3>4, <4>1, <4>2 DEF IInv, CallsInv
    <3> QED BY <3>2, <3>4 DEF CallsInv
  <2> QED BY <2>12, <2>14, <2>15, <2>16 DEF IInv
<1> QED BY <1>5, <1>6

-----------------------------------------------------------------------------
(* The theorems.                                                           *)

LEMMA InitEstablishesInv == Init => IInv
<1> SUFFICES ASSUME Init PROVE IInv
  OBVIOUS
<1>1. /\ log \in Seq(Swaps) /\ Len(log) = 0 /\ effects \in Seq(Effect) /\ Len(effects) = 0
      /\ requests = {} /\ shown = {} /\ lastSeq = 0 /\ seen = {} /\ focus = NoSwap
      /\ transport \in {"ipc", "http"}
  BY DEF Init
<1>2. {MaxEvents, MaxInstances, MaxRequests} \subseteq Nat
  OBVIOUS
<1>3. WellTyped
  <2>1. IsFiniteSet(requests) /\ Cardinality(requests) = 0
    BY <1>1, FS_EmptySet
  <2>2. lastSeq \in 0 .. MaxEvents /\ 0 <= MaxEvents /\ 0 <= MaxInstances /\ 0 <= MaxRequests
    BY <1>1, <1>2
  <2> QED BY <1>1, <2>1, <2>2 DEF WellTyped, TypeOK
<1>4. Current = {}
  BY <1>1 DEF Current
<1>5. PositionsInv /\ CallsInv /\ StreamSkipsNothing
  BY <1>1, <1>4 DEF PositionsInv, CallsInv, StreamSkipsNothing
<1> QED BY <1>3, <1>5 DEF IInv

LEMMA NextKeepsInv == IInv /\ [Next]_timelineVars => IInv'
<1> SUFFICES ASSUME IInv, [Next]_timelineVars PROVE IInv'
  OBVIOUS
<1>1. ASSUME NEW s \in Swaps, LogEvent(s) \/ SelectSwap(s)
      PROVE  IInv'
  BY <1>1, LogEventKeepsInv, SelectSwapKeepsInv
<1>2. ASSUME NEW r \in requests, Serve(r) \/ Fail(r) \/ Take(r)
      PROVE  IInv'
  BY <1>2, ServeKeepsInv, FailKeepsInv, TakeRefetchKeepsInv, TakeSnapshotKeepsInv,
     TakeStreamPollKeepsInv DEF Take
<1>3. ASSUME NEW g \in DOMAIN effects,
             \/ FallbackTick(g) \/ PollTick(g) \/ Deliver(g) \/ Drop(g)
             \/ Reconnect(g) \/ Unimplemented(g)
      PROVE  IInv'
  <2>1. g \in 1 .. Len(effects)
    BY Facts
  <2> QED BY <1>3, <2>1, TicksKeepInv, DeliverKeepsInv, SourceKeepsInv
<1>4. CASE UNCHANGED timelineVars
  <2>1. UNCHANGED <<log, transport, focus, shown, lastSeq, effects, requests, seen>>
    BY <1>4 DEF timelineVars
  <2> QED BY <2>1, Facts, EffectsStay
<1> QED BY <1>1, <1>2, <1>3, <1>4 DEF Next

\* Answers have no gap, polls never ask from ahead of the stream, and the first
\* fetch of an effect is over when its stream opens.
THEOREM Invariant == Spec => []IInv
<1> QED BY InitEstablishesInv, NextKeepsInv, PTL DEF Spec

\* Every variable keeps its type, and no more calls are in flight than issued.
THEOREM TypeCorrect == Spec => []TypeOK
<1>1. IInv => TypeOK
  BY DEF IInv, WellTyped
<1> QED BY <1>1, Invariant, PTL

\* For any number of events, selections, drops and overtaken polls: up to where
\* the stream of the selected swap stands, each of its events was shown (api.ts,
\* watchSwapEvents).
THEOREM NothingIsSkipped == Spec => []StreamSkipsNothing
<1>1. IInv => StreamSkipsNothing
  BY DEF IInv
<1> QED BY <1>1, Invariant, PTL

=============================================================================
