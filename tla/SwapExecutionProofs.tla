------------------------ MODULE SwapExecutionProofs -------------------------
(***************************************************************************)
(* Theorems about SwapExecution, for any number of handlers and provider   *)
(* swaps, any heights and timeouts and each kind of swap.  IInv says what  *)
(* every handler and the watcher may rely on between two of their steps,   *)
(* whatever the others did meanwhile: what it says of a place in the code  *)
(* is what an engineer would write there as an assertion.                  *)
(***************************************************************************)
EXTENDS SwapExecution, SwapStatesProofs

-----------------------------------------------------------------------------
(* The inductive invariant.                                                *)

ClientPcs == {"idle", "created", "intended", "creating", "details", "storing", "response",
              "recording", "starting", "started", "waiting"}

WatcherPcs == {"idle", "listed", "fetch", "persist", "apply", "hop", "hopped", "record hops",
               "reload", "claim", "send", "sent", "await", "record claim", "act", "move",
               "record move", "refund", "persist refund"}

Rows == [state : States \cup {"none"}, version : 0..LongestWalk,
         intent : 0..(MaxProviderSwaps + 1), boltz : 0..MaxProviderSwaps,
         status : Statuses \cup {""}, timeout : {0, QuoteTimeout, ProviderTimeout},
         refundTx : BOOLEAN]

Handlers == [pc : ClientPcs, made : 0..MaxProviderSwaps, intent : 0..(MaxProviderSwaps + 1),
             version : 0..LongestWalk]

Watchers == [pc : WatcherPcs, seen : Copies, h : 0..MaxHeight, ps : Statuses \cup {""},
             path : Seq(States), version : 0..LongestWalk]

Backings == [status : Statuses \cup {""}, lockup : {"none", "funded", "claimed"},
             claimed : BOOLEAN, details : BOOLEAN, timeout : {0, ProviderTimeout}]

RecordedBy == {"commit_provider_create", "provider", "musig_claim", "reconcile"}

\* TypeOK with every function and record in its set.
WellTyped ==
    /\ row \in Rows
    /\ ops \subseteq (RecordedBy \X States)
    /\ client \in [Clients -> Handlers]
    /\ watcher \in Watchers
    /\ provider \in [ProviderSwaps -> Backings]
    /\ refund \in {"none", "mempool", "confirmed"}
    /\ height \in FirstHeight..MaxHeight /\ cached \in 0..height /\ watcher.h \in 0..height

\* The row: blank before it exists, its version no more than the moves that
\* lead to its state, and a provider swap only for what has an intent.
RowInv ==
    /\ row.state = "none" => row = NoRow
    /\ row.state \in States => row.version <= Rank[row.state]
    /\ row.boltz # 0 => Backed /\ row.intent # NoIntent
    /\ CommittedSwapIsBacked

\* What the keys stand for is done: RecordedMeansDone for every state at once.
OpsInv ==
    /\ CommitKey \in ops => row.boltz # 0
    /\ \A by \in {"provider", "musig_claim", "reconcile"}, s \in States :
           Key(by, s) \in ops => row.state \in States /\ Rank[s] < Rank[row.state]

\* A handler at work has its row, the one that creates it is alone, and one
\* that commits finds what it or another handler has written so far.
Committing == {"creating", "details", "storing", "response", "recording", "starting"}

HandlerAt(c) ==
    /\ client[c].pc # "idle" => row.state \in States
    /\ client[c].pc = "created" => row.intent = NoIntent
    /\ client[c].pc \in Committing => row.intent # NoIntent
    /\ client[c].pc \in {"details", "storing", "response"} =>
           client[c].made \in ProviderSwaps /\ provider[client[c].made].status # ""
    /\ client[c].pc = "storing" =>
           /\ client[c].intent # NoIntent
           /\ DetailsGiven => client[c].intent \in ProviderSwaps
    /\ client[c].pc \in {"response", "recording"} => (DetailsGiven => HasDetails)
    /\ client[c].pc \in {"recording", "starting"} => row.boltz # 0

ClientInv ==
    /\ \A c \in Clients : HandlerAt(c)
    /\ \A c, d \in Clients : client[c].pc = "created" /\ client[d].pc = "created" => c = d

\* The signing state and what comes after it.
PastSigning == {"signing_musig2_partial", "sent_partial_to_provider",
                "waiting_provider_broadcast", "fallback_script_ready", "refunding",
                "completed", "failed"}

\* The watcher's copy is an earlier state of the row, the same one when the
\* versions agree.
SeenIsPast ==
    watcher.pc # "idle" =>
        /\ watcher.seen.state \in States
        /\ row.state \in States
        /\ watcher.seen.version <= row.version
        /\ Rank[watcher.seen.state] <= Rank[row.state]
        /\ watcher.seen.version = row.version => watcher.seen.state = row.state
        /\ watcher.seen.state \in PastSigning => row.state \in PastSigning
        /\ watcher.seen.boltz # 0 =>
               /\ row.boltz # 0
               /\ TimeoutsGiven => watcher.seen.timeout \in {0, ProviderTimeout}
        /\ watcher.pc \notin {"move", "record move"} =>
               watcher.seen.refundTx = row.refundTx

\* Where the provider's status is asked for and applied there is a provider swap.
OnProviderSwap ==
    watcher.pc \in {"fetch", "persist", "apply", "hop", "hopped", "record hops", "reload",
                    "persist refund"} => watcher.seen.boltz # 0

\* The walk along a path: it has a next state, it never completes a refund, and
\* once a state of it is entered the row has left the state of the copy.
WalkInv ==
    /\ watcher.pc \in {"hop", "hopped"} =>
           /\ watcher.path # <<>>
           /\ \A i \in 1..(Len(watcher.path) - 1) :
                  watcher.path[i] = "refunding" => watcher.path[i + 1] # "completed"
    /\ watcher.pc = "hop" /\ row.state = "refunding" /\ row.version = watcher.version =>
           Head(watcher.path) # "completed"
    /\ watcher.pc = "hopped" /\ row.state = "refunding" => Head(watcher.path) = "refunding"
    /\ watcher.pc \in {"hopped", "record hops", "record move"} =>
           Rank[watcher.seen.state] < Rank[row.state]
    /\ watcher.pc = "record claim" => Rank["signing_musig2_partial"] < Rank[row.state]

\* The move decided by NextAction: never the commit, out of refunding only when
\* the refund was seen, and a refund only from the height of its timelock on.
DecisionInv ==
    /\ watcher.pc \in {"move", "refund", "persist refund"} =>
           /\ watcher.path # <<>>
           /\ Head(watcher.path) # "commit_started"
           /\ watcher.seen.state = "refunding" => refund # "none"
    /\ watcher.pc \in {"refund", "persist refund"} =>
           /\ watcher.seen.state = "fallback_script_ready"
           /\ 0 < watcher.seen.timeout
           /\ watcher.seen.timeout <= watcher.h

WatcherInv == SeenIsPast /\ OnProviderSwap /\ WalkInv /\ DecisionInv

IInv == WellTyped /\ RowInv /\ OpsInv /\ ClientInv /\ WatcherInv

-----------------------------------------------------------------------------
(* Facts about the table, the provider's statuses and the decisions.       *)

LEMMA ClosedBehindSigning ==
    \A s \in States : s \in PastSigning => ValidTransitions[s] \subseteq PastSigning
BY DEF States, ValidTransitions, PastSigning

\* A swap gets among the committed ones by commit_started alone.
LEMMA CommitIsTheGate ==
    \A s \in States : \A t \in ValidTransitions[s] :
        t \in Committed /\ t # "commit_started" => s \in Committed
BY DEF States, ValidTransitions, Committed

LEMMA NormalizedIsState ==
    ASSUME NEW status
    PROVE  Normalize(status, Kind).state \in States
<1>1. NormalizeSubmarine(status).state \in States
  BY DEF NormalizeSubmarine, Mapping, Unknown, States
<1>2. NormalizeReverse(status).state \in States
  BY DEF NormalizeReverse, Mapping, Unknown, States
<1>3. NormalizeChain(status).state \in States
  BY DEF NormalizeChain, Mapping, Unknown, States
<1> QED
  BY <1>1, <1>2, <1>3, ExecutionConstants DEF Normalize, Kinds

\* The target of a status is a state, and a swap in refunding stays there.
LEMMA TargetIsState ==
    ASSUME NEW current \in States, NEW status
    PROVE  /\ ResolveTarget(current, status, Kind) \in States
           /\ current = "refunding" => ResolveTarget(current, status, Kind) = current
<1>1. "completed" \in States /\ "refunding" \in States
  BY DEF States
<1> QED
  BY <1>1, NormalizedIsState DEF ResolveTarget

\* What NextAction may decide.
LEMMA DecisionsAreMoves ==
    ASSUME NEW s \in States, NEW facts, NextAction(s, facts).action # "none"
    PROVE  LET next == NextAction(s, facts)
           IN  /\ next.to \in States \ {"commit_started"}
               /\ next.to = "refunding" => s = "fallback_script_ready"
               /\ s = "refunding" => facts.refundSeen
               /\ next.action = "broadcast_refund" =>
                      s = "fallback_script_ready" /\ facts.timeoutReached
BY DEF NextAction, Do, MuSigStates, States

-----------------------------------------------------------------------------
(* What a step may do to the row, as everybody else sees it.               *)

\* What the provider has answered stays as it is.
KeepsAnswers ==
    \A p \in ProviderSwaps : provider[p].status # "" =>
        /\ provider'[p].status # ""
        /\ provider'[p].details = provider[p].details
        /\ provider'[p].timeout = provider[p].timeout

LEMMA GivenBefore ==
    ASSUME KeepsAnswers
    PROVE  (DetailsGiven' => DetailsGiven) /\ (TimeoutsGiven' => TimeoutsGiven)
<1>1. DetailsGiven' => DetailsGiven
  BY DEF KeepsAnswers, DetailsGiven
<1>2. TimeoutsGiven' => TimeoutsGiven
  BY DEF KeepsAnswers, TimeoutsGiven
<1> QED
  BY <1>1, <1>2

LEMMA SameAnswers ==
    ASSUME provider' = provider
    PROVE  KeepsAnswers
BY DEF KeepsAnswers

\* The swap goes forward only, and what it has gained it keeps: the details as
\* long as no answer lacks them.
Grows ==
    /\ row.state \in States =>
           /\ row'.state \in States
           /\ row.version <= row'.version
           /\ Rank[row.state] <= Rank[row'.state]
           /\ row.version = row'.version => row.state = row'.state
           /\ row.state \in PastSigning => row'.state \in PastSigning
    /\ row.boltz # 0 => row'.boltz # 0
    /\ row.intent # NoIntent => row'.intent # NoIntent
    /\ (DetailsGiven => HasDetails) => (DetailsGiven' => HasDetails')
    /\ KeepsAnswers

LEMMA GrowsInPlace ==
    ASSUME WellTyped, KeepsAnswers, row'.state = row.state, row'.version = row.version,
           row.boltz # 0 => row'.boltz # 0, row.intent # NoIntent => row'.intent # NoIntent,
           (DetailsGiven => HasDetails) => (DetailsGiven' => HasDetails')
    PROVE  Grows
<1>0. row.version \in 0..11
  BY DEF WellTyped, Rows, LongestWalk
<1>1. row.version <= row.version
  BY <1>0
<1>2. row.state \in States => Rank[row.state] <= Rank[row.state]
  BY MovesRaiseRank
<1> QED
  BY <1>1, <1>2 DEF Grows

LEMMA SameRowGrows ==
    ASSUME WellTyped, KeepsAnswers, row'.state = row.state, row'.version = row.version,
           row'.boltz = row.boltz, row'.intent = row.intent
    PROVE  Grows
<1>1. (DetailsGiven => HasDetails) => (DetailsGiven' => HasDetails')
  BY GivenBefore DEF HasDetails, ProviderSwaps
<1> QED
  BY <1>1, GrowsInPlace DEF NoIntent

\* What is backed stays backed while the row keeps its provider swap.
LEMMA BackingStays ==
    ASSUME WellTyped, row.boltz # 0 => Backed, KeepsAnswers, row'.boltz = row.boltz,
           row'.timeout = row.timeout, DetailsGiven' /\ HasDetails => HasDetails'
    PROVE  row'.boltz # 0 => Backed'
<1> SUFFICES ASSUME row'.boltz # 0
             PROVE  Backed'
  OBVIOUS
<1>1. Backed /\ row.boltz \in ProviderSwaps
  <2>1. row.boltz # 0 /\ row.boltz \in 0..MaxProviderSwaps /\ MaxProviderSwaps \in Nat
    BY ExecutionConstants DEF WellTyped, Rows
  <2>2. row.boltz \in 1..MaxProviderSwaps
    BY <2>1
  <2> QED
    BY <2>1, <2>2 DEF ProviderSwaps
<1>2. /\ provider[row.boltz].status # ""
      /\ provider[row.boltz].timeout > 0 => row.timeout = provider[row.boltz].timeout
      /\ DetailsGiven => HasDetails
  BY <1>1 DEF Backed
<1>3. /\ provider'[row.boltz].status # ""
      /\ provider'[row.boltz].timeout = provider[row.boltz].timeout
  BY <1>1, <1>2 DEF KeepsAnswers
<1>4. DetailsGiven' => HasDetails'
  BY <1>2, GivenBefore
<1> QED
  BY <1>2, <1>3, <1>4 DEF Backed

LEMMA RowInvStays ==
    ASSUME WellTyped, RowInv, KeepsAnswers, row'.state = row.state, row'.version = row.version,
           row'.intent = row.intent, row'.boltz = row.boltz, row'.timeout = row.timeout,
           row.state = "none" => row' = row
    PROVE  RowInv'
<1>1. row'.boltz # 0 => Backed'
  BY BackingStays DEF RowInv, HasDetails, ProviderSwaps
<1>2. CommittedSwapIsBacked'
  <2>1. CommittedSwapIsBacked => (Kind # "submarine" /\ row'.state \in Committed => row'.boltz # 0)
    BY DEF CommittedSwapIsBacked, Backed
  <2> QED
    BY <1>1, <2>1 DEF RowInv, CommittedSwapIsBacked
<1>3. row'.state = "none" => row' = NoRow
  BY DEF RowInv
<1> QED
  BY <1>1, <1>2, <1>3 DEF RowInv, NoIntent

\* A transition the engine accepts: one move along the table, one version more,
\* and nothing else of the row.
LEMMA AcceptedMove ==
    ASSUME WellTyped, RowInv, NEW version, NEW to, Accepts(version, to), row' = Moved(to),
           to = "commit_started" => Kind = "submarine" \/ row.boltz # 0,
           provider' = provider
    PROVE  /\ row' \in Rows
           /\ row'.state = to /\ row'.version = row.version + 1
           /\ row'.intent = row.intent /\ row'.boltz = row.boltz
           /\ row'.timeout = row.timeout /\ row'.refundTx = row.refundTx
           /\ row.state \in States /\ to \in ValidTransitions[row.state]
           /\ Rank[row.state] < Rank[row'.state]
           /\ Grows
           /\ RowInv'
<1>1. /\ row.state \in States /\ to \in ValidTransitions[row.state] /\ to \in States
      /\ row.version \in 0..LongestWalk
  BY TransitionsAreStates DEF Accepts, WellTyped, Rows
<1> DEFINE a == Rank[row.state]   b == Rank[to]   v == row.version
<1>2. a < b /\ a \in 0..10 /\ b \in 0..10
  BY <1>1, MovesRaiseRank
<1>3. v <= a /\ v \in Nat
  BY <1>1 DEF RowInv, LongestWalk
<1> HIDE DEF a, b
<1>4. v + 1 <= b /\ v + 1 \in 0..LongestWalk /\ v < v + 1 /\ v <= v + 1 /\ v # v + 1
  BY <1>2, <1>3 DEF LongestWalk
<1> HIDE DEF v
<1>5. /\ row'.state = to /\ row'.version = v + 1
      /\ row'.intent = row.intent /\ row'.boltz = row.boltz
      /\ row'.timeout = row.timeout /\ row'.refundTx = row.refundTx
      /\ row' \in Rows
  BY <1>1, <1>4 DEF Moved, WellTyped, Rows, v
<1>6. a <= b
  BY <1>2
<1>7. Grows
  <2>1. (DetailsGiven => HasDetails) => (DetailsGiven' => HasDetails')
    BY <1>5, SameAnswers, GivenBefore DEF HasDetails, ProviderSwaps
  <2> QED
    BY <1>1, <1>4, <1>5, <1>6, <2>1, ClosedBehindSigning, SameAnswers DEF Grows, v, a, b
<1>8. RowInv'
  <2>1. row'.state # "none"
    BY <1>1, <1>5 DEF States
  <2>2. row'.version <= Rank[row'.state]
    BY <1>4, <1>5 DEF b
  <2>3. row'.boltz # 0 => Backed'
    BY <1>5, SameAnswers, BackingStays DEF RowInv, HasDetails, ProviderSwaps
  <2>4. CommittedSwapIsBacked'
    <3> SUFFICES ASSUME Kind # "submarine", to \in Committed
                 PROVE  row'.boltz # 0
      BY <1>5, <2>3 DEF CommittedSwapIsBacked
    <3>1. row.state \in Committed \/ row.boltz # 0
      BY <1>1, CommitIsTheGate
    <3> QED
      BY <1>5, <3>1 DEF RowInv, CommittedSwapIsBacked, Backed
  <2> QED
    BY <1>5, <2>1, <2>2, <2>3, <2>4 DEF RowInv, NoIntent
<1> QED
  BY <1>1, <1>2, <1>5, <1>7, <1>8 DEF v, a, b

-----------------------------------------------------------------------------
(* What each actor may rely on survives the steps of the others.           *)

LEMMA OpsCarry ==
    ASSUME WellTyped, OpsInv, Grows, ops' = ops
    PROVE  OpsInv'
<1>1. ASSUME NEW s \in States, row.state \in States, Rank[s] < Rank[row.state]
      PROVE  row'.state \in States /\ Rank[s] < Rank[row'.state]
  <2>1. row'.state \in States /\ Rank[row.state] <= Rank[row'.state]
    BY <1>1 DEF Grows
  <2> DEFINE a == Rank[s]   b == Rank[row.state]   d == Rank[row'.state]
  <2>2. a \in 0..10 /\ b \in 0..10 /\ d \in 0..10 /\ a < b /\ b <= d
    BY <1>1, <2>1, MovesRaiseRank
  <2> HIDE DEF a, b, d
  <2>3. a < d
    BY <2>2
  <2> QED
    BY <2>1, <2>3 DEF a, d
<1>2. CommitKey \in ops' => row'.boltz # 0
  BY DEF OpsInv, Grows
<1>3. ASSUME NEW by \in {"provider", "musig_claim", "reconcile"}, NEW s \in States,
             Key(by, s) \in ops'
      PROVE  row'.state \in States /\ Rank[s] < Rank[row'.state]
  BY <1>1, <1>3 DEF OpsInv
<1> QED
  BY <1>2, <1>3 DEF OpsInv, CommitKey, Key

\* A handler's step: what it says of its own place, and that nobody else's
\* creation is disturbed, is enough.
LEMMA HandlersCarry ==
    ASSUME WellTyped, ClientInv, Grows, NEW c \in Clients,
           \A d \in Clients \ {c} : client'[d] = client[d],
           HandlerAt(c)', client'[c].pc = "created" => row.state = "none",
           row'.intent # row.intent => row.intent # NoIntent \/ client[c].pc = "created"
    PROVE  ClientInv'
<1>1. ASSUME NEW d \in Clients \ {c}, client[d].pc = "created"
      PROVE  row'.intent = NoIntent /\ client'[c].pc # "created"
  <2>1. row.intent = NoIntent /\ client[c].pc # "created"
    BY <1>1 DEF ClientInv, HandlerAt
  <2>2. row.state \in States
    BY <1>1 DEF ClientInv, HandlerAt
  <2> QED
    BY <2>1, <2>2 DEF States
<1>2. ASSUME NEW d \in Clients \ {c}
      PROVE  HandlerAt(d)'
  <2>1. client'[d] = client[d] /\ HandlerAt(d)
    BY <1>2 DEF ClientInv
  <2>2. client[d].pc \in {"details", "storing", "response"} =>
            client[d].made \in ProviderSwaps /\ provider'[client[d].made].status # ""
    BY <2>1 DEF HandlerAt, Grows, KeepsAnswers
  <2>3. DetailsGiven' => DetailsGiven
    BY GivenBefore DEF Grows
  <2> QED
    BY <1>1, <2>1, <2>2, <2>3 DEF Grows, HandlerAt
<1>3. ASSUME NEW d \in Clients, NEW e \in Clients,
             client'[d].pc = "created", client'[e].pc = "created"
      PROVE  d = e
  BY <1>1, <1>3 DEF ClientInv
<1> QED
  BY <1>2, <1>3 DEF ClientInv

\* A step of the watcher, or of nobody: the handlers stay where they are.
LEMMA HandlersUntouched ==
    ASSUME ClientInv, Grows, client' = client, row'.intent = row.intent
    PROVE  ClientInv'
<1>1. ASSUME NEW d \in Clients PROVE HandlerAt(d)'
  <2>1. client'[d] = client[d] /\ HandlerAt(d)
    BY DEF ClientInv
  <2>2. client[d].pc \in {"details", "storing", "response"} =>
            client[d].made \in ProviderSwaps /\ provider'[client[d].made].status # ""
    BY <2>1 DEF HandlerAt, Grows, KeepsAnswers
  <2>3. DetailsGiven' => DetailsGiven
    BY GivenBefore DEF Grows
  <2> QED
    BY <2>1, <2>2, <2>3 DEF Grows, HandlerAt
<1> QED
  BY <1>1 DEF ClientInv

\* The row's part of SeenIsPast for a copy that stays what it is.
LEMMA CopyStaysPast ==
    ASSUME WellTyped, Grows, row' \in Rows, NEW seen \in Copies,
           seen.state \in States, row.state \in States, seen.version <= row.version,
           Rank[seen.state] <= Rank[row.state],
           seen.version = row.version => seen.state = row.state,
           seen.state \in PastSigning => row.state \in PastSigning
    PROVE  /\ row'.state \in States /\ seen.version <= row'.version
           /\ Rank[seen.state] <= Rank[row'.state]
           /\ seen.version = row'.version => seen.state = row'.state
           /\ seen.state \in PastSigning => row'.state \in PastSigning
<1>1. /\ row'.state \in States /\ row.version <= row'.version
      /\ Rank[row.state] <= Rank[row'.state]
      /\ row.version = row'.version => row.state = row'.state
      /\ row.state \in PastSigning => row'.state \in PastSigning
  BY DEF Grows
<1> DEFINE u == seen.version   v == row.version   w == row'.version
           a == Rank[seen.state]   b == Rank[row.state]   c == Rank[row'.state]
<1>2. a \in 0..10 /\ b \in 0..10 /\ c \in 0..10 /\ a <= b /\ b <= c
  BY <1>1, MovesRaiseRank
<1>3. u \in 0..11 /\ v \in 0..11 /\ w \in 0..11
  BY DEF Copies, Rows, WellTyped, LongestWalk
<1>4. u <= v /\ v <= w
  BY <1>1
<1> HIDE DEF a, b, c, u, v, w
<1>5. a <= c /\ u <= w /\ (u = w => u = v /\ v = w)
  BY <1>2, <1>3, <1>4
<1> QED
  BY <1>1, <1>5 DEF a, c, u, v, w

\* The same for a walk that has left the state of the copy.
LEMMA LeftBehind ==
    ASSUME WellTyped, Grows, NEW s \in States, row.state \in States,
           Rank[s] < Rank[row.state]
    PROVE  Rank[s] < Rank[row'.state]
<1>1. row'.state \in States /\ Rank[row.state] <= Rank[row'.state]
  BY DEF Grows
<1> DEFINE a == Rank[s]   b == Rank[row.state]   d == Rank[row'.state]
<1>2. a \in 0..10 /\ b \in 0..10 /\ d \in 0..10 /\ a < b /\ b <= d
  BY <1>1, MovesRaiseRank
<1> HIDE DEF a, b, d
<1>3. a < d
  BY <1>2
<1> QED
  BY <1>3 DEF a, d

\* A step of a handler, or of nobody: the watcher stays where it is.
LEMMA WatcherUntouched ==
    ASSUME WellTyped, WatcherInv, Grows, row' \in Rows, watcher' = watcher,
           row'.refundTx = row.refundTx,
           \/ row'.state = row.state /\ row'.version = row.version
           \/ row'.state # "refunding",
           refund # "none" => refund' # "none"
    PROVE  WatcherInv'
<1>1. SeenIsPast'
  <2> SUFFICES ASSUME watcher.pc # "idle" PROVE SeenIsPast'
    BY DEF SeenIsPast
  <2>1. watcher.seen \in Copies
    BY DEF WellTyped, Watchers
  <2> DEFINE seen == watcher.seen
  <2>2. /\ seen.state \in States /\ row.state \in States /\ seen.version <= row.version
        /\ Rank[seen.state] <= Rank[row.state]
        /\ seen.version = row.version => seen.state = row.state
        /\ seen.state \in PastSigning => row.state \in PastSigning
        /\ seen.boltz # 0 => row.boltz # 0
        /\ seen.boltz # 0 /\ TimeoutsGiven => seen.timeout \in {0, ProviderTimeout}
        /\ watcher.pc \notin {"move", "record move"} => seen.refundTx = row.refundTx
    BY DEF WatcherInv, SeenIsPast
  <2> HIDE DEF seen
  <2>3. /\ row'.state \in States /\ seen.version <= row'.version
        /\ Rank[seen.state] <= Rank[row'.state]
        /\ seen.version = row'.version => seen.state = row'.state
        /\ seen.state \in PastSigning => row'.state \in PastSigning
    BY <2>1, <2>2, CopyStaysPast DEF seen
  <2>4. (row.boltz # 0 => row'.boltz # 0) /\ (TimeoutsGiven' => TimeoutsGiven)
    BY GivenBefore DEF Grows
  <2> QED
    BY <2>2, <2>3, <2>4 DEF SeenIsPast, seen
<1>2. OnProviderSwap'
  BY DEF WatcherInv, OnProviderSwap
<1>3. WalkInv'
  <2>1. ASSUME watcher.pc \in {"hopped", "record hops", "record move"}
        PROVE  Rank[watcher.seen.state] < Rank[row'.state]
    BY <2>1, LeftBehind DEF WatcherInv, WalkInv, SeenIsPast
  <2>2. ASSUME watcher.pc = "record claim"
        PROVE  Rank["signing_musig2_partial"] < Rank[row'.state]
    <3>1. "signing_musig2_partial" \in States
      BY DEF States
    <3> QED
      BY <2>2, <3>1, LeftBehind DEF WatcherInv, WalkInv, SeenIsPast
  <2> QED
    BY <2>1, <2>2 DEF WatcherInv, WalkInv
<1>4. DecisionInv'
  BY DEF WatcherInv, DecisionInv
<1> QED
  BY <1>1, <1>2, <1>3, <1>4 DEF WatcherInv

-----------------------------------------------------------------------------
(* The handlers.                                                           *)

LEMMA AtMoves ==
    ASSUME WellTyped, NEW c \in Clients, NEW pc \in ClientPcs, At(c, pc)
    PROVE  /\ client' \in [Clients -> Handlers]
           /\ \A d \in Clients \ {c} : client'[d] = client[d]
           /\ client'[c].pc = pc /\ client'[c].made = client[c].made
BY DEF WellTyped, At, Handlers

LEMMA ReturnMoves ==
    ASSUME WellTyped, NEW c \in Clients, Return(c)
    PROVE  /\ client' \in [Clients -> Handlers]
           /\ \A d \in Clients \ {c} : client'[d] = client[d]
           /\ client'[c].pc = "idle"
<1>1. IdleClient \in Handlers
  BY ExecutionConstants DEF IdleClient, Handlers, ClientPcs, LongestWalk, NoIntent
<1>2. IdleClient.pc = "idle"
  BY DEF IdleClient
<1> HIDE DEF IdleClient
<1> QED
  BY <1>1, <1>2 DEF WellTyped, Return

\* What a step of the handler c has to show.
HandlerStep(c) ==
    /\ row' \in Rows
    /\ RowInv'
    /\ Grows
    /\ ops' \subseteq (RecordedBy \X States)
    /\ OpsInv'
    /\ client' \in [Clients -> Handlers]
    /\ \A d \in Clients \ {c} : client'[d] = client[d]
    /\ HandlerAt(c)'
    /\ client'[c].pc = "created" => row.state = "none"
    /\ row'.intent # row.intent => row.intent # NoIntent \/ client[c].pc = "created"
    /\ row'.refundTx = row.refundTx
    /\ \/ row'.state = row.state /\ row'.version = row.version
       \/ row'.state # "refunding"
    /\ provider' \in [ProviderSwaps -> Backings]
    /\ UNCHANGED <<watcher, cached, height, refund>>

LEMMA HandlerStepKeepsIInv ==
    ASSUME IInv, NEW c \in Clients, HandlerStep(c)
    PROVE  IInv'
<1>1. WellTyped'
  BY DEF IInv, WellTyped, HandlerStep
<1>2. ClientInv'
  BY HandlersCarry DEF IInv, HandlerStep
<1>3. WatcherInv'
  BY WatcherUntouched DEF IInv, HandlerStep
<1> QED
  BY <1>1, <1>2, <1>3 DEF IInv, HandlerStep

\* The part of a handler's step that is not about its own place, for a step that
\* is an accepted transition and for one that leaves the row alone.
Elsewhere ==
    /\ row' \in Rows
    /\ RowInv'
    /\ Grows
    /\ ops' \subseteq (RecordedBy \X States)
    /\ OpsInv'
    /\ row'.intent = row.intent
    /\ row'.refundTx = row.refundTx
    /\ \/ row'.state = row.state /\ row'.version = row.version
       \/ row'.state # "refunding"
    /\ provider' \in [ProviderSwaps -> Backings]
    /\ UNCHANGED <<watcher, cached, height, refund>>

LEMMA HandlerTransition ==
    ASSUME IInv, NEW version,
           NEW to \in {"locked", "canceled", "commit_started", "waiting"},
           Accepts(version, to), row' = Moved(to),
           to = "commit_started" => Kind = "submarine" \/ row.boltz # 0,
           UNCHANGED <<ops, watcher, cached, environment>>
    PROVE  Elsewhere /\ row'.state \in States /\ row.state \in States
<1>1. /\ row' \in Rows /\ RowInv' /\ Grows /\ row'.state = to
      /\ row'.intent = row.intent /\ row'.refundTx = row.refundTx
      /\ row.state \in States /\ to \in ValidTransitions[row.state]
  BY AcceptedMove DEF IInv, environment
<1>2. OpsInv'
  BY <1>1, OpsCarry DEF IInv
<1>3. row'.state \in States
  BY <1>1, TransitionsAreStates
<1> QED
  BY <1>1, <1>2, <1>3 DEF Elsewhere, IInv, WellTyped, environment

LEMMA HandlerStays ==
    ASSUME IInv, UNCHANGED <<row, ops, watcher, cached, environment>>
    PROVE  Elsewhere
<1>0. KeepsAnswers
  BY SameAnswers DEF environment
<1>1. Grows
  BY <1>0, SameRowGrows DEF IInv
<1>2. OpsInv'
  BY <1>1, OpsCarry DEF IInv
<1>3. RowInv'
  BY <1>0, RowInvStays DEF IInv
<1> QED
  BY <1>1, <1>2, <1>3 DEF Elsewhere, IInv, WellTyped, environment

LEMMA ProviderSwapsTyped ==
    \A p \in ProviderSwaps :
        p \in 0..MaxProviderSwaps /\ p \in 0..(MaxProviderSwaps + 1) /\ p # 0
BY ExecutionConstants DEF ProviderSwaps

LEMMA RowStateTyped ==
    ASSUME IInv
    PROVE  /\ row.state \in States \cup {"none"} /\ row.version \in 0..LongestWalk
           /\ row.boltz \in 0..MaxProviderSwaps /\ row.intent \in 0..(MaxProviderSwaps + 1)
           /\ MaxProviderSwaps \in Nat \ {0} /\ row \in Rows
BY ExecutionConstants DEF IInv, WellTyped, Rows

LEMMA CreateInsertKeepsIInv ==
    ASSUME IInv, NEW c \in Clients, CreateInsert(c)
    PROVE  IInv'
<1>1. /\ row = NoRow /\ row' = [row EXCEPT !.state = "open"]
      /\ UNCHANGED <<ops, watcher, cached, environment>>
  BY DEF CreateInsert
<1>2. /\ client' \in [Clients -> Handlers] /\ client'[c].pc = "created"
      /\ \A d \in Clients \ {c} : client'[d] = client[d]
  BY AtMoves DEF CreateInsert, IInv, ClientPcs
<1>3. /\ row' \in Rows /\ row'.state = "open" /\ row'.version = 0 /\ row'.boltz = 0
      /\ row'.intent = NoIntent /\ row'.refundTx = row.refundTx
      /\ row.state = "none" /\ row.intent = NoIntent /\ row.boltz = 0
  BY <1>1, RowStateTyped DEF NoRow, Rows, States
<1>4. Grows
  <2>1. KeepsAnswers /\ (DetailsGiven' => DetailsGiven)
    BY <1>1, SameAnswers, GivenBefore DEF environment
  <2>2. ~HasDetails
    BY <1>3, ExecutionConstants DEF HasDetails, ProviderSwaps, NoIntent
  <2> QED
    BY <1>3, <2>1, <2>2 DEF Grows, States
<1>5. RowInv'
  <2>1. Rank["open"] = 0
    BY DEF Rank, States
  <2> QED
    BY <1>3, <2>1 DEF RowInv, CommittedSwapIsBacked, Committed
<1>6. OpsInv'
  BY <1>1, <1>4, OpsCarry DEF IInv
<1>7. HandlerAt(c)'
  BY <1>2, <1>3 DEF HandlerAt, Committing, States
<1>8. HandlerStep(c)
  BY <1>1, <1>2, <1>3, <1>4, <1>5, <1>6, <1>7 DEF HandlerStep, IInv, WellTyped, environment
<1> QED
  BY <1>8, HandlerStepKeepsIInv

LEMMA CreateWriteIntentKeepsIInv ==
    ASSUME IInv, NEW c \in Clients, CreateWriteIntent(c)
    PROVE  IInv'
<1>1. /\ client[c].pc = "created" /\ row' = [row EXCEPT !.intent = QuoteOnly, !.timeout = QuoteTimeout]
      /\ UNCHANGED <<ops, watcher, cached, environment>>
  BY DEF CreateWriteIntent
<1>2. /\ client' \in [Clients -> Handlers] /\ client'[c].pc = "intended"
      /\ \A d \in Clients \ {c} : client'[d] = client[d]
  BY AtMoves DEF CreateWriteIntent, IInv, ClientPcs
<1>3. row.intent = NoIntent /\ row.state \in States
  BY <1>1 DEF IInv, ClientInv, HandlerAt
<1>4. ~HasDetails
  BY <1>3, ExecutionConstants DEF HasDetails, NoIntent, ProviderSwaps
<1>5. row.boltz = 0 /\ (Kind # "submarine" => row.state \notin Committed)
  BY <1>3 DEF IInv, RowInv, CommittedSwapIsBacked, Backed
<1>6. QuoteOnly \in 0..(MaxProviderSwaps + 1) /\ QuoteOnly # NoIntent
  BY ExecutionConstants DEF QuoteOnly, NoIntent
<1>7. /\ row' \in Rows /\ row'.state = row.state /\ row'.version = row.version
      /\ row'.boltz = row.boltz /\ row'.intent = QuoteOnly /\ row'.refundTx = row.refundTx
  BY <1>1, <1>6, RowStateTyped DEF Rows
<1>8. Grows
  <2>1. KeepsAnswers /\ (DetailsGiven' => DetailsGiven)
    BY <1>1, SameAnswers, GivenBefore DEF environment
  <2> QED
    BY <1>4, <1>5, <1>6, <1>7, <2>1, MovesRaiseRank, RowStateTyped, <1>3
    DEF Grows, LongestWalk
<1>9. RowInv'
  BY <1>3, <1>5, <1>7 DEF IInv, RowInv, CommittedSwapIsBacked, States
<1>10. OpsInv'
  BY <1>1, <1>8, OpsCarry DEF IInv
<1>11. HandlerAt(c)'
  BY <1>2, <1>3, <1>7 DEF HandlerAt, Committing
<1>12. HandlerStep(c)
  BY <1>1, <1>2, <1>7, <1>8, <1>9, <1>10, <1>11 DEF HandlerStep, IInv, WellTyped, environment
<1> QED
  BY <1>12, HandlerStepKeepsIInv

LEMMA ElsewhereAndHere ==
    ASSUME IInv, NEW c \in Clients, Elsewhere,
           client' \in [Clients -> Handlers],
           \A d \in Clients \ {c} : client'[d] = client[d],
           HandlerAt(c)', client'[c].pc # "created"
    PROVE  IInv'
<1>1. HandlerStep(c)
  BY DEF Elsewhere, HandlerStep
<1> QED
  BY <1>1, HandlerStepKeepsIInv

LEMMA IdleIsFine ==
    ASSUME NEW c \in Clients, client'[c].pc = "idle"
    PROVE  HandlerAt(c)' /\ client'[c].pc # "created"
BY DEF HandlerAt, Committing

LEMMA CreateLockKeepsIInv ==
    ASSUME IInv, NEW c \in Clients, CreateLock(c)
    PROVE  IInv'
<1>1. /\ client' \in [Clients -> Handlers] /\ client'[c].pc = "idle"
      /\ \A d \in Clients \ {c} : client'[d] = client[d]
  BY ReturnMoves DEF CreateLock, IInv
<1>2. Elsewhere
  <2>1. CASE Accepts(0, "locked")
    <3>1. row' = Moved("locked") /\ UNCHANGED <<ops, watcher, cached, environment>>
      BY <2>1 DEF CreateLock
    <3> QED
      BY <2>1, <3>1, HandlerTransition
  <2>2. CASE ~Accepts(0, "locked")
    <3>1. row' = row /\ UNCHANGED <<ops, watcher, cached, environment>>
      BY <2>2 DEF CreateLock
    <3> QED
      BY <3>1, HandlerStays
  <2> QED
    BY <2>1, <2>2
<1> QED
  BY <1>1, <1>2, IdleIsFine, ElsewhereAndHere

\* The RPCs that are one transition each.
LEMMA OneTransitionKeepsIInv ==
    ASSUME IInv, NEW c \in Clients, LockSwap(c) \/ CancelSwap(c) \/ CommitSubmarine(c)
    PROVE  IInv'
<1>1. PICK to \in {"locked", "canceled", "commit_started"} :
          /\ Accepts(row.version, to) /\ row' = Moved(to)
          /\ to = "commit_started" => Kind = "submarine"
          /\ client[c].pc = "idle" /\ client' = client
          /\ UNCHANGED <<ops, watcher, cached, environment>>
  BY DEF LockSwap, CancelSwap, CommitSubmarine
<1>2. Elsewhere
  BY <1>1, HandlerTransition
<1>3. client' \in [Clients -> Handlers] /\ client'[c].pc = "idle"
  BY <1>1 DEF IInv, WellTyped
<1> QED
  BY <1>1, <1>2, <1>3, IdleIsFine, ElsewhereAndHere

LEMMA CommitBeginKeepsIInv ==
    ASSUME IInv, NEW c \in Clients, CommitBegin(c)
    PROVE  IInv'
<1> DEFINE pc == IF CommitKey \in ops THEN "starting" ELSE "creating"
<1>1. /\ row.intent # NoIntent /\ At(c, pc)
      /\ UNCHANGED <<row, ops, watcher, cached, environment>>
  BY DEF CommitBegin
<1>2. /\ client' \in [Clients -> Handlers] /\ client'[c].pc = pc
      /\ \A d \in Clients \ {c} : client'[d] = client[d]
  <2>1. pc \in ClientPcs
    BY DEF ClientPcs
  <2> HIDE DEF pc
  <2> QED
    BY <1>1, <2>1, AtMoves DEF IInv
<1>3. row.state \in States
  <2>1. NoRow.intent = NoIntent
    BY DEF NoRow
  <2>2. row.state = "none" => row = NoRow
    BY DEF IInv, RowInv
  <2> QED
    BY <1>1, <2>1, <2>2, RowStateTyped
<1>4. pc = "starting" => row.boltz # 0
  BY DEF IInv, OpsInv
<1>5. HandlerAt(c)'
  BY <1>1, <1>2, <1>3, <1>4 DEF HandlerAt
<1> QED
  BY <1>1, <1>2, <1>5, HandlerStays, ElsewhereAndHere

\* A new swap of the provider: the answers so far stay, and only more may lack.
LEMMA CommitProviderCreateKeepsIInv ==
    ASSUME IInv, NEW c \in Clients, CommitProviderCreate(c)
    PROVE  IInv'
<1>1. PICK p \in ProviderSwaps, answer \in Answers :
          /\ client[c].pc = "creating"
          /\ provider[p].status = ""
          /\ provider' = [provider EXCEPT ![p].status = "swap.created",
                                          ![p].details = answer.details,
                                          ![p].timeout = answer.timeout]
          /\ client' = [client EXCEPT ![c].pc = "details", ![c].made = p]
          /\ UNCHANGED <<row, ops, watcher, cached, height, refund>>
  BY DEF CommitProviderCreate
<1>2. /\ client' \in [Clients -> Handlers] /\ client'[c].pc = "details" /\ client'[c].made = p
      /\ \A d \in Clients \ {c} : client'[d] = client[d]
  <2>1. p \in 0..MaxProviderSwaps /\ "details" \in ClientPcs
    BY ProviderSwapsTyped DEF ClientPcs
  <2> QED
    BY <1>1, <2>1 DEF IInv, WellTyped, Handlers
<1>3. provider' \in [ProviderSwaps -> Backings] /\ provider'[p].status = "swap.created"
  <2>1. answer.details \in BOOLEAN /\ answer.timeout \in {0, ProviderTimeout}
    BY ExecutionConstants
  <2>2. provider \in [ProviderSwaps -> Backings] /\ "swap.created" \in Statuses
    BY DEF IInv, WellTyped, Statuses
  <2> DEFINE d == answer.details   t == answer.timeout
             b == [provider[p] EXCEPT !.status = "swap.created", !.details = d, !.timeout = t]
  <2>3. provider' = [provider EXCEPT ![p] = b]
    BY <1>1, <2>2
  <2> HIDE DEF d, t
  <2>4. b \in Backings /\ b.status = "swap.created"
    BY <2>1, <2>2 DEF Backings, d, t
  <2> HIDE DEF b
  <2> QED
    BY <2>2, <2>3, <2>4
<1>4. row.intent # NoIntent /\ row.state \in States
  BY <1>1 DEF IInv, ClientInv, HandlerAt, Committing
<1>5. HandlerAt(c)'
  BY <1>1, <1>2, <1>3, <1>4 DEF HandlerAt
<1>6. KeepsAnswers
  <2>1. \A q \in ProviderSwaps : provider[q].status # "" => provider'[q] = provider[q]
    BY <1>1 DEF IInv, WellTyped
  <2> QED
    BY <2>1 DEF KeepsAnswers
<1>7. Grows
  BY <1>1, <1>6, SameRowGrows DEF IInv
<1>8. OpsInv'
  BY <1>1, <1>7, OpsCarry DEF IInv
<1>9. RowInv'
  BY <1>1, <1>6, RowInvStays DEF IInv
<1>10. Elsewhere
  BY <1>1, <1>3, <1>7, <1>8, <1>9 DEF Elsewhere, IInv, WellTyped
<1> QED
  BY <1>2, <1>5, <1>10, ElsewhereAndHere

\* With details in the answer the intent to be stored has them; without them it
\* has those of the row, which are missing only if an answer lacked them.
LEMMA CommitReadIntentKeepsIInv ==
    ASSUME IInv, NEW c \in Clients, CommitReadIntent(c)
    PROVE  IInv'
<1> DEFINE p == client[c].made   i == IF provider[p].details THEN p ELSE row.intent
<1>1. /\ client[c].pc = "details"
      /\ client' = [client EXCEPT ![c].pc = "storing", ![c].intent = i]
      /\ UNCHANGED <<row, ops, watcher, cached, environment>>
  BY DEF CommitReadIntent
<1>2. /\ p \in ProviderSwaps /\ provider[p].status # ""
      /\ row.intent # NoIntent /\ row.state \in States
  BY <1>1 DEF IInv, ClientInv, HandlerAt, Committing
<1>3. i \in 0..(MaxProviderSwaps + 1) /\ i # NoIntent
  BY <1>2, ProviderSwapsTyped, RowStateTyped DEF NoIntent
<1>4. DetailsGiven => i \in ProviderSwaps
  BY <1>2 DEF DetailsGiven
<1> HIDE DEF i
<1>5. /\ client' \in [Clients -> Handlers] /\ client'[c].pc = "storing"
      /\ client'[c].made = p /\ client'[c].intent = i
      /\ \A d \in Clients \ {c} : client'[d] = client[d]
  <2>1. "storing" \in ClientPcs
    BY DEF ClientPcs
  <2> QED
    BY <1>1, <1>3, <2>1 DEF IInv, WellTyped, Handlers
<1>6. DetailsGiven' = DetailsGiven /\ row' = row /\ provider' = provider
  BY <1>1 DEF DetailsGiven, environment
<1> HIDE DEF p
<1>7. HandlerAt(c)'
  BY <1>2, <1>3, <1>4, <1>5, <1>6 DEF HandlerAt
<1> QED
  BY <1>1, <1>5, <1>7, HandlerStays, ElsewhereAndHere

LEMMA CommitPersistDetailsKeepsIInv ==
    ASSUME IInv, NEW c \in Clients, CommitPersistDetails(c)
    PROVE  IInv'
<1> DEFINE p == client[c].made   i == client[c].intent
<1>1. /\ client[c].pc = "storing" /\ row' = [row EXCEPT !.intent = i]
      /\ client' = [client EXCEPT ![c].pc = "response", ![c].intent = NoIntent]
      /\ UNCHANGED <<ops, watcher, cached, environment>>
  BY DEF CommitPersistDetails
<1>2. /\ client' \in [Clients -> Handlers] /\ client'[c].pc = "response" /\ client'[c].made = p
      /\ \A d \in Clients \ {c} : client'[d] = client[d]
  <2>1. "response" \in ClientPcs /\ NoIntent \in 0..(MaxProviderSwaps + 1)
    BY ExecutionConstants DEF ClientPcs, NoIntent
  <2> QED
    BY <1>1, <2>1 DEF IInv, WellTyped, Handlers
<1>3. /\ row.intent # NoIntent /\ row.state \in States
      /\ p \in ProviderSwaps /\ provider[p].status # ""
      /\ i # NoIntent /\ (DetailsGiven => i \in ProviderSwaps)
  BY <1>1 DEF IInv, ClientInv, HandlerAt, Committing
<1>4. i \in 0..(MaxProviderSwaps + 1)
  BY DEF IInv, WellTyped, Handlers
<1> HIDE DEF p, i
<1>5. /\ row' \in Rows /\ row'.state = row.state /\ row'.version = row.version
      /\ row'.boltz = row.boltz /\ row'.intent = i /\ row'.timeout = row.timeout
      /\ row'.refundTx = row.refundTx
  BY <1>1, <1>4, RowStateTyped DEF Rows
<1>6. provider' = provider /\ KeepsAnswers /\ (DetailsGiven' => DetailsGiven)
  BY <1>1, SameAnswers, GivenBefore DEF environment
<1>7. row'.intent # NoIntent /\ (DetailsGiven' => HasDetails')
  BY <1>3, <1>5, <1>6 DEF HasDetails, NoIntent, ProviderSwaps
<1>8. Grows
  BY <1>3, <1>5, <1>6, <1>7, GrowsInPlace DEF IInv, NoIntent
<1>9. RowInv'
  <2>1. row'.boltz # 0 => Backed'
    BY <1>5, <1>6, <1>7, BackingStays DEF IInv, RowInv
  <2>2. CommittedSwapIsBacked'
    BY <1>5, <2>1 DEF IInv, RowInv, CommittedSwapIsBacked, Backed
  <2> QED
    BY <1>3, <1>5, <1>7, <2>1, <2>2 DEF IInv, RowInv, States
<1>10. OpsInv'
  BY <1>1, <1>8, OpsCarry DEF IInv
<1>11. HandlerAt(c)'
  BY <1>2, <1>3, <1>5, <1>6, <1>7 DEF HandlerAt
<1>12. HandlerStep(c)
  BY <1>1, <1>2, <1>3, <1>5, <1>8, <1>9, <1>10, <1>11
  DEF HandlerStep, IInv, WellTyped, environment
<1> QED
  BY <1>12, HandlerStepKeepsIInv

LEMMA CommitPersistResponseKeepsIInv ==
    ASSUME IInv, NEW c \in Clients, CommitPersistResponse(c)
    PROVE  IInv'
<1> DEFINE p == client[c].made   answered == provider[p].timeout
           t == IF answered > 0 THEN answered ELSE row.timeout
<1>1. /\ client[c].pc = "response"
      /\ row' = [row EXCEPT !.boltz = p, !.timeout = t, !.status = "swap.created"]
      /\ client' = [client EXCEPT ![c].pc = "recording", ![c].made = 0]
      /\ UNCHANGED <<ops, watcher, cached, environment>>
  BY DEF CommitPersistResponse
<1>2. /\ client' \in [Clients -> Handlers] /\ client'[c].pc = "recording"
      /\ \A d \in Clients \ {c} : client'[d] = client[d]
  <2>1. "recording" \in ClientPcs /\ 0 \in 0..MaxProviderSwaps
    BY ExecutionConstants DEF ClientPcs
  <2> QED
    BY <1>1, <2>1 DEF IInv, WellTyped, Handlers
<1>3. /\ row.intent # NoIntent /\ row.state \in States
      /\ p \in ProviderSwaps /\ provider[p].status # ""
      /\ DetailsGiven => HasDetails
  BY <1>1 DEF IInv, ClientInv, HandlerAt, Committing
<1>4. t \in {0, QuoteTimeout, ProviderTimeout} /\ (answered > 0 => t = answered)
  BY <1>3 DEF IInv, WellTyped, Rows, Backings
<1> HIDE DEF t
<1>5. /\ row' \in Rows /\ row'.state = row.state /\ row'.version = row.version
      /\ row'.boltz = p /\ row'.intent = row.intent /\ row'.timeout = t
      /\ row'.refundTx = row.refundTx
  <2>1. p \in 0..MaxProviderSwaps /\ "swap.created" \in Statuses
    BY <1>3, ProviderSwapsTyped DEF Statuses
  <2> QED
    BY <1>1, <1>4, <2>1, RowStateTyped DEF Rows
<1>6. provider' = provider /\ KeepsAnswers /\ (DetailsGiven' => DetailsGiven)
  BY <1>1, SameAnswers, GivenBefore DEF environment
<1>7. row'.boltz # 0 /\ (DetailsGiven' => HasDetails')
  BY <1>3, <1>5, <1>6, ProviderSwapsTyped DEF HasDetails, ProviderSwaps
<1>8. Backed'
  BY <1>3, <1>4, <1>5, <1>6, <1>7 DEF Backed
<1> HIDE DEF p
<1>9. Grows
  BY <1>3, <1>5, <1>6, <1>7, GrowsInPlace DEF IInv, NoIntent
<1>10. RowInv'
  BY <1>3, <1>5, <1>8 DEF IInv, RowInv, CommittedSwapIsBacked, States, NoIntent
<1>11. OpsInv'
  BY <1>1, <1>9, OpsCarry DEF IInv
<1>12. HandlerAt(c)'
  BY <1>2, <1>3, <1>5, <1>7 DEF HandlerAt, NoIntent
<1>13. HandlerStep(c)
  BY <1>1, <1>2, <1>3, <1>5, <1>9, <1>10, <1>11, <1>12
  DEF HandlerStep, IInv, WellTyped, environment
<1> QED
  BY <1>13, HandlerStepKeepsIInv

LEMMA CommitRecordKeepsIInv ==
    ASSUME IInv, NEW c \in Clients, CommitRecord(c)
    PROVE  IInv'
<1>1. /\ client[c].pc = "recording" /\ ops' = ops \cup {CommitKey}
      /\ UNCHANGED <<row, watcher, cached, environment>>
  BY DEF CommitRecord
<1>2. /\ client' \in [Clients -> Handlers] /\ client'[c].pc = "starting"
      /\ \A d \in Clients \ {c} : client'[d] = client[d]
  BY AtMoves DEF CommitRecord, IInv, ClientPcs
<1>3. row.intent # NoIntent /\ row.state \in States /\ row.boltz # 0
  BY <1>1 DEF IInv, ClientInv, HandlerAt, Committing
<1>0. KeepsAnswers
  BY <1>1, SameAnswers DEF environment
<1>4. Grows
  BY <1>0, <1>1, SameRowGrows DEF IInv
<1>5. CommitKey \in RecordedBy \X States
  BY DEF CommitKey, Key, RecordedBy, States
<1>6. OpsInv'
  BY <1>1, <1>3 DEF IInv, OpsInv, CommitKey, Key
<1>7. RowInv'
  BY <1>0, <1>1, RowInvStays DEF IInv
<1>8. Elsewhere
  BY <1>1, <1>4, <1>5, <1>6, <1>7 DEF Elsewhere, IInv, WellTyped, environment
<1>9. HandlerAt(c)'
  BY <1>1, <1>2, <1>3 DEF HandlerAt
<1> QED
  BY <1>2, <1>8, <1>9, ElsewhereAndHere

LEMMA CommitStartKeepsIInv ==
    ASSUME IInv, NEW c \in Clients, CommitStart(c)
    PROVE  IInv'
<1>1. client[c].pc = "starting" /\ UNCHANGED <<ops, watcher, cached, environment>>
  BY DEF CommitStart
<1>2. row.boltz # 0
  BY <1>1 DEF IInv, ClientInv, HandlerAt
<1>3. CASE /\ Accepts(LockedVersion, "commit_started") /\ row' = Moved("commit_started")
           /\ At(c, "started")
  <2>1. /\ client' \in [Clients -> Handlers] /\ client'[c].pc = "started"
        /\ \A d \in Clients \ {c} : client'[d] = client[d]
    BY <1>3, AtMoves DEF IInv, ClientPcs
  <2>2. Elsewhere /\ row'.state \in States
    BY <1>1, <1>2, <1>3, HandlerTransition
  <2>3. HandlerAt(c)'
    BY <2>1, <2>2 DEF HandlerAt, Committing
  <2> QED
    BY <2>1, <2>2, <2>3, ElsewhereAndHere
<1>4. CASE Return(c) /\ UNCHANGED row
  BY <1>1, <1>4, ReturnMoves, HandlerStays, IdleIsFine, ElsewhereAndHere DEF IInv
<1> QED
  BY <1>3, <1>4 DEF CommitStart

LEMMA CommitReadBackKeepsIInv ==
    ASSUME IInv, NEW c \in Clients, CommitReadBack(c)
    PROVE  IInv'
<1>1. /\ client[c].pc = "started"
      /\ client' = [client EXCEPT ![c].pc = "waiting", ![c].version = row.version]
      /\ UNCHANGED <<row, ops, watcher, cached, environment>>
  BY DEF CommitReadBack
<1>2. /\ client' \in [Clients -> Handlers] /\ client'[c].pc = "waiting"
      /\ \A d \in Clients \ {c} : client'[d] = client[d]
  BY <1>1, RowStateTyped DEF IInv, WellTyped, Handlers, ClientPcs
<1>3. row.state \in States
  BY <1>1 DEF IInv, ClientInv, HandlerAt
<1>4. HandlerAt(c)'
  BY <1>1, <1>2, <1>3 DEF HandlerAt, Committing
<1> QED
  BY <1>1, <1>2, <1>4, HandlerStays, ElsewhereAndHere

LEMMA CommitWaitKeepsIInv ==
    ASSUME IInv, NEW c \in Clients, CommitWait(c)
    PROVE  IInv'
<1> DEFINE v == client[c].version
<1>1. UNCHANGED <<ops, watcher, cached, environment>> /\ Return(c)
  BY DEF CommitWait
<1>2. Elsewhere
  <2>1. CASE Accepts(v, "waiting")
    <3>1. row' = Moved("waiting")
      BY <2>1 DEF CommitWait
    <3> QED
      BY <1>1, <2>1, <3>1, HandlerTransition
  <2>2. CASE ~Accepts(v, "waiting")
    <3>1. row' = row
      BY <2>2 DEF CommitWait
    <3> QED
      BY <1>1, <3>1, HandlerStays
  <2> QED
    BY <2>1, <2>2
<1> QED
  BY <1>1, <1>2, ReturnMoves, IdleIsFine, ElsewhereAndHere DEF IInv

LEMMA AbortKeepsIInv ==
    ASSUME IInv, NEW c \in Clients, Abort(c)
    PROVE  IInv'
<1>1. Return(c) /\ UNCHANGED <<row, ops, watcher, cached, environment>>
  BY DEF Abort
<1> QED
  BY <1>1, ReturnMoves, HandlerStays, IdleIsFine, ElsewhereAndHere DEF IInv

LEMMA HandlersKeepIInv ==
    ASSUME IInv, NEW c \in Clients, ClientStep(c)
    PROVE  IInv'
BY CreateInsertKeepsIInv, CreateWriteIntentKeepsIInv, CreateLockKeepsIInv,
   OneTransitionKeepsIInv, CommitBeginKeepsIInv, CommitProviderCreateKeepsIInv,
   CommitReadIntentKeepsIInv, CommitPersistDetailsKeepsIInv, CommitPersistResponseKeepsIInv,
   CommitRecordKeepsIInv,
   CommitStartKeepsIInv, CommitReadBackKeepsIInv, CommitWaitKeepsIInv, AbortKeepsIInv
DEF ClientStep

-----------------------------------------------------------------------------
(* The watcher.                                                            *)

LEMMA GoToMoves ==
    ASSUME WellTyped, NEW pc \in WatcherPcs, watcher' = GoTo(pc)
    PROVE  /\ watcher' \in Watchers /\ watcher'.pc = pc
           /\ watcher'.seen = watcher.seen /\ watcher'.h = watcher.h /\ watcher'.ps = watcher.ps
           /\ watcher'.path = watcher.path /\ watcher'.version = watcher.version
           /\ watcher'.h \in 0..height
BY DEF WellTyped, GoTo, Watchers

\* What a step of the watcher has to show besides WatcherInv.
PassStep ==
    /\ row' \in Rows
    /\ RowInv'
    /\ Grows
    /\ row'.intent = row.intent
    /\ ops' \subseteq (RecordedBy \X States)
    /\ OpsInv'
    /\ watcher' \in Watchers /\ watcher'.h \in 0..height
    /\ provider' \in [ProviderSwaps -> Backings]
    /\ refund' \in {"none", "mempool", "confirmed"}
    /\ UNCHANGED <<client, cached, height>>

LEMMA PassStepKeepsIInv ==
    ASSUME IInv, PassStep, WatcherInv'
    PROVE  IInv'
<1>1. WellTyped'
  BY DEF IInv, WellTyped, PassStep
<1>2. ClientInv'
  BY HandlersUntouched DEF IInv, PassStep
<1> QED
  BY <1>1, <1>2 DEF IInv, PassStep

LEMMA SameRowPass ==
    ASSUME IInv, UNCHANGED <<row, ops, client, cached, environment>>,
           watcher' \in Watchers, watcher'.h \in 0..height
    PROVE  PassStep
<1>0. KeepsAnswers
  BY SameAnswers DEF environment
<1>1. Grows
  BY <1>0, SameRowGrows DEF IInv
<1>2. OpsInv'
  BY <1>1, OpsCarry DEF IInv
<1>3. RowInv'
  BY <1>0, RowInvStays DEF IInv
<1> QED
  BY <1>1, <1>2, <1>3 DEF PassStep, IInv, WellTyped, environment

\* The copy stays what it is while the row goes on.
LEMMA SeenStays ==
    ASSUME IInv, PassStep, watcher.pc # "idle", watcher'.seen = watcher.seen,
           watcher'.pc \notin {"idle", "move", "record move"} =>
               /\ watcher.pc \notin {"move", "record move"}
               /\ row'.refundTx = row.refundTx
    PROVE  SeenIsPast'
<1>1. watcher.seen \in Copies
  BY DEF IInv, WellTyped, Watchers
<1> DEFINE seen == watcher.seen
<1>2. /\ seen.state \in States /\ row.state \in States /\ seen.version <= row.version
      /\ Rank[seen.state] <= Rank[row.state]
      /\ seen.version = row.version => seen.state = row.state
      /\ seen.state \in PastSigning => row.state \in PastSigning
      /\ seen.boltz # 0 => row.boltz # 0
      /\ seen.boltz # 0 /\ TimeoutsGiven => seen.timeout \in {0, ProviderTimeout}
      /\ watcher.pc \notin {"move", "record move"} => seen.refundTx = row.refundTx
  BY DEF IInv, WatcherInv, SeenIsPast
<1> HIDE DEF seen
<1>3. /\ row'.state \in States /\ seen.version <= row'.version
      /\ Rank[seen.state] <= Rank[row'.state]
      /\ seen.version = row'.version => seen.state = row'.state
      /\ seen.state \in PastSigning => row'.state \in PastSigning
  BY <1>1, <1>2, CopyStaysPast DEF seen, PassStep, IInv
<1>4. (row.boltz # 0 => row'.boltz # 0) /\ (TimeoutsGiven' => TimeoutsGiven)
  BY GivenBefore DEF PassStep, Grows
<1> QED
  BY <1>2, <1>3, <1>4 DEF SeenIsPast, seen

\* A fresh copy.
LEMMA CopyIsPast ==
    ASSUME IInv, row' = row, provider' = provider, row.state \in States, watcher'.pc # "idle",
           watcher'.seen \in {Copy, [Copy EXCEPT !.timeout = 0]}
    PROVE  SeenIsPast' /\ watcher'.seen \in Copies /\ watcher'.seen.boltz = row.boltz
<1>1. /\ watcher'.seen.state = row.state /\ watcher'.seen.version = row.version
      /\ watcher'.seen.boltz = row.boltz /\ watcher'.seen.refundTx = row.refundTx
      /\ watcher'.seen.timeout \in {0, row.timeout}
  BY DEF Copy
<1>2. watcher'.seen \in Copies
  <2>1. Copy \in Copies
    BY RowStateTyped DEF Copy, Copies, Rows
  <2>2. [Copy EXCEPT !.timeout = 0] \in Copies
    BY <2>1 DEF Copies
  <2> QED
    BY <2>1, <2>2
<1>3. row.version <= row.version /\ Rank[row.state] <= Rank[row.state]
  BY RowStateTyped, MovesRaiseRank DEF LongestWalk
<1>4. row.boltz # 0 /\ TimeoutsGiven => row.timeout = ProviderTimeout
  <2> SUFFICES ASSUME row.boltz # 0, TimeoutsGiven
               PROVE  row.timeout = ProviderTimeout
    OBVIOUS
  <2>1. /\ row.boltz \in ProviderSwaps /\ provider[row.boltz].status # ""
        /\ provider[row.boltz].timeout > 0 => row.timeout = provider[row.boltz].timeout
    <3>1. Backed
      BY DEF IInv, RowInv
    <3>2. row.boltz \in ProviderSwaps
      BY RowStateTyped DEF ProviderSwaps
    <3> QED
      BY <3>1, <3>2 DEF Backed
  <2>2. provider[row.boltz].timeout \in {0, ProviderTimeout} /\ provider[row.boltz].timeout # 0
    BY <2>1 DEF TimeoutsGiven, IInv, WellTyped, Backings
  <2> DEFINE t == provider[row.boltz].timeout
  <2> HIDE DEF t
  <2>3. t = ProviderTimeout /\ ProviderTimeout > 0
    BY <2>2, ExecutionConstants DEF t
  <2> QED
    BY <2>1, <2>3 DEF t
<1>5. TimeoutsGiven' => TimeoutsGiven
  BY SameAnswers, GivenBefore
<1> QED
  BY <1>1, <1>2, <1>3, <1>4, <1>5 DEF SeenIsPast

\* Places where there is nothing to rely on but the copy.
LEMMA PlainPlace ==
    ASSUME watcher'.pc \in {"idle", "listed", "fetch", "persist", "apply", "reload", "claim",
                            "send", "sent", "await", "act"},
           watcher'.pc \in {"fetch", "persist", "apply", "reload"} => watcher'.seen.boltz # 0
    PROVE  OnProviderSwap' /\ WalkInv' /\ DecisionInv'
BY DEF OnProviderSwap, WalkInv, DecisionInv

LEMMA BlanksAreTyped ==
    ASSUME IInv
    PROVE  /\ 0 \in 0..MaxHeight /\ 0 \in 0..LongestWalk /\ 0 \in 0..height
           /\ <<>> \in Seq(States)
<1>1. height \in Nat
  BY ExecutionConstants DEF IInv, WellTyped
<1> QED
  BY <1>1, ExecutionConstants DEF LongestWalk

LEMMA IdleWatcherIsFine ==
    ASSUME IInv, watcher' = IdleWatcher
    PROVE  watcher' \in Watchers /\ watcher'.h \in 0..height /\ WatcherInv'
<1>1. NoCopy \in Copies
  BY ExecutionConstants DEF NoCopy, Copies, LongestWalk
<1>2. IdleWatcher \in Watchers /\ IdleWatcher.pc = "idle" /\ IdleWatcher.h = 0
  BY <1>1, BlanksAreTyped DEF IdleWatcher, Watchers, WatcherPcs
<1>3. watcher'.h \in 0..height
  BY <1>2, BlanksAreTyped
<1>4. SeenIsPast'
  BY <1>2 DEF SeenIsPast
<1> QED
  BY <1>2, <1>3, <1>4, PlainPlace DEF WatcherInv

LEMMA WatcherListKeepsIInv ==
    ASSUME IInv, WatcherList
    PROVE  IInv'
<1>1. /\ row.state \in States /\ UNCHANGED <<row, ops, client, cached, environment>>
      /\ watcher' = [IdleWatcher EXCEPT !.pc = "listed", !.seen = Copy, !.ps = row.status]
  BY DEF WatcherList
<1>2. /\ watcher'.pc = "listed" /\ watcher'.seen = Copy /\ watcher'.h = 0
      /\ watcher'.ps = row.status /\ watcher'.path = <<>> /\ watcher'.version = 0
  BY <1>1 DEF IdleWatcher
<1>3. SeenIsPast' /\ Copy \in Copies
  BY <1>1, <1>2, CopyIsPast DEF environment
<1>4. row.status \in Statuses \cup {""}
  BY RowStateTyped DEF Rows
<1>5. watcher' \in Watchers /\ watcher'.h \in 0..height
  <2>1. watcher' = [pc |-> "listed", seen |-> Copy, h |-> 0, ps |-> row.status,
                    path |-> <<>>, version |-> 0]
    BY <1>1 DEF IdleWatcher
  <2> QED
    BY <1>2, <1>3, <1>4, <2>1, BlanksAreTyped DEF Watchers, WatcherPcs
<1>6. PassStep
  BY <1>1, <1>5, SameRowPass
<1> QED
  BY <1>2, <1>3, <1>6, PlainPlace, PassStepKeepsIInv DEF WatcherInv

\* Steps that leave the row and the copy, and end at a plain place.
LEMMA PlainStepKeepsIInv ==
    ASSUME IInv, UNCHANGED <<row, ops, client, cached, environment>>,
           watcher' \in Watchers, watcher'.h \in 0..height,
           watcher.pc \notin {"idle", "move", "record move"}, watcher'.seen = watcher.seen,
           watcher'.pc \in {"listed", "fetch", "persist", "apply", "reload", "claim",
                            "send", "sent", "await", "act"},
           watcher'.pc \in {"fetch", "persist", "apply", "reload"} => watcher.seen.boltz # 0
    PROVE  IInv'
<1>1. PassStep
  BY SameRowPass
<1>2. SeenIsPast'
  BY <1>1, SeenStays
<1> QED
  BY <1>1, <1>2, PlainPlace, PassStepKeepsIInv DEF WatcherInv

LEMMA WatcherBeginKeepsIInv ==
    ASSUME IInv, WatcherBegin
    PROVE  IInv'
<1> DEFINE pc == IF watcher.seen.boltz # 0 THEN "fetch" ELSE "act"
<1>1. /\ watcher.pc = "listed" /\ watcher' = [watcher EXCEPT !.pc = pc, !.h = cached]
      /\ UNCHANGED <<row, ops, client, cached, environment>>
  BY DEF WatcherBegin
<1>2. pc \in WatcherPcs /\ cached \in 0..height /\ cached \in 0..MaxHeight
  BY ExecutionConstants DEF IInv, WellTyped, WatcherPcs
<1>3. watcher'.pc = pc /\ watcher'.seen = watcher.seen /\ watcher'.h = cached
  BY <1>1 DEF IInv, WellTyped, Watchers
<1>4. pc \in {"fetch", "act"} /\ (pc = "fetch" => watcher.seen.boltz # 0)
  OBVIOUS
<1> HIDE DEF pc
<1>5. watcher' \in Watchers
  BY <1>1, <1>2 DEF IInv, WellTyped, Watchers
<1> QED
  BY <1>1, <1>2, <1>3, <1>4, <1>5, PlainStepKeepsIInv

LEMMA WatcherFetchKeepsIInv ==
    ASSUME IInv, WatcherFetch \/ WatcherFetchFails
    PROVE  IInv'
<1>1. watcher.pc = "fetch" /\ UNCHANGED <<row, ops, client, cached, environment>>
  BY DEF WatcherFetch, WatcherFetchFails
<1>2. watcher.seen.boltz \in ProviderSwaps
  <2>1. watcher.seen.boltz # 0
    BY <1>1 DEF IInv, WatcherInv, OnProviderSwap
  <2>2. watcher.seen.boltz \in 0..MaxProviderSwaps
    BY DEF IInv, WellTyped, Watchers, Copies
  <2> QED
    BY <2>1, <2>2, ExecutionConstants DEF ProviderSwaps
<1>3. /\ watcher' \in Watchers /\ watcher'.pc \in {"persist", "apply"}
      /\ watcher'.seen = watcher.seen /\ watcher'.h \in 0..height
  <2>1. CASE WatcherFetch
    <3> DEFINE ps == provider[watcher.seen.boltz].status
    <3>1. ps \in Statuses \cup {""}
      BY <1>2 DEF IInv, WellTyped, Backings
    <3>2. watcher' = [watcher EXCEPT !.pc = "persist", !.ps = ps]
      BY <2>1 DEF WatcherFetch
    <3> HIDE DEF ps
    <3> QED
      BY <3>1, <3>2 DEF IInv, WellTyped, Watchers, WatcherPcs
  <2>2. CASE WatcherFetchFails
    <3>1. watcher' = GoTo("apply") /\ "apply" \in WatcherPcs
      BY <2>2 DEF WatcherFetchFails, WatcherPcs
    <3> QED
      BY <3>1, GoToMoves DEF IInv
  <2> QED
    BY <2>1, <2>2
<1>4. watcher.seen.boltz # 0
  BY <1>2, ProviderSwapsTyped
<1> QED
  BY <1>1, <1>3, <1>4, PlainStepKeepsIInv

LEMMA WatcherPersistStatusKeepsIInv ==
    ASSUME IInv, WatcherPersistStatus
    PROVE  IInv'
<1>1. /\ watcher.pc = "persist" /\ row' = [row EXCEPT !.status = watcher.ps]
      /\ watcher' = GoTo("apply") /\ UNCHANGED <<ops, client, cached, environment>>
  BY DEF WatcherPersistStatus
<1>2. /\ watcher' \in Watchers /\ watcher'.pc = "apply" /\ watcher'.seen = watcher.seen
      /\ watcher'.h \in 0..height
  BY <1>1, GoToMoves DEF IInv, WatcherPcs
<1>3. watcher.ps \in Statuses \cup {""}
  BY DEF IInv, WellTyped, Watchers
<1>4. /\ row' \in Rows /\ row'.state = row.state /\ row'.version = row.version
      /\ row'.boltz = row.boltz /\ row'.intent = row.intent /\ row'.timeout = row.timeout
      /\ row'.refundTx = row.refundTx
  BY <1>1, <1>3, RowStateTyped DEF Rows
<1>0. KeepsAnswers
  BY <1>1, SameAnswers DEF environment
<1>5. Grows
  BY <1>0, <1>4, SameRowGrows DEF IInv
<1>6. row.state \in States
  BY <1>1 DEF IInv, WatcherInv, SeenIsPast
<1>7. RowInv'
  BY <1>0, <1>4, <1>6, RowInvStays DEF IInv, States
<1>8. OpsInv'
  BY <1>1, <1>5, OpsCarry DEF IInv
<1>9. PassStep
  BY <1>1, <1>2, <1>4, <1>5, <1>7, <1>8 DEF PassStep, IInv, WellTyped, environment
<1>10. SeenIsPast'
  BY <1>1, <1>2, <1>4, <1>9, SeenStays
<1>11. watcher.seen.boltz # 0
  BY <1>1 DEF IInv, WatcherInv, OnProviderSwap
<1> QED
  BY <1>2, <1>9, <1>10, <1>11, PlainPlace, PassStepKeepsIInv DEF WatcherInv

LEMMA WatcherApplyKeepsIInv ==
    ASSUME IInv, WatcherApply
    PROVE  IInv'
<1> DEFINE seen == watcher.seen
           target == ResolveTarget(seen.state, watcher.ps, Kind)
           path == TransitionPath[seen.state][target]
<1>1. watcher.pc = "apply" /\ UNCHANGED <<row, ops, client, cached, environment>>
  BY DEF WatcherApply
<1>2. CASE watcher' = GoTo("claim")
  <2>1. /\ watcher' \in Watchers /\ watcher'.pc = "claim" /\ watcher'.seen = watcher.seen
        /\ watcher'.h \in 0..height
    BY <1>2, GoToMoves DEF IInv, WatcherPcs
  <2> QED
    BY <1>1, <2>1, PlainStepKeepsIInv
<1>3. CASE /\ path # <<>>
           /\ watcher' = [watcher EXCEPT !.pc = "hop", !.path = path, !.version = seen.version]
  <2>1. /\ seen.state \in States /\ seen.boltz # 0
        /\ seen.version = row.version => seen.state = row.state
    BY <1>1 DEF IInv, WatcherInv, SeenIsPast, OnProviderSwap
  <2>2. target \in States /\ (seen.state = "refunding" => target = seen.state)
    BY <2>1, TargetIsState
  <2>3. /\ path \in Seq(States)
        /\ \A i \in 1..(Len(path) - 1) : path[i] = "refunding" => path[i + 1] # "completed"
    BY <2>1, <2>2, PathsDoNotCompleteRefunds
  <2>4. seen.state # "refunding"
    <3>1. path # <<>> => IsWalk(seen.state, path) /\ EndOf(seen.state, path) = target
      BY <2>1, <2>2, PathIsShortestWalk
    <3>2. target # seen.state
      BY <1>3, <2>1, <3>1, WalksAreShort
    <3> QED
      BY <2>2, <3>2
  <2>5. seen.version \in 0..LongestWalk
    BY DEF IInv, WellTyped, Watchers, Copies
  <2> HIDE DEF path, target
  <2>6. /\ watcher' \in Watchers /\ watcher'.pc = "hop" /\ watcher'.seen = seen
        /\ watcher'.path = path /\ watcher'.version = seen.version /\ watcher'.h \in 0..height
    BY <1>3, <2>3, <2>5 DEF IInv, WellTyped, Watchers, WatcherPcs
  <2>7. PassStep
    BY <1>1, <2>6, SameRowPass
  <2>8. SeenIsPast'
    BY <1>1, <2>6, <2>7, SeenStays
  <2>9. OnProviderSwap' /\ DecisionInv'
    BY <2>1, <2>6 DEF OnProviderSwap, DecisionInv
  <2>10. WalkInv'
    BY <1>1, <1>3, <2>1, <2>3, <2>4, <2>6 DEF WalkInv
  <2> QED
    BY <2>7, <2>8, <2>9, <2>10, PassStepKeepsIInv DEF WatcherInv
<1> QED
  BY <1>2, <1>3 DEF WatcherApply

LEMMA RanksAddUp ==
    ASSUME NEW s \in States, NEW t \in States, NEW u \in States,
           Rank[s] <= Rank[t], Rank[t] < Rank[u]
    PROVE  Rank[s] < Rank[u]
<1> DEFINE a == Rank[s]   b == Rank[t]   d == Rank[u]
<1>1. a \in 0..10 /\ b \in 0..10 /\ d \in 0..10 /\ a <= b /\ b < d
  BY MovesRaiseRank
<1> HIDE DEF a, b, d
<1>2. a < d
  BY <1>1
<1> QED
  BY <1>2 DEF a, d

\* Engine.Transition as the watcher calls it.
LEMMA TransitionPass ==
    ASSUME IInv, NEW version, NEW to, NEW done \in Watchers, NEW stale \in Watchers,
           done.h \in 0..height, stale.h \in 0..height,
           WatcherTransition(version, to, done, stale),
           to = "commit_started" => row.boltz # 0,
           UNCHANGED <<ops, client, cached, environment>>
    PROVE  /\ PassStep
           /\ row'.refundTx = row.refundTx
           /\ \/ /\ watcher' = done /\ row.version = version
                 /\ row'.state = to /\ to \in States /\ row.state \in States
                 /\ Rank[row.state] < Rank[to]
              \/ row' = row /\ watcher' \in {stale, IdleWatcher}
<1>1. CASE Accepts(version, to) /\ row' = Moved(to) /\ watcher' = done
  <2>1. /\ row' \in Rows /\ RowInv' /\ Grows /\ row'.state = to
        /\ row'.intent = row.intent /\ row'.refundTx = row.refundTx
        /\ row.state \in States /\ to \in ValidTransitions[row.state]
        /\ Rank[row.state] < Rank[row'.state]
    BY <1>1, AcceptedMove DEF IInv, environment
  <2>2. OpsInv'
    BY <2>1, OpsCarry DEF IInv
  <2>3. to \in States
    BY <2>1, TransitionsAreStates
  <2>4. row.version = version
    BY <1>1 DEF Accepts
  <2>5. PassStep
    BY <1>1, <2>1, <2>2 DEF PassStep, IInv, WellTyped, environment
  <2> QED
    BY <1>1, <2>1, <2>3, <2>4, <2>5
<1>2. CASE row' = row /\ watcher' \in {stale, IdleWatcher}
  <2>1. watcher' \in Watchers /\ watcher'.h \in 0..height
    BY <1>2, IdleWatcherIsFine
  <2>2. PassStep
    BY <1>2, <2>1, SameRowPass
  <2> QED
    BY <1>2, <2>2
<1> QED
  BY <1>1, <1>2 DEF WatcherTransition

\* RecordOperation.
LEMMA RecordPass ==
    ASSUME IInv, NEW by \in {"provider", "musig_claim", "reconcile"}, NEW s \in States,
           row.state \in States, Rank[s] < Rank[row.state],
           ops' = ops \cup {Key(by, s)}, UNCHANGED <<row, client, cached, environment>>,
           watcher' \in Watchers, watcher'.h \in 0..height
    PROVE  PassStep
<1>0. KeepsAnswers
  BY SameAnswers DEF environment
<1>1. Grows
  BY <1>0, SameRowGrows DEF IInv
<1>2. RowInv'
  BY <1>0, RowInvStays DEF IInv
<1>3. Key(by, s) \in RecordedBy \X States /\ Key(by, s) # CommitKey
  BY DEF CommitKey, Key, RecordedBy
<1>4. ASSUME NEW b \in {"provider", "musig_claim", "reconcile"}, NEW t \in States,
             Key(b, t) \in ops'
      PROVE  row'.state \in States /\ Rank[t] < Rank[row'.state]
  <2>1. CASE Key(b, t) \in ops
    BY <2>1 DEF IInv, OpsInv
  <2>2. CASE Key(b, t) = Key(by, s)
    BY <2>2 DEF Key
  <2> QED
    BY <1>4, <2>1, <2>2
<1>5. OpsInv'
  BY <1>3, <1>4 DEF IInv, OpsInv, CommitKey, Key
<1> QED
  BY <1>1, <1>2, <1>3, <1>5 DEF PassStep, IInv, WellTyped, environment

LEMMA GiveUpPathIsTyped ==
    ASSUME IInv
    PROVE  /\ GiveUpPath \in Watchers /\ GiveUpPath.pc = "claim"
           /\ GiveUpPath.seen = watcher.seen /\ GiveUpPath.h \in 0..height
BY BlanksAreTyped DEF GiveUpPath, IInv, WellTyped, Watchers, WatcherPcs

LEMMA GoToIsTyped ==
    ASSUME WellTyped, NEW pc \in WatcherPcs
    PROVE  /\ GoTo(pc) \in Watchers /\ GoTo(pc).pc = pc
           /\ GoTo(pc).seen = watcher.seen /\ GoTo(pc).h = watcher.h
           /\ GoTo(pc).path = watcher.path /\ GoTo(pc).version = watcher.version
           /\ GoTo(pc).h \in 0..height
BY DEF WellTyped, GoTo, Watchers

LEMMA WatcherHopKeepsIInv ==
    ASSUME IInv, WatcherHop
    PROVE  IInv'
<1> DEFINE to == Head(watcher.path)
<1>1. watcher.pc = "hop" /\ UNCHANGED <<ops, client, cached, environment>>
  BY DEF WatcherHop
<1>2. /\ GiveUpPath \in Watchers /\ GiveUpPath.pc = "claim"
      /\ GiveUpPath.seen = watcher.seen /\ GiveUpPath.h \in 0..height
  BY GiveUpPathIsTyped
<1>3. /\ GoTo("hopped") \in Watchers /\ GoTo("hopped").pc = "hopped"
      /\ GoTo("hopped").seen = watcher.seen /\ GoTo("hopped").path = watcher.path
      /\ GoTo("hopped").h \in 0..height
  BY GoToIsTyped DEF IInv, WatcherPcs
<1>4. watcher.seen.boltz # 0 /\ row.boltz # 0
  BY <1>1 DEF IInv, WatcherInv, OnProviderSwap, SeenIsPast
<1>5. CASE watcher' = GiveUpPath /\ row' = row
  BY <1>1, <1>2, <1>5, PlainStepKeepsIInv
<1>6. CASE WatcherTransition(watcher.version, to, GoTo("hopped"), GiveUpPath)
  <2>1. /\ PassStep /\ row'.refundTx = row.refundTx
        /\ \/ /\ watcher' = GoTo("hopped")
              /\ row'.state = to /\ to \in States /\ row.state \in States
              /\ Rank[row.state] < Rank[to]
           \/ row' = row /\ watcher' \in {GiveUpPath, IdleWatcher}
    BY <1>1, <1>2, <1>3, <1>4, <1>6, TransitionPass
  <2>2. CASE watcher' = IdleWatcher
    BY <2>1, <2>2, IdleWatcherIsFine, PassStepKeepsIInv
  <2>3. CASE row' = row /\ watcher' = GiveUpPath
    BY <1>1, <1>2, <2>3, PlainStepKeepsIInv
  <2>4. CASE /\ watcher' = GoTo("hopped") /\ row'.state = to /\ to \in States
             /\ row.state \in States /\ Rank[row.state] < Rank[to]
    <3>1. SeenIsPast'
      BY <1>1, <1>3, <2>1, <2>4, SeenStays
    <3>2. OnProviderSwap' /\ DecisionInv'
      BY <1>3, <1>4, <2>4 DEF OnProviderSwap, DecisionInv
    <3>3. Rank[watcher.seen.state] < Rank[row'.state]
      BY <1>1, <2>4, RanksAddUp DEF IInv, WatcherInv, SeenIsPast
    <3>4. WalkInv'
      BY <1>1, <1>3, <2>4, <3>3 DEF WalkInv, IInv, WatcherInv
    <3> QED
      BY <2>1, <3>1, <3>2, <3>4, PassStepKeepsIInv DEF WatcherInv
  <2> QED
    BY <2>1, <2>2, <2>3, <2>4
<1> QED
  BY <1>5, <1>6 DEF WatcherHop

LEMMA WatcherHoppedKeepsIInv ==
    ASSUME IInv, WatcherHopped
    PROVE  IInv'
<1> DEFINE pc == IF Len(watcher.path) = 1 THEN "record hops" ELSE "hop"
           path == watcher.path
<1>1. /\ watcher.pc = "hopped" /\ UNCHANGED <<row, ops, client, cached, environment>>
      /\ watcher' = [watcher EXCEPT !.pc = pc, !.path = Tail(path), !.version = row.version]
  BY DEF WatcherHopped
<1>2. /\ path # <<>> /\ path \in Seq(States)
      /\ \A i \in 1..(Len(path) - 1) : path[i] = "refunding" => path[i + 1] # "completed"
      /\ row.state = "refunding" => Head(path) = "refunding"
      /\ Rank[watcher.seen.state] < Rank[row.state] /\ watcher.seen.boltz # 0
  BY <1>1 DEF IInv, WellTyped, Watchers, WatcherInv, WalkInv, OnProviderSwap
<1>3. /\ pc \in WatcherPcs /\ pc \in {"record hops", "hop"} /\ (pc = "hop" => Len(path) # 1)
  BY DEF WatcherPcs
<1> HIDE DEF pc, path
<1>4. Tail(path) \in Seq(States)
  BY <1>2
<1>5. /\ watcher' \in Watchers /\ watcher'.pc = pc /\ watcher'.path = Tail(path)
      /\ watcher'.version = row.version /\ watcher'.seen = watcher.seen
      /\ watcher'.h \in 0..height
  BY <1>1, <1>3, <1>4, RowStateTyped DEF IInv, WellTyped, Watchers
<1>6. PassStep
  BY <1>1, <1>5, SameRowPass
<1>7. SeenIsPast'
  BY <1>1, <1>3, <1>5, <1>6, SeenStays
<1>8. OnProviderSwap' /\ DecisionInv'
  BY <1>2, <1>3, <1>5 DEF OnProviderSwap, DecisionInv
<1>9. ASSUME pc = "hop"
      PROVE  /\ Tail(path) # <<>>
             /\ \A i \in 1..(Len(Tail(path)) - 1) :
                    Tail(path)[i] = "refunding" => Tail(path)[i + 1] # "completed"
             /\ row.state = "refunding" => Head(Tail(path)) # "completed"
  <2>1. Len(path) \in Nat /\ Len(path) > 1 /\ Len(Tail(path)) = Len(path) - 1
    BY <1>2, <1>3, <1>9
  <2>2. \A i \in 1..Len(Tail(path)) : Tail(path)[i] = path[i + 1]
    BY <1>2
  <2>3. Tail(path) # <<>>
    <3> DEFINE n == Len(path)   m == Len(Tail(path))
    <3>a. n \in Nat /\ n > 1 /\ m = n - 1
      BY <2>1
    <3> HIDE DEF n, m
    <3>b. m # 0
      BY <3>a
    <3>1. Len(Tail(path)) # 0
      BY <3>b DEF m
    <3>2. Len(<<>>) = 0
      OBVIOUS
    <3> QED
      BY <3>1, <3>2
  <2>4. Head(path) = path[1] /\ Head(Tail(path)) = path[2]
    BY <1>2, <1>4, <2>1, <2>2, <2>3
  <2>5. ASSUME NEW i \in 1..(Len(Tail(path)) - 1), Tail(path)[i] = "refunding"
        PROVE  Tail(path)[i + 1] # "completed"
    <3>1. i \in 1..Len(Tail(path)) /\ i + 1 \in 1..Len(Tail(path)) /\ i + 1 \in 1..(Len(path) - 1)
      BY <2>1
    <3>2. Tail(path)[i] = path[i + 1] /\ Tail(path)[i + 1] = path[(i + 1) + 1]
      BY <2>2, <3>1
    <3> QED
      BY <1>2, <2>5, <3>1, <3>2
  <2>6. row.state = "refunding" => path[2] # "completed"
    <3>1. 1 \in 1..(Len(path) - 1) /\ 1 + 1 = 2
      BY <2>1
    <3> QED
      BY <1>2, <2>4, <3>1
  <2> QED
    BY <2>3, <2>4, <2>5, <2>6
<1>10. WalkInv'
  BY <1>1, <1>2, <1>3, <1>5, <1>9 DEF WalkInv
<1> QED
  BY <1>6, <1>7, <1>8, <1>10, PassStepKeepsIInv DEF WatcherInv

LEMMA WatcherRecordHopsKeepsIInv ==
    ASSUME IInv, WatcherRecordHops
    PROVE  IInv'
<1>1. /\ watcher.pc = "record hops" /\ ops' = ops \cup {Key("provider", watcher.seen.state)}
      /\ watcher' = GoTo("reload") /\ UNCHANGED <<row, client, cached, environment>>
  BY DEF WatcherRecordHops
<1>2. /\ watcher' \in Watchers /\ watcher'.pc = "reload" /\ watcher'.seen = watcher.seen
      /\ watcher'.h \in 0..height
  BY <1>1, GoToMoves DEF IInv, WatcherPcs
<1>3. /\ watcher.seen.state \in States /\ row.state \in States /\ watcher.seen.boltz # 0
      /\ Rank[watcher.seen.state] < Rank[row.state]
  BY <1>1 DEF IInv, WatcherInv, SeenIsPast, WalkInv, OnProviderSwap
<1>4. PassStep
  BY <1>1, <1>2, <1>3, RecordPass
<1>5. SeenIsPast'
  BY <1>1, <1>2, <1>4, SeenStays
<1> QED
  BY <1>2, <1>3, <1>4, <1>5, PlainPlace, PassStepKeepsIInv DEF WatcherInv

LEMMA WatcherReloadKeepsIInv ==
    ASSUME IInv, WatcherReload
    PROVE  IInv'
<1>1. /\ watcher.pc = "reload" /\ UNCHANGED <<row, ops, client, cached, environment>>
      /\ watcher' = [watcher EXCEPT !.pc = "claim", !.version = 0,
                                    !.seen = [Copy EXCEPT !.timeout = 0]]
  BY DEF WatcherReload
<1>2. watcher'.pc = "claim" /\ watcher'.seen = [Copy EXCEPT !.timeout = 0] /\ watcher'.h = watcher.h
  BY <1>1 DEF IInv, WellTyped, Watchers
<1>3. row.state \in States
  BY <1>1 DEF IInv, WatcherInv, SeenIsPast
<1>4. SeenIsPast' /\ watcher'.seen \in Copies
  BY <1>1, <1>2, <1>3, CopyIsPast DEF environment
<1>5. watcher' \in Watchers /\ watcher'.h \in 0..height
  BY <1>1, <1>2, <1>4, BlanksAreTyped DEF IInv, WellTyped, Watchers, WatcherPcs
<1>6. PassStep
  BY <1>1, <1>5, SameRowPass
<1> QED
  BY <1>2, <1>4, <1>6, PlainPlace, PassStepKeepsIInv DEF WatcherInv

LEMMA WatcherSkipClaimKeepsIInv ==
    ASSUME IInv, WatcherSkipClaim
    PROVE  IInv'
<1>1. /\ watcher.pc = "claim" /\ UNCHANGED <<row, ops, client, cached, environment>>
      /\ watcher' = GoTo("act")
  BY DEF WatcherSkipClaim
<1>2. /\ watcher' \in Watchers /\ watcher'.pc = "act" /\ watcher'.seen = watcher.seen
      /\ watcher'.h \in 0..height
  BY <1>1, GoToMoves DEF IInv, WatcherPcs
<1> QED
  BY <1>1, <1>2, PlainStepKeepsIInv

LEMMA WatcherPostClaimKeepsIInv ==
    ASSUME IInv, WatcherPostClaim
    PROVE  IInv'
<1> DEFINE p == watcher.seen.boltz
<1>1. /\ watcher.pc = "claim" /\ UNCHANGED <<row, ops, client, cached, height, refund>>
      /\ provider' = [provider EXCEPT ![p].claimed = TRUE]
      /\ watcher' \in {GoTo("send"), GoTo("act")}
  BY DEF WatcherPostClaim
<1>2. /\ watcher' \in Watchers /\ watcher'.pc \in {"send", "act"}
      /\ watcher'.seen = watcher.seen /\ watcher'.h \in 0..height
  BY <1>1, GoToIsTyped DEF IInv, WatcherPcs
<1>3. provider' \in [ProviderSwaps -> Backings]
  BY <1>1 DEF IInv, WellTyped, Backings
<1>0. KeepsAnswers
  BY <1>1 DEF KeepsAnswers, IInv, WellTyped, Backings
<1>4. Grows
  BY <1>0, <1>1, SameRowGrows DEF IInv
<1>5. OpsInv'
  BY <1>1, <1>4, OpsCarry DEF IInv
<1>6. RowInv'
  BY <1>0, <1>1, RowInvStays DEF IInv
<1>7. PassStep
  BY <1>1, <1>2, <1>3, <1>4, <1>5, <1>6 DEF PassStep, IInv, WellTyped
<1>8. SeenIsPast'
  BY <1>1, <1>2, <1>7, SeenStays
<1> QED
  BY <1>2, <1>7, <1>8, PlainPlace, PassStepKeepsIInv DEF WatcherInv

LEMMA WatcherSendKeepsIInv ==
    ASSUME IInv, WatcherSend
    PROVE  IInv'
<1>1. /\ watcher.pc = "send" /\ UNCHANGED <<ops, client, cached, environment>>
      /\ WatcherTransition(watcher.seen.version, "sent_partial_to_provider",
                           GoTo("sent"), GoTo("act"))
  BY DEF WatcherSend
<1>2. /\ GoTo("sent") \in Watchers /\ GoTo("sent").pc = "sent"
      /\ GoTo("sent").seen = watcher.seen /\ GoTo("sent").h \in 0..height
      /\ GoTo("act") \in Watchers /\ GoTo("act").pc = "act"
      /\ GoTo("act").seen = watcher.seen /\ GoTo("act").h \in 0..height
  BY GoToIsTyped DEF IInv, WatcherPcs
<1>3. /\ PassStep /\ row'.refundTx = row.refundTx
      /\ watcher' \in {GoTo("sent"), GoTo("act"), IdleWatcher}
  BY <1>1, <1>2, TransitionPass
<1>4. CASE watcher' \in {GoTo("sent"), GoTo("act")}
  <2>1. watcher'.pc \in {"sent", "act"} /\ watcher'.seen = watcher.seen
    BY <1>2, <1>4
  <2>2. SeenIsPast'
    BY <1>1, <1>3, <2>1, SeenStays
  <2> QED
    BY <1>3, <2>1, <2>2, PlainPlace, PassStepKeepsIInv DEF WatcherInv
<1>5. CASE watcher' = IdleWatcher
  BY <1>3, <1>5, IdleWatcherIsFine, PassStepKeepsIInv
<1> QED
  BY <1>3, <1>4, <1>5

LEMMA WatcherSentKeepsIInv ==
    ASSUME IInv, WatcherSent
    PROVE  IInv'
<1>1. /\ watcher.pc = "sent" /\ UNCHANGED <<row, ops, client, cached, environment>>
      /\ watcher' = [watcher EXCEPT !.pc = "await", !.version = row.version]
  BY DEF WatcherSent
<1>2. /\ watcher' \in Watchers /\ watcher'.pc = "await" /\ watcher'.seen = watcher.seen
      /\ watcher'.h \in 0..height
  BY <1>1, RowStateTyped DEF IInv, WellTyped, Watchers, WatcherPcs
<1> QED
  BY <1>1, <1>2, PlainStepKeepsIInv

LEMMA WatcherAwaitKeepsIInv ==
    ASSUME IInv, WatcherAwait
    PROVE  IInv'
<1> DEFINE stale == [GoTo("act") EXCEPT !.version = 0]
<1>1. /\ watcher.pc = "await" /\ UNCHANGED <<ops, client, cached, environment>>
      /\ WatcherTransition(watcher.version, "waiting_provider_broadcast",
                           GoTo("record claim"), stale)
  BY DEF WatcherAwait
<1>2. /\ GoTo("record claim") \in Watchers /\ GoTo("record claim").pc = "record claim"
      /\ GoTo("record claim").seen = watcher.seen /\ GoTo("record claim").h \in 0..height
  BY GoToIsTyped DEF IInv, WatcherPcs
<1>3. /\ stale \in Watchers /\ stale.pc = "act" /\ stale.seen = watcher.seen
      /\ stale.h \in 0..height
  BY BlanksAreTyped DEF GoTo, IInv, WellTyped, Watchers, WatcherPcs
<1> HIDE DEF stale
<1>4. /\ PassStep /\ row'.refundTx = row.refundTx
      /\ \/ watcher' = GoTo("record claim") /\ row'.state = "waiting_provider_broadcast"
         \/ watcher' \in {stale, IdleWatcher}
  BY <1>1, <1>2, <1>3, TransitionPass
<1>5. CASE watcher' = GoTo("record claim") /\ row'.state = "waiting_provider_broadcast"
  <2>1. SeenIsPast'
    BY <1>1, <1>2, <1>4, <1>5, SeenStays
  <2>2. Rank["signing_musig2_partial"] < Rank[row'.state]
    <3>1. Rank["signing_musig2_partial"] = 5 /\ Rank["waiting_provider_broadcast"] = 7
      BY DEF Rank, States
    <3>2. 5 < 7
      OBVIOUS
    <3> QED
      BY <1>5, <3>1, <3>2, Zenon
  <2>3. OnProviderSwap' /\ WalkInv' /\ DecisionInv'
    BY <1>2, <1>5, <2>2 DEF OnProviderSwap, WalkInv, DecisionInv
  <2> QED
    BY <1>4, <2>1, <2>3, PassStepKeepsIInv DEF WatcherInv
<1>6. CASE watcher' = stale
  <2>1. SeenIsPast'
    BY <1>1, <1>3, <1>4, <1>6, SeenStays
  <2> QED
    BY <1>3, <1>4, <1>6, <2>1, PlainPlace, PassStepKeepsIInv DEF WatcherInv
<1>7. CASE watcher' = IdleWatcher
  BY <1>4, <1>7, IdleWatcherIsFine, PassStepKeepsIInv
<1> QED
  BY <1>4, <1>5, <1>6, <1>7

LEMMA WatcherRecordClaimKeepsIInv ==
    ASSUME IInv, WatcherRecordClaim
    PROVE  IInv'
<1>1. /\ watcher.pc = "record claim" /\ UNCHANGED <<row, client, cached, environment>>
      /\ ops' = ops \cup {Key("musig_claim", "signing_musig2_partial")}
      /\ watcher' = [GoTo("act") EXCEPT !.version = 0]
  BY DEF WatcherRecordClaim
<1>2. /\ watcher' \in Watchers /\ watcher'.pc = "act" /\ watcher'.seen = watcher.seen
      /\ watcher'.h \in 0..height
  BY <1>1, BlanksAreTyped DEF GoTo, IInv, WellTyped, Watchers, WatcherPcs
<1>3. /\ row.state \in States /\ "signing_musig2_partial" \in States
      /\ Rank["signing_musig2_partial"] < Rank[row.state]
  BY <1>1 DEF IInv, WatcherInv, SeenIsPast, WalkInv, States
<1>4. PassStep
  BY <1>1, <1>2, <1>3, RecordPass
<1>5. SeenIsPast'
  BY <1>1, <1>2, <1>4, SeenStays
<1> QED
  BY <1>2, <1>4, <1>5, PlainPlace, PassStepKeepsIInv DEF WatcherInv

LEMMA WatcherActKeepsIInv ==
    ASSUME IInv, NEW answers \in BOOLEAN, WatcherAct(answers)
    PROVE  IInv'
<1> DEFINE seen == watcher.seen
           facts == ComputeFacts(FALSE, seen.timeout, watcher.h, watcher.ps, RefundSeenIn(answers))
           next == NextAction(seen.state, facts)
           pc == IF next.action = "broadcast_refund" THEN "refund" ELSE "move"
<1>1. watcher.pc = "act" /\ UNCHANGED <<row, ops, client, cached, environment>>
  BY DEF WatcherAct
<1>2. CASE watcher' = IdleWatcher
  <2>1. watcher' \in Watchers /\ watcher'.h \in 0..height /\ WatcherInv'
    BY <1>2, IdleWatcherIsFine
  <2> QED
    BY <1>1, <2>1, SameRowPass, PassStepKeepsIInv
<1>3. CASE /\ next.action # "none"
           /\ watcher' = [watcher EXCEPT !.pc = pc, !.path = <<next.to>>]
  <2>1. seen.state \in States
    BY <1>1 DEF IInv, WatcherInv, SeenIsPast
  <2>2. /\ next.to \in States \ {"commit_started"}
        /\ seen.state = "refunding" => facts.refundSeen
        /\ next.action = "broadcast_refund" =>
               seen.state = "fallback_script_ready" /\ facts.timeoutReached
    <3> HIDE DEF facts, seen
    <3> QED
      BY <1>3, <2>1, DecisionsAreMoves
  <2>3. facts.refundSeen => refund # "none"
    BY DEF ComputeFacts, RefundSeenIn
  <2>4. facts.timeoutReached => 0 < seen.timeout /\ seen.timeout <= watcher.h
    <3>1. facts.timeoutReached <=> (seen.timeout > 0 /\ seen.timeout <= watcher.h)
      BY DEF ComputeFacts
    <3>2. seen.timeout \in Nat
      <4>1. seen.timeout \in {0, QuoteTimeout, ProviderTimeout}
        BY DEF IInv, WellTyped, Watchers, Copies
      <4>2. {0, QuoteTimeout, ProviderTimeout} \subseteq Nat
        BY ExecutionConstants
      <4> QED
        BY <4>1, <4>2
    <3> QED
      BY <3>1, <3>2
  <2>5. /\ pc \in {"refund", "move"} /\ pc \in WatcherPcs
        /\ pc = "refund" => next.action = "broadcast_refund"
    BY DEF WatcherPcs
  <2> HIDE DEF facts, next, pc
  <2>6. /\ <<next.to>> \in Seq(States) /\ <<next.to>> # <<>> /\ Head(<<next.to>>) = next.to
    BY <2>2
  <2>7. /\ watcher' \in Watchers /\ watcher'.pc = pc /\ watcher'.path = <<next.to>>
        /\ watcher'.seen = seen /\ watcher'.h = watcher.h /\ watcher'.h \in 0..height
    BY <1>3, <2>5, <2>6 DEF IInv, WellTyped, Watchers
  <2>8. PassStep
    BY <1>1, <2>7, SameRowPass
  <2>9. SeenIsPast'
    BY <1>1, <2>7, <2>8, SeenStays
  <2>10. OnProviderSwap' /\ WalkInv'
    BY <2>5, <2>7 DEF OnProviderSwap, WalkInv
  <2>11. DecisionInv'
    BY <1>1, <2>2, <2>3, <2>4, <2>5, <2>6, <2>7 DEF DecisionInv, environment
  <2> QED
    BY <2>8, <2>9, <2>10, <2>11, PassStepKeepsIInv DEF WatcherInv
<1> QED
  BY <1>2, <1>3 DEF WatcherAct

LEMMA WatcherMoveKeepsIInv ==
    ASSUME IInv, WatcherMove
    PROVE  IInv'
<1> DEFINE to == Head(watcher.path)
<1>1. /\ watcher.pc = "move" /\ UNCHANGED <<ops, client, cached, environment>>
      /\ WatcherTransition(watcher.seen.version, to, GoTo("record move"), IdleWatcher)
  BY DEF WatcherMove
<1>2. /\ GoTo("record move") \in Watchers /\ GoTo("record move").pc = "record move"
      /\ GoTo("record move").seen = watcher.seen /\ GoTo("record move").h \in 0..height
  BY GoToIsTyped DEF IInv, WatcherPcs
<1>3. IdleWatcher \in Watchers /\ IdleWatcher.h \in 0..height
  <2>1. NoCopy \in Copies
    BY ExecutionConstants DEF NoCopy, Copies, LongestWalk
  <2> QED
    BY <2>1, BlanksAreTyped DEF IdleWatcher, Watchers, WatcherPcs
<1>4. to # "commit_started"
  BY <1>1 DEF IInv, WatcherInv, DecisionInv
<1> DEFINE v == watcher.seen.version
           done == GoTo("record move")
<1> HIDE DEF to, v, done
<1>5. /\ PassStep /\ row'.refundTx = row.refundTx
      /\ \/ /\ watcher' = GoTo("record move") /\ row.version = watcher.seen.version
            /\ row'.state = to /\ Rank[row.state] < Rank[to]
         \/ watcher' = IdleWatcher
  <2>1. WatcherTransition(v, to, done, IdleWatcher)
    BY <1>1 DEF v, done
  <2>2. done \in Watchers /\ done.h \in 0..height
    BY <1>2 DEF done
  <2> QED
    BY <1>1, <1>3, <1>4, <2>1, <2>2, TransitionPass DEF v, done
<1>6. CASE /\ watcher' = GoTo("record move") /\ row.version = watcher.seen.version
           /\ row'.state = to /\ Rank[row.state] < Rank[to]
  <2>1. SeenIsPast'
    BY <1>1, <1>2, <1>5, <1>6, SeenStays
  <2>2. Rank[watcher.seen.state] < Rank[row'.state]
    BY <1>1, <1>6 DEF IInv, WatcherInv, SeenIsPast
  <2>3. OnProviderSwap' /\ WalkInv' /\ DecisionInv'
    BY <1>2, <1>6, <2>2 DEF OnProviderSwap, WalkInv, DecisionInv
  <2> QED
    BY <1>5, <2>1, <2>3, PassStepKeepsIInv DEF WatcherInv
<1>7. CASE watcher' = IdleWatcher
  BY <1>5, <1>7, IdleWatcherIsFine, PassStepKeepsIInv
<1> QED
  BY <1>5, <1>6, <1>7

LEMMA WatcherRecordMoveKeepsIInv ==
    ASSUME IInv, WatcherRecordMove
    PROVE  IInv'
<1>1. /\ watcher.pc = "record move" /\ ops' = ops \cup {Key("reconcile", watcher.seen.state)}
      /\ watcher' = IdleWatcher /\ UNCHANGED <<row, client, cached, environment>>
  BY DEF WatcherRecordMove
<1>2. watcher' \in Watchers /\ watcher'.h \in 0..height /\ WatcherInv'
  BY <1>1, IdleWatcherIsFine
<1>3. /\ watcher.seen.state \in States /\ row.state \in States
      /\ Rank[watcher.seen.state] < Rank[row.state]
  BY <1>1 DEF IInv, WatcherInv, SeenIsPast, WalkInv
<1>4. PassStep
  BY <1>1, <1>2, <1>3, RecordPass
<1> QED
  BY <1>2, <1>4, PassStepKeepsIInv

LEMMA WatcherSkipRefundKeepsIInv ==
    ASSUME IInv, WatcherSkipRefund
    PROVE  IInv'
<1>1. /\ watcher.pc = "refund" /\ UNCHANGED <<row, ops, client, cached, environment>>
      /\ watcher' \in {GoTo("move"), IdleWatcher}
  BY DEF WatcherSkipRefund
<1>2. CASE watcher' = GoTo("move")
  <2>1. /\ watcher' \in Watchers /\ watcher'.pc = "move" /\ watcher'.seen = watcher.seen
        /\ watcher'.path = watcher.path /\ watcher'.h \in 0..height
    BY <1>2, GoToMoves DEF IInv, WatcherPcs
  <2>2. PassStep
    BY <1>1, <2>1, SameRowPass
  <2>3. SeenIsPast'
    BY <1>1, <2>1, <2>2, SeenStays
  <2>4. OnProviderSwap' /\ WalkInv'
    BY <2>1 DEF OnProviderSwap, WalkInv
  <2>5. DecisionInv'
    BY <1>1, <2>1 DEF DecisionInv, IInv, WatcherInv, environment
  <2> QED
    BY <2>2, <2>3, <2>4, <2>5, PassStepKeepsIInv DEF WatcherInv
<1>3. CASE watcher' = IdleWatcher
  <2>1. watcher' \in Watchers /\ watcher'.h \in 0..height /\ WatcherInv'
    BY <1>3, IdleWatcherIsFine
  <2> QED
    BY <1>1, <2>1, SameRowPass, PassStepKeepsIInv
<1> QED
  BY <1>1, <1>2, <1>3

LEMMA WatcherBroadcastRefundKeepsIInv ==
    ASSUME IInv, WatcherBroadcastRefund
    PROVE  IInv'
<1>1. /\ watcher.pc = "refund" /\ watcher.seen.boltz # 0
      /\ UNCHANGED <<row, ops, client, cached, height, provider>>
      /\ watcher' \in {GoTo("persist refund"), IdleWatcher}
      /\ refund' \in {"mempool", refund}
  BY DEF WatcherBroadcastRefund
<1>2. watcher' \in Watchers /\ watcher'.h \in 0..height
  BY <1>1, GoToIsTyped, IdleWatcherIsFine DEF IInv, WatcherPcs
<1>0. KeepsAnswers
  BY <1>1, SameAnswers
<1>3. Grows
  BY <1>0, <1>1, SameRowGrows DEF IInv
<1>4. OpsInv'
  BY <1>1, <1>3, OpsCarry DEF IInv
<1>5. RowInv'
  BY <1>0, <1>1, RowInvStays DEF IInv
<1>6. PassStep
  BY <1>1, <1>2, <1>3, <1>4, <1>5 DEF PassStep, IInv, WellTyped
<1>7. CASE watcher' = GoTo("persist refund")
  <2>1. /\ watcher'.pc = "persist refund" /\ watcher'.seen = watcher.seen
        /\ watcher'.path = watcher.path /\ watcher'.h = watcher.h
    BY <1>7, GoToIsTyped DEF IInv, WatcherPcs
  <2>2. SeenIsPast'
    BY <1>1, <1>6, <2>1, SeenStays
  <2>3. OnProviderSwap' /\ WalkInv'
    BY <1>1, <2>1 DEF OnProviderSwap, WalkInv
  <2>4. DecisionInv'
    BY <1>1, <2>1 DEF DecisionInv, IInv, WatcherInv
  <2> QED
    BY <1>6, <2>2, <2>3, <2>4, PassStepKeepsIInv DEF WatcherInv
<1>8. CASE watcher' = IdleWatcher
  BY <1>6, <1>8, IdleWatcherIsFine, PassStepKeepsIInv
<1> QED
  BY <1>1, <1>7, <1>8

LEMMA WatcherPersistRefundKeepsIInv ==
    ASSUME IInv, WatcherPersistRefund
    PROVE  IInv'
<1>1. PICK status \in {row.status, provider[watcher.seen.boltz].status} :
          /\ watcher.pc = "persist refund" /\ watcher' = GoTo("move")
          /\ row' = [row EXCEPT !.refundTx = TRUE, !.status = status]
          /\ UNCHANGED <<ops, client, cached, environment>>
  BY DEF WatcherPersistRefund
<1>2. /\ watcher' \in Watchers /\ watcher'.pc = "move" /\ watcher'.seen = watcher.seen
      /\ watcher'.path = watcher.path /\ watcher'.h \in 0..height
  BY <1>1, GoToMoves DEF IInv, WatcherPcs
<1>3. watcher.seen.boltz \in ProviderSwaps
  <2>1. watcher.seen.boltz # 0
    BY <1>1 DEF IInv, WatcherInv, OnProviderSwap
  <2>2. watcher.seen.boltz \in 0..MaxProviderSwaps
    BY DEF IInv, WellTyped, Watchers, Copies
  <2> QED
    BY <2>1, <2>2, ExecutionConstants DEF ProviderSwaps
<1>4. status \in Statuses \cup {""}
  <2>1. provider \in [ProviderSwaps -> Backings]
    BY DEF IInv, WellTyped
  <2>2. provider[watcher.seen.boltz] \in Backings
    BY <1>3, <2>1
  <2>3. provider[watcher.seen.boltz].status \in Statuses \cup {""}
    BY <2>2 DEF Backings
  <2>4. row.status \in Statuses \cup {""}
    BY RowStateTyped DEF Rows
  <2> QED
    BY <2>3, <2>4
<1>5. /\ row' \in Rows /\ row'.state = row.state /\ row'.version = row.version
      /\ row'.boltz = row.boltz /\ row'.intent = row.intent /\ row'.timeout = row.timeout
  BY <1>1, <1>4, RowStateTyped DEF Rows
<1>0. KeepsAnswers
  BY <1>1, SameAnswers DEF environment
<1>6. Grows
  BY <1>0, <1>5, SameRowGrows DEF IInv
<1>7. row.state \in States
  BY <1>1 DEF IInv, WatcherInv, SeenIsPast
<1>8. RowInv'
  BY <1>0, <1>5, <1>7, RowInvStays DEF IInv, States
<1>9. OpsInv'
  BY <1>1, <1>6, OpsCarry DEF IInv
<1>10. PassStep
  BY <1>1, <1>2, <1>5, <1>6, <1>8, <1>9 DEF PassStep, IInv, WellTyped, environment
<1>11. SeenIsPast'
  BY <1>1, <1>2, <1>10, SeenStays
<1>12. OnProviderSwap' /\ WalkInv'
  BY <1>2 DEF OnProviderSwap, WalkInv
<1>13. DecisionInv'
  BY <1>1, <1>2 DEF DecisionInv, IInv, WatcherInv, environment
<1> QED
  BY <1>10, <1>11, <1>12, <1>13, PassStepKeepsIInv DEF WatcherInv

LEMMA WatcherKeepsIInv ==
    ASSUME IInv, WatcherStep
    PROVE  IInv'
BY WatcherListKeepsIInv, WatcherBeginKeepsIInv, WatcherFetchKeepsIInv,
   WatcherPersistStatusKeepsIInv, WatcherApplyKeepsIInv, WatcherHopKeepsIInv,
   WatcherHoppedKeepsIInv, WatcherRecordHopsKeepsIInv, WatcherReloadKeepsIInv,
   WatcherSkipClaimKeepsIInv, WatcherPostClaimKeepsIInv, WatcherSendKeepsIInv,
   WatcherSentKeepsIInv, WatcherAwaitKeepsIInv, WatcherRecordClaimKeepsIInv,
   WatcherActKeepsIInv, WatcherMoveKeepsIInv, WatcherRecordMoveKeepsIInv,
   WatcherSkipRefundKeepsIInv, WatcherBroadcastRefundKeepsIInv, WatcherPersistRefundKeepsIInv
DEF WatcherStep

-----------------------------------------------------------------------------
(* The process dying, and the world outside.                               *)

\* Steps that leave the row, the handlers, the watcher and the keys alone.
LEMMA OutsideStepKeepsIInv ==
    ASSUME IInv, UNCHANGED <<row, ops, client, watcher>>,
           provider' \in [ProviderSwaps -> Backings], KeepsAnswers,
           refund' \in {"none", "mempool", "confirmed"}, refund # "none" => refund' # "none",
           height' \in height..MaxHeight, cached' \in 0..height'
    PROVE  IInv'
<1>1. Grows
  BY SameRowGrows DEF IInv
<1>2. OpsInv'
  BY <1>1, OpsCarry DEF IInv
<1>3. RowInv'
  BY RowInvStays DEF IInv
<1>4. ClientInv'
  BY <1>1, HandlersUntouched DEF IInv
<1>5. row' \in Rows
  BY RowStateTyped
<1>6. WatcherInv'
  BY <1>1, <1>5, WatcherUntouched DEF IInv
<1>7. height' \in FirstHeight..MaxHeight /\ watcher'.h \in 0..height'
  <2>1. /\ FirstHeight \in Nat /\ MaxHeight \in Nat
        /\ height \in FirstHeight..MaxHeight /\ watcher.h \in 0..height
    BY ExecutionConstants DEF IInv, WellTyped
  <2> DEFINE h == watcher.h
  <2> HIDE DEF h
  <2>2. h \in 0..height
    BY <2>1 DEF h
  <2>3. h \in 0..height' /\ height' \in FirstHeight..MaxHeight
    BY <2>1, <2>2
  <2> QED
    BY <2>3 DEF h
<1>8. WellTyped'
  BY <1>5, <1>7 DEF IInv, WellTyped
<1> QED
  BY <1>2, <1>3, <1>4, <1>6, <1>8 DEF IInv

LEMMA CrashKeepsIInv ==
    ASSUME IInv, Crash
    PROVE  IInv'
<1>1. /\ client' = [c \in Clients |-> IdleClient] /\ watcher' = IdleWatcher /\ cached' = 0
      /\ UNCHANGED <<row, ops, environment>>
  BY DEF Crash
<1>2. watcher' \in Watchers /\ watcher'.h \in 0..height /\ WatcherInv'
  BY <1>1, IdleWatcherIsFine
<1>3. IdleClient \in Handlers /\ IdleClient.pc = "idle"
  BY ExecutionConstants DEF IdleClient, Handlers, ClientPcs, LongestWalk, NoIntent
<1> HIDE DEF IdleClient
<1>4. client' \in [Clients -> Handlers] /\ \A c \in Clients : client'[c].pc = "idle"
  BY <1>1, <1>3
<1>5. ClientInv'
  BY <1>4, IdleIsFine DEF ClientInv
<1>0. KeepsAnswers
  BY <1>1, SameAnswers DEF environment
<1>6. Grows
  BY <1>0, <1>1, SameRowGrows DEF IInv
<1>7. OpsInv'
  BY <1>1, <1>6, OpsCarry DEF IInv
<1>8. RowInv'
  BY <1>0, <1>1, RowInvStays DEF IInv
<1>9. WellTyped'
  BY <1>1, <1>2, <1>4, BlanksAreTyped DEF IInv, WellTyped, environment
<1> QED
  BY <1>2, <1>5, <1>7, <1>8, <1>9 DEF IInv

LEMMA UpdateHeightKeepsIInv ==
    ASSUME IInv, UpdateHeight
    PROVE  IInv'
<1>1. cached' = height /\ UNCHANGED <<row, ops, client, watcher, environment>>
  BY DEF UpdateHeight
<1>2. height \in Nat /\ height \in height..MaxHeight /\ height \in 0..height
  BY ExecutionConstants DEF IInv, WellTyped
<1> QED
  BY <1>1, <1>2, SameAnswers, OutsideStepKeepsIInv DEF environment, IInv, WellTyped

LEMMA ProviderMovesKeepsIInv ==
    ASSUME IInv, NEW p \in ProviderSwaps, NEW status \in Statuses,
           NEW lockup \in {"none", "funded", "claimed"}, ProviderMoves(p, status, lockup)
    PROVE  IInv'
<1>1. /\ provider' = [provider EXCEPT ![p].status = status, ![p].lockup = lockup]
      /\ UNCHANGED <<row, ops, client, watcher, cached, height, refund>>
  BY DEF ProviderMoves
<1>2. provider' \in [ProviderSwaps -> Backings]
  BY <1>1 DEF IInv, WellTyped, Backings
<1>3. height \in height..MaxHeight
  BY ExecutionConstants DEF IInv, WellTyped
<1>4. KeepsAnswers
  <2>1. status # ""
    BY DEF Statuses
  <2> QED
    BY <1>1, <2>1 DEF KeepsAnswers, IInv, WellTyped, Backings
<1> QED
  BY <1>1, <1>2, <1>3, <1>4, OutsideStepKeepsIInv DEF IInv, WellTyped

LEMMA OutsideKeepsIInv ==
    ASSUME IInv, Outside
    PROVE  IInv'
<1>1. CASE Tick
  <2>1. /\ height < MaxHeight /\ height' = height + 1
        /\ UNCHANGED <<row, ops, client, watcher, cached, provider, refund>>
    BY <1>1 DEF Tick
  <2>2. height' \in height..MaxHeight /\ cached' \in 0..height'
    BY <2>1, ExecutionConstants DEF IInv, WellTyped
  <2> QED
    BY <2>1, <2>2, SameAnswers, OutsideStepKeepsIInv DEF IInv, WellTyped
<1>2. CASE RefundConfirms
  <2>1. /\ refund' = "confirmed"
        /\ UNCHANGED <<row, ops, client, watcher, cached, height, provider>>
    BY <1>2 DEF RefundConfirms
  <2>2. height \in height..MaxHeight
    BY ExecutionConstants DEF IInv, WellTyped
  <2> QED
    BY <2>1, <2>2, SameAnswers, OutsideStepKeepsIInv DEF IInv, WellTyped
<1>3. ASSUME NEW p \in ProviderSwaps,
             UserPays(p) \/ ProviderLocks(p) \/ ProviderSettles(p) \/ ProviderExpires(p)
      PROVE  IInv'
  <2>1. PICK status \in Statuses, lockup \in {"none", "funded", "claimed"} :
            ProviderMoves(p, status, lockup)
    <3>1. {"transaction.mempool", "transaction.server.mempool", "transaction.lockupFailed",
           "transaction.claimed", "invoice.settled", "swap.expired"} \subseteq Statuses
      BY DEF Statuses
    <3>2. provider[p].lockup \in {"none", "funded", "claimed"}
      BY DEF IInv, WellTyped, Backings
    <3> QED
      BY <1>3, <3>1, <3>2 DEF UserPays, ProviderLocks, ProviderSettles, ProviderExpires
  <2> QED
    BY <2>1, ProviderMovesKeepsIInv
<1> QED
  BY <1>1, <1>2, <1>3 DEF Outside

-----------------------------------------------------------------------------
(* The theorems.                                                           *)

LEMMA InitEstablishesIInv == Init => IInv
<1> SUFFICES ASSUME Init PROVE IInv
  OBVIOUS
<1>1. /\ row = NoRow /\ ops = {} /\ client = [c \in Clients |-> IdleClient]
      /\ watcher = IdleWatcher /\ cached = 0 /\ height = FirstHeight /\ refund = "none"
      /\ provider = [p \in ProviderSwaps |-> NoProviderSwap]
  BY DEF Init
<1>2. /\ 0 \in 0..MaxHeight /\ 0 \in 0..LongestWalk /\ 0 \in 0..height /\ <<>> \in Seq(States)
      /\ 0 \in 0..MaxProviderSwaps /\ 0 \in 0..(MaxProviderSwaps + 1)
      /\ height \in FirstHeight..MaxHeight
  <2>1. /\ MaxHeight \in Nat /\ MaxProviderSwaps \in Nat /\ height \in Nat
        /\ FirstHeight \in Nat /\ FirstHeight <= MaxHeight
    BY <1>1, ExecutionConstants
  <2>2. height \in FirstHeight..MaxHeight
    <3>1. FirstHeight \in FirstHeight..MaxHeight
      BY <2>1
    <3>2. height = FirstHeight
      BY <1>1
    <3> QED
      BY <3>1, <3>2
  <2>3. <<>> \in Seq(States)
    OBVIOUS
  <2>4. 0 \in 0..MaxHeight /\ 0 \in 0..height /\ 0 \in 0..MaxProviderSwaps
    BY <2>1
  <2>5. 0 \in 0..LongestWalk /\ 0 \in 0..(MaxProviderSwaps + 1)
    BY <2>1 DEF LongestWalk
  <2> QED
    BY <2>2, <2>3, <2>4, <2>5
<1>3. NoRow \in Rows /\ NoRow.state = "none" /\ NoRow.boltz = 0
  BY <1>2 DEF NoRow, Rows, NoIntent
<1>4. NoCopy \in Copies
  BY <1>2 DEF NoCopy, Copies
<1>5. IdleWatcher \in Watchers /\ IdleWatcher.pc = "idle" /\ IdleWatcher.h = 0
  BY <1>2, <1>4 DEF IdleWatcher, Watchers, WatcherPcs
<1>6. IdleClient \in Handlers /\ IdleClient.pc = "idle"
  BY <1>2 DEF IdleClient, Handlers, ClientPcs, NoIntent
<1>7. provider \in [ProviderSwaps -> Backings]
  <2>1. NoProviderSwap \in Backings
    BY DEF NoProviderSwap, Backings
  <2> QED
    BY <1>1, <2>1
<1> HIDE DEF NoRow, IdleWatcher, IdleClient
<1>8. WellTyped
  BY <1>1, <1>2, <1>3, <1>5, <1>6, <1>7 DEF WellTyped
<1>9. RowInv
  BY <1>1, <1>3 DEF RowInv, CommittedSwapIsBacked, Committed, States
<1>10. OpsInv
  BY <1>1 DEF OpsInv
<1>11. ClientInv
  BY <1>1, <1>6 DEF ClientInv, HandlerAt, Committing
<1>12. WatcherInv
  BY <1>1, <1>5 DEF WatcherInv, SeenIsPast, OnProviderSwap, WalkInv, DecisionInv
<1> QED
  BY <1>8, <1>9, <1>10, <1>11, <1>12 DEF IInv

LEMMA StepsKeepIInv == IInv /\ [Next]_vars => IInv'
<1> SUFFICES ASSUME IInv, [Next]_vars PROVE IInv'
  OBVIOUS
<1>1. CASE UNCHANGED vars
  <2>1. height \in height..MaxHeight
    BY ExecutionConstants DEF IInv, WellTyped
  <2> QED
    BY <1>1, <2>1, SameAnswers, OutsideStepKeepsIInv DEF IInv, WellTyped, vars
<1>2. CASE Next
  BY <1>2, HandlersKeepIInv, WatcherKeepsIInv, UpdateHeightKeepsIInv, CrashKeepsIInv,
     OutsideKeepsIInv DEF Next
<1> QED
  BY <1>1, <1>2

\* Handlers, watcher, crashes and the world outside all keep IInv.
THEOREM Invariant == Spec => []IInv
BY InitEstablishesIInv, StepsKeepIInv, PTL DEF Spec

\* Row, handlers, watcher and surroundings are well formed, whatever the number
\* of handlers and of provider swaps.
THEOREM TypeCorrect == Spec => []TypeOK
<1>1. IInv => TypeOK
  <2> SUFFICES ASSUME IInv PROVE TypeOK
    OBVIOUS
  <2>1. /\ row \in Rows /\ ops \subseteq (RecordedBy \X States)
        /\ client \in [Clients -> Handlers] /\ watcher \in Watchers
        /\ provider \in [ProviderSwaps -> Backings]
        /\ height \in FirstHeight..MaxHeight /\ cached \in 0..height
        /\ refund \in {"none", "mempool", "confirmed"}
    BY DEF IInv, WellTyped
  <2>2. cached \in 0..MaxHeight
    BY <2>1, ExecutionConstants
  <2> QED
    BY <2>1, <2>2 DEF TypeOK, Rows, RecordedBy, Handlers, ClientPcs, Watchers, Backings
<1> QED
  BY <1>1, Invariant, PTL

\* A committed reverse or chain swap is backed by a swap of the provider, with the
\* timeout its answer had and with details unless an answer lacked them, across
\* retries, crashes, racing handlers and the watcher's walks.
THEOREM CommittedIsBacked == Spec => []CommittedSwapIsBacked
<1>1. IInv => CommittedSwapIsBacked
  BY DEF IInv, RowInv
<1> QED
  BY <1>1, Invariant, PTL

\* An operation key is never found before what it stands for is done, wherever
\* the process died: no key can wedge the swap.
THEOREM RecordedIsDone == Spec => []RecordedMeansDone
<1>1. IInv => RecordedMeansDone
  <2> SUFFICES ASSUME IInv PROVE RecordedMeansDone
    OBVIOUS
  <2>1. CommitKey \in ops => Backed
    BY DEF IInv, OpsInv, RowInv
  <2>2. ASSUME NEW by \in {"provider", "musig_claim", "reconcile"}, Key(by, row.state) \in ops
        PROVE  FALSE
    <3>1. row.state \in States
      BY <2>2 DEF IInv, WellTyped, Key
    <3>2. Rank[row.state] < Rank[row.state]
      BY <2>2, <3>1 DEF IInv, OpsInv
    <3> QED
      BY <3>1, <3>2, MovesRaiseRank
  <2> QED
    BY <2>1, <2>2 DEF RecordedMeansDone
<1> QED
  BY <1>1, Invariant, PTL

-----------------------------------------------------------------------------
(* What a step may do, from the same invariant.                            *)

\* A refund is tried only at a height the provider's timelock allows, if its
\* answers have the timeout: the watcher's copies of the height and of the timeout
\* err on the late side.
THEOREM RefundsWait == Spec => RefundWaitsForTimelock
<1>1. ASSUME IInv, WatcherBroadcastRefund, TimeoutsGiven
      PROVE  height >= ProviderTimeout
  <2>1. watcher.pc = "refund" /\ watcher.seen.boltz # 0
    BY <1>1 DEF WatcherBroadcastRefund
  <2> DEFINE t == watcher.seen.timeout   h == watcher.h
  <2>2. 0 < t /\ t <= h
    BY <1>1, <2>1 DEF IInv, WatcherInv, DecisionInv
  <2>3. t \in {0, ProviderTimeout}
    BY <1>1, <2>1 DEF IInv, WatcherInv, SeenIsPast
  <2>4. h \in 0..height /\ height \in Nat /\ ProviderTimeout \in Nat
    BY <1>1, ExecutionConstants DEF IInv, WellTyped
  <2> HIDE DEF t, h
  <2> QED
    BY <2>2, <2>3, <2>4
<1>2. IInv /\ [Next]_vars =>
          [WatcherBroadcastRefund /\ TimeoutsGiven => height >= ProviderTimeout]_vars
  BY <1>1
<1> QED
  BY <1>2, Invariant, PTL DEF Spec, RefundWaitsForTimelock

\* Once the refund's txid is stored no pass broadcasts again, whatever copy of
\* the swap it works on.
THEOREM StoredRefundIsNotRepeated == Spec => NoRebroadcastOnceStored
<1>1. ASSUME IInv, WatcherBroadcastRefund
      PROVE  ~row.refundTx
  <2>1. watcher.pc = "refund" /\ ~watcher.seen.refundTx
    BY <1>1 DEF WatcherBroadcastRefund
  <2>2. watcher.seen.refundTx = row.refundTx
    BY <1>1, <2>1 DEF IInv, WatcherInv, SeenIsPast
  <2> QED
    BY <2>1, <2>2
<1>2. IInv /\ [Next]_vars => [row.refundTx => ~WatcherBroadcastRefund]_vars
  BY <1>1
<1> QED
  BY <1>2, Invariant, PTL DEF Spec, NoRebroadcastOnceStored

\* The preimage is given away only for a swap that is in the signing state or
\* past it, however old the copy the watcher decides on.
THEOREM ClaimsOnlyWhenSigning == Spec => ClaimOnlyWhenSigning
<1>1. ASSUME IInv, WatcherPostClaim
      PROVE  row.state \notin {"open", "locked", "commit_started", "waiting",
                               "waiting_claim_details", "canceled"}
  <2>1. watcher.pc = "claim" /\ watcher.seen.state = "signing_musig2_partial"
    BY <1>1 DEF WatcherPostClaim, ClaimDue
  <2>2. row.state \in PastSigning
    BY <1>1, <2>1 DEF IInv, WatcherInv, SeenIsPast, PastSigning
  <2> QED
    BY <2>2 DEF PastSigning
<1>2. IInv /\ [Next]_vars =>
          [WatcherPostClaim => row.state \notin {"open", "locked", "commit_started", "waiting",
                                                 "waiting_claim_details", "canceled"}]_vars
  BY <1>1
<1> QED
  BY <1>2, Invariant, PTL DEF Spec, ClaimOnlyWhenSigning

\* The transitions of a step: to a state no refund is in or ends in, or the one
\* the watcher's path or its decision names, for the version it expects.
StepTransition ==
    \E version \in Nat, to \in States :
        /\ Accepts(version, to)
        /\ row' = Moved(to)
        /\ \/ to \in {"locked", "canceled", "commit_started", "waiting",
                      "sent_partial_to_provider", "waiting_provider_broadcast"}
           \/ watcher.pc = "hop" /\ version = watcher.version /\ to = Head(watcher.path)
           \/ watcher.pc = "move" /\ version = watcher.seen.version /\ to = Head(watcher.path)

SameState == row'.state = row.state /\ row'.version = row.version

SwapAppears == row = NoRow /\ row' = [row EXCEPT !.state = "open"]

LEMMA HowTheRowMoves ==
    ASSUME IInv, [Next]_vars
    PROVE  SameState \/ StepTransition \/ SwapAppears
<1>1. row.version \in Nat /\ row \in Rows
  BY RowStateTyped DEF LongestWalk
<1>2. {"locked", "canceled", "commit_started", "waiting", "sent_partial_to_provider",
       "waiting_provider_broadcast"} \subseteq States
  BY DEF States
<1>3. ASSUME row' = row PROVE SameState
  BY <1>3 DEF SameState
<1>4. ASSUME NEW version \in Nat,
             NEW to \in {"locked", "canceled", "commit_started", "waiting",
                         "sent_partial_to_provider", "waiting_provider_broadcast"},
             Accepts(version, to), row' = Moved(to)
      PROVE  StepTransition
  BY <1>2, <1>4 DEF StepTransition
<1>5. ASSUME NEW c \in Clients, ClientStep(c)
      PROVE  SameState \/ StepTransition \/ SwapAppears
  <2>1. client[c].version \in Nat /\ 0 \in Nat /\ LockedVersion \in Nat
    BY DEF IInv, WellTyped, Handlers, LongestWalk, LockedVersion
  <2>2. CASE CreateInsert(c)
    BY <2>2 DEF CreateInsert, SwapAppears
  <2>3. CASE CreateWriteIntent(c)
    BY <1>1, <2>3 DEF CreateWriteIntent, SameState, Rows
  <2>4. CASE CreateLock(c)
    BY <1>3, <1>4, <2>1, <2>4 DEF CreateLock
  <2>5. CASE LockSwap(c)
    BY <1>1, <1>4, <2>5 DEF LockSwap
  <2>6. CASE CancelSwap(c)
    BY <1>1, <1>4, <2>6 DEF CancelSwap
  <2>7. CASE CommitSubmarine(c)
    BY <1>1, <1>4, <2>7 DEF CommitSubmarine
  <2>8. CASE CommitPersistDetails(c)
    BY <1>1, <2>8 DEF CommitPersistDetails, SameState, Rows
  <2>9. CASE CommitPersistResponse(c)
    BY <1>1, <2>9 DEF CommitPersistResponse, SameState, Rows
  <2>10. CASE CommitStart(c)
    BY <1>3, <1>4, <2>1, <2>10 DEF CommitStart
  <2>11. CASE CommitWait(c)
    BY <1>3, <1>4, <2>1, <2>11 DEF CommitWait
  <2>12. CASE CommitBegin(c) \/ CommitProviderCreate(c) \/ CommitReadIntent(c)
              \/ CommitRecord(c) \/ CommitReadBack(c) \/ Abort(c)
    BY <1>3, <2>12
    DEF CommitBegin, CommitProviderCreate, CommitReadIntent, CommitRecord, CommitReadBack, Abort
  <2> QED
    BY <1>5, <2>2, <2>3, <2>4, <2>5, <2>6, <2>7, <2>8, <2>9, <2>10, <2>11, <2>12 DEF ClientStep
<1>6. ASSUME WatcherStep
      PROVE  SameState \/ StepTransition
  <2>1. watcher.version \in Nat /\ watcher.seen.version \in Nat
    <3>1. watcher.seen \in Copies /\ watcher.version \in 0..LongestWalk
      BY DEF IInv, WellTyped, Watchers
    <3> QED
      BY <3>1 DEF Copies, LongestWalk
  <2>2. ASSUME NEW version, NEW to, NEW done, NEW stale,
               WatcherTransition(version, to, done, stale)
        PROVE  row' = row \/ (Accepts(version, to) /\ row' = Moved(to))
    BY <2>2 DEF WatcherTransition
  <2>3. CASE WatcherHop
    <3>1. watcher.pc = "hop"
      BY <2>3 DEF WatcherHop
    <3>2. \/ row' = row
          \/ Accepts(watcher.version, Head(watcher.path)) /\ row' = Moved(Head(watcher.path))
      BY <2>2, <2>3 DEF WatcherHop
    <3>3. Head(watcher.path) \in States
      <4>1. watcher.path \in Seq(States) /\ watcher.path # <<>>
        BY <3>1 DEF IInv, WellTyped, Watchers, WatcherInv, WalkInv
      <4> QED
        BY <4>1
    <3> QED
      BY <1>3, <2>1, <3>1, <3>2, <3>3 DEF StepTransition
  <2>4. CASE WatcherMove
    <3>1. watcher.pc = "move"
      BY <2>4 DEF WatcherMove
    <3>2. \/ row' = row
          \/ Accepts(watcher.seen.version, Head(watcher.path)) /\ row' = Moved(Head(watcher.path))
      BY <2>2, <2>4 DEF WatcherMove
    <3>3. Head(watcher.path) \in States
      <4>1. watcher.path \in Seq(States) /\ watcher.path # <<>>
        BY <3>1 DEF IInv, WellTyped, Watchers, WatcherInv, DecisionInv
      <4> QED
        BY <4>1
    <3> QED
      BY <1>3, <2>1, <3>1, <3>2, <3>3 DEF StepTransition
  <2>5. CASE WatcherSend
    BY <1>3, <1>4, <2>1, <2>2, <2>5 DEF WatcherSend
  <2>6. CASE WatcherAwait
    BY <1>3, <1>4, <2>1, <2>2, <2>6 DEF WatcherAwait
  <2>7. CASE WatcherPersistStatus
    BY <1>1, <2>7 DEF WatcherPersistStatus, SameState, Rows
  <2>8. CASE WatcherPersistRefund
    BY <1>1, <2>8 DEF WatcherPersistRefund, SameState, Rows
  <2>9. CASE \/ WatcherList \/ WatcherBegin \/ WatcherFetch \/ WatcherFetchFails
             \/ WatcherApply \/ WatcherHopped \/ WatcherRecordHops \/ WatcherReload
             \/ WatcherSkipClaim \/ WatcherPostClaim \/ WatcherSent \/ WatcherRecordClaim
             \/ (\E answers \in BOOLEAN : WatcherAct(answers)) \/ WatcherRecordMove
             \/ WatcherSkipRefund \/ WatcherBroadcastRefund
    BY <1>3, <2>9
    DEF WatcherList, WatcherBegin, WatcherFetch, WatcherFetchFails, WatcherApply,
        WatcherHopped, WatcherRecordHops, WatcherReload, WatcherSkipClaim, WatcherPostClaim,
        WatcherSent, WatcherRecordClaim, WatcherAct, WatcherRecordMove, WatcherSkipRefund,
        WatcherBroadcastRefund
  <2> QED
    BY <1>6, <2>3, <2>4, <2>5, <2>6, <2>7, <2>8, <2>9 DEF WatcherStep
<1>7. CASE UpdateHeight \/ Crash \/ Outside
  BY <1>3, <1>7 DEF UpdateHeight, Crash, Outside, Tick, RefundConfirms, UserPays, ProviderLocks,
                    ProviderSettles, ProviderExpires, ProviderMoves
<1>8. CASE UNCHANGED vars
  BY <1>3, <1>8 DEF vars
<1> QED
  BY <1>5, <1>6, <1>7, <1>8 DEF Next

\* A swap in refunding completes only after its refund was on chain, whatever
\* the provider says meanwhile: no path completes it, and the decision that does
\* has seen the transaction.
THEOREM RefundsCompleteOnEvidence == Spec => RefundCompletesOnEvidence
<1>1. ASSUME IInv, [Next]_vars, row.state = "refunding", row'.state = "completed"
      PROVE  refund # "none"
  <2>1. StepTransition
    BY <1>1, HowTheRowMoves DEF SameState, SwapAppears, NoRow
  <2>2. PICK version \in Nat, to \in States :
            /\ row.version = version /\ row' = Moved(to)
            /\ \/ to \in {"locked", "canceled", "commit_started", "waiting",
                          "sent_partial_to_provider", "waiting_provider_broadcast"}
               \/ watcher.pc = "hop" /\ version = watcher.version /\ to = Head(watcher.path)
               \/ watcher.pc = "move" /\ version = watcher.seen.version
                  /\ to = Head(watcher.path)
    BY <2>1 DEF StepTransition, Accepts
  <2>3. to = "completed"
    BY <1>1, <2>2 DEF Moved, IInv, WellTyped, Rows
  <2>4. ~(watcher.pc = "hop" /\ version = watcher.version /\ to = Head(watcher.path))
    BY <1>1, <2>2, <2>3 DEF IInv, WatcherInv, WalkInv
  <2>5. watcher.pc = "move" /\ watcher.seen.version = row.version
    BY <2>2, <2>3, <2>4
  <2>6. watcher.seen.state = "refunding"
    BY <1>1, <2>5 DEF IInv, WatcherInv, SeenIsPast
  <2> QED
    BY <1>1, <2>5, <2>6 DEF IInv, WatcherInv, DecisionInv
<1>2. IInv /\ [Next]_vars =>
          [row.state = "refunding" /\ row'.state = "completed" => refund # "none"]_vars
  BY <1>1
<1> QED
  BY <1>2, Invariant, PTL DEF Spec, RefundCompletesOnEvidence

\* The instance of SwapLifecycle has the table of SwapStates.
LEMMA SameTable ==
    Lifecycle!States = States /\ Lifecycle!ValidTransitions = ValidTransitions
BY DEF States, ValidTransitions, Lifecycle!States, Lifecycle!ValidTransitions

\* Handlers and watcher together implement the lifecycle of the engine: the
\* swap appears open, and each change of its state is one move of the table and
\* one version.
THEOREM ExecutionImplementsLifecycle == Spec => ImplementsLifecycle
<1>1. Init => Lifecycle!LifecycleInit
  <2>1. NoRow.state = "none" /\ NoRow.version = 0
    BY DEF NoRow
  <2> QED
    BY <2>1 DEF Init, Lifecycle!LifecycleInit
<1>2. ASSUME IInv, [Next]_vars
      PROVE  [Lifecycle!LifecycleNext]_(Lifecycle!lifecycleVars)
  <2>1. CASE SameState
    BY <2>1 DEF SameState, Lifecycle!lifecycleVars
  <2>2. CASE StepTransition
    <3>1. PICK to \in States :
              /\ row.state \in States /\ to \in ValidTransitions[row.state]
              /\ row' = Moved(to)
      BY <2>2 DEF StepTransition, Accepts
    <3>2. row'.state = to /\ row'.version = row.version + 1
      BY <1>2, <3>1 DEF Moved, IInv, WellTyped, Rows
    <3>3. Lifecycle!Move("the swap")
      BY <3>1, <3>2, SameTable DEF Lifecycle!Move
    <3> QED
      BY <3>3 DEF Lifecycle!LifecycleNext
  <2>3. CASE SwapAppears
    <3>1. /\ row.state = "none" /\ row'.state = "open" /\ row'.version = row.version
      BY <2>3 DEF SwapAppears, NoRow
    <3>2. Lifecycle!Appear("the swap")
      BY <3>1 DEF Lifecycle!Appear
    <3> QED
      BY <3>2 DEF Lifecycle!LifecycleNext
  <2> QED
    BY <1>2, <2>1, <2>2, <2>3, HowTheRowMoves
<1> QED
  BY <1>1, <1>2, Invariant, PTL DEF Spec, ImplementsLifecycle, Lifecycle!LifecycleSpec

-----------------------------------------------------------------------------
(* How far a swap goes, and how it ends.                                   *)

\* Retries, races and crashes do not move a swap more often than the longest
\* walk of the table is long, and a swap that was never inserted has not moved.
SwapIsShort == row.version < LongestWalk /\ (row.state = "none" => row.version = 0)

THEOREM SwapsAreShort == Spec => []SwapIsShort
<1>1. IInv => SwapIsShort
  <2> SUFFICES ASSUME IInv PROVE SwapIsShort
    OBVIOUS
  <2>1. CASE row.state = "none"
    <3>1. row = NoRow
      BY <2>1 DEF IInv, RowInv
    <3>2. NoRow.version = 0
      BY DEF NoRow
    <3> QED
      BY <3>1, <3>2 DEF SwapIsShort, LongestWalk
  <2>2. CASE row.state \in States
    <3> DEFINE v == row.version   r == Rank[row.state]
    <3>1. v \in Nat /\ r \in 0..10 /\ v <= r
      <4>1. r \in 0..10
        BY <2>2, MovesRaiseRank
      <4>2. v \in Nat
        BY RowStateTyped DEF LongestWalk
      <4>3. v <= r
        BY <2>2 DEF IInv, RowInv
      <4> QED
        BY <4>1, <4>2, <4>3
    <3> HIDE DEF v, r
    <3>2. v < LongestWalk
      BY <3>1 DEF LongestWalk
    <3>3. row.state # "none"
      BY <2>2 DEF States
    <3> QED
      BY <3>2, <3>3 DEF v, SwapIsShort
  <2> QED
    BY <2>1, <2>2 DEF IInv, WellTyped, Rows
<1> QED
  BY <1>1, Invariant, PTL

\* A swap that ended stays as it ended, whichever handler or pass still works on
\* an earlier copy of it (engine.go, Transition; watcher.go, reconcileSwap).
EndIsFinal ==
    [][row.state \in Terminal => row'.state = row.state /\ row'.version = row.version]_vars

THEOREM EndsAreFinal == Spec => EndIsFinal
<1>1. ASSUME IInv, [Next]_vars, row.state \in Terminal
      PROVE  row'.state = row.state /\ row'.version = row.version
  <2>1. ~StepTransition
    BY <1>1 DEF StepTransition, Accepts, Terminal, ValidTransitions, States
  <2>2. ~SwapAppears
    <3>1. NoRow.state = "none"
      BY DEF NoRow
    <3> QED
      BY <1>1, <3>1 DEF SwapAppears, Terminal
  <2> QED
    BY <1>1, <2>1, <2>2, HowTheRowMoves DEF SameState
<1>2. IInv /\ [Next]_vars =>
          [row.state \in Terminal => row'.state = row.state /\ row'.version = row.version]_vars
  BY <1>1
<1> QED
  BY <1>2, Invariant, PTL DEF Spec, EndIsFinal

-----------------------------------------------------------------------------
(* What the wallet holds against what the provider and the chain have.     *)

\* The states from the fallback script on: where a refund may be.
Closing == {"fallback_script_ready", "refunding", "completed", "failed"}

\* A swap does not come back from signing, nor from its refund.
LEMMA LateStatesStay ==
    ASSUME IInv, [Next]_vars
    PROVE  /\ row.state \in PastSigning => row'.state \in PastSigning
           /\ row.state \in Closing => row'.state \in Closing
<1>1. CASE SameState
  BY <1>1 DEF SameState
<1>2. CASE SwapAppears
  BY <1>2 DEF SwapAppears, NoRow, PastSigning, Closing
<1>3. CASE StepTransition
  <2>1. PICK to \in States :
            row.state \in States /\ to \in ValidTransitions[row.state] /\ row' = Moved(to)
    BY <1>3 DEF StepTransition, Accepts
  <2>2. row'.state = to
    BY <2>1 DEF Moved, IInv, WellTyped, Rows
  <2>3. row.state \in Closing => to \in Closing
    BY <2>1 DEF States, ValidTransitions, Closing
  <2> QED
    BY <2>1, <2>2, <2>3, ClosedBehindSigning
<1> QED
  BY <1>1, <1>2, <1>3, HowTheRowMoves

\* A watcher that decided on the fallback script works on a swap that is there.
LEMMA FallbackIsClosing ==
    ASSUME IInv, watcher.pc # "idle", watcher.seen.state = "fallback_script_ready"
    PROVE  row.state \in Closing
<1>1. /\ row.state \in States /\ row.state \in PastSigning
      /\ Rank["fallback_script_ready"] <= Rank[row.state]
  BY DEF IInv, WatcherInv, SeenIsPast, PastSigning
<1>2. Rank["fallback_script_ready"] = 8 /\ "fallback_script_ready" \in States
  BY DEF Rank, States
<1>3. /\ Rank["signing_musig2_partial"] = 5 /\ Rank["sent_partial_to_provider"] = 6
      /\ Rank["waiting_provider_broadcast"] = 7
  BY DEF Rank, States
<1> QED
  BY <1>1, <1>2, <1>3 DEF PastSigning, Closing

\* Of the rest of the row: its identifier and its details are written by a
\* handler that got them from the provider, its txid by a pass that broadcasts.
OtherFieldsStay == row'.boltz = row.boltz /\ row'.intent = row.intent /\ row'.refundTx = row.refundTx

OtherFieldsWritten ==
    \/ OtherFieldsStay
    \/ row'.intent = QuoteOnly /\ row'.boltz = row.boltz /\ row'.refundTx = row.refundTx
    \/ \E c \in Clients :
          /\ client[c].pc = "storing" /\ row'.intent = client[c].intent
          /\ row'.boltz = row.boltz /\ row'.refundTx = row.refundTx
    \/ \E c \in Clients :
          /\ client[c].pc = "response" /\ row'.boltz = client[c].made
          /\ row'.intent = row.intent /\ row'.refundTx = row.refundTx
    \/ WatcherPersistRefund /\ row'.intent = row.intent /\ row'.boltz = row.boltz

LEMMA WhoWritesTheRow ==
    ASSUME IInv, [Next]_vars
    PROVE  OtherFieldsWritten
<1>1. row \in Rows
  BY DEF IInv, WellTyped
<1>2. ASSUME row' = row PROVE OtherFieldsWritten
  BY <1>2 DEF OtherFieldsWritten, OtherFieldsStay
<1>3. ASSUME NEW to, row' = Moved(to) PROVE OtherFieldsWritten
  BY <1>1, <1>3 DEF OtherFieldsWritten, OtherFieldsStay, Moved, Rows
<1>4. ASSUME NEW c \in Clients, ClientStep(c)
      PROVE  OtherFieldsWritten
  <2>1. CASE CreateInsert(c)
    BY <1>1, <2>1 DEF CreateInsert, OtherFieldsWritten, OtherFieldsStay, Rows
  <2>2. CASE CreateWriteIntent(c)
    BY <1>1, <2>2 DEF CreateWriteIntent, OtherFieldsWritten, Rows
  <2>3. CASE CommitPersistDetails(c)
    BY <1>1, <2>3 DEF CommitPersistDetails, OtherFieldsWritten, Rows
  <2>4. CASE CommitPersistResponse(c)
    BY <1>1, <2>4 DEF CommitPersistResponse, OtherFieldsWritten, Rows
  <2>5. CASE \/ CreateLock(c) \/ LockSwap(c) \/ CancelSwap(c) \/ CommitSubmarine(c)
             \/ CommitStart(c) \/ CommitWait(c)
    BY <1>2, <1>3, <2>5
    DEF CreateLock, LockSwap, CancelSwap, CommitSubmarine, CommitStart, CommitWait
  <2>6. CASE CommitBegin(c) \/ CommitProviderCreate(c) \/ CommitReadIntent(c)
              \/ CommitRecord(c) \/ CommitReadBack(c) \/ Abort(c)
    BY <1>2, <2>6
    DEF CommitBegin, CommitProviderCreate, CommitReadIntent, CommitRecord, CommitReadBack, Abort
  <2> QED
    BY <1>4, <2>1, <2>2, <2>3, <2>4, <2>5, <2>6 DEF ClientStep
<1>5. ASSUME WatcherStep
      PROVE  OtherFieldsWritten
  <2>1. CASE WatcherHop \/ WatcherMove \/ WatcherSend \/ WatcherAwait
    BY <1>2, <1>3, <2>1 DEF WatcherHop, WatcherMove, WatcherSend, WatcherAwait, WatcherTransition
  <2>2. CASE WatcherPersistStatus
    BY <1>1, <2>2 DEF WatcherPersistStatus, OtherFieldsWritten, OtherFieldsStay, Rows
  <2>3. CASE WatcherPersistRefund
    BY <1>1, <2>3 DEF WatcherPersistRefund, OtherFieldsWritten, Rows
  <2>4. CASE \/ WatcherList \/ WatcherBegin \/ WatcherFetch \/ WatcherFetchFails
             \/ WatcherApply \/ WatcherHopped \/ WatcherRecordHops \/ WatcherReload
             \/ WatcherSkipClaim \/ WatcherPostClaim \/ WatcherSent \/ WatcherRecordClaim
             \/ (\E answers \in BOOLEAN : WatcherAct(answers)) \/ WatcherRecordMove
             \/ WatcherSkipRefund \/ WatcherBroadcastRefund
    BY <1>2, <2>4
    DEF WatcherList, WatcherBegin, WatcherFetch, WatcherFetchFails, WatcherApply,
        WatcherHopped, WatcherRecordHops, WatcherReload, WatcherSkipClaim, WatcherPostClaim,
        WatcherSent, WatcherRecordClaim, WatcherAct, WatcherRecordMove, WatcherSkipRefund,
        WatcherBroadcastRefund
  <2> QED
    BY <1>5, <2>1, <2>2, <2>3, <2>4 DEF WatcherStep
<1>6. CASE UpdateHeight \/ Crash \/ Outside
  BY <1>2, <1>6 DEF UpdateHeight, Crash, Outside, Tick, RefundConfirms, UserPays, ProviderLocks,
                    ProviderSettles, ProviderExpires, ProviderMoves
<1>7. CASE UNCHANGED vars
  BY <1>2, <1>7 DEF vars
<1> QED
  BY <1>4, <1>5, <1>6, <1>7 DEF Next

LEMMA BoltzIdStays ==
    ASSUME IInv, [Next]_vars, row.boltz # 0
    PROVE  row'.boltz # 0
<1>1. \A c \in Clients : client[c].pc = "response" => client[c].made \in ProviderSwaps
  BY DEF IInv, ClientInv, HandlerAt
<1> QED
  BY <1>1, WhoWritesTheRow, ExecutionConstants
  DEF OtherFieldsWritten, OtherFieldsStay, ProviderSwaps

\* The chain has refunds from the watcher only.
LEMMA WhoRefunds ==
    ASSUME IInv, [Next]_vars
    PROVE  refund' = refund \/ WatcherBroadcastRefund \/ RefundConfirms
<1>1. ASSUME NEW c \in Clients, ClientStep(c) PROVE refund' = refund
  BY <1>1 DEF ClientStep, CreateInsert, CreateWriteIntent, CreateLock, LockSwap, CancelSwap,
              CommitSubmarine, CommitBegin, CommitProviderCreate, CommitReadIntent, CommitPersistDetails,
              CommitPersistResponse, CommitRecord, CommitStart, CommitReadBack, CommitWait,
              Abort, environment
<1>2. ASSUME WatcherStep PROVE refund' = refund \/ WatcherBroadcastRefund
  BY <1>2 DEF WatcherStep, WatcherList, WatcherBegin, WatcherFetch, WatcherFetchFails,
              WatcherPersistStatus, WatcherApply, WatcherHop, WatcherHopped, WatcherRecordHops,
              WatcherReload, WatcherSkipClaim, WatcherPostClaim, WatcherSend, WatcherSent,
              WatcherAwait, WatcherRecordClaim, WatcherAct, WatcherMove, WatcherRecordMove,
              WatcherSkipRefund, WatcherPersistRefund, environment
<1>3. ASSUME UpdateHeight \/ Crash \/ Outside PROVE refund' = refund \/ RefundConfirms
  BY <1>3 DEF UpdateHeight, Crash, Outside, Tick, UserPays, ProviderLocks, ProviderSettles,
              ProviderExpires, ProviderMoves, environment
<1>4. UNCHANGED vars => refund' = refund
  BY DEF vars
<1> QED
  BY <1>1, <1>2, <1>3, <1>4 DEF Next

\* Refunds are of swaps that reached the fallback script: so is a transaction on
\* chain, and so is a txid that was stored, of a swap the provider backs.
RefundInv ==
    /\ refund # "none" => row.state \in Closing
    /\ row.refundTx => row.state \in Closing /\ row.boltz # 0

\* The refund of a swap is on chain, or its txid stored, only once the swap has
\* given up its claim, and then it never comes back to one (watcher.go,
\* broadcastFallbackRefund and executeMuSig2Claim).
THEOREM RefundsAreOfClosingSwaps == Spec => []RefundInv
<1>1. Init => RefundInv
  <2>1. NoRow.refundTx = FALSE
    BY DEF NoRow
  <2> QED
    BY <2>1 DEF Init, RefundInv
<1>2. ASSUME IInv, RefundInv, [Next]_vars
      PROVE  RefundInv'
  <2>1. row.state \in Closing => row'.state \in Closing
    BY <1>2, LateStatesStay
  <2>2. row.boltz # 0 => row'.boltz # 0
    BY <1>2, BoltzIdStays
  <2>3. ASSUME refund' # refund PROVE refund # "none" \/ row.state \in Closing
    <3>1. WatcherBroadcastRefund \/ RefundConfirms
      BY <1>2, <2>3, WhoRefunds
    <3>2. WatcherBroadcastRefund => row.state \in Closing
      BY <1>2, FallbackIsClosing DEF WatcherBroadcastRefund, IInv, WatcherInv, DecisionInv
    <3> QED
      BY <3>1, <3>2 DEF RefundConfirms
  <2>4. ASSUME row'.refundTx # row.refundTx PROVE row.state \in Closing /\ row.boltz # 0
    <3>1. WatcherPersistRefund
      BY <1>2, <2>4, WhoWritesTheRow DEF OtherFieldsWritten, OtherFieldsStay
    <3> QED
      BY <1>2, <3>1, FallbackIsClosing
      DEF WatcherPersistRefund, IInv, WatcherInv, DecisionInv, OnProviderSwap, SeenIsPast
  <2> QED
    BY <1>2, <2>1, <2>2, <2>3, <2>4 DEF RefundInv
<1> QED
  BY <1>1, <1>2, Invariant, PTL DEF Spec

\* A provider swap that was made: the provider has a status for it.
Made(p) == p \in ProviderSwaps /\ provider[p].status # ""

SomeClaimed == \E p \in ProviderSwaps : provider[p].claimed

ClaimKey == Key("musig_claim", "signing_musig2_partial")

\* One whose answer had details.
Detailed(p) == Made(p) /\ provider[p].details

\* What the wallet takes for a swap of the provider is one, and details that are
\* stored, or about to be, come with the answer of one.
BackingInv ==
    /\ HasDetails => Detailed(row.intent)
    /\ row.boltz # 0 => Made(row.boltz)
    /\ watcher.seen.boltz # 0 => Made(watcher.seen.boltz)
    /\ \A c \in Clients : client[c].pc = "storing" /\ client[c].intent \in ProviderSwaps =>
                              Detailed(client[c].intent)

\* A claim was posted where the watcher goes on as if it were, and of a swap that
\* had come to be signed.
ClaimInv ==
    /\ SomeClaimed => row.state \in PastSigning
    /\ watcher.pc \in {"send", "sent", "await", "record claim"} => SomeClaimed
    /\ ClaimKey \in ops => SomeClaimed

\* What the provider has made or noted stays.
ProviderKeeps ==
    /\ KeepsAnswers
    /\ \A p \in ProviderSwaps : provider[p].claimed => provider'[p].claimed

LEMMA MovedProviderKeeps ==
    ASSUME IInv, NEW p \in ProviderSwaps, NEW status \in Statuses, NEW lockup,
           ProviderMoves(p, status, lockup)
    PROVE  ProviderKeeps /\ (SomeClaimed' => SomeClaimed)
<1>1. provider \in [ProviderSwaps -> Backings] /\ status # ""
  BY DEF IInv, WellTyped, Statuses
<1>2. \A q \in ProviderSwaps : provider'[q].status \in {provider[q].status, status}
  BY <1>1 DEF ProviderMoves, Backings
<1>3. \A q \in ProviderSwaps : provider'[q].claimed = provider[q].claimed
  BY <1>1 DEF ProviderMoves, Backings
<1>4. KeepsAnswers
  <2>1. \A q \in ProviderSwaps : /\ provider'[q].details = provider[q].details
                                 /\ provider'[q].timeout = provider[q].timeout
    BY <1>1 DEF ProviderMoves, Backings
  <2> QED
    BY <1>1, <1>2, <2>1 DEF KeepsAnswers
<1>5. \A q \in ProviderSwaps : provider[q].claimed => provider'[q].claimed
  BY <1>3
<1>6. SomeClaimed' => SomeClaimed
  BY <1>3 DEF SomeClaimed
<1> QED
  BY <1>4, <1>5, <1>6 DEF ProviderKeeps

LEMMA WhoWritesAtTheProvider ==
    ASSUME IInv, [Next]_vars
    PROVE  ProviderKeeps /\ (SomeClaimed' => SomeClaimed \/ WatcherPostClaim)
<1>0. provider \in [ProviderSwaps -> Backings]
  BY DEF IInv, WellTyped
<1>1. ASSUME provider' = provider PROVE ProviderKeeps /\ (SomeClaimed' => SomeClaimed)
  BY <1>1, SameAnswers DEF ProviderKeeps, SomeClaimed
<1>2. ASSUME NEW c \in Clients, ClientStep(c)
      PROVE  ProviderKeeps /\ (SomeClaimed' => SomeClaimed)
  <2>1. CASE CommitProviderCreate(c)
    <3>1. PICK p \in ProviderSwaps, answer \in Answers :
              /\ provider[p].status = ""
              /\ provider' = [provider EXCEPT ![p].status = "swap.created",
                                              ![p].details = answer.details,
                                              ![p].timeout = answer.timeout]
      BY <2>1 DEF CommitProviderCreate
    <3>2. \A q \in ProviderSwaps : provider[q].status # "" => provider'[q] = provider[q]
      BY <1>0, <3>1
    <3>3. \A q \in ProviderSwaps : provider'[q].claimed = provider[q].claimed
      BY <1>0, <3>1 DEF Backings
    <3> QED
      BY <3>2, <3>3 DEF ProviderKeeps, KeepsAnswers, SomeClaimed
  <2>2. CASE ~CommitProviderCreate(c)
    BY <1>1, <1>2, <2>2
    DEF ClientStep, CreateInsert, CreateWriteIntent, CreateLock, LockSwap, CancelSwap,
        CommitSubmarine, CommitBegin, CommitReadIntent, CommitPersistDetails,
        CommitPersistResponse, CommitRecord,
        CommitStart, CommitReadBack, CommitWait, Abort, environment
  <2> QED
    BY <2>1, <2>2
<1>3. ASSUME WatcherStep
      PROVE  ProviderKeeps /\ (SomeClaimed' => SomeClaimed \/ WatcherPostClaim)
  <2>1. CASE WatcherPostClaim
    <3> DEFINE p == watcher.seen.boltz
    <3>1. provider' = [provider EXCEPT ![p].claimed = TRUE]
      BY <2>1 DEF WatcherPostClaim
    <3> HIDE DEF p
    <3>2. ProviderKeeps
      BY <1>0, <3>1 DEF ProviderKeeps, KeepsAnswers, Backings
    <3> QED
      BY <2>1, <3>2
  <2>2. CASE ~WatcherPostClaim
    BY <1>1, <1>3, <2>2
    DEF WatcherStep, WatcherList, WatcherBegin, WatcherFetch, WatcherFetchFails,
        WatcherPersistStatus, WatcherApply, WatcherHop, WatcherHopped, WatcherRecordHops,
        WatcherReload, WatcherSkipClaim, WatcherSend, WatcherSent, WatcherAwait,
        WatcherRecordClaim, WatcherAct, WatcherMove, WatcherRecordMove, WatcherSkipRefund,
        WatcherBroadcastRefund, WatcherPersistRefund, environment
  <2> QED
    BY <2>1, <2>2
<1>4. ASSUME Outside PROVE ProviderKeeps /\ (SomeClaimed' => SomeClaimed)
  <2>1. CASE Tick \/ RefundConfirms
    BY <1>1, <2>1 DEF Tick, RefundConfirms
  <2>2. ASSUME NEW p \in ProviderSwaps,
               UserPays(p) \/ ProviderLocks(p) \/ ProviderSettles(p) \/ ProviderExpires(p)
        PROVE  ProviderKeeps /\ (SomeClaimed' => SomeClaimed)
    <3>1. {"transaction.mempool", "transaction.server.mempool", "transaction.lockupFailed",
           "transaction.claimed", "invoice.settled", "swap.expired"} \subseteq Statuses
      BY DEF Statuses
    <3>2. \E status \in Statuses, lockup \in {"none", "funded", "claimed", provider[p].lockup} :
              ProviderMoves(p, status, lockup)
      BY <2>2, <3>1 DEF UserPays, ProviderLocks, ProviderSettles, ProviderExpires
    <3> QED
      BY <3>2, MovedProviderKeeps
  <2> QED
    BY <1>4, <2>1, <2>2 DEF Outside
<1>5. CASE UpdateHeight \/ Crash \/ UNCHANGED vars
  BY <1>1, <1>5 DEF UpdateHeight, Crash, vars, environment
<1> QED
  BY <1>2, <1>3, <1>4, <1>5 DEF Next

\* What a pass decides is an action of NextAction, or it ends.
LEMMA WhatIsDecided ==
    ASSUME NEW answers, WatcherAct(answers)
    PROVE  \/ watcher' = IdleWatcher
           \/ \E facts : LET next == NextAction(watcher.seen.state, facts)
                         IN  /\ next.action # "none"
                             /\ \E pc \in {"refund", "move"} :
                                    watcher' = [watcher EXCEPT !.pc = pc, !.path = <<next.to>>]
<1> DEFINE facts == ComputeFacts(FALSE, watcher.seen.timeout, watcher.h, watcher.ps,
                                 RefundSeenIn(answers))
           next == NextAction(watcher.seen.state, facts)
           pc == IF next.action = "broadcast_refund" THEN "refund" ELSE "move"
<1>1. \/ watcher' = IdleWatcher
      \/ next.action # "none" /\ watcher' = [watcher EXCEPT !.pc = pc, !.path = <<next.to>>]
  BY DEF WatcherAct
<1> HIDE DEF facts
<1> QED
  BY <1>1

\* The watcher's copy names the provider swap of the row it was made of.
LEMMA CopiesNameTheRowsSwap ==
    ASSUME IInv, [Next]_vars
    PROVE  watcher'.seen.boltz \in {0, watcher.seen.boltz, row.boltz}
<1>0. watcher \in Watchers /\ row \in Rows
  BY DEF IInv, WellTyped
<1>1. ASSUME watcher' = watcher PROVE watcher'.seen.boltz = watcher.seen.boltz
  BY <1>1
<1>2. IdleWatcher.seen.boltz = 0
  BY DEF IdleWatcher, NoCopy
<1>3. \A pc : GoTo(pc).seen.boltz = watcher.seen.boltz
  BY <1>0 DEF GoTo, Watchers
<1>4. GiveUpPath.seen.boltz = watcher.seen.boltz
  BY <1>0 DEF GiveUpPath, Watchers
<1>5. [GoTo("act") EXCEPT !.version = 0].seen.boltz = watcher.seen.boltz
  BY <1>0 DEF GoTo, Watchers
<1>6. ASSUME NEW c \in Clients, ClientStep(c) PROVE watcher' = watcher
  BY <1>6 DEF ClientStep, CreateInsert, CreateWriteIntent, CreateLock, LockSwap, CancelSwap,
              CommitSubmarine, CommitBegin, CommitProviderCreate, CommitReadIntent, CommitPersistDetails,
              CommitPersistResponse, CommitRecord, CommitStart, CommitReadBack, CommitWait, Abort
<1>7. ASSUME WatcherStep PROVE watcher'.seen.boltz \in {0, watcher.seen.boltz, row.boltz}
  <2>1. CASE WatcherList
    BY <2>1 DEF WatcherList, IdleWatcher, Copy
  <2>2. CASE WatcherReload
    BY <1>0, <2>2 DEF WatcherReload, Copy, Watchers
  <2>3. CASE WatcherBegin \/ WatcherFetch \/ WatcherApply \/ WatcherHopped \/ WatcherSent
    BY <1>0, <1>3, <2>3
    DEF WatcherBegin, WatcherFetch, WatcherApply, WatcherHopped, WatcherSent, Watchers
  <2>4. CASE WatcherHop \/ WatcherMove \/ WatcherSend \/ WatcherAwait
    BY <1>2, <1>3, <1>4, <1>5, <2>4
    DEF WatcherHop, WatcherMove, WatcherSend, WatcherAwait, WatcherTransition
  <2>5. CASE \E answers \in BOOLEAN : WatcherAct(answers)
    <3>1. CASE watcher' = IdleWatcher
      BY <1>2, <3>1
    <3>2. PICK answers \in BOOLEAN : WatcherAct(answers)
      BY <2>5
    <3>3. \/ watcher' = IdleWatcher
          \/ \E pc, path : watcher' = [watcher EXCEPT !.pc = pc, !.path = path]
      BY <3>2, WhatIsDecided
    <3>4. ASSUME NEW pc, NEW path, watcher' = [watcher EXCEPT !.pc = pc, !.path = path]
          PROVE  watcher'.seen = watcher.seen
      BY <1>0, <3>4 DEF Watchers
    <3> QED
      BY <3>1, <3>3, <3>4
  <2>6. CASE WatcherFetchFails \/ WatcherPersistStatus \/ WatcherRecordHops \/ WatcherSkipClaim
              \/ WatcherPostClaim \/ WatcherRecordClaim \/ WatcherRecordMove
    BY <1>2, <1>3, <1>5, <2>6
    DEF WatcherFetchFails, WatcherPersistStatus, WatcherRecordHops, WatcherSkipClaim,
        WatcherPostClaim, WatcherRecordClaim, WatcherRecordMove
  <2>7. CASE WatcherSkipRefund \/ WatcherBroadcastRefund \/ WatcherPersistRefund
    BY <1>2, <1>3, <2>7 DEF WatcherSkipRefund, WatcherBroadcastRefund, WatcherPersistRefund
  <2> QED
    BY <1>7, <2>1, <2>2, <2>3, <2>4, <2>5, <2>6, <2>7 DEF WatcherStep
<1>8. CASE UpdateHeight \/ Outside \/ UNCHANGED vars
  BY <1>8 DEF UpdateHeight, Outside, Tick, RefundConfirms, UserPays, ProviderLocks,
              ProviderSettles, ProviderExpires, ProviderMoves, vars
<1>9. CASE Crash
  BY <1>2, <1>9 DEF Crash
<1> QED
  BY <1>1, <1>6, <1>7, <1>8, <1>9 DEF Next

\* Details a handler is about to store are of its own answer or of the row's.
LEMMA WhatIsStored ==
    ASSUME IInv, [Next]_vars, NEW c \in Clients, client'[c].pc = "storing"
    PROVE  \/ client[c].pc = "storing" /\ client'[c].intent = client[c].intent
           \/ client'[c].intent = row.intent
           \/ Detailed(client'[c].intent)
<1>0. client \in [Clients -> Handlers]
  BY DEF IInv, WellTyped
<1>1. CASE client'[c] = client[c]
  BY <1>1
<1>2. ASSUME NEW d \in Clients, ClientStep(d)
      PROVE  client'[c] = client[c] \/ c = d
  BY <1>0, <1>2
  DEF ClientStep, CreateInsert, CreateWriteIntent, CreateLock, LockSwap, CancelSwap,
      CommitSubmarine, CommitBegin, CommitProviderCreate, CommitReadIntent, CommitPersistDetails,
      CommitPersistResponse, CommitRecord, CommitStart, CommitReadBack, CommitWait, Abort,
      At, Return
<1>3. CASE CommitReadIntent(c)
  <2> DEFINE p == client[c].made   i == IF provider[p].details THEN p ELSE row.intent
  <2>1. client[c].pc = "details" /\ client' = [client EXCEPT ![c].pc = "storing", ![c].intent = i]
    BY <1>3 DEF CommitReadIntent
  <2>2. Made(p)
    BY <2>1 DEF IInv, ClientInv, HandlerAt, Made
  <2>3. i = row.intent \/ Detailed(i)
    BY <2>2 DEF Detailed
  <2> HIDE DEF i
  <2>4. client'[c].intent = i
    BY <1>0, <2>1 DEF Handlers
  <2> QED
    BY <2>3, <2>4
<1>4. ASSUME ClientStep(c), ~CommitReadIntent(c)
      PROVE  client'[c] = client[c]
  <2>1. client[c] \in Handlers
    BY <1>0
  <2>2. CASE \/ CreateInsert(c) \/ CreateWriteIntent(c) \/ CommitBegin(c)
             \/ CommitRecord(c) \/ CommitReadBack(c)
    BY <1>0, <2>1, <2>2
    DEF CreateInsert, CreateWriteIntent, CommitBegin, CommitRecord, CommitReadBack, At, Handlers
  <2>3. CASE CommitProviderCreate(c)
    <3>1. PICK p \in ProviderSwaps :
              client' = [client EXCEPT ![c].pc = "details", ![c].made = p]
      BY <2>3 DEF CommitProviderCreate
    <3>2. client'[c].pc = "details"
      BY <1>0, <2>1, <3>1 DEF Handlers
    <3> QED
      BY <3>2
  <2>4. CASE CommitPersistDetails(c) \/ CommitPersistResponse(c)
    <3>1. client'[c].pc \in {"response", "recording"}
      BY <1>0, <2>1, <2>4 DEF CommitPersistDetails, CommitPersistResponse, Handlers
    <3> QED
      BY <3>1
  <2>5. CASE \/ CreateLock(c) \/ CommitStart(c) \/ CommitWait(c) \/ Abort(c)
    BY <1>0, <2>1, <2>5
    DEF CreateLock, CommitStart, CommitWait, Abort, At, Return, IdleClient, Handlers
  <2>6. CASE LockSwap(c) \/ CancelSwap(c) \/ CommitSubmarine(c)
    BY <2>6 DEF LockSwap, CancelSwap, CommitSubmarine
  <2> QED
    BY <1>4, <2>2, <2>3, <2>4, <2>5, <2>6 DEF ClientStep
<1>5. WatcherStep => client' = client
  BY DEF WatcherStep, WatcherList, WatcherBegin, WatcherFetch, WatcherFetchFails,
         WatcherPersistStatus, WatcherApply, WatcherHop, WatcherHopped, WatcherRecordHops,
         WatcherReload, WatcherSkipClaim, WatcherPostClaim, WatcherSend, WatcherSent,
         WatcherAwait, WatcherRecordClaim, WatcherAct, WatcherMove, WatcherRecordMove,
         WatcherSkipRefund, WatcherBroadcastRefund, WatcherPersistRefund
<1>6. ~Crash
  BY DEF Crash, IdleClient
<1>7. UpdateHeight \/ Outside \/ UNCHANGED vars => client' = client
  BY DEF UpdateHeight, Outside, Tick, RefundConfirms, UserPays, ProviderLocks,
         ProviderSettles, ProviderExpires, ProviderMoves, vars
<1>8. client'[c] = client[c] \/ ClientStep(c)
  BY <1>2, <1>5, <1>6, <1>7 DEF Next
<1> QED
  BY <1>1, <1>3, <1>4, <1>8

LEMMA BackingIsKept ==
    ASSUME IInv, BackingInv, [Next]_vars
    PROVE  BackingInv'
<1> DEFINE MadeNow(p) == p \in ProviderSwaps /\ provider'[p].status # ""
           DetailedNow(p) == MadeNow(p) /\ provider'[p].details
<1>1. /\ \A p : Made(p) => MadeNow(p)
      /\ \A p : Detailed(p) => DetailedNow(p)
  BY WhoWritesAtTheProvider DEF Made, Detailed, ProviderKeeps, KeepsAnswers
<1>2. row.intent \in ProviderSwaps => DetailedNow(row.intent)
  BY <1>1 DEF BackingInv, HasDetails
<1>3. ASSUME row'.intent \in ProviderSwaps PROVE DetailedNow(row'.intent)
  <2>1. QuoteOnly \notin ProviderSwaps
    BY ExecutionConstants DEF QuoteOnly, ProviderSwaps
  <2>2. \A c \in Clients : client[c].pc = "storing" /\ row'.intent = client[c].intent =>
            DetailedNow(row'.intent)
    BY <1>1, <1>3 DEF BackingInv
  <2> HIDE DEF DetailedNow
  <2> QED
    BY <1>2, <1>3, <2>1, <2>2, WhoWritesTheRow DEF OtherFieldsWritten, OtherFieldsStay
<1>4. ASSUME row'.boltz # 0 PROVE MadeNow(row'.boltz)
  <2>1. row'.boltz = row.boltz => MadeNow(row'.boltz)
    BY <1>1, <1>4 DEF BackingInv
  <2>2. \A c \in Clients : client[c].pc = "response" => Made(client[c].made)
    BY DEF IInv, ClientInv, HandlerAt, Made
  <2>3. \A c \in Clients : client[c].pc = "response" /\ row'.boltz = client[c].made =>
            MadeNow(row'.boltz)
    BY <1>1, <2>2
  <2> HIDE DEF MadeNow
  <2> QED
    BY <2>1, <2>3, WhoWritesTheRow DEF OtherFieldsWritten, OtherFieldsStay
<1>5. ASSUME watcher'.seen.boltz # 0 PROVE MadeNow(watcher'.seen.boltz)
  <2>1. row.boltz # 0 => MadeNow(row.boltz)
    BY <1>1 DEF BackingInv
  <2>2. watcher.seen.boltz # 0 => MadeNow(watcher.seen.boltz)
    BY <1>1 DEF BackingInv
  <2> HIDE DEF MadeNow
  <2> QED
    BY <1>5, <2>1, <2>2, CopiesNameTheRowsSwap
<1>6. ASSUME NEW c \in Clients, client'[c].pc = "storing", client'[c].intent \in ProviderSwaps
      PROVE  DetailedNow(client'[c].intent)
  <2>1. client[c].pc = "storing" /\ client'[c].intent = client[c].intent =>
            Detailed(client'[c].intent)
    BY <1>6 DEF BackingInv
  <2>2. client'[c].intent = row.intent => DetailedNow(client'[c].intent)
    BY <1>2, <1>6
  <2> HIDE DEF DetailedNow
  <2> QED
    BY <1>1, <1>6, <2>1, <2>2, WhatIsStored
<1> QED
  BY <1>3, <1>4, <1>5, <1>6 DEF BackingInv, Made, Detailed, HasDetails

\* The provider swaps that a row, its intent and every copy name are swaps that
\* the provider made, and details are never stored but from an answer that had
\* them, whatever was lost, repeated or raced on the way
\* (swap_service.go, commitProviderBackedSwap; watcher.go).
THEOREM BackingIsMade == Spec => []BackingInv
<1>1. Init => BackingInv
  <2> SUFFICES ASSUME Init PROVE BackingInv
    OBVIOUS
  <2>1. row.intent = 0 /\ row.boltz = 0 /\ watcher.seen.boltz = 0
    BY DEF Init, NoRow, NoIntent, IdleWatcher, NoCopy
  <2>2. 0 \notin ProviderSwaps
    BY DEF ProviderSwaps
  <2>3. \A c \in Clients : client[c].pc = "idle"
    BY DEF Init, IdleClient
  <2> QED
    BY <2>1, <2>2, <2>3 DEF BackingInv, HasDetails
<1> QED
  BY <1>1, BackingIsKept, Invariant, PTL DEF Spec

\* Where a pass stands after a step, among the places behind a claim.
LEMMA BehindAClaim ==
    ASSUME IInv, [Next]_vars, watcher'.pc \in {"send", "sent", "await", "record claim"}
    PROVE  watcher.pc \in {"send", "sent", "await", "record claim"} \/ WatcherPostClaim
<1>0. watcher \in Watchers
  BY DEF IInv, WellTyped
<1>1. IdleWatcher.pc = "idle" /\ GiveUpPath.pc = "claim"
  BY <1>0 DEF IdleWatcher, GiveUpPath, Watchers
<1>2. \A pc : GoTo(pc).pc = pc
  BY <1>0 DEF GoTo, Watchers
<1>3. \A c \in Clients : ClientStep(c) => watcher' = watcher
  BY DEF ClientStep, CreateInsert, CreateWriteIntent, CreateLock, LockSwap, CancelSwap,
         CommitSubmarine, CommitBegin, CommitProviderCreate, CommitReadIntent, CommitPersistDetails,
         CommitPersistResponse, CommitRecord, CommitStart, CommitReadBack, CommitWait, Abort
<1>4. UpdateHeight \/ Outside \/ UNCHANGED vars => watcher' = watcher
  BY DEF UpdateHeight, Outside, Tick, RefundConfirms, UserPays, ProviderLocks,
         ProviderSettles, ProviderExpires, ProviderMoves, vars
<1>5. Crash => watcher'.pc = "idle"
  BY <1>1 DEF Crash
<1>6. ASSUME WatcherStep
      PROVE  watcher.pc \in {"send", "sent", "await", "record claim"} \/ WatcherPostClaim
  <2>1. ~WatcherList /\ ~WatcherBegin /\ ~WatcherFetch /\ ~WatcherFetchFails
    BY <1>0, <1>2 DEF WatcherList, WatcherBegin, WatcherFetch, WatcherFetchFails, IdleWatcher,
                      Watchers
  <2>2. ~WatcherPersistStatus /\ ~WatcherRecordHops /\ ~WatcherReload /\ ~WatcherSkipClaim
    BY <1>0, <1>2
    DEF WatcherPersistStatus, WatcherRecordHops, WatcherReload, WatcherSkipClaim, Watchers
  <2>3. ~WatcherApply /\ ~WatcherHop /\ ~WatcherHopped
    BY <1>0, <1>1, <1>2
    DEF WatcherApply, WatcherHop, WatcherHopped, WatcherTransition, Watchers
  <2>4. ~WatcherMove /\ ~WatcherRecordMove
    BY <1>1, <1>2 DEF WatcherMove, WatcherTransition, WatcherRecordMove
  <2>6. ~WatcherSkipRefund /\ ~WatcherBroadcastRefund
    BY <1>1, <1>2 DEF WatcherSkipRefund, WatcherBroadcastRefund
  <2>7. ~WatcherPersistRefund
    BY <1>2 DEF WatcherPersistRefund
  <2>5. ~\E answers \in BOOLEAN : WatcherAct(answers)
    <3>1. ASSUME NEW pc, NEW path, watcher' = [watcher EXCEPT !.pc = pc, !.path = path]
          PROVE  watcher'.pc = pc
      BY <1>0, <3>1 DEF Watchers
    <3>2. SUFFICES ASSUME NEW answers \in BOOLEAN, WatcherAct(answers) PROVE FALSE
      OBVIOUS
    <3>3. \/ watcher' = IdleWatcher
          \/ \E pc \in {"refund", "move"} : \E path :
                 watcher' = [watcher EXCEPT !.pc = pc, !.path = path]
      BY <3>2, WhatIsDecided
    <3> QED
      BY <1>1, <3>1, <3>3
  <2> QED
    BY <1>6, <2>1, <2>2, <2>3, <2>4, <2>5, <2>6, <2>7
    DEF WatcherStep, WatcherSend, WatcherSent, WatcherAwait, WatcherRecordClaim
<1> QED
  BY <1>3, <1>4, <1>5, <1>6 DEF Next

LEMMA ClaimKeyIsRecordedThere ==
    ASSUME IInv, [Next]_vars, ClaimKey \in ops', ClaimKey \notin ops
    PROVE  watcher.pc = "record claim"
<1>1. \A s : ClaimKey # Key("provider", s) /\ ClaimKey # Key("reconcile", s)
  BY DEF ClaimKey, Key
<1>2. ClaimKey # CommitKey
  BY DEF ClaimKey, CommitKey, Key
<1>3. ASSUME NEW c \in Clients, ClientStep(c) PROVE FALSE
  BY <1>2, <1>3
  DEF ClientStep, CreateInsert, CreateWriteIntent, CreateLock, LockSwap, CancelSwap,
      CommitSubmarine, CommitBegin, CommitProviderCreate, CommitReadIntent, CommitPersistDetails,
      CommitPersistResponse, CommitRecord, CommitStart, CommitReadBack, CommitWait, Abort
<1>4. ~UpdateHeight /\ ~Crash /\ ~Outside /\ ~UNCHANGED vars
  BY DEF UpdateHeight, Crash, Outside, Tick, RefundConfirms, UserPays, ProviderLocks,
         ProviderSettles, ProviderExpires, ProviderMoves, vars
<1>5. WatcherStep
  BY <1>3, <1>4 DEF Next
<1>6. ASSUME ~WatcherRecordClaim PROVE FALSE
  <2>1. ~WatcherRecordHops /\ ~WatcherRecordMove
    <3>1. \A key : ops' = ops \cup {key} => ClaimKey = key
      OBVIOUS
    <3>2. WatcherRecordHops => ops' = ops \cup {Key("provider", watcher.seen.state)}
      BY DEF WatcherRecordHops
    <3>3. WatcherRecordMove => ops' = ops \cup {Key("reconcile", watcher.seen.state)}
      BY DEF WatcherRecordMove
    <3> QED
      BY <1>1, <3>1, <3>2, <3>3
  <2>2. ops' # ops
    OBVIOUS
  <2>3. ~WatcherAct(TRUE) /\ ~WatcherAct(FALSE)
    BY <2>2 DEF WatcherAct
  <2> QED
    BY <1>5, <1>6, <2>1, <2>2, <2>3
    DEF WatcherStep, WatcherList, WatcherBegin, WatcherFetch, WatcherFetchFails,
        WatcherPersistStatus, WatcherApply, WatcherHop, WatcherHopped,
        WatcherReload, WatcherSkipClaim, WatcherPostClaim, WatcherSend, WatcherSent,
        WatcherAwait, WatcherMove,
        WatcherSkipRefund, WatcherBroadcastRefund, WatcherPersistRefund
<1> QED
  BY <1>6 DEF WatcherRecordClaim

\* The key of a claim is found only when the provider was given one, and it was
\* given one only for a swap that had come to be signed and has not come back:
\* a pass that skips a claim because of its key skips nothing, and no canceled
\* swap has its preimage at the provider (watcher.go, executeMuSig2Claim).
THEOREM ClaimsAreAsRecorded == Spec => []ClaimInv
<1>1. Init => ClaimInv
  <2> SUFFICES ASSUME Init PROVE ClaimInv
    OBVIOUS
  <2>1. IdleWatcher.pc = "idle"
    BY DEF IdleWatcher
  <2>2. NoProviderSwap.claimed = FALSE
    BY DEF NoProviderSwap
  <2>3. \A p \in ProviderSwaps : provider[p].claimed = FALSE
    BY <2>2 DEF Init
  <2>4. ~SomeClaimed
    BY <2>3 DEF SomeClaimed
  <2> QED
    BY <2>1, <2>4 DEF Init, ClaimInv
<1>2. ASSUME IInv, ClaimInv, [Next]_vars
      PROVE  ClaimInv'
  <2>1. ASSUME WatcherPostClaim PROVE SomeClaimed' /\ row.state \in PastSigning
    <3> DEFINE p == watcher.seen.boltz
    <3>1. p \in ProviderSwaps /\ provider \in [ProviderSwaps -> Backings]
      <4>1. p \in 0..MaxProviderSwaps /\ p # 0
        BY <1>2, <2>1 DEF IInv, WellTyped, Watchers, Copies, WatcherPostClaim, ClaimDue
      <4> QED
        BY <1>2, <4>1, ExecutionConstants DEF IInv, WellTyped, ProviderSwaps
    <3>2. provider' = [provider EXCEPT ![p].claimed = TRUE]
      BY <2>1 DEF WatcherPostClaim
    <3>3. row.state \in PastSigning
      BY <1>2, <2>1
      DEF WatcherPostClaim, ClaimDue, IInv, WatcherInv, SeenIsPast, PastSigning
    <3> HIDE DEF p
    <3> QED
      BY <3>1, <3>2, <3>3 DEF SomeClaimed, Backings
  <2>2. SomeClaimed => SomeClaimed'
    BY <1>2, WhoWritesAtTheProvider DEF ProviderKeeps, SomeClaimed
  <2>3. SomeClaimed' => SomeClaimed \/ WatcherPostClaim
    BY <1>2, WhoWritesAtTheProvider
  <2>4. row.state \in PastSigning => row'.state \in PastSigning
    BY <1>2, LateStatesStay
  <2>5. SomeClaimed' => row'.state \in PastSigning
    BY <1>2, <2>1, <2>3, <2>4 DEF ClaimInv
  <2>6. watcher'.pc \in {"send", "sent", "await", "record claim"} => SomeClaimed'
    BY <1>2, <2>1, <2>2, BehindAClaim DEF ClaimInv
  <2>7. ClaimKey \in ops' => SomeClaimed'
    BY <1>2, <2>2, ClaimKeyIsRecordedThere DEF ClaimInv
  <2>8. ClaimKey' = ClaimKey
    BY DEF ClaimKey, Key
  <2> QED
    BY <2>5, <2>6, <2>7, <2>8 DEF ClaimInv
<1> QED
  BY <1>1, <1>2, Invariant, PTL DEF Spec

-----------------------------------------------------------------------------
(* What NextAction decides, and what the engine makes of it.               *)

\* The states in which the claim is under way and not yet with the provider.
Unbroadcast == {"waiting_claim_details", "signing_musig2_partial", "sent_partial_to_provider"}

\* Of the decisions of NextAction the table allows all but those on a swap whose
\* claim is under way, and the completion of one that waits; these the engine
\* refuses, for they are several moves away, and the watcher tries them as one
\* (reconcile.go, NextAction; watcher.go, reconcileSwap).
THEOREM WhatTheEngineTakes ==
    ASSUME NEW s \in States, NEW facts, NextAction(s, facts).action # "none"
    PROVE  LET to == NextAction(s, facts).to
           IN  /\ to \in ValidTransitions[s]
                      <=> s \notin Unbroadcast /\ ~(s = "waiting" /\ to = "completed")
               /\ TransitionPath[s][to] # <<>>
<1> DEFINE to == NextAction(s, facts).to
<1>1. \/ s = "commit_started" /\ to \in {"waiting", "failed"}
      \/ s = "waiting" /\ to \in {"completed", "refund_coop_waiting"}
      \/ s \in MuSigStates /\ to \in {"completed", "fallback_script_ready"}
      \/ s = "refund_coop_waiting" /\ to \in {"completed", "fallback_script_ready"}
      \/ s = "fallback_script_ready" /\ to = "refunding"
      \/ s = "refunding" /\ to = "completed"
  BY DEF NextAction, Do
<1> HIDE DEF to
<1>2. /\ ValidTransitions["commit_started"] = {"waiting", "failed"}
      /\ ValidTransitions["waiting"] = {"waiting_claim_details", "refund_coop_waiting"}
      /\ ValidTransitions["waiting_claim_details"] = {"signing_musig2_partial"}
      /\ ValidTransitions["signing_musig2_partial"] = {"sent_partial_to_provider"}
      /\ ValidTransitions["sent_partial_to_provider"] = {"waiting_provider_broadcast"}
      /\ ValidTransitions["waiting_provider_broadcast"] = {"completed", "fallback_script_ready"}
      /\ ValidTransitions["refund_coop_waiting"] = {"completed", "fallback_script_ready"}
      /\ ValidTransitions["fallback_script_ready"] = {"refunding", "completed"}
      /\ ValidTransitions["refunding"] = {"completed", "failed"}
  BY DEF States, ValidTransitions
<1>3. to \in ValidTransitions[s]
          <=> s \notin Unbroadcast /\ ~(s = "waiting" /\ to = "completed")
  BY <1>1, <1>2 DEF Unbroadcast, MuSigStates
<1>4. Reaches(s, to)
  <2>1. CASE to \in ValidTransitions[s]
    BY <2>1, OneMoveReaches
  <2>2. CASE s = "waiting" /\ to = "completed"
    BY <1>2, <2>2, OneMoveReaches, ReachesOn
  <2>3. CASE s \in Unbroadcast
    <3>1. Reaches(s, "waiting_provider_broadcast")
      <4>1. Reaches("sent_partial_to_provider", "waiting_provider_broadcast")
        BY <1>2, OneMoveReaches DEF States
      <4>2. Reaches("signing_musig2_partial", "waiting_provider_broadcast")
        BY <1>2, OneMoveReaches, ReachesOn DEF States
      <4>3. Reaches("waiting_claim_details", "sent_partial_to_provider")
        BY <1>2, OneMoveReaches, ReachesOn DEF States
      <4>4. Reaches("waiting_claim_details", "waiting_provider_broadcast")
        BY <1>2, <4>3, ReachesOn DEF States
      <4> QED
        BY <2>3, <4>1, <4>2, <4>4 DEF Unbroadcast
    <3>2. to \in ValidTransitions["waiting_provider_broadcast"]
      BY <1>1, <1>2, <2>3 DEF Unbroadcast, MuSigStates
    <3> QED
      BY <3>1, <3>2, ReachesOn
  <2> QED
    BY <1>3, <2>1, <2>2, <2>3
<1>5. to \in States
  BY <1>1 DEF States
<1> QED
  BY <1>3, <1>4, <1>5, PathWhereThereIsOne DEF to

\* A decision about a swap whose claim is under way: to end it, or to fall back.
MoveInv ==
    watcher.pc \in {"move", "refund", "persist refund"} /\ watcher.seen.state \in Unbroadcast =>
        Head(watcher.path) \in {"completed", "fallback_script_ready"}

LEMMA MoveIsKept ==
    ASSUME IInv, MoveInv, [Next]_vars
    PROVE  MoveInv'
<1>0. watcher \in Watchers
  BY DEF IInv, WellTyped
<1>1. IdleWatcher.pc = "idle" /\ GiveUpPath.pc = "claim"
  BY <1>0 DEF IdleWatcher, GiveUpPath, Watchers
<1>2. \A pc : GoTo(pc).pc = pc /\ GoTo(pc).path = watcher.path /\ GoTo(pc).seen = watcher.seen
  BY <1>0 DEF GoTo, Watchers
<1>3. ASSUME watcher' = watcher PROVE MoveInv'
  BY <1>3 DEF MoveInv
<1>4. ASSUME watcher'.pc \notin {"move", "refund", "persist refund"} PROVE MoveInv'
  BY <1>4 DEF MoveInv
<1>5. \A c \in Clients : ClientStep(c) => watcher' = watcher
  BY DEF ClientStep, CreateInsert, CreateWriteIntent, CreateLock, LockSwap, CancelSwap,
         CommitSubmarine, CommitBegin, CommitProviderCreate, CommitReadIntent, CommitPersistDetails,
         CommitPersistResponse, CommitRecord, CommitStart, CommitReadBack, CommitWait, Abort
<1>6. UpdateHeight \/ Outside \/ UNCHANGED vars => watcher' = watcher
  BY DEF UpdateHeight, Outside, Tick, RefundConfirms, UserPays, ProviderLocks,
         ProviderSettles, ProviderExpires, ProviderMoves, vars
<1>7. Crash => watcher'.pc = "idle"
  BY <1>1 DEF Crash
<1>8. ASSUME WatcherStep
      PROVE  MoveInv'
  <2>1. CASE WatcherList \/ WatcherBegin \/ WatcherFetch \/ WatcherFetchFails
    BY <1>0, <1>2, <1>4, <2>1 DEF WatcherList, WatcherBegin, WatcherFetch, WatcherFetchFails,
                                  IdleWatcher, Watchers
  <2>2. CASE WatcherPersistStatus \/ WatcherRecordHops \/ WatcherReload \/ WatcherSkipClaim
    BY <1>0, <1>2, <1>4, <2>2
    DEF WatcherPersistStatus, WatcherRecordHops, WatcherReload, WatcherSkipClaim, Watchers
  <2>3. CASE WatcherApply \/ WatcherHop \/ WatcherHopped
    BY <1>0, <1>1, <1>2, <1>4, <2>3
    DEF WatcherApply, WatcherHop, WatcherHopped, WatcherTransition, Watchers
  <2>4. CASE WatcherPostClaim \/ WatcherSend \/ WatcherSent \/ WatcherAwait \/ WatcherRecordClaim
    <3>1. [GoTo("act") EXCEPT !.version = 0].pc = "act"
      BY <1>0 DEF GoTo, Watchers
    <3>2. CASE WatcherPostClaim \/ WatcherRecordClaim
      BY <1>2, <1>4, <3>1, <3>2 DEF WatcherPostClaim, WatcherRecordClaim
    <3>3. CASE WatcherSend
      BY <1>1, <1>2, <1>4, <3>3 DEF WatcherSend, WatcherTransition
    <3>4. CASE WatcherSent
      BY <1>0, <1>4, <3>4 DEF WatcherSent, Watchers
    <3>5. CASE WatcherAwait
      <4>1. watcher' \in {GoTo("record claim"), [GoTo("act") EXCEPT !.version = 0], IdleWatcher}
        BY <3>5 DEF WatcherAwait, WatcherTransition
      <4>2. watcher'.pc \in {"record claim", "act", "idle"}
        BY <1>1, <1>2, <3>1, <4>1
      <4> QED
        BY <1>4, <4>2
    <3> QED
      BY <2>4, <3>2, <3>3, <3>4, <3>5
  <2>5. CASE WatcherMove \/ WatcherRecordMove
    BY <1>1, <1>2, <1>4, <2>5 DEF WatcherMove, WatcherTransition, WatcherRecordMove
  <2>6. CASE WatcherSkipRefund \/ WatcherBroadcastRefund \/ WatcherPersistRefund
    <3>1. watcher.pc \in {"refund", "persist refund"}
      BY <2>6 DEF WatcherSkipRefund, WatcherBroadcastRefund, WatcherPersistRefund
    <3>2. CASE watcher' = IdleWatcher
      BY <1>1, <1>4, <3>2
    <3>3. ASSUME NEW pc, watcher' = GoTo(pc) PROVE MoveInv'
      BY <1>2, <3>1, <3>3 DEF MoveInv
    <3> QED
      BY <2>6, <3>2, <3>3
      DEF WatcherSkipRefund, WatcherBroadcastRefund, WatcherPersistRefund
  <2>7. ASSUME NEW answers \in BOOLEAN, WatcherAct(answers)
        PROVE  MoveInv'
    <3>1. CASE watcher' = IdleWatcher
      BY <1>1, <1>4, <3>1
    <3>2. ASSUME NEW facts, NextAction(watcher.seen.state, facts).action # "none",
                 NEW pc \in {"refund", "move"},
                 watcher' = [watcher EXCEPT !.pc = pc,
                                            !.path = <<NextAction(watcher.seen.state, facts).to>>]
          PROVE  MoveInv'
      <4> DEFINE to == NextAction(watcher.seen.state, facts).to
      <4>1. watcher.seen.state \in Unbroadcast => to \in {"completed", "fallback_script_ready"}
        BY <3>2 DEF Unbroadcast, NextAction, Do, MuSigStates
      <4> HIDE DEF to
      <4>2. watcher' = [watcher EXCEPT !.pc = pc, !.path = <<to>>]
        BY <3>2 DEF to
      <4>3. watcher'.seen = watcher.seen /\ watcher'.path = <<to>>
        BY <1>0, <4>2 DEF Watchers
      <4>4. Head(<<to>>) = to
        OBVIOUS
      <4> QED
        BY <4>1, <4>3, <4>4 DEF MoveInv
    <3> QED
      BY <2>7, <3>1, <3>2, WhatIsDecided
  <2> QED
    BY <1>8, <2>1, <2>2, <2>3, <2>4, <2>5, <2>6, <2>7 DEF WatcherStep
<1> QED
  BY <1>3, <1>4, <1>5, <1>6, <1>7, <1>8 DEF Next

\* A swap whose claim is under way is moved by what the provider says, or by the
\* claim itself, and by nothing else: neither a handler nor the timeout that
\* approaches gets it out of there (watcher.go, reconcileSwap).
OnlyTheProviderMovesAClaim ==
    [][row.state \in Unbroadcast /\ row'.state # row.state =>
           WatcherHop \/ WatcherSend \/ WatcherAwait]_vars

THEOREM ClaimsMoveWithTheProvider == Spec => OnlyTheProviderMovesAClaim
<1>1. Init => MoveInv
  <2>1. IdleWatcher.pc = "idle"
    BY DEF IdleWatcher
  <2> QED
    BY <2>1 DEF Init, MoveInv
<1>2. ASSUME IInv, MoveInv, Next, row.state \in Unbroadcast, row'.state # row.state
      PROVE  WatcherHop \/ WatcherSend \/ WatcherAwait
  <2>1. \A version, to : Accepts(version, to) =>
            to \in {"signing_musig2_partial", "sent_partial_to_provider",
                    "waiting_provider_broadcast"}
    BY <1>2 DEF Accepts, Unbroadcast, ValidTransitions, States
  <2>2. ASSUME NEW c \in Clients, ClientStep(c) PROVE FALSE
    <3>1. CASE CreateInsert(c)
      BY <1>2, <3>1 DEF CreateInsert, NoRow, Unbroadcast
    <3>2. CASE CreateWriteIntent(c) \/ CommitPersistDetails(c) \/ CommitPersistResponse(c)
      BY <1>2, <3>2
      DEF CreateWriteIntent, CommitPersistDetails, CommitPersistResponse, IInv, WellTyped, Rows
    <3>3. CASE \/ CreateLock(c) \/ LockSwap(c) \/ CancelSwap(c) \/ CommitSubmarine(c)
               \/ CommitStart(c) \/ CommitWait(c)
      BY <1>2, <2>1, <3>3
      DEF CreateLock, LockSwap, CancelSwap, CommitSubmarine, CommitStart, CommitWait
    <3>4. CASE CommitBegin(c) \/ CommitProviderCreate(c) \/ CommitReadIntent(c)
                \/ CommitRecord(c) \/ CommitReadBack(c) \/ Abort(c)
      BY <1>2, <3>4
      DEF CommitBegin, CommitProviderCreate, CommitReadIntent, CommitRecord, CommitReadBack, Abort
    <3> QED
      BY <2>2, <3>1, <3>2, <3>3, <3>4 DEF ClientStep
  <2>3. ~WatcherMove
    <3>1. SUFFICES ASSUME WatcherMove PROVE FALSE
      OBVIOUS
    <3>2. watcher.pc = "move" /\ Accepts(watcher.seen.version, Head(watcher.path))
      BY <1>2, <3>1 DEF WatcherMove, WatcherTransition
    <3>3. watcher.seen.state = row.state
      BY <1>2, <3>2 DEF Accepts, IInv, WatcherInv, SeenIsPast
    <3>4. Head(watcher.path) \in {"completed", "fallback_script_ready"}
      BY <1>2, <3>2, <3>3 DEF MoveInv
    <3> QED
      BY <2>1, <3>2, <3>4
  <2>4. ~WatcherPersistStatus /\ ~WatcherPersistRefund
    BY <1>2 DEF WatcherPersistStatus, WatcherPersistRefund, IInv, WellTyped, Rows
  <2>5. ~(UpdateHeight \/ Crash \/ Outside)
    BY <1>2 DEF UpdateHeight, Crash, Outside, Tick, RefundConfirms, UserPays, ProviderLocks,
                ProviderSettles, ProviderExpires, ProviderMoves
  <2> QED
    BY <1>2, <2>2, <2>3, <2>4, <2>5
    DEF Next, WatcherStep, WatcherList, WatcherBegin, WatcherFetch, WatcherFetchFails,
        WatcherApply, WatcherHopped, WatcherRecordHops, WatcherReload, WatcherSkipClaim,
        WatcherPostClaim, WatcherSent, WatcherRecordClaim, WatcherAct, WatcherRecordMove,
        WatcherSkipRefund, WatcherBroadcastRefund
<1>3. IInv /\ MoveInv /\ [Next]_vars =>
          [row.state \in Unbroadcast /\ row'.state # row.state =>
               WatcherHop \/ WatcherSend \/ WatcherAwait]_vars
  BY <1>2
<1> QED
  BY <1>1, <1>3, MoveIsKept, Invariant, PTL DEF Spec, OnlyTheProviderMovesAClaim

=============================================================================
