--------------------------- MODULE SwapExecution ----------------------------
(***************************************************************************)
(* The execution of one swap: the RPC handlers of SwapService              *)
(* (core/internal/server/swap_service.go) that create, lock, commit and    *)
(* cancel it, the watcher (core/internal/watcher/watcher.go) that polls    *)
(* the provider and the chain and drives it to its end, and what surrounds *)
(* them: the provider's own swaps, the block height, the refund on chain.  *)
(*                                                                         *)
(* Handlers and the watcher run concurrently over one database connection. *)
(* A step is a statement, a transaction or an external call.  The watcher's *)
(* reads of swap_ops, which only grows, and of the details, whose writer    *)
(* looks at nothing the watcher writes, are taken with the step that uses   *)
(* them.  A request may be cancelled between any two of its steps, and the  *)
(* process may crash.  Database errors and their wording are left out.      *)
(***************************************************************************)
EXTENDS BoltzStatus, Reconciliation

CONSTANTS Kind,              \* "submarine", "reverse" or "chain"
          Clients,           \* concurrent RPC handlers
          MaxProviderSwaps,  \* bound: swaps the provider creates for this one
          FirstHeight,       \* the chain's height at the start
          MaxHeight,         \* bound: last block
          QuoteTimeout,      \* UserTimeoutBlocks of the quote: a number of blocks
          ProviderTimeout,   \* the timelock of the provider's swaps: a height
          Answers            \* what the provider's answers to Create may hold

ASSUME ExecutionConstants ==
    /\ Kind \in Kinds
    /\ {MaxProviderSwaps, FirstHeight, MaxHeight, QuoteTimeout, ProviderTimeout} \subseteq Nat \ {0}
    /\ FirstHeight <= MaxHeight
    /\ Answers \subseteq [details : BOOLEAN, timeout : {0, ProviderTimeout}]

VARIABLES row,      \* the swap's row in table swaps
          ops,      \* its keys in table swap_ops
          client,   \* client[c]: where the handler c is
          watcher,  \* where the watcher is in reconcileSwap
          cached,   \* the watcher's currentHeight, 0 until it is fetched
          height,   \* the chain's height
          provider, \* provider[p]: the p-th swap the provider created, with
                    \* what its answer to Create held
          refund    \* the wallet's refund transaction on chain

vars == <<row, ops, client, watcher, cached, height, provider, refund>>
environment == <<height, provider, refund>>

ProviderSwaps == 1..MaxProviderSwaps

-----------------------------------------------------------------------------
(* The row.  intent is 0 while locked_intent is NULL, "quote" once it      *)
(* holds the quote, and p once it also holds the details of provider swap  *)
(* p; boltz is the boltz_id column, 0 while it is empty.                   *)

NoIntent == 0
QuoteOnly == MaxProviderSwaps + 1

NoRow == [state |-> "none", version |-> 0, intent |-> NoIntent, boltz |-> 0,
          status |-> "", timeout |-> 0, refundTx |-> FALSE]

HasDetails == row.intent \in ProviderSwaps

\* Every answer of the provider so far held the details, every one its timeout.
DetailsGiven == \A p \in ProviderSwaps : provider[p].status # "" => provider[p].details
TimeoutsGiven == \A p \in ProviderSwaps : provider[p].status # "" => provider[p].timeout # 0

\* Faulty variant of Accepts: the table is not consulted.
AcceptsAnyMove(version, to) ==
    /\ row.state \in States
    /\ row.version = version
    /\ to \in IntentOptional \/ row.intent # NoIntent

\* Engine.Transition, as in SwapEngine.
Accepts(version, to) ==
    /\ row.state \in States
    /\ row.version = version
    /\ to \in ValidTransitions[row.state]
    /\ to \in IntentOptional \/ row.intent # NoIntent

Moved(to) == [row EXCEPT !.state = to, !.version = @ + 1]

\* Keys of swap_ops: what recorded them and the state they were decided in.
\* The code's keys carry more (status, target, height, flags); the coarser key
\* finds "done" no less often, and RecordedMeansDone shows that it is never
\* found while the swap is still in that state.
Key(by, state) == <<by, state>>
CommitKey == Key("commit_provider_create", "locked")

-----------------------------------------------------------------------------
(* The handlers.  All of a client's requests share this record.            *)

\* made is the provider swap of the request, intent the locked_intent it is
\* about to store, version the one it expects.
IdleClient == [pc |-> "idle", made |-> 0, intent |-> NoIntent, version |-> 0]

At(c, pc) == client' = [client EXCEPT ![c].pc = pc]
Return(c) == client' = [client EXCEPT ![c] = IdleClient]

\* Faulty variant of CreateInsert: the row has Go's zero value for its state.
CreateInsertZeroState(c) ==
    /\ client[c].pc = "idle"
    /\ row = NoRow
    /\ row' = [row EXCEPT !.state = ""]
    /\ At(c, "created")
    /\ UNCHANGED <<ops, watcher, cached, environment>>

\* CreateSwap: Engine.Create, the UPDATE of locked_intent, then the transition.
CreateInsert(c) ==
    /\ client[c].pc = "idle"
    /\ row = NoRow
    /\ row' = [row EXCEPT !.state = "open"]
    /\ At(c, "created")
    /\ UNCHANGED <<ops, watcher, cached, environment>>

CreateWriteIntent(c) ==
    /\ client[c].pc = "created"
    /\ row' = [row EXCEPT !.intent = QuoteOnly, !.timeout = QuoteTimeout]
    /\ At(c, "intended")
    /\ UNCHANGED <<ops, watcher, cached, environment>>

CreateLock(c) ==
    /\ client[c].pc = "intended"
    /\ row' = IF Accepts(0, "locked") THEN Moved("locked") ELSE row
    /\ Return(c)
    /\ UNCHANGED <<ops, watcher, cached, environment>>

\* LockSwap and CancelSwap are one Transition each; a request with a stale
\* version changes nothing.
LockSwap(c) ==
    /\ client[c].pc = "idle"
    /\ Accepts(row.version, "locked")
    /\ row' = Moved("locked")
    /\ UNCHANGED <<ops, client, watcher, cached, environment>>

CancelSwap(c) ==
    /\ client[c].pc = "idle"
    /\ Accepts(row.version, "canceled")
    /\ row' = Moved("canceled")
    /\ UNCHANGED <<ops, client, watcher, cached, environment>>

\* CommitSwap of a submarine swap is one Transition.
CommitSubmarine(c) ==
    /\ Kind = "submarine"
    /\ client[c].pc = "idle"
    /\ Accepts(row.version, "commit_started")
    /\ row' = Moved("commit_started")
    /\ UNCHANGED <<ops, client, watcher, cached, environment>>

\* commitProviderBackedSwap.  The expected version the client sends is that of
\* a locked swap, 1: any other is refused by the transition below.  Nothing
\* before it looks at the state.
LockedVersion == 1

\* Faulty variant of CommitBegin: details in the intent count as created.
CommitBeginTrustsDetails(c) ==
    /\ Kind # "submarine"
    /\ client[c].pc = "idle"
    /\ row.intent # NoIntent
    /\ At(c, IF HasDetails THEN "starting" ELSE "creating")
    /\ UNCHANGED <<row, ops, watcher, cached, environment>>

CommitBegin(c) ==
    /\ Kind # "submarine"
    /\ client[c].pc = "idle"
    /\ row.intent # NoIntent
    /\ At(c, IF CommitKey \in ops THEN "starting" ELSE "creating")
    /\ UNCHANGED <<row, ops, watcher, cached, environment>>

\* provider.Create succeeds at the provider; a lost answer is this step
\* followed by Abort, a failure is Abort alone.  The request repeats the
\* preimage hash of the swap; like the mock, the provider may take it again.
\* The answer may lack the details (the mock gives none) and the timeout.
CommitProviderCreate(c) ==
    /\ client[c].pc = "creating"
    /\ \E p \in ProviderSwaps, answer \in Answers :
           /\ provider[p].status = ""
           /\ \A q \in 1..(p - 1) : provider[q].status # ""
           /\ provider' = [provider EXCEPT ![p].status = "swap.created",
                                           ![p].details = answer.details,
                                           ![p].timeout = answer.timeout]
           /\ client' = [client EXCEPT ![c].pc = "details", ![c].made = p]
    /\ UNCHANGED <<row, ops, watcher, cached, height, refund>>

\* persistProviderCreateDetailsOnLockedIntent reads the intent, puts in the
\* details the answer has and stores the whole: without them it stores again
\* what it read.
CommitReadIntent(c) ==
    LET p == client[c].made
    IN  /\ client[c].pc = "details"
        /\ client' = [client EXCEPT ![c].pc = "storing",
                                    ![c].intent = IF provider[p].details THEN p ELSE row.intent]
        /\ UNCHANGED <<row, ops, watcher, cached, environment>>

CommitPersistDetails(c) ==
    /\ client[c].pc = "storing"
    /\ row' = [row EXCEPT !.intent = client[c].intent]
    /\ client' = [client EXCEPT ![c].pc = "response", ![c].intent = NoIntent]
    /\ UNCHANGED <<ops, watcher, cached, environment>>

\* A timeout the answer lacks leaves the one in the row: the quote's, or that
\* of an earlier answer.
CommitPersistResponse(c) ==
    LET p == client[c].made
    IN  /\ client[c].pc = "response"
        /\ row' = [row EXCEPT !.boltz = p,
                              !.timeout = IF provider[p].timeout > 0 THEN provider[p].timeout ELSE @,
                              !.status = "swap.created"]
        /\ client' = [client EXCEPT ![c].pc = "recording", ![c].made = 0]
        /\ UNCHANGED <<ops, watcher, cached, environment>>

CommitRecord(c) ==
    /\ client[c].pc = "recording"
    /\ ops' = ops \cup {CommitKey}
    /\ At(c, "starting")
    /\ UNCHANGED <<row, watcher, cached, environment>>

CommitStart(c) ==
    /\ client[c].pc = "starting"
    /\ \/ /\ Accepts(LockedVersion, "commit_started")
          /\ row' = Moved("commit_started")
          /\ At(c, "started")
       \/ /\ ~Accepts(LockedVersion, "commit_started")
          /\ Return(c)
          /\ UNCHANGED row
    /\ UNCHANGED <<ops, watcher, cached, environment>>

\* Transition returns the swap as a later SELECT finds it.
CommitReadBack(c) ==
    /\ client[c].pc = "started"
    /\ client' = [client EXCEPT ![c].pc = "waiting", ![c].version = row.version]
    /\ UNCHANGED <<row, ops, watcher, cached, environment>>

CommitWait(c) ==
    /\ client[c].pc = "waiting"
    /\ row' = IF Accepts(client[c].version, "waiting") THEN Moved("waiting") ELSE row
    /\ Return(c)
    /\ UNCHANGED <<ops, watcher, cached, environment>>

\* The request is cancelled, or one of its calls fails.
Abort(c) ==
    /\ client[c].pc # "idle"
    /\ Return(c)
    /\ UNCHANGED <<row, ops, watcher, cached, environment>>

ClientStep(c) ==
    \/ CreateInsert(c) \/ CreateWriteIntent(c) \/ CreateLock(c)
    \/ LockSwap(c) \/ CancelSwap(c) \/ CommitSubmarine(c)
    \/ CommitBegin(c) \/ CommitProviderCreate(c) \/ CommitReadIntent(c)
    \/ CommitPersistDetails(c) \/ CommitPersistResponse(c) \/ CommitRecord(c)
    \/ CommitStart(c) \/ CommitReadBack(c) \/ CommitWait(c)
    \/ Abort(c)

-----------------------------------------------------------------------------
(* The watcher: one pass of reconcileSwap.  seen is its copy of the swap,  *)
(* h the height and ps the provider status of the pass, path the states    *)
(* still to be walked and version the version expected of the row.         *)

Copy == [state |-> row.state, version |-> row.version, boltz |-> row.boltz,
         timeout |-> row.timeout, refundTx |-> row.refundTx]

NoCopy == [state |-> "none", version |-> 0, boltz |-> 0, timeout |-> 0, refundTx |-> FALSE]

IdleWatcher == [pc |-> "idle", seen |-> NoCopy, h |-> 0, ps |-> "",
                path |-> <<>>, version |-> 0]

GoTo(pc) == [watcher EXCEPT !.pc = pc]

\* Engine.Transition as the watcher calls it: done once it commits, stale after
\* ErrConcurrentModification; any other error ends the pass.
WatcherTransition(version, to, done, stale) ==
    \/ /\ Accepts(version, to)
       /\ row' = Moved(to)
       /\ watcher' = done
    \/ /\ row.version # version
       /\ watcher' = stale
       /\ UNCHANGED row
    \/ /\ row.version = version
       /\ ~Accepts(version, to)
       /\ watcher' = IdleWatcher
       /\ UNCHANGED row

\* Faulty variant of WatcherList: only provider-backed swaps are listed.
WatcherListBacked ==
    /\ watcher.pc = "idle"
    /\ row.state \in States \ Terminal
    /\ row.boltz # 0
    /\ watcher' = [IdleWatcher EXCEPT !.pc = "listed", !.seen = Copy, !.ps = row.status]
    /\ UNCHANGED <<row, ops, client, cached, environment>>

WatcherList ==
    /\ watcher.pc = "idle"
    /\ row.state \in States \ Terminal
    /\ watcher' = [IdleWatcher EXCEPT !.pc = "listed", !.seen = Copy, !.ps = row.status]
    /\ UNCHANGED <<row, ops, client, cached, environment>>

\* All active swaps are listed before the first one is reconciled.
WatcherBegin ==
    /\ watcher.pc = "listed"
    /\ watcher' = [watcher EXCEPT !.pc = IF watcher.seen.boltz # 0 THEN "fetch" ELSE "act",
                                  !.h = cached]
    /\ UNCHANGED <<row, ops, client, cached, environment>>

WatcherFetch ==
    /\ watcher.pc = "fetch"
    /\ watcher' = [watcher EXCEPT !.pc = "persist",
                                  !.ps = provider[watcher.seen.boltz].status]
    /\ UNCHANGED <<row, ops, client, cached, environment>>

\* Without an answer the pass goes on with the status of the copy.
WatcherFetchFails ==
    /\ watcher.pc = "fetch"
    /\ watcher' = GoTo("apply")
    /\ UNCHANGED <<row, ops, client, cached, environment>>

WatcherPersistStatus ==
    /\ watcher.pc = "persist"
    /\ row' = [row EXCEPT !.status = watcher.ps]
    /\ watcher' = GoTo("apply")
    /\ UNCHANGED <<ops, client, cached, environment>>

\* Faulty variant of WatcherApply: the key is recorded before the walk.
WatcherApplyRecordsFirst ==
    LET seen == watcher.seen
        path == TransitionPath[seen.state][ResolveTarget(seen.state, watcher.ps, Kind)]
        key == Key("provider", seen.state)
        walk == /\ path # <<>>
                /\ Kind = "chain" /\ Normalize(watcher.ps, Kind).action = "sign" => HasDetails
                /\ key \notin ops
    IN  /\ watcher.pc = "apply"
        /\ watcher' = IF walk
                      THEN [watcher EXCEPT !.pc = "hop", !.path = path, !.version = seen.version]
                      ELSE GoTo("claim")
        /\ ops' = IF walk THEN ops \cup {key} ELSE ops
        /\ UNCHANGED <<row, client, cached, environment>>

\* Faulty variant of WatcherApply: one application to a swap, whatever its state.
WatcherApplyOnce ==
    LET seen == watcher.seen
        path == TransitionPath[seen.state][ResolveTarget(seen.state, watcher.ps, Kind)]
        walk == /\ path # <<>>
                /\ Kind = "chain" /\ Normalize(watcher.ps, Kind).action = "sign" => HasDetails
                /\ \A s \in States : Key("provider", s) \notin ops
    IN  /\ watcher.pc = "apply"
        /\ watcher' = IF walk
                      THEN [watcher EXCEPT !.pc = "hop", !.path = path, !.version = seen.version]
                      ELSE GoTo("claim")
        /\ UNCHANGED <<row, ops, client, cached, environment>>

\* applyProviderStatusState, up to its loop.
WatcherApply ==
    LET seen == watcher.seen
        target == ResolveTarget(seen.state, watcher.ps, Kind)
        path == TransitionPath[seen.state][target]
        signing == Normalize(watcher.ps, Kind).action = "sign"
        walk == /\ path # <<>>
                /\ Kind = "chain" /\ signing => HasDetails
                /\ Key("provider", seen.state) \notin ops
    IN  /\ watcher.pc = "apply"
        /\ watcher' = IF walk
                      THEN [watcher EXCEPT !.pc = "hop", !.path = path, !.version = seen.version]
                      ELSE GoTo("claim")
        /\ UNCHANGED <<row, ops, client, cached, environment>>

\* prepareFallbackRefundPlan: the refund leaf comes from the provider's details.
HasRefundPlan == Kind # "submarine" /\ HasDetails

GiveUpPath == [watcher EXCEPT !.pc = "claim", !.path = <<>>, !.version = 0]

WatcherHop ==
    LET to == Head(watcher.path)
    IN  /\ watcher.pc = "hop"
        /\ \/ /\ to = "refunding" /\ ~HasRefundPlan
              /\ watcher' = GiveUpPath
              /\ UNCHANGED row
           \/ /\ to = "refunding" => HasRefundPlan
              /\ WatcherTransition(watcher.version, to, GoTo("hopped"), GiveUpPath)
        /\ UNCHANGED <<ops, client, cached, environment>>

WatcherHopped ==
    /\ watcher.pc = "hopped"
    /\ watcher' = [watcher EXCEPT !.pc = IF Len(watcher.path) = 1 THEN "record hops" ELSE "hop",
                                  !.path = Tail(@), !.version = row.version]
    /\ UNCHANGED <<row, ops, client, cached, environment>>

WatcherRecordHops ==
    /\ watcher.pc = "record hops"
    /\ ops' = ops \cup {Key("provider", watcher.seen.state)}
    /\ watcher' = GoTo("reload")
    /\ UNCHANGED <<row, client, cached, environment>>

\* Engine.Get reads no timeout_block_height: the rest of the pass has none.
WatcherReload ==
    /\ watcher.pc = "reload"
    /\ watcher' = [watcher EXCEPT !.pc = "claim", !.version = 0,
                                  !.seen = [Copy EXCEPT !.timeout = 0]]
    /\ UNCHANGED <<row, ops, client, cached, environment>>

\* Faulty variant of ClaimDue: the provider's status decides, not the state.
ClaimDueByStatus == /\ Kind # "submarine"
                    /\ watcher.seen.boltz # 0
                    /\ Normalize(watcher.ps, Kind).action = "sign"

\* executeMuSig2Claim.  A claim that is not attempted (other state, recorded
\* before) or fails (locked vault, refused by the provider) leaves the pass to
\* go on; a claim the provider took may still look failed.
ClaimDue == /\ Kind # "submarine"
            /\ watcher.seen.state = "signing_musig2_partial"
            /\ watcher.seen.boltz # 0
            /\ Key("musig_claim", watcher.seen.state) \notin ops

WatcherSkipClaim ==
    /\ watcher.pc = "claim"
    /\ watcher' = GoTo("act")
    /\ UNCHANGED <<row, ops, client, cached, environment>>

\* The provider takes a claim while its own side is locked.
TakesClaim(p) == provider[p].status \in
                     (IF Kind = "chain" THEN {"transaction.server.mempool"}
                                        ELSE {"transaction.mempool"})

WatcherPostClaim ==
    LET p == watcher.seen.boltz
    IN  /\ watcher.pc = "claim"
        /\ ClaimDue
        /\ TakesClaim(p)
        /\ provider' = [provider EXCEPT ![p].claimed = TRUE]
        /\ watcher' \in {GoTo("send"), GoTo("act")}
        /\ UNCHANGED <<row, ops, client, cached, height, refund>>

WatcherSend ==
    /\ watcher.pc = "send"
    /\ WatcherTransition(watcher.seen.version, "sent_partial_to_provider", GoTo("sent"), GoTo("act"))
    /\ UNCHANGED <<ops, client, cached, environment>>

WatcherSent ==
    /\ watcher.pc = "sent"
    /\ watcher' = [watcher EXCEPT !.pc = "await", !.version = row.version]
    /\ UNCHANGED <<row, ops, client, cached, environment>>

WatcherAwait ==
    /\ watcher.pc = "await"
    /\ WatcherTransition(watcher.version, "waiting_provider_broadcast",
                         GoTo("record claim"), [GoTo("act") EXCEPT !.version = 0])
    /\ UNCHANGED <<ops, client, cached, environment>>

WatcherRecordClaim ==
    /\ watcher.pc = "record claim"
    /\ ops' = ops \cup {Key("musig_claim", "signing_musig2_partial")}
    /\ watcher' = [GoTo("act") EXCEPT !.version = 0]
    /\ UNCHANGED <<row, client, cached, environment>>

\* Faulty variant of RefundSeenIn: a stored txid is evidence enough.
RefundSeenByTxid(answers) == watcher.seen.refundTx

\* GetTx answers for any transaction the node knows, confirmed or not, and may
\* fail; an unknown refund transaction is no evidence.
RefundSeenIn(answers) == watcher.seen.refundTx /\ refund # "none" /\ answers

\* The rest of the pass: facts, NextAction, the idempotency check.  No handler
\* of the server stores a lockup_txid: the lockup is never seen.
WatcherAct(answers) ==
    LET seen == watcher.seen
        facts == ComputeFacts(FALSE, seen.timeout, watcher.h, watcher.ps, RefundSeenIn(answers))
        next == NextAction(seen.state, facts)
    IN  /\ watcher.pc = "act"
        /\ watcher' = IF next.action = "none" \/ Key("reconcile", seen.state) \in ops
                      THEN IdleWatcher
                      ELSE [watcher EXCEPT
                               !.pc = IF next.action = "broadcast_refund" THEN "refund" ELSE "move",
                               !.path = <<next.to>>]
        /\ UNCHANGED <<row, ops, client, cached, environment>>

WatcherMove ==
    /\ watcher.pc = "move"
    /\ WatcherTransition(watcher.seen.version, Head(watcher.path), GoTo("record move"), IdleWatcher)
    /\ UNCHANGED <<ops, client, cached, environment>>

WatcherRecordMove ==
    /\ watcher.pc = "record move"
    /\ ops' = ops \cup {Key("reconcile", watcher.seen.state)}
    /\ watcher' = IdleWatcher
    /\ UNCHANGED <<row, client, cached, environment>>

\* ActionBroadcastRefund: without a plan, or when no refund transaction can be
\* had, an error is stored and the pass ends; with a refund txid in the copy
\* nothing is broadcast.
WatcherSkipRefund ==
    /\ watcher.pc = "refund"
    /\ watcher' = IF HasRefundPlan /\ watcher.seen.refundTx THEN GoTo("move") ELSE IdleWatcher
    /\ UNCHANGED <<row, ops, client, cached, environment>>

\* The node may take a refund once its timelock has passed, while the lockup is
\* unspent; details of another provider swap make one that it refuses.
NodeTakesRefund == /\ provider[watcher.seen.boltz].lockup = "funded"
                   /\ refund = "none"
                   /\ height >= ProviderTimeout

\* Faulty variant of WatcherBroadcastRefund: a stored txid is not looked at.
WatcherBroadcastAgain ==
    /\ watcher.pc = "refund"
    /\ HasRefundPlan
    /\ watcher.seen.boltz # 0
    /\ provider[watcher.seen.boltz].lockup # "none"
    /\ watcher' \in {GoTo("persist refund"), IdleWatcher}
    /\ \/ UNCHANGED refund
       \/ NodeTakesRefund /\ refund' = "mempool"
    /\ UNCHANGED <<row, ops, client, cached, height, provider>>

\* broadcastFallbackRefund: there is a transaction to try once there is a lockup
\* to spend, built here or had from the provider.  When the node refuses it, or
\* its answer is lost, a txid known beforehand is used all the same; without one
\* the pass ends.
WatcherBroadcastRefund ==
    /\ watcher.pc = "refund"
    /\ HasRefundPlan
    /\ ~watcher.seen.refundTx
    /\ watcher.seen.boltz # 0
    /\ provider[watcher.seen.boltz].lockup # "none"
    /\ watcher' \in {GoTo("persist refund"), IdleWatcher}
    /\ \/ UNCHANGED refund
       \/ NodeTakesRefund /\ refund' = "mempool"
    /\ UNCHANGED <<row, ops, client, cached, height, provider>>

\* A transaction that came from the provider brings the provider's status along.
WatcherPersistRefund ==
    /\ watcher.pc = "persist refund"
    /\ \E status \in {row.status, provider[watcher.seen.boltz].status} :
           row' = [row EXCEPT !.refundTx = TRUE, !.status = status]
    /\ watcher' = GoTo("move")
    /\ UNCHANGED <<ops, client, cached, environment>>

UpdateHeight ==
    /\ cached # height
    /\ cached' = height
    /\ UNCHANGED <<row, ops, client, watcher, environment>>

WatcherStep ==
    \/ WatcherList \/ WatcherBegin \/ WatcherFetch \/ WatcherFetchFails \/ WatcherPersistStatus
    \/ WatcherApply \/ WatcherHop \/ WatcherHopped \/ WatcherRecordHops \/ WatcherReload
    \/ WatcherSkipClaim \/ WatcherPostClaim \/ WatcherSend \/ WatcherSent
    \/ WatcherAwait \/ WatcherRecordClaim
    \/ (\E answers \in BOOLEAN : WatcherAct(answers)) \/ WatcherMove \/ WatcherRecordMove
    \/ WatcherSkipRefund \/ WatcherBroadcastRefund \/ WatcherPersistRefund

\* The process dies: handlers, the pass and the cached height are gone.
Crash ==
    /\ client' = [c \in Clients |-> IdleClient]
    /\ watcher' = IdleWatcher
    /\ cached' = 0
    /\ UNCHANGED <<row, ops, environment>>

-----------------------------------------------------------------------------
(* Outside the wallet: blocks, the user's lockup, the provider.            *)

Tick ==
    /\ height < MaxHeight
    /\ height' = height + 1
    /\ UNCHANGED <<row, ops, client, watcher, cached, provider, refund>>

ProviderMoves(p, status, lockup) ==
    /\ provider' = [provider EXCEPT ![p].status = status, ![p].lockup = lockup]
    /\ UNCHANGED <<row, ops, client, watcher, cached, height, refund>>

\* The lockup, by the user (chain) or by the provider once the user has paid
\* its invoice (reverse): that of the provider swap the wallet shows.
UserPays(p) ==
    /\ row.boltz = p
    /\ provider[p].status = "swap.created"
    /\ ProviderMoves(p, "transaction.mempool", "funded")

ProviderLocks(p) ==
    /\ Kind = "chain"
    /\ provider[p].status = "transaction.mempool"
    /\ \E status \in {"transaction.server.mempool", "transaction.lockupFailed"} :
           ProviderMoves(p, status, provider[p].lockup)

\* A claim lets the lockup be collected, unless it is refunded first.
ProviderSettles(p) ==
    /\ provider[p].claimed
    /\ TakesClaim(p)
    /\ refund # "confirmed"
    /\ ProviderMoves(p, IF Kind = "chain" THEN "transaction.claimed" ELSE "invoice.settled", "claimed")

ProviderExpires(p) ==
    /\ height >= ProviderTimeout
    /\ provider[p].status \in {"swap.created", "transaction.mempool", "transaction.server.mempool"}
    /\ ~provider[p].claimed
    /\ ProviderMoves(p, "swap.expired", provider[p].lockup)

RefundConfirms ==
    /\ refund = "mempool"
    /\ \A p \in ProviderSwaps : provider[p].lockup # "claimed"
    /\ refund' = "confirmed"
    /\ UNCHANGED <<row, ops, client, watcher, cached, height, provider>>

Outside == \/ Tick \/ RefundConfirms
           \/ \E p \in ProviderSwaps : UserPays(p) \/ ProviderLocks(p)
                                       \/ ProviderSettles(p) \/ ProviderExpires(p)

-----------------------------------------------------------------------------
NoProviderSwap == [status |-> "", lockup |-> "none", claimed |-> FALSE,
                   details |-> FALSE, timeout |-> 0]

Init == /\ row = NoRow
        /\ ops = {}
        /\ client = [c \in Clients |-> IdleClient]
        /\ watcher = IdleWatcher
        /\ cached = 0
        /\ height = FirstHeight
        /\ provider = [p \in ProviderSwaps |-> NoProviderSwap]
        /\ refund = "none"

Next == \/ \E c \in Clients : ClientStep(c)
        \/ WatcherStep
        \/ UpdateHeight
        \/ Crash
        \/ Outside

Spec == Init /\ [][Next]_vars

(* A server that stays up, and a node and a provider that answer now and   *)
(* then: the loops of the watcher run on a ticker until the process ends,  *)
(* and every pass ends.                                                    *)
Fairness == /\ WF_vars(WatcherStep)
            /\ WF_vars(UpdateHeight)
            /\ SF_vars(WatcherFetch)
            /\ SF_vars(WatcherAct(TRUE))
            /\ <>[][~Crash]_vars

FairSpec == Spec /\ Fairness

-----------------------------------------------------------------------------
(* Types: row, handlers, watcher and surroundings are well formed.         *)
Copies == [state : States \cup {"none"}, version : 0..LongestWalk, boltz : 0..MaxProviderSwaps,
           timeout : {0, QuoteTimeout, ProviderTimeout}, refundTx : BOOLEAN]

TypeOK ==
    /\ row \in [state : States \cup {"none"}, version : 0..LongestWalk,
                intent : 0..(MaxProviderSwaps + 1), boltz : 0..MaxProviderSwaps,
                status : Statuses \cup {""}, timeout : {0, QuoteTimeout, ProviderTimeout},
                refundTx : BOOLEAN]
    /\ ops \subseteq ({"commit_provider_create", "provider", "musig_claim", "reconcile"} \X States)
    /\ \A c \in Clients :
           /\ client[c].pc \in {"idle", "created", "intended", "creating", "details", "storing",
                                "response", "recording", "starting", "started", "waiting"}
           /\ client[c].made \in 0..MaxProviderSwaps
           /\ client[c].intent \in 0..(MaxProviderSwaps + 1)
           /\ client[c].version \in 0..LongestWalk
    /\ watcher.seen \in Copies
    /\ watcher.h \in 0..MaxHeight
    /\ watcher.ps \in Statuses \cup {""}
    /\ watcher.path \in Seq(States)
    /\ watcher.version \in 0..LongestWalk
    /\ cached \in 0..MaxHeight /\ height \in FirstHeight..MaxHeight
    /\ \A p \in ProviderSwaps :
           /\ provider[p].status \in Statuses \cup {""}
           /\ provider[p].lockup \in {"none", "funded", "claimed"}
           /\ provider[p].claimed \in BOOLEAN /\ provider[p].details \in BOOLEAN
           /\ provider[p].timeout \in {0, ProviderTimeout}
    /\ refund \in {"none", "mempool", "confirmed"}

\* States a provider-backed swap reaches only through a commit.
Committed == States \ {"open", "locked", "canceled"}

\* The row stands for a swap of the provider.  Its timeout is that swap's when
\* the answer had one, and details are missing only if some answer lacked them:
\* the handler of such an answer stores again an intent it read before another
\* handler stored details.
Backed == /\ row.boltz # 0
          /\ provider[row.boltz].status # ""
          /\ provider[row.boltz].timeout > 0 => row.timeout = provider[row.boltz].timeout
          /\ DetailsGiven => HasDetails

(* A committed reverse or chain swap is backed: provider.Create, both      *)
(* writes of its answer and the commit key all precede commit_started,     *)
(* across retries, crashes, other handlers and the watcher moving the swap *)
(* meanwhile.                                                              *)
CommittedSwapIsBacked ==
    Kind # "submarine" /\ row.state \in Committed => Backed

(* An operation key is never found before what it stands for is done: a    *)
(* crash between an operation and RecordOperation only repeats it, and no  *)
(* key can wedge the swap in the state it was decided in.                  *)
RecordedMeansDone ==
    /\ CommitKey \in ops => Backed
    /\ \A by \in {"provider", "musig_claim", "reconcile"} :
           Key(by, row.state) \notin ops

(* A refund is tried only at a height the provider's timelock allows, as   *)
(* the watcher's stale copies of height and timeout both err on the late   *)
(* side; a provider that leaves its timeout out leaves a number of blocks  *)
(* in the row, which every height exceeds.                                 *)
RefundWaitsForTimelock ==
    [][WatcherBroadcastRefund /\ TimeoutsGiven => height >= ProviderTimeout]_vars

(* Once the refund's txid is stored no pass broadcasts again, whatever     *)
(* copy of the swap it works on.                                           *)
NoRebroadcastOnceStored ==
    [][row.refundTx => ~WatcherBroadcastRefund]_vars

(* A swap in refunding completes only after its refund was on chain: a     *)
(* txid the node never took is no evidence.                                *)
RefundCompletesOnEvidence ==
    [][row.state = "refunding" /\ row'.state = "completed" => refund # "none"]_vars

(* What the watcher claims is what the swap is: a claim, which gives the   *)
(* preimage away, is posted only for a swap that is in the signing state   *)
(* or past it, never for one that has not got there or was canceled.       *)
ClaimOnlyWhenSigning ==
    [][WatcherPostClaim => row.state \notin {"open", "locked", "commit_started", "waiting",
                                             "waiting_claim_details", "canceled"}]_vars

(* A swap the provider has settled is closed, unless it entered the refund *)
(* path, whose end only the chain decides.                                 *)
Settled == /\ row.boltz # 0
           /\ provider[row.boltz].status \in {"transaction.claimed", "invoice.settled"}

SettledIsClosed == Settled ~> row.state \in Terminal \cup {"refunding"}

(* A committed submarine swap does not stay open for ever: with no lockup  *)
(* txid ever stored, the timeout of commit_started is what ends it.        *)
CommittedSubmarineEnds ==
    Kind = "submarine" /\ row.state = "commit_started" ~> row.state \in Terminal

(* The handlers and the watcher together implement the lifecycle of the    *)
(* engine.                                                                 *)
Lifecycle == INSTANCE SwapLifecycle
                 WITH SwapIds <- {"the swap"},
                      phase <- [id \in {"the swap"} |-> row.state],
                      age <- [id \in {"the swap"} |-> row.version]

ImplementsLifecycle == Lifecycle!LifecycleSpec

-----------------------------------------------------------------------------
(* What the documents and comments of the repository say, and the code     *)
(* does not do: each of these is refuted by a run of its own.              *)

(* "Reexecution duplicates neither broadcasts nor side effects"            *)
(* (docs/XS_Wallet_Checklist_E2E_Swap.html:272): one commit, however often *)
(* it is retried, creates one swap at the provider.                        *)
OneProviderSwap ==
    \A p, q \in ProviderSwaps :
        provider[p].status # "" /\ provider[q].status # "" => p = q

(* "Parameters locked; intent immutable"                                   *)
(* (docs/XS_Wallet_Especificacao_Tecnica_v2.html:801): at the latest once  *)
(* it is committed, a swap keeps the provider swap it stands for.          *)
BackingIsFinal ==
    [][row.state \in Committed => row'.boltz = row.boltz /\ row'.intent = row.intent]_vars

(* The details of a committed swap are not lost.  Each handler stores the  *)
(* whole of an intent it read before (swap_service.go:406-449): one whose  *)
(* answer held no details may undo what another one stored in between.     *)
DetailsAreKept ==
    [][row.state \in Committed /\ HasDetails => HasDetails']_vars

(* "The watcher ignores provider-driven terminal transitions once the swap *)
(* is in refunding; closing depends on the evidence of the BTC adapter"    *)
(* (docs/STATUS_ESPECIFICACAO_XS_WALLET.md:56).                            *)
RefundEndsOnEvidence ==
    [][row.state = "refunding" /\ row'.state \in Terminal => refund # "none"]_vars

(* "refunding and then completed by on-chain evidence"                     *)
(* (docs/XS_Wallet_Gate_E2E_Real_Testnet.html:165): refunding is left.     *)
RefundingCloses == row.state = "refunding" ~> row.state \in Terminal

(* "UserTimeoutBlocks: 144, // ~1 day BTC" (core/internal/boltz/boltz.go:148) *)
(* and "if timeout reached without funding, fail" (reconcile.go): a        *)
(* submarine swap is given that many blocks.                               *)
SubmarineIsGivenItsBlocks ==
    [][Kind = "submarine" /\ row.state = "commit_started" /\ row'.state = "failed" =>
           height >= FirstHeight + QuoteTimeout]_vars
=============================================================================
