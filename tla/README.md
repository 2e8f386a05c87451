# XS Wallet in TLA+

XS Wallet is a desktop wallet that swaps between Lightning, Bitcoin and Liquid
through a provider (Boltz). Its core, a Go server (`core/`), owns the seed, the
database and the swaps; an Electron shell and two front ends talk to it over
gRPC. What is hard about it is the life of a swap: it lasts hours, several
goroutines and several requests act on it, the provider and two chains move on
their own, requests are cancelled, answers are lost, the process restarts, and
money is locked up all the while. And between the user and the core there are
four processes (page, shell, HTTP bridge, core) that each keep a part of one
session and a copy of what the core holds. This directory models the life of a
swap and of a session, checks them with TLC and proves with TLAPS that what was
checked of safety holds for any number of callers, swaps, sessions and requests.

Paths below are relative to the repository; `internal` is `core/internal`.

## 1. Inventory

### Components of the core

| component | state | operations | what makes it correct |
|---|---|---|---|
| **Swap engine** `internal/swap/engine.go` | tables `swaps`, `swap_events`, `swap_ops` | `Create`, `Get`, `Transition` (compare-and-swap on `version`), `CheckIdempotency`, `RecordOperation` | moves follow `ValidTransitions` only, one per version; decisions are applied to the state they were taken on; the log replays to the row |
| **Reconciliation rules** `internal/swap/reconcile.go` | none | `ComputeFacts`, `NextAction`, `ShouldReconcile` | refunds neither too early nor never |
| **Provider statuses** `internal/boltz/status.go` | none | `Normalize*` | every status maps to a state and an action |
| **Watcher** `internal/watcher/watcher.go` | `currentHeight`; per pass a copy of the swap | every 30 s `updateHeight`, every 10 s `reconcileSwap` of each active swap: provider status, path walk, claim, facts, action | no operation skipped because it was recorded early; no claim or refund for a swap that is elsewhere; settled swaps close |
| **Swap RPCs** `internal/server/swap_service.go` | none of its own; writes the swap row | `CreateSwap`, `LockSwap`, `CommitSwap`, `CancelSwap`, listings, streams | a committed swap is backed by a provider swap whose answer is stored |
| **Submarine orchestrator** `internal/swap/submarine.go` | writes the swap row and `utxo_reservations` | `CreateFromQuote`, `Lock`, `Commit` (funds the lockup; no RPC calls it), `ApplyProviderUpdate` | one funding transaction |
| **Quotes** `internal/swap/quote.go` | table `quotes` | create, get unless expired, expire | no swap from an expired quote |
| **Locked intent** `internal/swap/locked_intent.go` | JSON in `swaps.locked_intent` | parse, serialise | nothing in it gets lost |
| **Boltz client** `internal/boltz/{client,boltz,ws}.go` | WebSocket connection, subscriptions | REST with retries; connect, subscribe, reconnect, gap recovery | no update lost over a reconnection, one connection at a time |
| **Vault and lockout** `internal/vault/` | seed in memory, session, attempts in the database | initialise, unlock, lock, session check, derive | no seed without a session, no more than the allowed attempts |
| **Session interceptor** `internal/server/interceptor.go` | none | refuses RPCs without a session | |
| **Wallet service** `internal/server/wallet_service.go` | addresses, index counters, scan cache, transactions | balances, addresses, sending | no address index twice, no coin twice |
| **Node manager** `internal/server/services.go` | lifecycle record per node | start, stop, restart, supervise, exit of a process | a stopped node stays stopped, restarts are bounded |
| **Adapters** `internal/adapters/` | none | RPC to bitcoind, elementsd, lnd | |
| **Database** `internal/db/db.go` | SQLite, one connection | migrations, CHECKs | |

### Components outside the core

| component | state | operations | what makes it correct |
|---|---|---|---|
| **API bridge** `api-bridge/server.js` | none per request; gRPC clients | one HTTP route per operation, two streams as SSE; `createSwap` and `check` make two calls of the core each | passes on tokens, refusals and events as they are; agrees with the page on what a swap needs |
| **Electron shell** `electron/main.ts`, `electron/ipc/registry.ts` | `vaultUnlocked`, `sessionToken`, the subscribers of the swap watch, its timer and last payload, rate windows | `invokeChannel` with validation, limiter and lock check; `callApiBridge`; `publishSwapWatchSnapshot` | no dead token for long; a page that watches gets the list |
| **Renderer services** `frontend/src/services/{store,hooks,api}.ts` | the vault store; per hook a list, its loading and error, positions in streams | `checkStatus`, `initVault`, `unlock`, `lock`; fetch, subscribe, stream, fall back | the newest answer wins, no event is skipped, no wallet is shown without its PIN |
| **Renderer pages** `frontend/src/app/` | the route, forms, flags of calls in flight | route guards, onboarding, unlock, wallet page, Swap Center | what is shown belongs to the chosen chain and swap |
| **Developer dashboard** `devdash/` | none kept | the same routes, without a session | |

Of some 21,700 lines of TypeScript and JavaScript about half are two copies of a
vendored component library and the drawing of pages.

### How they interact

* RPC handlers and the watcher share nothing but the database. It has one
  connection (`SetMaxOpenConns(1)`), so SQL statements, and transactions, are
  atomic steps; everything between two of them can interleave.
* A handler or the watcher reads a swap, decides, perhaps calls the provider or
  a node, and writes. Writes of `state` go through `Engine.Transition`, which
  refuses a version that is not the current one. Writes of every other column
  (`locked_intent`, `boltz_id`, `boltz_status`, `timeout_block_height`,
  `refund_txid`) name the row by id alone.
* Operations that must not be repeated are recorded in `swap_ops` after they
  are done and looked up before.
* A page calls the shell over IPC (or, in a browser, the bridge over HTTP), the
  shell calls the bridge with the token it holds at that moment, the bridge calls
  the core over gRPC, whose interceptor checks the token and starts the handler.
  Calls of different kinds overlap, and their answers come back in any order.
* The provider is polled (`GetSwapStatus`); its status is normalised into a
  target state, and the watcher walks the shortest path of the table to it, one
  transaction per state.

### Hard behaviours

`PROJECT.json` lists each hazard with its line and the properties that cover
it. The main ones: two callers on one version; the window between the provider
call of a commit and its idempotency key; path walks cut off half way; keys
recorded before or after the operation; copies of a swap, its timeout and the
height that are old when used; the refund race between the provider, the node
and the watcher; sums of blocks against heights. Outside the core: answers that
come after the lock, the unlock or the tab change they were sent before; tokens
that died on their way; streams that drop and are opened again; several writers
of one list; closures of an older render; a form that three programs validate.

## 2. Modules

| module | what it models |
|---|---|
| `SwapStates` | states, `ValidTransitions`, the table's CHECK, and `findTransitionPath` as a constant function `TransitionPath`. `PathsAreUnique` (an assumption TLC evaluates) shows that shortest paths never tie, so that the order of the slices in the Go table does not matter. |
| `SwapLifecycle` | the abstract specification: a swap appears open and moves along the table, one move per version. The engine, the execution and the Swap Center implement it. |
| `SwapEngine` | the engine under any number of callers. `InsertSwap` and `LogCreate` are the two statements of `Create`; `Get` is every SELECT of a swap; `CommitTransition`, `RefuseTransition` and `ReadBack` are `Transition` and the `Get` that follows its commit; `WriteIntent` is any UPDATE of `locked_intent`; `Abort` a cancelled request, an error or a crash. |
| `BoltzStatus` | the three normalisation tables and `resolveProviderTargetState`. |
| `Reconciliation` | `ComputeFacts` and `NextAction`. |
| `SwapExecution` | one swap from creation to its end: handlers, the watcher's pass step by step, crashes, blocks, the provider, the refund transaction. It implements `SwapLifecycle` too. |
| `Vault` | the vault of the core as the desktop sees it: the attempts and the lockout on disk, the one session in memory, its age; `Unlock`, `Initialize`, `LockVault`, `RequireSession`, restarts. |
| `DesktopSession` | `Vault` composed with the bridge, the shell's session, the store and the route guards, with calls in flight, lost answers, reloads, restarts and a second client. |
| `SwapTimeline` | `useSwapEvents` and `watchSwapEvents` over IPC and HTTP against the event log: fetches, stream, drops, fallback, changes of the selected swap. |
| `SwapFeed` | `useSwaps` with the shell's swap watch, and with `watchAllSwaps` in the browser. |
| `WalletViews` | the wallet page's three lists, its tabs, refresh buttons and handlers. |
| `SwapDesk` | the Swap Center's "Create Swap" and "Advance", through shell and bridge to the row. |
| `NodeSupervisor` | a node of the node manager: `StartNode`, `StopNode`, `RestartNode` from the page to the core, the supervisor's pass in its two halves, the goroutines that wait for exits, backoff and restart window, a restart of the core. |
| `SwapStatesProofs`, `SwapEngineProofs`, `SwapExecutionProofs`, `DesktopSessionProofs`, `SwapTimelineProofs`, `SwapDeskProofs`, `NodeSupervisorProofs` | the theorems about the module each is named after, see *Proofs*. |
| `PageListsProofs` | the theorems about the lists of the pages: `WalletViews` and `SwapFeed`. |
| `MCSwapEngine`, `MCSwapExecution`, `MCSwapDesk` | symmetry sets and presets for TLC. |

The modules meet in the core: `SwapDesk` takes a commit as one step, whose own
steps are in `SwapExecution`, which takes a transition as one step, whose own
statements are in `SwapEngine`. `SwapFeed` takes the list as its version, that is
the number of events in the log that `SwapTimeline` has in full. `NodeSupervisor`
stands by itself: nothing else of the core acts on the nodes' processes.

State of `SwapExecution` and where it is in the code:

| variable | code |
|---|---|
| `row` | the row in `swaps`: `state`, `version`, `locked_intent` (absent, the quote, or with the details of provider swap *p*), `boltz_id`, `boltz_status`, `timeout_block_height`, whether `refund_txid` is set |
| `ops` | keys in `swap_ops` |
| `client[c]` | how far a handler has come, the provider swap it holds the answer of, the intent it is about to store, the version it will expect |
| `watcher` | how far `reconcileSwap` has come, its copy `s`, the height and status of the pass, the rest of the path |
| `cached` | `Watcher.currentHeight`, 0 until fetched |
| `height`, `provider`, `refund` | the chain, the provider's swaps, the refund transaction: outside the code |

Every database statement, transaction and external call is an action of its
own. The watcher's reads are merged with the step that uses them where nobody
writes what they read depending on the watcher: operation keys, which only grow,
and the details of the intent. A handler's read of the intent is a step apart
from its write (`CommitReadIntent`, `CommitPersistDetails`), since another handler
may write in between.
An external call that fails is an alternative; one whose answer is lost is the
call followed by `Abort`, `Crash`, or the failure's continuation.

Abstractions of `SwapExecution`, each erring on the side of more behaviours:

* Operation keys are kept by what recorded them and the state they were decided
  in. The code's keys also carry status, height and flags, so the code finds
  "already done" less often than the model; `RecordedMeansDone` shows that even
  the coarse keys are never found in the state they would block.
* A refund transaction can be had as soon as there is a lockup to spend; whether
  it was built locally or came from the provider is not distinguished. The node
  takes it from the timelock on while the lockup is unspent.
* An answer to `Create` holds details or not, all of them together (`reverse_`,
  `lockup_` and `claim_details`), and a timeout or not: `provider[p].details` and
  `.timeout` say what the answer held, and `Answers` which answers there are.
  Boltz's pointers may be nil (`boltz/types.go:174`), and the mock answers without
  details and with the quote's number of blocks as timeout
  (`mock.go:109`), which the row holds already and the model takes for none. What
  an answer lacks leaves the row as it is (`swap_service.go:388`, `425-433`).
* Claims are taken by the provider or not; keys, nonces and signatures are data.
* The process restart performs an initial pass, which is the watcher's ordinary
  pass with `cached = 0`.

State of `DesktopSession` and where it is in the code:

| variable | code |
|---|---|
| `blob`, `failed`, `lockedUntil` | tables `vault` and `vault_lockout`; a lockout is none, ahead, or elapsed |
| `session`, `stale` | `Vault.sessionID` (numbered in order of issue), and whether `sessionTTL` has passed since it was last used |
| `vaultUnlocked`, `sessionToken`, `watching` | `electron/main.ts` |
| `status`, `sessionId`, `mnemonic` | the Zustand store |
| `page`, `due`, `feed` | the route, a guard that has to call `checkStatus`, a subscription of the page |
| `calls` | one slot per kind of call: where it is, the token it carries, its answer, who waits |

The completion of a handler in the shell and the continuation of its `await` in
the page are one step: replies travel from one to the other in order, and
nothing the shell reads is written by the page in between. The bearer of the
development build (`DEV_API_AUTH_BEARER`) is no session and is left out.

In `SwapTimeline` each run of the hook's effect is an instance of its own, since
a disposed one may still open its stream and hand events on. In `WalletViews` a
list is the chain it belongs to, who asked for it, and whether the newest
request brought it; handlers that wait for the same thing on the same page do the
same, so a set of them is enough. In `NodeSupervisor` `lc` is the
`nodeLifecycleState`, `proc` the processes that were started (`told`: the signal to
end was sent, or tried, since `StopNode` ignores its error and Windows does not
deliver `os.Interrupt`; `gone` when `Wait` has returned but its goroutine has not
the lock yet; `orphan` when the core that started it has ended), `looked` the
supervisor between `RUnlock` and the second `Lock`; times are ages and remainders
in ticks of the supervisor, so no clock has to be bounded. In `SwapDesk` a field is
whether it is filled in; `clicks` and `locked` are history; and the refetch after an
"Advance" succeeds, as the list is not what its properties are about.

## 3. Runs

| run | what it asks | bounds |
|---|---|---|
| `swap_engine` | all properties of the engine, with its refinement | 3 callers, 1 swap. Rows do not interact, so one is enough; with three callers one can move a swap while the other two hold copies of different ages. All 14 states and all versions up to the longest walk are reached, no bound is needed: the table has no cycle. |
| `exec_chain` | the properties of the execution of a chain swap, its refinement, and `SettledIsClosed` under fairness | 1 handler (its requests are arbitrary and repeated), 1 provider swap, heights 2 to 4, provider timeout 4, `ApproachBlocks` 1: there is a height before the timeout approaches, one at which it approaches and one at which it is reached, and the first height known may be any of them. The quote's own timeout, 1, is below every height, as 144 is. The provider's answer is Boltz's, complete, or has neither details nor timeout (`BoltzOrMock`); the swap it stands for is then never walked on by a status that asks for a signature, and has no refund to build. |
| `exec_commit_race` | two handlers that may each create a provider swap | 2 handlers, 2 provider swaps, reverse, answers as in `exec_chain`, in any mix. The height plays no part in the commit: the constraint `HeightUnknown` leaves out the passes of a watcher that has fetched it. |
| `exec_submarine` | `CommittedSubmarineEnds` | 1 handler |
| `desktop_session` | the session from PIN to lock | one wrong PIN locks for a while, two for good (the code's 5 and 10, `MaxFailedAttempts` and `PermanentLockout`, with one step of each kind left); 2 sessions, so that one may replace, outlive or be taken for another; 2 calls in flight |
| `swap_timeline` | one list, four writers | 2 swaps, 2 events, 2 runs of the effect (one may be disposed while it fetches), 3 requests in flight: both fetches of a selection, and one of before |
| `swap_feed` | both feeds of the list | 3 versions (two changes, so that an answer can be overtaken), 2 calls of a kind |
| `wallet_views` | lists and handlers | one change of tab, 2 handlers, 4 requests: the three of a tab and one more |
| `swap_desk` | from the form to the row | a preset of each kind, the chain swap in its unusual direction; 2 swaps, 2 calls of "Advance" |
| `node_supervisor` | processes and restarts of a node | 2 callers and 2 processes at a time, so that a restart can overlap another call and an old process its successor; 2 attempts (the code's 5), backoffs of 1 and 2 ticks, a window of 4: the backoffs end within the window, as the code's do, with one tick to spare |
| `exec_refund_ends`, `desktop_backup` | statements of the documents that the code does not keep, one each | as above |

Deadlock is checked in all of them.

### Properties

Engine (`SwapEngine`):

* `LogReplaysToRow`: row and audit log agree, version by version.
* `HandlesAreHistory`: a caller never holds a state the swap was not in at that
  version, although `Transition` reads back after its commit.
* `IntentOnceLocked`: past open, a swap that was not canceled has its intent.
* `NoBlindTransition`: a move leaves the very state its caller had read.
* `OneWinnerPerVersion`: of the callers that decided on one version of a swap at
  most one gets its transition through.
* `ImplementsLifecycle`: refinement of `SwapLifecycle`.

Execution (`SwapExecution`):

* `CommittedSwapIsBacked`: across retries, crashes, concurrent commits and the
  watcher moving the swap meanwhile, a committed swap has the id of a swap the
  provider made, that swap's timeout if the answer held one, and details unless
  some answer lacked them. (With the mock a committed swap has no details: the
  watcher expects that, `watcher.go:353`.)
* `RecordedMeansDone`: no operation key is found before its operation is done; the
  key of the commit is found only with the swap backed, in the same sense.
* `RefundWaitsForTimelock`: despite old copies of height and timeout no refund
  is tried before the timelock of a provider that gives its timeouts. Without
  one, the quote's number of blocks stays in the column, and every height is past
  it: what then keeps a refund waiting is the node, which refuses it.
* `NoRebroadcastOnceStored`: a stored refund txid stops broadcasts, also those
  of a pass that works on an old copy.
* `RefundCompletesOnEvidence`: out of refunding, a swap completes only once its
  refund was on chain.
* `ClaimOnlyWhenSigning`: no claim is posted for a swap that has not reached the
  signing state, or was canceled.
* `SettledIsClosed`, `CommittedSubmarineEnds`: see *Fairness*.
* `ImplementsLifecycle`: refinement of `SwapLifecycle`.

Desktop (`DesktopSession`):

* `UnlockedNeedsPin`: no late answer of `checkStatus` opens the wallet for a page
  that did not see the PIN accepted.
* `WrongPinsBounded`: between two right PINs at most `PermanentLockout` wrong
  ones are ever tried, over restarts, elapsed lockouts and clients.
* `EndedSessionsDoNothing`: a request whose session was locked, replaced, lost or
  idle too long does no work, however late it arrives.
* `LockOkMeansDead`: a lock that was answered with success has ended its session
  in the core and left no token in the shell.
* `DeadSessionIsNoticed`: a shell that watches does not keep a dead token.

Renderer:

* `StreamSkipsNothing`, `EventsArrive` (`SwapTimeline`): the stream leaves no
  gap; events arrive while the user stays on a swap.
* `ChangeIsShown`, `ChangeIsAskedFor` (`SwapFeed`): a list the shell has not
  published reaches the page despite overtaking polls; the browser asks for every
  change, by stream or poll.
* `NewestAnswerWins`, `OtherChainOnlyByHandler` (`WalletViews`):
  what the request numbers of the hooks guarantee, and exactly where the chain of
  the other tab can come from.
* `ContractKept`, `OneStepPerClick`, `SpinnerIsHonest` (`SwapDesk`): a complete
  form is refused by nobody and becomes the swap it describes; nothing is
  committed by fewer clicks than it takes; what is shown as advancing is.

Nodes (`NodeSupervisor`):

* `NoProcessIsLost`: whatever calls and supervisor do at once, a running process
  is the one in the record, was told to end, or is about to be told.
* `AttemptsAreCounted`: no attempt to start escapes the count that ends in
  `ERROR_HARD`, not even one whose process was replaced before it was reaped.
* `WantedNodeRuns`: a wanted node comes up or is given up for good. It holds
  because the backoffs, the last one included, end within the window
  (`BackoffsFitWindow`, an assumption the code's values satisfy with 62 seconds of
  300); with a window of 5 ticks and three attempts TLC finds a node that is
  tried for ever.

### Statements the code does not keep

The first two are runs; the others are stated in the modules, and a
configuration beside them lets TLC show the counterexample.

* *In refunding only the chain decides*
  (`docs/STATUS_ESPECIFICACAO_XS_WALLET.md:56`): the rule looks at the state
  before the walk; the walk for `swap.expired` itself goes through refunding to
  failed (`RefundEndsOnEvidence`).
* *Words are confirmed before the setup is complete*
  (`docs/XS_Wallet_Frontend_Fluxo_Completo.html:222`): creating the wallet makes
  the store unlocked, and `PublicRoute` sends an unlocked wallet from every
  onboarding page to `/`: the words are not even shown (`BackedUpBeforeUse`).
* *A card has all it takes to operate*
  (`docs/XS_Wallet_Frontend_SwapCenter_Plano_PRs.html:261`): the list of swaps
  comes without chains and addresses, and the bridge fills in the chains usual
  for the kind: Liquid to Bitcoin is shown as Bitcoin to Liquid
  (`CardShowsTheSwap`, `DeskCards.cfg`).
* *Re-execution duplicates nothing* (`docs/XS_Wallet_Checklist_E2E_Swap.html:272`):
  a commit cut off after `provider.Create` creates a second provider swap when
  retried (`OneProviderSwap`,
  `ExecOneProviderSwap.cfg`). The second request carries the same preimage hash.
  The repository does not say whether the provider refuses it; the mock does not.
  Were it refused, the commit could never be completed.
* *Parameters locked, intent immutable*
  (`docs/XS_Wallet_Especificacao_Tecnica_v2.html:801`): a commit that lost the
  race overwrites the backing of the committed swap (`BackingIsFinal`,
  `ExecBackingIsFinal.cfg`). The
  new backing is a swap the provider made, too: `CommittedSwapIsBacked` holds. But
  details can get lost: a handler whose answer had none stores the intent as it
  read it, over details another one stored in between (`DetailsAreKept`,
  `ExecDetailsKept.cfg`); it takes a provider whose answers differ in that.
* *Refunding closes by on-chain evidence*
  (`docs/XS_Wallet_Gate_E2E_Real_Testnet.html:165`): a swap that the walk left in
  refunding without a broadcast, or whose stored txid the node had refused,
  stays there (`RefundingCloses`,
  `ExecRefundingCloses.cfg`).
* *The log permits replay* (`docs/XS_Wallet_Especificacao_Tecnica_v2.html:612`):
  the creation is logged apart from the row (`AuditStartsWithCreate`,
  `EngineAudit.cfg`).
* *144 blocks for the user* (`core/internal/boltz/boltz.go:148`): the number is
  stored in a column compared with heights (`SubmarineIsGivenItsBlocks`,
  `ExecSubmarineTimeout.cfg`).
* *Lock invalidates the session*
  (`docs/XS_Wallet_PreBeta_Plano_Executavel_v1.1.html:232`): the store ignores an
  error of the call and shows the wallet as locked while the core keeps the
  session until it is idle too long (`LockEndsSession`, `DesktopLock.cfg`).
* *A timeline per swap* (`docs/STATUS_ESPECIFICACAO_XS_WALLET.md:107`): answers
  for the swap selected before are still merged, and the button itself asks for
  that swap's events (`TimelineOfOneSwap`, `TimelineOneSwap.cfg`).
* *No cross-chain bleed* (`frontend/src/services/hooks.ts:163`): the refetch of a
  handler is that of the render it was clicked in, and as the newest request it
  wins: after a change of tab the list is of the other chain
  (`ListIsOfActiveChain`, `ViewsActiveChain.cfg`).
* *Manual reset required* (`core/internal/server/services.go:937`): a hard error set
  while a process runs (by the supervisor that did not find the binary, or by the
  exits of old processes) is turned into a transient one by that process's own
  exit (`HardNeedsReset`, `NodeHardNeedsReset.cfg`).
* That a stopped node stays stopped (`OnlyCallersStart`, `NodeOnlyCallersStart.cfg`):
  the supervisor that looked before the stop sets `desiredRunning` again after it.
  That a node has one process (`OneProcess`, `NodeOneProcess.cfg`): `RestartNode`
  starts the new one without waiting for the old one. No document says either.
* That a page which watches the swaps gets a list: a subscription that outlived
  its page is taken for the next page's, and an unchanged list is not sent again
  (`ListArrives`, `FeedListArrives.cfg`). No document says so.

### Seen while modelling

* `stateToProto` (`internal/server/swap_service.go:735`) knows 7 of the 14
  states; the bridge turns the rest into `open`. `GetSwap`, which follows every
  stream event, so shows a refunding swap as open, while `ListSwaps` names all.
* "Advance" does what the state it reads needs, not what the user saw. A swap
  left open without its intent by a cut-off creation can never be locked, and no
  route of the bridge cancels it.
* A restart of the core leaves its nodes running: `Close` ends the supervisor
  only, and the next `StartNode` starts a second process beside the first.
* Every `RestartNode` costs one of the five attempts: the exit of the old process
  comes after the stop that cleared the window.
* A 401 clears the shell's token whichever token it refused: a late answer of an
  old session ends a new one (the user is asked for the PIN again).
* `wallet.getBalances` answers zeros when the bridge fails, and balances are not
  fetched again after a send; a send whose answer was lost may be sent again.
* A browser event whose swap could not be fetched is not asked for again before
  the next one.

### Fairness

`FairSpec` assumes that the server eventually stops crashing (`<>[][~Crash]_vars`:
no property of this kind can hold for a server that never stays up), that the
watcher takes its next step (`swapLoop` runs on a ticker until the process ends,
and every pass ends) and refreshes the height, and that the provider and the
node, asked again and again, answer now and then (strong fairness of
`WatcherFetch` and of `WatcherAct(TRUE)`). Nothing is assumed of handlers, the
user, the provider's progress, blocks or the refund's confirmation.

`DesktopFairness`: effects run; every awaited call ends (the shell's fetch times
out after 120 s) and its continuation runs; the poll's timer ticks, with strong
fairness only because the model bounds the calls in flight; and a bridge asked
for ever is not down every time. `Fairness` of `SwapTimeline` and `SwapFeed`:
timers tick, reconnection timers fire, answers are taken, and of calls repeated
for ever one is served. Nothing is assumed of the user, of new events, of drops.
`Fairness` of `NodeSupervisor`: the ticker runs, a pass ends (and takes less than
a tick), and a goroutine that waits for the mutex gets it. Nothing is assumed of
the callers, of exits, or of a start's success.

## 4. Proofs

Every safety property a run checks, type invariants and refinements included, is
a theorem for every value of the constants. Further theorems say what follows
from the same inductive invariants and no run asks (in italics below). The theorems:

| module | for any | properties proved |
|---|---|---|
| `SwapEngineProofs` | swaps, callers | `SpecTypeOK`, `SpecLogReplaysToRow`, `SpecHandlesAreHistory`, `SpecIntentOnceLocked`, `SpecNoBlindTransition`, `SpecOneWinnerPerVersion`, `SpecImplementsLifecycle`; *`SpecHistoryIsAWalk`, `SpecHistoryIsShort`, `SpecEndedCopiesAreCurrent`, `SpecTerminalIsFinal`* |
| `SwapExecutionProofs` | handlers, provider swaps, heights, timeouts, kind of the swap, answers of the provider | `TypeCorrect`, `CommittedIsBacked`, `RecordedIsDone`, `RefundsWait`, `StoredRefundIsNotRepeated`, `ClaimsOnlyWhenSigning`, `RefundsCompleteOnEvidence`, `ExecutionImplementsLifecycle`; *`SwapsAreShort`, `EndsAreFinal`, `RefundsAreOfClosingSwaps`, `BackingIsMade`, `ClaimsAreAsRecorded`, `ClaimsMoveWithTheProvider`, `WhatTheEngineTakes`* |
| `DesktopSessionProofs` | limits of the lockout, sessions, call slots | `DesktopTypeCorrect`, `UnlockedOnlyByPin`, `WrongPinsAreBounded`, `DeadSessionsAreRefused`, `LockedIsLocked` |
| `SwapTimelineProofs` | swaps, events, runs of the effect, requests | `TypeCorrect`, `NothingIsSkipped` |
| `PageListsProofs` | changes of tab, handlers, requests; versions of the list, calls of a kind | `ViewsTypeCorrect`, `NewestDecides`, `OtherChainFromHandlers`; `FeedTypeCorrect`, *`ShownPageHasAFeed`, `WaitingPageIsServed`* |
| `SwapDeskProofs` | sets of routes, swaps, calls of "Advance" | `TypeCorrect`, `Contract`, `Spinner`, `StepsArePaid`; *`DeskRefinesLifecycle`* |
| `NodeSupervisorProofs` | callers, processes, window, limit and backoffs | `TypeCorrect`, `ProcessesAreKept`, `NoAttemptEscapes` |
| `SwapStatesProofs` | states of the table | `WalksAreShort`, `PathIsShortestWalk`; *`PathWhereThereIsOne`, `AnEndIsInReach`* |

Each proof of an invariant has three parts: an inductive invariant (`IInv`, or
`ViewsInv` and `FeedInv` for the lists; TLC checked each on a run's instance), the
facts that `Init` establishes it and that each action keeps it, and the property
as a consequence.
An action property, and a step of a refinement, is shown of one step from a
state of `IInv`. The theorems that fairness plays no part in are about the
specification without it, or leave it unused. TLC found no
counterexample to the further theorems either, on instances like those of the runs.

### What the inductive invariants say, and why they are needed

*Engine.* `IInv` is the conjunction of the four invariants with
two more. `BusyCallersHoldCopies` (past "idle" a caller holds a copy of a swap
that exists) lets a transition speak of the row it changes. `UninsertedIsBlank`
(an id not yet inserted is open at version 0) is what makes the copy a `Create`
returns, and the refinement's step `Appear`, right. The central case is
`CommitPreservesIInv`: the append to the log leaves every earlier version's
state as it was, so copies that were history remain history, and the last entry
is the row's new state. `IntentOnceLocked` needs that a swap only fails from a
state that itself needs an intent (`FailureIsLate`), because the table's CHECK
alone would let a failed swap go without.

`OneWinnerPerVersion` is inductive with `WinnersAreBehind`: a caller past its
commit holds a copy older than the row, so the next caller to pass the comparison
read a later version.

Since the log replays to the row and each entry is a move of the table, the log is
a walk of it (`SpecHistoryIsAWalk`), and what is known of walks holds for swaps:
ten moves at most, never back to open (`SpecHistoryIsShort`), and no move out of
an end, so that a copy of an ended swap is as good as its row
(`SpecEndedCopiesAreCurrent`, `SpecTerminalIsFinal`).

*Table.* The paths of the watcher are walks of a graph without cycles: `Rank`
gives each state a number that every move of the table raises, so a walk is no
longer than `LongestWalk` (`WalksAreShort`) and `TransitionPath` is a shortest
one (`PathIsShortestWalk`). Both proofs go through the lengths one by one, since
no induction over data is to be had. The execution needs one more fact about
paths: none completes a swap right after refunding, since where that walk exists a
shorter one completes it before (`PathsDoNotCompleteRefunds`). That a walk exists
at all (`Reaches`) is shown by giving it; so there is a path out of every state to
an end (`AnEndIsInReach`), and `findTransitionPath` finds it
(`PathWhereThereIsOne`).

*Execution.* `IInv` says of every place in the code what an assertion there would:
`RowInv` and `ClientInv` what a handler between two of its writes may rely on
whatever the watcher and other handlers did (`recording` is reached with the
provider's answer stored, `starting` with the swap backed, and a handler that
is about to store an intent stores one that exists), `OpsInv`
that a key recorded for a state is found only with the row beyond that state,
and `WatcherInv` how the copy of the watcher's pass relates to the row (its
version is at most the row's, and at equal versions the states are equal), what
is left of a path, and what was decided. With `Rank` that makes every decision on
an old copy either right or refused. The timelock property holds because the
copies err on the late side: `watcher.h <= height`, and, while every answer gave
its timeout, that of a copy with a provider id is the provider's, or none. What an
answer held never changes, and an answer that lacks something ends "every answer
gave it" for good: so `Backed` survives any mix of answers. Details are there
once one handler has stored them and every answer had them, since what another
handler stores over them then has details, too.

Four invariants stand on top of `IInv`, each inductive with it alone. `BackingInv`: what
the wallet takes for a swap of the provider (in the intent, the row, the
watcher's copy, the hands of a handler) the provider has made, because an id
travels only from its answer on and nothing there is unmade; and details are only
of swaps whose answer had them. `ClaimInv`: behind a
claim in the pass, and once its key is recorded, the provider holds a claim, and
it holds one only of a swap past signing, where no move leads back. `RefundInv`
says the same of refunds and the states from the fallback script on. `MoveInv`
says of a decision about a swap whose claim is under way that it is to end it or
to fall back.

With that the proofs show something of the code that the runs do not ask.
`NextAction` would end, or let fall back, a swap in `waiting_claim_details`,
`signing_musig2_partial` or `sent_partial_to_provider`
(`internal/swap/reconcile.go:87`), and end one in `waiting`. The watcher tries each
as one transition, the table has none of them, and the engine refuses
(`WhatTheEngineTakes`): although a path exists, the timeout that approaches does
not move such a swap. It waits for the provider's status or its claim
(`ClaimsMoveWithTheProvider`), and a fallback before that is not to be had.

*Desktop.* `UnlockedNeedsPin` is inductive only with what the calls in flight
carry: an answer that opens the store comes with a session, and an accepted lock
was of a dead one (`CallOK`). `WrongPinsBounded` follows from `tried <= failed`:
no wrong PIN goes uncounted, and the count is reset only with the history.

*Timeline.* `Gapless` says of an answer that it has every event between the one
it was asked after and its last. A poll asks from where the stream stands or
stood (`r.after <= effects[r.by].seq`), and the one step that may set a stream
back, `OpenStream`, comes before there are polls: the first fetch is in flight
only while the source is "none", and it is the only one of its effect. This is
why the stream that a disposed effect opens leaves no gap in the current one.

*Feed of the swaps.* `PageHasAFeed` needs that no feed runs for a page that is not
there (`NoOtherFeed`), save the shell's subscription that outlives its page. A
page of the browser that waits has exactly its first poll under way (`CallsOK`):
an answer for a page before it is dropped with that page.

*Wallet views.* Of each list at most one request is the newest, a list waits
exactly while that request is under way, and the newest request of the page is
for the chosen chain.

*Swap desk.* A version counts the moves of its swap (`TableInv`), so a call that
read "open" can only lock. `ClicksInv` pays for each move: a call that may still
move a swap has a click of its own, beside the one that locked it. The contract
is the lemma `RouteIsUnderstood`: for each route between two different chains the
three validators and the two derivations of the kind agree. Rows not yet inserted
count as swaps that have not appeared, and with that each step of the desk is
a step of the lifecycle or none (`DeskRefinesLifecycle`): the page adds no
move to the engine's.

*Nodes.* `CountInv` is about ages, not about numbers alone: at every age there
are at most as many attempts younger than it as failures younger than it and
processes still to be reaped (`Covers`), because the window forgets by age.
`ProcessInv` says that a process between being dropped from the record and being
told is in the hands of exactly the `StopNode` that dropped it.

### Assumptions

Besides that bounds are natural numbers and model values are distinct:

* `SwapExecution`: the first height is at most the last; heights, the quote's
  number of blocks and the provider's timelock are positive. That an answer gives
  the timelock, or details, is not assumed: where a property needs it, it says so
  (`TimeoutsGiven`, `DetailsGiven`).
* `Vault`: a lockout for a while comes no later than the one for good.
* `SwapDesk`: a route is between two different chains, as the presets are.
* `NodeSupervisor`: finitely many processes at a time, and `BackoffIsCapped`: a
  backoff is a number up to the largest. `Backoff` is defined with a power of two,
  as `computeBackoff` is with a shift, and the provers know no powers; TLC
  evaluates the assumption for the run's values. `BackoffsFitWindow` is used by
  the liveness property only.
* `SwapEngine`: `NoHandle` is not a copy of a swap, and `NotLogged` not a position.
* No proof uses `PathsAreUnique` (`SwapStates`): any choice among shortest paths
  would do.

### What stays with TLC

* Liveness (`SettledIsClosed`, `CommittedSubmarineEnds`, `DeadSessionIsNoticed`,
  `EventsArrive`, `ChangeIsShown`, `ChangeIsAskedFor`, `WantedNodeRuns`): out of
  the prover's reach, as everything with `ENABLED` is.
* That shortest paths never tie (`PathsAreUnique`): a fact about all walks, which
  the provers would need induction for and TLC computes.
* The tables of `BoltzStatus` and `Reconciliation` are used in proofs by their
  definitions; that they are total is part of `TypeCorrect`.

Two definitions are written for the provers. `Pruned` (`NodeSupervisor`) cuts the
window at its first recent entry, as entries are appended in the order of time,
where `pruneRestartWindow` filters them one by one. And a record that changes in
several fields is written as one new record.

## 5. Plan

1. *(done)* `SwapStates`, `SwapLifecycle`, `SwapEngine` with its proofs;
   `BoltzStatus`, `Reconciliation`, `SwapExecution`.
2. *(done)* `Vault` and `DesktopSession`; `SwapTimeline`, `SwapFeed`,
   `WalletViews`, `SwapDesk`; `NodeSupervisor`.
3. *(done)* Theorems: the safety properties of all modules, with the refinement
   of the lifecycle by the engine, by the execution and by the Swap Center.
4. `SubmarineFunding`: `SubmarineOrchestrator.Commit` with coin reservations and
   its recovery from `raw_funding_tx`, beside the wallet's own sends.
5. `LockedIntentWrites`: the watcher's own reads and writes of `locked_intent`
   (artifacts of refund and claim), in their halves, beside those of the handlers;
   `ProviderSocket`: reconnection and gap recovery of the WebSocket client.

## 6. Not modelled, and why

* Key derivation, encryption, address and transaction construction: pure
  functions over cryptographic data.
* Quotes, listings and streams: they read, or write rows nothing else reads
  concurrently.
* Configuration and wiring, containers and scripts.
* What is drawn: the component libraries, the dashboard and network pages, and
  the layout of the modelled pages. This is the larger part of the TypeScript;
  it has no state but what the modelled hooks hold.
* The developer dashboard: it has no session, so every protected call it makes is
  refused; it calls the routes that are modelled for the product.
* Routes of the bridge, channels of the shell and hooks that forward one read
  (node statuses, LND, Bitcoin information, explorer, capabilities, health): no state
  depends on them.
* Database errors: an error ends the request like `Abort`.
