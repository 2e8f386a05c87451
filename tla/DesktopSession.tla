--------------------------- MODULE DesktopSession ---------------------------
(***************************************************************************)
(* The session of the desktop wallet, from the PIN to the vault and back:  *)
(* the renderer (its Zustand store, its route guards and its pages), the   *)
(* Electron main process that alone holds the session token, the HTTP      *)
(* bridge, and the vault of the core (module Vault).                       *)
(*                                                                         *)
(* A call of the renderer is checked by invokeChannel, then the main       *)
(* process sends an HTTP request with the token it holds AT THAT MOMENT    *)
(* and awaits.  Requests of different channels are in flight together and  *)
(* their answers come back in any order; an answer may be lost after the   *)
(* core has done the work.  One step completes the handler in the main     *)
(* process and the continuation in the renderer: replies travel from one   *)
(* to the other in order, and nothing of the renderer that the main        *)
(* process reads is written between the two.                               *)
(*                                                                         *)
(* The slots are kinds of call: the store's checkStatus, the forms (unlock,*)
(* create, lock: each disables itself while it waits), a protected call,   *)
(* the swap poll of the main process, and the form call of a page that was *)
(* reloaded while it waited.                                               *)
(***************************************************************************)
EXTENDS Vault, FiniteSets

CONSTANT MaxInFlight     \* bound of the model: calls in flight at once

VARIABLES vaultUnlocked,  \* main: what requiresUnlocked is checked against
          sessionToken,   \* main: the token sent with every request, 0 for null
          watching,       \* main: swapWatchSubscribers is not empty, its timer runs
          status,         \* store: status
          sessionId,      \* store: sessionId, 0 for null
          mnemonic,       \* store: the words of a wallet just created are kept
          page,           \* router: the page shown
          due,            \* renderer: a guard mounted and has to call checkStatus
          feed,           \* renderer: a mounted page subscribed to the swap feed
          calls           \* the calls in flight

mainVars == <<vaultUnlocked, sessionToken, watching>>
storeVars == <<status, sessionId, mnemonic>>
viewVars == <<page, due, feed>>
desktopVars == <<vaultVars, mainVars, storeVars, viewVars, calls>>

Slots == {"check", "form", "work", "poll", "orphan"}
PublicPages == {"onboarding", "mnemonic", "confirm", "unlock"}
Pages == PublicPages \cup {"app"}

Forms == {"generate", "right pin", "wrong pin", "lock"}
Ops == Forms \cup {"status", "work", "poll"}
Answers == {"ok", "wrong", "refused", "error", "unauth", "down",
            "not_initialized", "locked", "unlocked", "locked_out"}

NoCall == [at |-> "idle", op |-> "none", tok |-> 0, ans |-> "none", sid |-> 0,
           waits |-> "nobody"]

DesktopTypeOK ==
    /\ VaultTypeOK
    /\ vaultUnlocked \in BOOLEAN
    /\ sessionToken \in Sessions \cup {0}
    /\ watching \in BOOLEAN
    /\ status \in {"loading", "not_initialized", "locked", "unlocked", "locked_out"}
    /\ sessionId \in Sessions \cup {0}
    /\ mnemonic \in BOOLEAN
    /\ page \in Pages
    /\ due \in BOOLEAN
    /\ feed \in BOOLEAN
    /\ calls \in [Slots -> [at : {"idle", "sent", "answered"},
                            op : Ops \cup {"none"},
                            tok : Sessions \cup {0},
                            ans : Answers \cup {"none"},
                            sid : Sessions \cup {0},
                            waits : {"renderer", "main", "nobody"}]]

DesktopInit ==
    /\ VaultInit
    /\ vaultUnlocked = FALSE /\ sessionToken = 0 /\ watching = FALSE
    /\ status = "loading" /\ sessionId = 0 /\ mnemonic = FALSE
    /\ page = "app" /\ due = TRUE /\ feed = FALSE
    /\ calls = [s \in Slots |-> NoCall]

-----------------------------------------------------------------------------
(* The renderer: route guards, pages and what the user does on them.        *)

(* Where the effects of AuthGuard, PublicRoute, UnlockScreen and            *)
(* OnboardingWelcome send the user.                                         *)
Target(p, st) ==
    IF p \in PublicPages
    THEN IF st = "unlocked" THEN "app"
         ELSE IF p = "unlock" /\ st = "not_initialized" THEN "onboarding" ELSE p
    ELSE IF st = "not_initialized" THEN "onboarding"
         ELSE IF st \in {"locked", "locked_out"} THEN "unlock" ELSE p

(* A guard of another kind, UnlockScreen and OnboardingWelcome call         *)
(* checkStatus when they are mounted.                                       *)
Mounts(p, q) ==
    p # q /\ (q \in {"app", "unlock", "onboarding"} \/ p = "app")

GoTo(q) == /\ page' = q
           /\ due' = (due \/ Mounts(page, q))

FeedShown == page = "app" /\ status = "unlocked"

(* Effects run before the user can act again.                               *)
Settled == /\ status # "loading"
           /\ Target(page, status) = page
           /\ feed => FeedShown

Redirect ==
    /\ status # "loading"
    /\ Target(page, status) # page
    /\ GoTo(Target(page, status))
    /\ UNCHANGED <<vaultVars, mainVars, storeVars, feed, calls>>

Send(s, op, who) ==
    /\ calls[s] = NoCall
    /\ Cardinality({r \in Slots : calls[r] # NoCall}) < MaxInFlight
    /\ calls' = [calls EXCEPT ![s] =
                    [NoCall EXCEPT !.at = "sent", !.op = op,
                                   !.tok = sessionToken, !.waits = who]]

CheckStatus ==
    /\ due
    /\ due' = FALSE
    /\ Send("check", "status", "renderer")
    /\ UNCHANGED <<vaultVars, mainVars, storeVars, page, feed>>

Ask(op) ==
    /\ Settled
    /\ Send("form", op, "renderer")
    /\ UNCHANGED <<vaultVars, mainVars, storeVars, viewVars>>

ClickCreate == page = "onboarding" /\ Ask("generate")
EnterPin(op) == page = "unlock" /\ Ask(op)
ClickLock == page = "app" /\ Ask("lock")

(* The words of the new wallet, then the words asked back.                  *)
ContinueToConfirm ==
    /\ Settled
    /\ page = "mnemonic"
    /\ GoTo("confirm")
    /\ UNCHANGED <<vaultVars, mainVars, storeVars, feed, calls>>

CompleteSetup ==
    /\ Settled
    /\ page = "confirm"
    /\ mnemonic' = FALSE
    /\ GoTo("app")
    /\ UNCHANGED <<vaultVars, mainVars, status, sessionId, feed, calls>>

(* Any protected channel; a call of a locked shell is refused at once.      *)
DoWork ==
    /\ Settled
    /\ page = "app"
    /\ vaultUnlocked
    /\ Send("work", "work", "renderer")
    /\ UNCHANGED <<vaultVars, mainVars, storeVars, viewVars>>

(* swap.watchAll is protected too: a page that leaves after the lock is     *)
(* refused, and its subscription stays.                                     *)
SubscribeFeed ==
    /\ Settled
    /\ FeedShown
    /\ ~feed
    /\ vaultUnlocked
    /\ feed' = TRUE
    /\ watching' = TRUE
    /\ UNCHANGED <<vaultVars, vaultUnlocked, sessionToken, storeVars, page, due, calls>>

UnsubscribeFeed ==
    /\ feed
    /\ feed' = FALSE
    /\ watching' = IF vaultUnlocked THEN FALSE ELSE watching
    /\ UNCHANGED <<vaultVars, vaultUnlocked, sessionToken, storeVars, page, due, calls>>

-----------------------------------------------------------------------------
(* The bridge and the core.                                                 *)

AnswerTo(c) ==
    CASE c.op = "status" -> VaultStatus
      [] c.op = "generate" -> InitializeAnswer
      [] c.op = "right pin" -> UnlockAnswer(TRUE)
      [] c.op = "wrong pin" -> UnlockAnswer(FALSE)
      [] OTHER -> SessionAnswer(c.tok)

EffectOf(c) ==
    CASE c.op = "status" -> UNCHANGED vaultVars
      [] c.op = "generate" -> Initialize
      [] c.op = "right pin" -> Unlock(TRUE)
      [] c.op = "wrong pin" -> Unlock(FALSE)
      [] c.op = "lock" -> LockVault(c.tok)
      [] OTHER -> RequireSession(c.tok)

Opens(c) == c.op \in {"generate", "right pin"} /\ c.ans = "ok"

(* What the main process gets back; nobody waits after its restart.         *)
Return(s, ans) ==
    LET back == [calls[s] EXCEPT !.at = "answered", !.ans = ans]
    IN  calls' = [calls EXCEPT ![s] =
                     IF back.waits = "nobody" THEN NoCall
                     ELSE [back EXCEPT !.sid = IF Opens(back) THEN session' ELSE 0]]

(* The core serves the request; its answer may still be lost on the way.    *)
CoreServes(s, lost) ==
    /\ calls[s].at = "sent"
    /\ EffectOf(calls[s])
    /\ Return(s, IF lost THEN "down" ELSE AnswerTo(calls[s]))
    /\ UNCHANGED <<mainVars, storeVars, viewVars>>

BridgeDown(s) ==
    /\ calls[s].at = "sent"
    /\ UNCHANGED <<vaultVars, mainVars, storeVars, viewVars>>
    /\ Return(s, "down")

(* A fetch ends, in an answer or in its timeout of 120 s.                   *)
Answered(s) == BridgeDown(s) \/ \E lost \in BOOLEAN : CoreServes(s, lost)

-----------------------------------------------------------------------------
(* The answer, in the main process and in the renderer.                     *)

(* Mutant: a refused token is kept.                                          *)
ForgetsAnswersOnly(c) ==
    \/ c.op = "status" /\ c.ans \in {"not_initialized", "locked", "locked_out"}
    \/ c.ans \in {"wrong", "refused"}
    \/ c.op = "lock" /\ c.ans = "ok"

(* Mutant: the handler of wallet.lock leaves the token in the shell.         *)
ForgetsButNotOnLock(c) ==
    \/ c.ans = "unauth"
    \/ c.op = "status" /\ c.ans \notin {"unlocked", "down"}
    \/ c.ans \in {"wrong", "refused"}

(* callApiBridge forgets the session on every 401, whatever token it sent;  *)
(* the handlers forget it on what else tells them that the vault is closed. *)
Forgets(c) ==
    \/ c.ans = "unauth"
    \/ c.op = "status" /\ c.ans \notin {"unlocked", "down"}
    \/ c.ans \in {"wrong", "refused"}
    \/ c.op = "lock" /\ c.ans = "ok"

MainTakes(c) ==
    /\ vaultUnlocked' = (Opens(c) \/ (vaultUnlocked /\ ~Forgets(c)))
    /\ sessionToken' = IF Opens(c) THEN c.sid
                       ELSE IF Forgets(c) THEN 0 ELSE sessionToken
    /\ UNCHANGED watching

(* wallet.getStatus answers from the shell's own flag when the bridge does  *)
(* not answer.                                                              *)
StatusSeen(c) ==
    IF c.ans # "down" THEN c.ans
    ELSE IF vaultUnlocked THEN "unlocked" ELSE "locked"

(* Mutant: checkStatus believes the shell.                                   *)
StatusKeptAsSeen(c) == StatusSeen(c)

(* A page that holds no session does not believe that the wallet is open.   *)
StatusKept(c) == IF StatusSeen(c) = "unlocked" /\ sessionId = 0
                 THEN "locked" ELSE StatusSeen(c)

StoreTakes(c) ==
    CASE c.op = "status" ->
           /\ status' = StatusKept(c)
           /\ sessionId' = IF StatusSeen(c) = "unlocked" THEN sessionId ELSE 0
           /\ UNCHANGED <<mnemonic, page, due>>
      [] Opens(c) ->
           /\ status' = "unlocked"
           /\ sessionId' = c.sid
           /\ mnemonic' = (mnemonic \/ c.op = "generate")
           /\ GoTo(IF c.op = "generate" THEN "mnemonic" ELSE "app")
      [] c.op = "lock" ->
           /\ status' = "locked"
           /\ sessionId' = 0
           /\ GoTo("unlock")
           /\ UNCHANGED mnemonic
      [] OTHER -> UNCHANGED <<storeVars, page, due>>

Complete(s) ==
    /\ calls[s].at = "answered"
    /\ MainTakes(calls[s])
    /\ IF calls[s].waits = "renderer" THEN StoreTakes(calls[s])
       ELSE UNCHANGED <<storeVars, page, due>>
    /\ calls' = [calls EXCEPT ![s] = NoCall]
    /\ UNCHANGED <<vaultVars, feed>>

-----------------------------------------------------------------------------
(* The main process on its own, and what happens to the two processes.      *)

(* publishSwapWatchSnapshot calls the bridge without the requiresUnlocked   *)
(* check of the channels.                                                   *)
PollSwaps ==
    /\ watching
    /\ Send("poll", "poll", "main")
    /\ UNCHANGED <<vaultVars, mainVars, storeVars, viewVars>>

FreshPage ==
    /\ status' = "loading"
    /\ sessionId' = 0
    /\ mnemonic' = FALSE
    /\ due' = TRUE
    /\ feed' = FALSE

Abandoned(c) == [c EXCEPT !.waits = IF c = NoCall THEN "nobody" ELSE "main"]

(* The renderer starts anew at the same address; the main process goes on,  *)
(* with the subscription of a page that is gone.  The answer of a protected *)
(* call is nothing to the session of the page, whichever page it is.        *)
Reload ==
    /\ calls["orphan"] = NoCall
    /\ FreshPage
    /\ calls' = [calls EXCEPT !["orphan"] = Abandoned(calls["form"]),
                              !["form"] = NoCall,
                              !["check"] = Abandoned(@)]
    /\ UNCHANGED <<vaultVars, mainVars, page>>

AppRestart ==
    /\ FreshPage
    /\ page' = "app"
    /\ vaultUnlocked' = FALSE /\ sessionToken' = 0 /\ watching' = FALSE
    /\ calls' = [s \in Slots |-> IF calls[s].at = "sent"
                                 THEN [calls[s] EXCEPT !.waits = "nobody"]
                                 ELSE NoCall]
    /\ UNCHANGED vaultVars

(* Another client of the same core: the wallet opened in a browser.         *)
OtherClient ==
    /\ Unlock(TRUE)
    /\ UNCHANGED <<mainVars, storeVars, viewVars, calls>>

CoreChanges ==
    /\ VaultEnvironment
    /\ UNCHANGED <<mainVars, storeVars, viewVars, calls>>

DesktopNext ==
    \/ Redirect \/ CheckStatus
    \/ ClickCreate \/ ClickLock \/ \E op \in {"right pin", "wrong pin"} : EnterPin(op)
    \/ ContinueToConfirm \/ CompleteSetup
    \/ DoWork \/ SubscribeFeed \/ UnsubscribeFeed \/ PollSwaps
    \/ \E s \in Slots : Answered(s) \/ Complete(s)
    \/ Reload \/ AppRestart
    \/ OtherClient
    \/ CoreChanges

(* Effects run and awaited answers are taken; the timer of the poll ticks;  *)
(* a bridge that is asked for ever is not down every time.                  *)
DesktopFairness ==
    /\ WF_desktopVars(Redirect) /\ WF_desktopVars(CheckStatus)
    /\ WF_desktopVars(UnsubscribeFeed /\ ~FeedShown)
    /\ SF_desktopVars(PollSwaps)
    /\ \A s \in Slots : WF_desktopVars(Answered(s)) /\ WF_desktopVars(Complete(s))
    /\ SF_desktopVars(CoreServes("poll", FALSE))

DesktopSpec == DesktopInit /\ [][DesktopNext]_desktopVars /\ DesktopFairness

-----------------------------------------------------------------------------
(* The wallet is shown only to a page that saw the PIN being accepted: a    *)
(* reload or a second page over an unlocked core asks again, whatever       *)
(* answers of earlier checks still arrive (store.ts, checkStatus).          *)
UnlockedNeedsPin == status = "unlocked" => sessionId # 0

(* Between two right PINs at most PermanentLockout wrong ones are ever      *)
(* tried on the seed, however often the core and the shell are restarted    *)
(* and whichever client tries them (lockout.go, CheckLockout).              *)
WrongPinsBounded == tried <= PermanentLockout

(* A session that was locked, replaced, lost in a restart or idle beyond    *)
(* its TTL does no protected work any more, however late the request that   *)
(* carries it arrives (interceptor.go and vault.go, RequireSession).        *)
EndedSessionsDoNothing ==
    [][\A s \in Slots :
          /\ calls[s].op \in {"work", "poll"}
          /\ calls[s].at = "sent"
          /\ calls'[s].ans = "ok"
          => calls[s].tok \notin ended]_desktopVars

(* When the lock button is answered with success, the session it was        *)
(* pressed in is dead in the core and the shell holds no token, also when   *)
(* the page was reloaded meanwhile (registry.ts, wallet.lock).              *)
LockOkMeansDead ==
    [][\A s \in Slots :
          /\ calls[s].op = "lock"
          /\ calls[s].ans = "ok"
          /\ Complete(s)
          => calls[s].tok \in ended /\ sessionToken' = 0]_desktopVars

(* A shell that is watching the swaps does not keep a dead token: the poll  *)
(* carries it to the core, is refused, and the shell forgets it (main.ts,   *)
(* callApiBridge).                                                          *)
DeadSessionIsNoticed ==
    (watching /\ sessionToken \in ended) ~> (~watching \/ sessionToken \notin ended)

-----------------------------------------------------------------------------
(* What the documents say of the program, and TLC refutes.                  *)

(* The words of a new wallet are confirmed before the wallet is used.  The  *)
(* store is "unlocked" as soon as the wallet is made, and PublicRoute sends *)
(* every public page of an unlocked wallet, the words among them, to "/".   *)
BackedUpBeforeUse == ~(page = "app" /\ status = "unlocked" /\ mnemonic)

(* The lock button ends the session in the core.  The store forgets the     *)
(* session whatever the answer is, and the core keeps it open when the call *)
(* was lost.                                                                *)
LockEndsSession ==
    [][\A s \in Slots :
          calls[s].op = "lock" /\ calls[s].waits = "renderer" /\ Complete(s)
          => calls[s].tok # session \/ stale]_desktopVars

=============================================================================
