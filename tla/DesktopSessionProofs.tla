------------------------ MODULE DesktopSessionProofs ------------------------
(***************************************************************************)
(* Theorems about DesktopSession, for any lockout limits, any number of    *)
(* sessions and any number of calls in flight.  IInv says what the core    *)
(* keeps (VaultInv), what an answer still on its way means when it arrives *)
(* (CallOK), and what the store holds.                                     *)
(***************************************************************************)
EXTENDS DesktopSession, TLAPS

-----------------------------------------------------------------------------
(* The inductive invariant.                                                *)

\* The vault: no wrong PIN goes uncounted, sessions are numbered in the order of
\* their issue, and a live session that has ended is one that is stale.
VaultInv ==
    /\ VaultTypeOK
    /\ tried <= failed
    /\ session <= issued
    /\ ended \subseteq 1..issued
    /\ session \in ended => stale

CallRecords == [at : {"idle", "sent", "answered"},
                op : Ops \cup {"none"},
                tok : Sessions \cup {0},
                ans : Answers \cup {"none"},
                sid : Sessions \cup {0},
                waits : {"renderer", "main", "nobody"}]

StatusAnswers == {"not_initialized", "locked", "unlocked", "locked_out", "down"}

\* A call: unanswered until it is answered, an accepted PIN comes with a session,
\* and an accepted lock was of a session that is dead.
CallOK(c, dead) ==
    /\ c \in CallRecords
    /\ c.at # "answered" => c.ans = "none"
    /\ c.op = "status" /\ c.at = "answered" => c.ans \in StatusAnswers
    /\ Opens(c) => c.sid # 0
    /\ c.op = "lock" /\ c.ans = "ok" => c.tok \in dead

CallsInv == /\ \A s \in Slots : CallOK(calls[s], ended)
            /\ calls \in [Slots -> CallRecords]

MainTypeOK == vaultUnlocked \in BOOLEAN /\ sessionToken \in Sessions \cup {0} /\ watching \in BOOLEAN

ViewTypeOK == page \in Pages /\ due \in BOOLEAN /\ feed \in BOOLEAN

StoreInv ==
    /\ status \in {"loading", "not_initialized", "locked", "unlocked", "locked_out"}
    /\ sessionId \in Sessions \cup {0}
    /\ mnemonic \in BOOLEAN
    /\ UnlockedNeedsPin

IInv == VaultInv /\ CallsInv /\ MainTypeOK /\ ViewTypeOK /\ StoreInv

-----------------------------------------------------------------------------
(* The vault.                                                              *)

USE LockoutAssumption, SessionsAssumption

\* What a method of the vault guarantees to the calls in flight.
VaultKept == VaultInv' /\ ended \subseteq ended'

LEMMA IdleVaultIsKept ==
    ASSUME VaultInv, UNCHANGED vaultVars
    PROVE  VaultKept
  BY DEF VaultInv, VaultTypeOK, VaultKept, vaultVars

LEMMA OpeningKeepsVault ==
    ASSUME VaultInv, OpenSession, failed' = 0, lockedUntil' = "none", tried' = 0,
           blob' \in BOOLEAN
    PROVE  VaultKept /\ session' # 0
<1>1. /\ issued \in Nat /\ MaxSessions \in Nat /\ issued < MaxSessions
      /\ session \in 0..issued /\ ended \subseteq 1..issued
  BY DEF VaultInv, VaultTypeOK, OpenSession, Sessions
<1>2. issued' = issued + 1 /\ session' = issued + 1 /\ stale' = FALSE
  BY DEF OpenSession
<1>3. ended' \subseteq 1..issued /\ ended \subseteq ended'
  BY <1>1 DEF OpenSession, Live
<1>4. ended' \subseteq 1..issued' /\ ended' \subseteq Sessions /\ session' \notin ended'
  BY <1>1, <1>2, <1>3 DEF Sessions
<1>5. session' \in Sessions /\ session' # 0 /\ issued' \in 0..MaxSessions
  BY <1>1, <1>2 DEF Sessions
<1>6. session' <= issued' /\ failed' \in 0..PermanentLockout /\ tried' <= failed'
  BY <1>1, <1>2
<1> QED BY <1>2, <1>3, <1>4, <1>5, <1>6 DEF VaultInv, VaultTypeOK, VaultKept

LEMMA UnlockKeepsVault ==
    ASSUME VaultInv, NEW right \in BOOLEAN, Unlock(right)
    PROVE  VaultKept /\ (UnlockAnswer(right) = "ok" => session' # 0)
<1>1. CASE UnlockAnswer(right) = "ok"
  <2>1. OpenSession /\ failed' = 0 /\ lockedUntil' = "none" /\ tried' = 0 /\ blob' = blob
    BY <1>1 DEF Unlock, ResetAttempts
  <2> QED BY <2>1, OpeningKeepsVault DEF VaultInv, VaultTypeOK
<1>2. CASE UnlockAnswer(right) = "wrong"
  <2>1. failed < PermanentLockout
    BY <1>2 DEF UnlockAnswer, LockedOut, VaultInv, VaultTypeOK
  <2>2. /\ failed' = failed + 1 /\ tried' = tried + 1
        /\ lockedUntil' \in {"future", "none"}
        /\ UNCHANGED <<blob, session, stale, issued, ended>>
    BY <1>2 DEF Unlock, RecordFailedAttempt
  <2> QED BY <1>2, <2>1, <2>2 DEF VaultInv, VaultTypeOK, VaultKept, Sessions
<1>3. CASE UnlockAnswer(right) \in {"refused", "error"}
  <2>1. UNCHANGED vaultVars
    BY <1>3 DEF Unlock
  <2> QED BY <1>3, <2>1 DEF vaultVars, VaultInv, VaultTypeOK, VaultKept
<1> QED BY <1>1, <1>2, <1>3 DEF UnlockAnswer

LEMMA InitializeKeepsVault ==
    ASSUME VaultInv, Initialize
    PROVE  VaultKept /\ (InitializeAnswer = "ok" => session' # 0)
<1>1. CASE InitializeAnswer = "ok"
  <2>1. OpenSession /\ failed' = 0 /\ lockedUntil' = "none" /\ tried' = 0 /\ blob' = TRUE
    BY <1>1 DEF Initialize, ResetAttempts
  <2> QED BY <2>1, OpeningKeepsVault
<1>2. CASE InitializeAnswer = "error"
  BY <1>2 DEF Initialize, vaultVars, VaultInv, VaultTypeOK, VaultKept
<1> QED BY <1>1, <1>2 DEF InitializeAnswer

LEMMA ClosingKeepsVault ==
    ASSUME VaultInv, CloseSession
    PROVE  VaultKept /\ (session # 0 => session \in ended')
<1>1. /\ issued \in Nat /\ session \in 0..issued /\ ended \subseteq 1..issued
      /\ session \in Sessions \cup {0} /\ ended \subseteq Sessions
  BY DEF VaultInv, VaultTypeOK, Sessions
<1>2. /\ session' = 0 /\ stale' = FALSE
      /\ UNCHANGED <<blob, failed, lockedUntil, issued, tried>>
  BY DEF CloseSession, diskVars
<1>3. /\ ended' \subseteq 1..issued /\ ended \subseteq ended' /\ ended' \subseteq Sessions
      /\ session # 0 => session \in ended'
  BY <1>1 DEF CloseSession, Live
<1>4. 0 \notin ended'
  BY <1>1, <1>3
<1>5. session' <= issued' /\ session' \in Sessions \cup {0}
  BY <1>1, <1>2
<1> QED BY <1>2, <1>3, <1>4, <1>5 DEF VaultInv, VaultTypeOK, VaultKept

LEMMA RequiringKeepsVault ==
    ASSUME VaultInv, NEW t, RequireSession(t)
    PROVE  VaultKept
<1>1. CASE t # 0 /\ t = session
  <2>1. /\ session' = (IF stale THEN 0 ELSE session) /\ stale' = FALSE
        /\ UNCHANGED <<blob, failed, lockedUntil, issued, ended, tried>>
    BY <1>1 DEF RequireSession, diskVars
  <2>2. /\ issued \in Nat /\ session <= issued /\ ended \subseteq 1..issued
        /\ session \in Sessions \cup {0} /\ stale \in BOOLEAN /\ (session \in ended => stale)
    BY DEF VaultInv, VaultTypeOK
  <2>3. /\ session' \in Sessions \cup {0} /\ session' <= issued /\ session' \notin ended
    BY <2>1, <2>2
  <2> QED BY <2>1, <2>3 DEF VaultInv, VaultTypeOK, VaultKept
<1>2. CASE ~(t # 0 /\ t = session)
  BY <1>2, IdleVaultIsKept DEF RequireSession
<1> QED BY <1>1, <1>2

LEMMA LockKeepsVault ==
    ASSUME VaultInv, NEW t, LockVault(t)
    PROVE  VaultKept /\ (SessionAnswer(t) = "ok" => t \in ended')
<1>1. CASE SessionAnswer(t) = "ok"
  <2>1. t # 0 /\ t = session /\ CloseSession
    BY <1>1 DEF SessionAnswer, LockVault
  <2> QED BY <2>1, ClosingKeepsVault
<1>2. CASE SessionAnswer(t) # "ok"
  BY <1>2, RequiringKeepsVault DEF LockVault
<1> QED BY <1>1, <1>2

LEMMA EnvironmentKeepsVault ==
    ASSUME VaultInv, VaultEnvironment
    PROVE  VaultKept
<1>1. CASE SessionAges
  BY <1>1 DEF VaultInv, VaultTypeOK, VaultKept, SessionAges, Sessions, diskVars
<1>2. CASE LockoutElapses
  BY <1>2 DEF VaultInv, VaultTypeOK, VaultKept, LockoutElapses
<1>3. CASE CoreRestart
  BY <1>3, ClosingKeepsVault DEF CoreRestart
<1> QED BY <1>1, <1>2, <1>3 DEF VaultEnvironment

-----------------------------------------------------------------------------
(* The calls in flight.                                                    *)

\* What the core says, and what its saying so means.
LEMMA ServedAsAnswered ==
    ASSUME VaultInv, NEW c \in CallRecords, EffectOf(c)
    PROVE  /\ VaultKept
           /\ AnswerTo(c) \in Answers
           /\ c.op = "status" => AnswerTo(c) \in StatusAnswers
           /\ c.op \in {"generate", "right pin"} /\ AnswerTo(c) = "ok" => session' # 0
           /\ c.op = "lock" /\ AnswerTo(c) = "ok" => c.tok \in ended'
<1>1. CASE c.op = "status"
  <2>1. UNCHANGED vaultVars /\ AnswerTo(c) = VaultStatus
    BY <1>1 DEF EffectOf, AnswerTo
  <2>2. VaultStatus \in StatusAnswers
    BY DEF VaultStatus, StatusAnswers
  <2> QED BY <1>1, <2>1, <2>2, IdleVaultIsKept DEF StatusAnswers, Answers
<1>2. CASE c.op = "generate"
  <2>1. Initialize /\ AnswerTo(c) = InitializeAnswer
    BY <1>2 DEF EffectOf, AnswerTo
  <2> QED BY <1>2, <2>1, InitializeKeepsVault DEF InitializeAnswer, Answers
<1>3. CASE c.op = "right pin"
  <2>1. Unlock(TRUE) /\ AnswerTo(c) = UnlockAnswer(TRUE)
    BY <1>3 DEF EffectOf, AnswerTo
  <2>2. VaultKept /\ (UnlockAnswer(TRUE) = "ok" => session' # 0)
    BY <2>1, UnlockKeepsVault
  <2>3. UnlockAnswer(TRUE) \in Answers
    BY DEF UnlockAnswer, Answers
  <2> QED BY <1>3, <2>1, <2>2, <2>3
<1>4. CASE c.op = "wrong pin"
  <2>1. Unlock(FALSE) /\ AnswerTo(c) = UnlockAnswer(FALSE)
    BY <1>4 DEF EffectOf, AnswerTo
  <2>2. VaultKept
    BY <2>1, UnlockKeepsVault
  <2>3. UnlockAnswer(FALSE) \in Answers
    BY DEF UnlockAnswer, Answers
  <2> QED BY <1>4, <2>1, <2>2, <2>3
<1>5. CASE c.op = "lock"
  <2>1. LockVault(c.tok) /\ AnswerTo(c) = SessionAnswer(c.tok)
    BY <1>5 DEF EffectOf, AnswerTo
  <2>2. VaultKept /\ (SessionAnswer(c.tok) = "ok" => c.tok \in ended')
    BY <2>1, LockKeepsVault
  <2>3. SessionAnswer(c.tok) \in Answers
    BY DEF SessionAnswer, Answers
  <2> QED BY <1>5, <2>1, <2>2, <2>3
<1>6. CASE c.op \notin {"status", "generate", "right pin", "wrong pin", "lock"}
  <2>1. RequireSession(c.tok) /\ AnswerTo(c) = SessionAnswer(c.tok)
    BY <1>6 DEF EffectOf, AnswerTo
  <2>2. VaultKept
    BY <2>1, RequiringKeepsVault
  <2>3. SessionAnswer(c.tok) \in Answers
    BY DEF SessionAnswer, Answers
  <2> QED BY <1>6, <2>1, <2>2, <2>3
<1> QED BY <1>1, <1>2, <1>3, <1>4, <1>5, <1>6

\* More sessions may end while a call is on its way.
LEMMA CallStaysOK ==
    ASSUME NEW c, NEW dead, NEW later, dead \subseteq later, CallOK(c, dead)
    PROVE  CallOK(c, later)
  BY DEF CallOK

LEMMA NoCallIsOK ==
    ASSUME NEW dead
    PROVE  CallOK(NoCall, dead)
  BY DEF CallOK, NoCall, CallRecords, Opens

LEMMA OneCallChanges ==
    ASSUME CallsInv, ended \subseteq ended', NEW s \in Slots, NEW c, CallOK(c, ended'),
           calls' = [calls EXCEPT ![s] = c]
    PROVE  CallsInv'
<1>1. c \in CallRecords
  BY DEF CallOK
<1>2. calls' \in [Slots -> CallRecords]
  BY <1>1 DEF CallsInv
<1>3. ASSUME NEW r \in Slots PROVE CallOK(calls'[r], ended')
  <2>1. CASE r = s
    BY <2>1 DEF CallsInv
  <2>2. CASE r # s
    <3>1. calls'[r] = calls[r] /\ CallOK(calls[r], ended)
      BY <2>2 DEF CallsInv
    <3> QED BY <3>1, CallStaysOK
  <2> QED BY <2>1, <2>2
<1> QED BY <1>2, <1>3 DEF CallsInv

LEMMA CallsStayOK ==
    ASSUME CallsInv, ended \subseteq ended', UNCHANGED calls
    PROVE  CallsInv'
  BY CallStaysOK DEF CallsInv

LEMMA SendingKeepsCalls ==
    ASSUME CallsInv, MainTypeOK, ended \subseteq ended', NEW s \in Slots, NEW op \in Ops,
           NEW who \in {"renderer", "main"}, Send(s, op, who)
    PROVE  CallsInv'
<1> DEFINE c == [NoCall EXCEPT !.at = "sent", !.op = op, !.tok = sessionToken, !.waits = who]
<1>1. NoCall \in CallRecords /\ NoCall.ans = "none"
  BY DEF NoCall, CallRecords
<1>2. CallOK(c, ended')
  <2>1. c \in CallRecords
    BY <1>1 DEF CallRecords, MainTypeOK
  <2>2. c.at = "sent" /\ c.ans = "none"
    BY <1>1 DEF CallRecords
  <2> QED BY <2>1, <2>2 DEF CallOK, Opens
<1>3. calls' = [calls EXCEPT ![s] = c]
  BY DEF Send
<1> QED BY <1>2, <1>3, OneCallChanges

LEMMA ReturningKeepsCalls ==
    ASSUME CallsInv, VaultKept, NEW s \in Slots, NEW ans \in Answers, Return(s, ans),
           calls[s].op = "status" => ans \in StatusAnswers,
           calls[s].op \in {"generate", "right pin"} /\ ans = "ok" => session' # 0,
           calls[s].op = "lock" /\ ans = "ok" => calls[s].tok \in ended'
    PROVE  CallsInv'
<1> DEFINE back == [calls[s] EXCEPT !.at = "answered", !.ans = ans]
           sid == IF Opens(back) THEN session' ELSE 0
           full == [back EXCEPT !.sid = sid]
<1>1. calls[s] \in CallRecords
  BY DEF CallsInv
<1>2. session' \in Sessions \cup {0}
  BY DEF VaultKept, VaultInv, VaultTypeOK
<1>3. /\ back \in CallRecords
      /\ back.at = "answered" /\ back.ans = ans /\ back.op = calls[s].op
      /\ back.tok = calls[s].tok
  BY <1>1 DEF CallRecords
<1>4. sid \in Sessions \cup {0} /\ (Opens(back) => sid # 0)
  BY <1>2, <1>3 DEF Opens
<1>5. calls' = [calls EXCEPT ![s] = IF back.waits = "nobody" THEN NoCall ELSE full]
  BY DEF Return
<1> HIDE DEF back, sid
<1>6. /\ full \in CallRecords
      /\ full.at = "answered" /\ full.ans = ans /\ full.op = calls[s].op
      /\ full.tok = calls[s].tok /\ full.sid = sid
  BY <1>3, <1>4 DEF CallRecords
<1>7. Opens(full) => Opens(back)
  BY <1>3, <1>6 DEF Opens
<1> HIDE DEF full
<1>8. CallOK(full, ended')
  BY <1>4, <1>6, <1>7 DEF CallOK
<1>9. ended \subseteq ended'
  BY DEF VaultKept
<1>10. CASE back.waits = "nobody"
  BY <1>5, <1>9, <1>10, NoCallIsOK, OneCallChanges
<1>11. CASE back.waits # "nobody"
  BY <1>5, <1>8, <1>9, <1>11, OneCallChanges
<1> QED BY <1>10, <1>11

-----------------------------------------------------------------------------
(* One lemma for each step that does more than move the view.              *)

LEMMA ServingKeepsInv ==
    ASSUME IInv, NEW s \in Slots, NEW lost \in BOOLEAN, CoreServes(s, lost)
    PROVE  IInv'
<1> DEFINE ans == IF lost THEN "down" ELSE AnswerTo(calls[s])
<1>1. calls[s] \in CallRecords /\ EffectOf(calls[s]) /\ Return(s, ans)
  BY DEF IInv, CallsInv, CoreServes
<1>2. /\ VaultKept
      /\ AnswerTo(calls[s]) \in Answers
      /\ calls[s].op = "status" => AnswerTo(calls[s]) \in StatusAnswers
      /\ calls[s].op \in {"generate", "right pin"} /\ AnswerTo(calls[s]) = "ok" => session' # 0
      /\ calls[s].op = "lock" /\ AnswerTo(calls[s]) = "ok" => calls[s].tok \in ended'
  BY <1>1, ServedAsAnswered DEF IInv
<1>3. /\ ans \in Answers
      /\ calls[s].op = "status" => ans \in StatusAnswers
      /\ calls[s].op \in {"generate", "right pin"} /\ ans = "ok" => session' # 0
      /\ calls[s].op = "lock" /\ ans = "ok" => calls[s].tok \in ended'
  BY <1>2 DEF Answers, StatusAnswers
<1> HIDE DEF ans
<1>4. CallsInv'
  BY <1>1, <1>2, <1>3, ReturningKeepsCalls DEF IInv
<1>5. UNCHANGED <<mainVars, storeVars, viewVars>>
  BY DEF CoreServes
<1> QED BY <1>2, <1>4, <1>5 DEF IInv, VaultKept, MainTypeOK, ViewTypeOK, StoreInv,
           UnlockedNeedsPin, mainVars, storeVars, viewVars

LEMMA BridgeDownKeepsInv ==
    ASSUME IInv, NEW s \in Slots, BridgeDown(s)
    PROVE  IInv'
<1>1. VaultKept
  BY IdleVaultIsKept DEF IInv, BridgeDown
<1>2. CallsInv'
  <2>1. Return(s, "down") /\ "down" \in Answers /\ "down" \in StatusAnswers /\ "down" # "ok"
    BY DEF BridgeDown, Answers, StatusAnswers
  <2> QED BY <1>1, <2>1, ReturningKeepsCalls DEF IInv
<1>3. UNCHANGED <<mainVars, storeVars, viewVars>>
  BY DEF BridgeDown
<1> QED BY <1>1, <1>2, <1>3 DEF IInv, VaultKept, MainTypeOK, ViewTypeOK, StoreInv,
           UnlockedNeedsPin, mainVars, storeVars, viewVars

\* The store: unlocked only with the session of an accepted PIN, whatever the
\* shell believes.
LEMMA StoreTakesWhatIsTrue ==
    ASSUME IInv, NEW c, CallOK(c, ended), c.at = "answered", StoreTakes(c)
    PROVE  StoreInv' /\ page' \in Pages /\ due' \in BOOLEAN
<1>1. CASE c.op = "status"
  <2>1. /\ status' = StatusKept(c)
        /\ sessionId' = IF StatusSeen(c) = "unlocked" THEN sessionId ELSE 0
        /\ UNCHANGED <<mnemonic, page, due>>
    BY <1>1 DEF StoreTakes, Opens
  <2>2. StatusSeen(c) \in {"not_initialized", "locked", "unlocked", "locked_out"}
    BY <1>1 DEF StatusSeen, CallOK, StatusAnswers
  <2>3. status' = "unlocked" => StatusSeen(c) = "unlocked" /\ sessionId # 0
    BY <2>1, <2>2 DEF StatusKept
  <2>4. status' \in {"not_initialized", "locked", "unlocked", "locked_out"}
    BY <2>1, <2>2 DEF StatusKept
  <2> QED BY <2>1, <2>3, <2>4 DEF IInv, StoreInv, ViewTypeOK, UnlockedNeedsPin
<1>2. CASE Opens(c)
  <2>1. c.op \in {"generate", "right pin"} /\ c.op # "status" /\ c.op # "lock"
    BY <1>2 DEF Opens
  <2>2. /\ status' = "unlocked"
        /\ sessionId' = c.sid
        /\ mnemonic' = (mnemonic \/ c.op = "generate")
        /\ GoTo(IF c.op = "generate" THEN "mnemonic" ELSE "app")
    BY <1>2, <2>1 DEF StoreTakes
  <2>3. c.sid # 0 /\ c.sid \in Sessions \cup {0}
    BY <1>2 DEF CallOK, CallRecords
  <2>4. page' \in Pages /\ due' \in BOOLEAN
    BY <2>2 DEF GoTo, Pages, PublicPages, Mounts, IInv, ViewTypeOK
  <2>5. mnemonic' \in BOOLEAN
    BY <2>2 DEF IInv, StoreInv
  <2> QED BY <2>2, <2>3, <2>4, <2>5 DEF StoreInv, UnlockedNeedsPin
<1>3. CASE c.op = "lock"
  <2>1. ~Opens(c) /\ c.op # "status"
    BY <1>3 DEF Opens
  <2>2. status' = "locked" /\ sessionId' = 0 /\ GoTo("unlock") /\ UNCHANGED mnemonic
    BY <1>3, <2>1 DEF StoreTakes
  <2> QED BY <2>2 DEF GoTo, Pages, PublicPages, Mounts, IInv, ViewTypeOK, StoreInv,
             UnlockedNeedsPin
<1>4. CASE c.op # "status" /\ ~Opens(c) /\ c.op # "lock"
  <2>1. UNCHANGED <<storeVars, page, due>>
    BY <1>4 DEF StoreTakes
  <2> QED BY <2>1 DEF IInv, StoreInv, ViewTypeOK, UnlockedNeedsPin, storeVars
<1> QED BY <1>1, <1>2, <1>3, <1>4

LEMMA CompletingKeepsInv ==
    ASSUME IInv, NEW s \in Slots, Complete(s)
    PROVE  IInv'
<1> DEFINE c == calls[s]
<1>1. CallOK(c, ended) /\ c.at = "answered" /\ UNCHANGED vaultVars /\ UNCHANGED feed
  BY DEF IInv, CallsInv, Complete
<1>2. VaultKept
  BY <1>1, IdleVaultIsKept DEF IInv
<1>3. CallsInv'
  <2>1. calls' = [calls EXCEPT ![s] = NoCall] /\ ended \subseteq ended'
    BY <1>2 DEF Complete, VaultKept
  <2> QED BY <2>1, NoCallIsOK, OneCallChanges DEF IInv
<1>4. MainTypeOK'
  <2>1. MainTakes(c) /\ c.sid \in Sessions \cup {0}
    BY <1>1 DEF Complete, CallOK, CallRecords
  <2> QED BY <2>1 DEF MainTakes, IInv, MainTypeOK
<1>5. StoreInv' /\ page' \in Pages /\ due' \in BOOLEAN
  <2>1. CASE c.waits = "renderer"
    <3>1. StoreTakes(c)
      BY <2>1 DEF Complete
    <3> QED BY <1>1, <3>1, StoreTakesWhatIsTrue
  <2>2. CASE c.waits # "renderer"
    BY <2>2 DEF Complete, IInv, StoreInv, ViewTypeOK, UnlockedNeedsPin, storeVars
  <2> QED BY <2>1, <2>2
<1> QED BY <1>1, <1>2, <1>3, <1>4, <1>5 DEF IInv, VaultKept, ViewTypeOK

\* A reload hands the calls of the page over to nobody in the renderer.
LEMMA ReloadKeepsInv ==
    ASSUME IInv, Reload
    PROVE  IInv'
<1>1. /\ calls["check"] \in CallRecords /\ calls["form"] \in CallRecords
      /\ CallOK(calls["check"], ended) /\ CallOK(calls["form"], ended)
  BY DEF IInv, CallsInv, Slots
<1>2. ASSUME NEW c \in CallRecords, CallOK(c, ended) PROVE CallOK(Abandoned(c), ended)
  <2> DEFINE who == IF c = NoCall THEN "nobody" ELSE "main"
  <2>1. Abandoned(c) = [c EXCEPT !.waits = who] /\ who \in {"nobody", "main"}
    BY DEF Abandoned
  <2> HIDE DEF who
  <2>2. /\ Abandoned(c) \in CallRecords
        /\ Abandoned(c).at = c.at /\ Abandoned(c).op = c.op /\ Abandoned(c).tok = c.tok
        /\ Abandoned(c).ans = c.ans /\ Abandoned(c).sid = c.sid
    BY <1>2, <2>1 DEF CallRecords
  <2> QED BY <1>2, <2>2 DEF CallOK, Opens
<1>3. UNCHANGED vaultVars /\ UNCHANGED <<mainVars, page>> /\ FreshPage
  BY DEF Reload
<1>4. VaultKept /\ ended' = ended
  BY <1>3, IdleVaultIsKept DEF IInv, vaultVars
<1> DEFINE check == Abandoned(calls["check"])
           orphan == Abandoned(calls["form"])
<1>5. CallOK(check, ended) /\ CallOK(orphan, ended) /\ CallOK(NoCall, ended)
  BY <1>1, <1>2, NoCallIsOK
<1>6. check \in CallRecords /\ orphan \in CallRecords /\ NoCall \in CallRecords
  BY <1>5 DEF CallOK
<1>7. calls' = [calls EXCEPT !["orphan"] = orphan, !["form"] = NoCall, !["check"] = check]
  BY DEF Reload
<1> HIDE DEF check, orphan
<1>8. CallsInv'
  <2>1. calls \in [Slots -> CallRecords]
    BY DEF IInv, CallsInv
  <2>2. calls' \in [Slots -> CallRecords]
    BY <1>6, <1>7, <2>1 DEF Slots
  <2>3. ASSUME NEW r \in Slots PROVE CallOK(calls'[r], ended)
    <3>1. CASE r = "orphan"
      BY <1>5, <1>7, <2>1, <3>1
    <3>2. CASE r = "form"
      BY <1>5, <1>7, <2>1, <3>2
    <3>3. CASE r = "check"
      BY <1>5, <1>7, <2>1, <3>3
    <3>4. CASE r \in {"work", "poll"}
      BY <1>7, <2>1, <3>4 DEF IInv, CallsInv
    <3> QED BY <3>1, <3>2, <3>3, <3>4 DEF Slots
  <2> QED BY <1>4, <2>2, <2>3 DEF CallsInv
<1> QED BY <1>3, <1>4, <1>8 DEF FreshPage, IInv, VaultKept, MainTypeOK, ViewTypeOK, StoreInv,
           UnlockedNeedsPin, mainVars

\* A restart of the app: what the core has not served yet it will serve for nobody.
LEMMA RestartKeepsInv ==
    ASSUME IInv, AppRestart
    PROVE  IInv'
<1>1. VaultKept /\ ended' = ended
  BY IdleVaultIsKept DEF AppRestart, IInv, vaultVars
<1>2. ASSUME NEW r \in Slots PROVE calls'[r] \in CallRecords /\ CallOK(calls'[r], ended)
  <2>1. calls[r] \in CallRecords /\ CallOK(calls[r], ended)
    BY DEF IInv, CallsInv
  <2>2. CASE calls[r].at = "sent"
    <3> DEFINE c == [calls[r] EXCEPT !.waits = "nobody"]
    <3>1. calls'[r] = c
      BY <2>2 DEF AppRestart
    <3>2. /\ c \in CallRecords /\ c.at = calls[r].at /\ c.op = calls[r].op
          /\ c.tok = calls[r].tok /\ c.ans = calls[r].ans /\ c.sid = calls[r].sid
      BY <2>1 DEF CallRecords
    <3> HIDE DEF c
    <3>3. CallOK(c, ended)
      BY <2>1, <3>2 DEF CallOK, Opens
    <3> QED BY <3>1, <3>2, <3>3
  <2>3. CASE calls[r].at # "sent"
    <3>1. calls'[r] = NoCall
      BY <2>3 DEF AppRestart
    <3>2. CallOK(NoCall, ended)
      BY NoCallIsOK
    <3> QED BY <3>1, <3>2 DEF CallOK
  <2> QED BY <2>2, <2>3
<1>3. calls' \in [Slots -> CallRecords]
  BY <1>2 DEF AppRestart
<1>4. CallsInv'
  BY <1>1, <1>2, <1>3 DEF CallsInv
<1>5. /\ page' = "app" /\ due' = TRUE /\ feed' = FALSE
      /\ status' = "loading" /\ sessionId' = 0 /\ mnemonic' = FALSE
      /\ vaultUnlocked' = FALSE /\ sessionToken' = 0 /\ watching' = FALSE
  BY DEF AppRestart, FreshPage
<1> QED BY <1>1, <1>4, <1>5 DEF IInv, VaultKept, MainTypeOK, ViewTypeOK, StoreInv,
           UnlockedNeedsPin, Pages, PublicPages

LEMMA VaultAloneKeepsInv ==
    ASSUME IInv, VaultKept, UNCHANGED <<mainVars, storeVars, viewVars, calls>>
    PROVE  IInv'
<1>1. CallsInv'
  BY CallsStayOK DEF IInv, VaultKept
<1> QED BY <1>1 DEF IInv, VaultKept, MainTypeOK, ViewTypeOK, StoreInv,
           UnlockedNeedsPin, mainVars, storeVars, viewVars

\* A call that is sent, with at most the guard's duty done.
LEMMA SendingKeepsInv ==
    ASSUME IInv, NEW s \in Slots, NEW op \in Ops, NEW who \in {"renderer", "main"},
           Send(s, op, who), UNCHANGED <<vaultVars, mainVars, storeVars, page, feed>>,
           due' \in BOOLEAN
    PROVE  IInv'
<1>1. VaultKept
  BY IdleVaultIsKept DEF IInv
<1>2. CallsInv'
  BY <1>1, SendingKeepsCalls DEF IInv, VaultKept
<1> QED BY <1>1, <1>2 DEF IInv, VaultKept, MainTypeOK, ViewTypeOK, StoreInv,
           UnlockedNeedsPin, mainVars, storeVars

\* The view changes, or the subscription to the feed, and no call does.
LEMMA ViewKeepsInv ==
    ASSUME IInv, UNCHANGED <<vaultVars, vaultUnlocked, sessionToken, status, sessionId, calls>>,
           page' \in Pages, due' \in BOOLEAN, feed' \in BOOLEAN, watching' \in BOOLEAN,
           mnemonic' \in BOOLEAN
    PROVE  IInv'
<1>1. VaultKept
  BY IdleVaultIsKept DEF IInv
<1>2. CallsInv'
  BY <1>1, CallsStayOK DEF IInv, VaultKept
<1> QED BY <1>1, <1>2 DEF IInv, VaultKept, MainTypeOK, ViewTypeOK, StoreInv, UnlockedNeedsPin

-----------------------------------------------------------------------------
(* The theorems.                                                           *)

LEMMA InitEstablishesInv == DesktopInit => IInv
<1> SUFFICES ASSUME DesktopInit PROVE IInv
  OBVIOUS
<1>1. VaultInv
  <2>1. MaxSessions \in Nat /\ PermanentLockout \in Nat
    OBVIOUS
  <2>2. /\ blob = FALSE /\ failed = 0 /\ lockedUntil = "none" /\ session = 0
        /\ stale = FALSE /\ issued = 0 /\ ended = {} /\ tried = 0
    BY DEF DesktopInit, VaultInit
  <2>3. 0 \in 0..MaxSessions /\ 0 \in 0..PermanentLockout /\ 0 \in Nat /\ 0 <= 0
    BY <2>1
  <2> QED BY <2>2, <2>3 DEF VaultInv, VaultTypeOK
<1>2. \A s \in Slots : calls[s] = NoCall
  BY DEF DesktopInit
<1>3. NoCall \in CallRecords
  BY DEF NoCall, CallRecords
<1>4. CallsInv
  BY <1>2, <1>3, NoCallIsOK DEF CallsInv, DesktopInit
<1> QED BY <1>1, <1>4 DEF DesktopInit, IInv, MainTypeOK, ViewTypeOK, StoreInv, UnlockedNeedsPin,
           Pages, PublicPages

LEMMA NextKeepsInv == IInv /\ [DesktopNext]_desktopVars => IInv'
<1> SUFFICES ASSUME IInv, [DesktopNext]_desktopVars PROVE IInv'
  OBVIOUS
<1> USE DEF Ops, Forms
<1>1. /\ page \in Pages /\ due \in BOOLEAN /\ feed \in BOOLEAN /\ watching \in BOOLEAN
      /\ mnemonic \in BOOLEAN
  BY DEF IInv, ViewTypeOK, MainTypeOK, StoreInv
<1>2. CASE Redirect
  <2>1. page' \in Pages /\ due' \in BOOLEAN
    BY <1>1, <1>2 DEF Redirect, GoTo, Target, Mounts, Pages, PublicPages
  <2> QED BY <1>1, <1>2, <2>1, ViewKeepsInv DEF Redirect, mainVars, storeVars
<1>3. CASE CheckStatus
  BY <1>3, SendingKeepsInv DEF CheckStatus, Slots
<1>4. CASE ClickCreate
  BY <1>1, <1>4, SendingKeepsInv DEF ClickCreate, Ask, Slots, viewVars
<1>5. CASE ClickLock
  BY <1>1, <1>5, SendingKeepsInv DEF ClickLock, Ask, Slots, viewVars
<1>6. ASSUME NEW op \in {"right pin", "wrong pin"}, EnterPin(op) PROVE IInv'
  BY <1>1, <1>6, SendingKeepsInv DEF EnterPin, Ask, Slots, viewVars
<1>7. CASE ContinueToConfirm
  <2>1. page' \in Pages /\ due' \in BOOLEAN
    BY <1>1, <1>7 DEF ContinueToConfirm, GoTo, Mounts, Pages, PublicPages
  <2> QED BY <1>1, <1>7, <2>1, ViewKeepsInv DEF ContinueToConfirm, mainVars, storeVars
<1>8. CASE CompleteSetup
  <2>1. page' \in Pages /\ due' \in BOOLEAN
    BY <1>1, <1>8 DEF CompleteSetup, GoTo, Mounts, Pages, PublicPages
  <2> QED BY <1>1, <1>8, <2>1, ViewKeepsInv DEF CompleteSetup, mainVars
<1>9. CASE DoWork
  BY <1>1, <1>9, SendingKeepsInv DEF DoWork, Slots, viewVars
<1>10. CASE SubscribeFeed
  BY <1>1, <1>10, ViewKeepsInv DEF SubscribeFeed, storeVars
<1>11. CASE UnsubscribeFeed
  BY <1>1, <1>11, ViewKeepsInv DEF UnsubscribeFeed, storeVars
<1>12. CASE PollSwaps
  BY <1>1, <1>12, SendingKeepsInv DEF PollSwaps, Slots, viewVars
<1>13. ASSUME NEW s \in Slots, Answered(s) \/ Complete(s) PROVE IInv'
  BY <1>13, BridgeDownKeepsInv, ServingKeepsInv, CompletingKeepsInv DEF Answered
<1>14. CASE Reload
  BY <1>14, ReloadKeepsInv
<1>15. CASE AppRestart
  BY <1>15, RestartKeepsInv
<1>16. CASE OtherClient
  <2>1. VaultKept
    BY <1>16, UnlockKeepsVault DEF OtherClient, IInv
  <2> QED BY <1>16, <2>1, VaultAloneKeepsInv DEF OtherClient
<1>17. CASE CoreChanges
  <2>1. VaultKept
    BY <1>17, EnvironmentKeepsVault DEF CoreChanges, IInv
  <2> QED BY <1>17, <2>1, VaultAloneKeepsInv DEF CoreChanges
<1>18. CASE UNCHANGED desktopVars
  <2>1. VaultKept
    BY <1>18, IdleVaultIsKept DEF IInv, desktopVars
  <2> QED BY <1>18, <2>1, VaultAloneKeepsInv DEF desktopVars
<1> QED BY <1>2, <1>3, <1>4, <1>5, <1>6, <1>7, <1>8, <1>9, <1>10, <1>11, <1>12, <1>13,
           <1>14, <1>15, <1>16, <1>17, <1>18 DEF DesktopNext

\* What vault, shell, page and calls in flight may rely on, in every run of the
\* desktop wallet, whatever is lost, late, restarted or reloaded.
THEOREM Invariant == DesktopSpec => []IInv
<1> QED BY InitEstablishesInv, NextKeepsInv, PTL DEF DesktopSpec

\* Every variable keeps its type; the count of wrong PINs stays within its limit.
THEOREM DesktopTypeCorrect == DesktopSpec => []DesktopTypeOK
<1>1. IInv => DesktopTypeOK
  BY DEF IInv, VaultInv, CallsInv, CallRecords, MainTypeOK, ViewTypeOK, StoreInv, DesktopTypeOK
<1> QED BY <1>1, Invariant, PTL

\* The store of a page is unlocked only with the session of a PIN that the core
\* accepted from this page (store.ts, checkStatus and unlock).
THEOREM UnlockedOnlyByPin == DesktopSpec => []UnlockedNeedsPin
<1>1. IInv => UnlockedNeedsPin
  BY DEF IInv, StoreInv
<1> QED BY <1>1, Invariant, PTL

\* However many clients try, and whatever is restarted, the seed meets at most
\* PermanentLockout wrong PINs between two right ones (lockout.go).
THEOREM WrongPinsAreBounded == DesktopSpec => []WrongPinsBounded
<1>1. IInv => WrongPinsBounded
  <2> SUFFICES ASSUME IInv PROVE WrongPinsBounded
    OBVIOUS
  <2>1. tried \in Nat /\ tried <= failed /\ failed \in 0..PermanentLockout
    BY DEF IInv, VaultInv, VaultTypeOK
  <2> QED BY <2>1 DEF WrongPinsBounded
<1> QED BY <1>1, Invariant, PTL

\* A protected request that carries an ended session is refused, however late it
\* arrives (interceptor.go).
THEOREM DeadSessionsAreRefused == DesktopSpec => EndedSessionsDoNothing
<1> DEFINE Refused(s) == /\ calls[s].op \in {"work", "poll"}
                         /\ calls[s].at = "sent"
                         /\ calls'[s].ans = "ok"
                         => calls[s].tok \notin ended
<1>1. ASSUME IInv, [DesktopNext]_desktopVars, NEW s \in Slots PROVE Refused(s)
  <2> SUFFICES ASSUME calls[s].op \in {"work", "poll"}, calls[s].at = "sent",
                      calls'[s].ans = "ok"
               PROVE  calls[s].tok \notin ended
    OBVIOUS
  <2>1. CallOK(calls[s], ended) /\ calls \in [Slots -> CallRecords]
    BY <1>1 DEF IInv, CallsInv
  <2>2. calls[s].ans = "none" /\ calls[s] \in CallRecords /\ calls[s] # NoCall
    BY <2>1 DEF CallOK, NoCall
  <2>3. calls'[s] # calls[s]
    BY <2>2
  <2>4. ASSUME NEW r, NEW op, NEW who, Send(r, op, who) PROVE FALSE
    <3>1. CASE r = s
      BY <2>2, <2>4, <3>1 DEF Send
    <3>2. CASE r # s
      BY <2>1, <2>3, <2>4, <3>2 DEF Send
    <3> QED BY <3>1, <3>2
  <2>5. ASSUME NEW r \in Slots, NEW ans, Return(r, ans) PROVE r = s
    BY <2>1, <2>3, <2>5 DEF Return
  <2>6. ASSUME NEW r \in Slots, NEW ans, Return(r, ans) PROVE ans = "ok"
    <3> DEFINE back == [calls[s] EXCEPT !.at = "answered", !.ans = ans]
               full == [back EXCEPT !.sid = IF Opens(back) THEN session' ELSE 0]
    <3>1. r = s
      BY <2>5, <2>6
    <3>2. back.ans = ans /\ full.ans = ans /\ NoCall.ans = "none"
      BY <2>2 DEF CallRecords, NoCall
    <3>3. calls'[s] = IF back.waits = "nobody" THEN NoCall ELSE full
      BY <2>1, <2>6, <3>1 DEF Return
    <3> HIDE DEF back, full
    <3> QED BY <3>2, <3>3
  <2>7. ASSUME NEW r \in Slots, BridgeDown(r) PROVE FALSE
    BY <2>6, <2>7 DEF BridgeDown
  <2>8. ASSUME NEW r \in Slots, NEW lost \in BOOLEAN, CoreServes(r, lost)
        PROVE  calls[s].tok \notin ended
    <3>1. r = s /\ AnswerTo(calls[s]) = "ok"
      BY <2>5, <2>6, <2>8 DEF CoreServes
    <3>2. SessionAnswer(calls[s].tok) = "ok"
      BY <3>1 DEF AnswerTo
    <3> QED BY <1>1, <3>2 DEF SessionAnswer, IInv, VaultInv
  <2>9. ASSUME NEW r \in Slots, Complete(r) PROVE FALSE
    <3>1. CASE r = s
      BY <2>9, <3>1 DEF Complete
    <3>2. CASE r # s
      BY <2>1, <2>3, <2>9, <3>2 DEF Complete
    <3> QED BY <3>1, <3>2
  <2>10. CASE Reload
    <3>1. s # "orphan"
      BY <2>2, <2>10 DEF Reload
    <3>2. ASSUME s = "form" PROVE FALSE
      BY <2>1, <2>10, <3>2 DEF Reload, NoCall, Slots
    <3>3. ASSUME s = "check" PROVE FALSE
      <4>1. calls'[s] = Abandoned(calls[s])
        BY <2>1, <2>10, <3>3 DEF Reload, Slots
      <4>2. Abandoned(calls[s]).ans = "none"
        BY <2>2 DEF Abandoned, CallRecords
      <4> QED BY <4>1, <4>2
    <3>4. ASSUME s \in {"work", "poll"} PROVE FALSE
      BY <2>1, <2>3, <2>10, <3>4 DEF Reload, Slots
    <3> QED BY <3>1, <3>2, <3>3, <3>4 DEF Slots
  <2>11. CASE AppRestart
    <3>1. calls'[s] = [calls[s] EXCEPT !.waits = "nobody"]
      BY <2>11 DEF AppRestart
    <3> QED BY <2>2, <3>1 DEF CallRecords
  <2>12. UNCHANGED calls => FALSE
    BY <2>3
  <2> QED BY <1>1, <2>4, <2>7, <2>8, <2>9, <2>10, <2>11, <2>12
         DEF DesktopNext, Redirect, CheckStatus, ClickCreate, ClickLock, EnterPin, Ask,
             ContinueToConfirm, CompleteSetup, DoWork, SubscribeFeed, UnsubscribeFeed,
             PollSwaps, OtherClient, CoreChanges, Answered, desktopVars
<1>2. IInv /\ [DesktopNext]_desktopVars => [\A s \in Slots : Refused(s)]_desktopVars
  BY <1>1
<1> QED BY <1>2, Invariant, PTL DEF DesktopSpec, EndedSessionsDoNothing

\* When the answer to the lock button is success, that session is dead and the
\* shell holds no token (registry.ts, wallet.lock).
THEOREM LockedIsLocked == DesktopSpec => LockOkMeansDead
<1> DEFINE Locked(s) == /\ calls[s].op = "lock"
                        /\ calls[s].ans = "ok"
                        /\ Complete(s)
                        => calls[s].tok \in ended /\ sessionToken' = 0
<1>1. ASSUME IInv, NEW s \in Slots PROVE Locked(s)
  <2> SUFFICES ASSUME calls[s].op = "lock", calls[s].ans = "ok", Complete(s)
               PROVE  calls[s].tok \in ended /\ sessionToken' = 0
    OBVIOUS
  <2>1. calls[s].tok \in ended
    BY <1>1 DEF IInv, CallsInv, CallOK
  <2>2. ~Opens(calls[s]) /\ Forgets(calls[s])
    BY DEF Opens, Forgets
  <2>3. sessionToken' = 0
    BY <2>2 DEF Complete, MainTakes
  <2> QED BY <2>1, <2>3
<1>2. IInv => [\A s \in Slots : Locked(s)]_desktopVars
  BY <1>1
<1> QED BY <1>2, Invariant, PTL DEF DesktopSpec, LockOkMeansDead

=============================================================================
