------------------------------- MODULE Vault -------------------------------
(***************************************************************************)
(* The vault of the core: the encrypted seed, the one session of the      *)
(* process that unlocked it, and the persistent count of wrong PINs.       *)
(*                                                                         *)
(* Every method of Vault runs under one mutex, so each is one step.  The   *)
(* blob and the lockout row are in the database and survive a restart; the *)
(* session is in memory only.  Session identifiers are the numbers         *)
(* 1, 2, ... in the order of their issue; 0 is "no session".  Times are    *)
(* kept as what the code compares them for: whether the session is older   *)
(* than sessionTTL, whether locked_until is still ahead.                   *)
(***************************************************************************)
EXTENDS Naturals

CONSTANTS MaxFailedAttempts,   \* wrong PINs after which the vault is closed for a while
          PermanentLockout,    \* wrong PINs after which it stays closed
          MaxSessions          \* bound of the model: sessions ever issued

ASSUME LockoutAssumption ==
    /\ MaxFailedAttempts \in Nat \ {0}
    /\ PermanentLockout \in Nat
    /\ MaxFailedAttempts <= PermanentLockout

ASSUME SessionsAssumption == MaxSessions \in Nat \ {0}

VARIABLES blob,         \* the encrypted seed is in the database
          failed,       \* vault_lockout.failed_attempts
          lockedUntil,  \* vault_lockout.locked_until: "none", "future" or "past"
          session,      \* the live session, 0 when the vault is locked
          stale,        \* the live session was last seen more than sessionTTL ago
          issued,       \* sessions issued so far
          ended,        \* history: sessions that were locked, replaced, expired or lost
          tried         \* history: wrong PINs tried on the seed since a right one

vaultVars == <<blob, failed, lockedUntil, session, stale, issued, ended, tried>>
diskVars == <<blob, failed, lockedUntil>>

Sessions == 1 .. MaxSessions

VaultTypeOK ==
    /\ blob \in BOOLEAN
    /\ failed \in 0 .. PermanentLockout
    /\ lockedUntil \in {"none", "future", "past"}
    /\ session \in Sessions \cup {0}
    /\ stale \in BOOLEAN
    /\ issued \in 0 .. MaxSessions
    /\ ended \subseteq Sessions
    /\ tried \in Nat

(* The first start of the core: a wallet that was used before is one that   *)
(* was created, and a restart.                                              *)
VaultInit ==
    /\ blob = FALSE
    /\ failed = 0
    /\ lockedUntil = "none"
    /\ session = 0
    /\ stale = FALSE
    /\ issued = 0
    /\ ended = {}
    /\ tried = 0

Live(t) == IF t = 0 THEN {} ELSE {t}

-----------------------------------------------------------------------------
(* What each method answers in the current state.                           *)

(* Mutant: the permanent lockout sets in one wrong PIN late.                 *)
LockedOutLate == \/ failed > PermanentLockout
                 \/ lockedUntil = "future"

LockedOut == \/ failed >= PermanentLockout
             \/ lockedUntil = "future"

UnlockAnswer(right) ==
    IF LockedOut THEN "refused"
    ELSE IF ~blob THEN "error"
    ELSE IF right THEN "ok" ELSE "wrong"

InitializeAnswer == IF blob THEN "error" ELSE "ok"

(* Mutant: the idle time of the session is not looked at.                    *)
SessionAnswerEver(t) == IF t = 0 \/ session # t THEN "unauth" ELSE "ok"

SessionAnswer(t) ==
    IF t = 0 \/ session # t \/ stale THEN "unauth" ELSE "ok"

VaultStatus ==
    IF ~blob THEN "not_initialized"
    ELSE IF session # 0 THEN "unlocked"
    ELSE IF LockedOut THEN "locked_out" ELSE "locked"

-----------------------------------------------------------------------------
(* What each method changes.                                                *)

(* Mutant: an elapsed lockout starts the count anew.                         *)
RecordFailedAttemptAfresh ==
    /\ failed' = IF lockedUntil = "past" THEN 1 ELSE failed + 1
    /\ lockedUntil' = IF failed' \in MaxFailedAttempts .. PermanentLockout - 1
                      THEN "future" ELSE "none"

RecordFailedAttempt ==
    /\ failed' = failed + 1
    /\ lockedUntil' = IF failed + 1 \in MaxFailedAttempts .. PermanentLockout - 1
                      THEN "future" ELSE "none"

(* A fresh session takes the place of the one there was, if any.            *)
OpenSession ==
    /\ issued < MaxSessions
    /\ issued' = issued + 1
    /\ session' = issued + 1
    /\ stale' = FALSE
    /\ ended' = ended \cup Live(session)

ResetAttempts ==
    /\ failed' = 0
    /\ lockedUntil' = "none"

Unlock(right) ==
    \/ /\ UnlockAnswer(right) = "ok"
       /\ ResetAttempts
       /\ OpenSession
       /\ tried' = 0
       /\ UNCHANGED blob
    \/ /\ UnlockAnswer(right) = "wrong"
       /\ RecordFailedAttempt
       /\ tried' = tried + 1
       /\ UNCHANGED <<blob, session, stale, issued, ended>>
    \/ /\ UnlockAnswer(right) \in {"refused", "error"}
       /\ UNCHANGED vaultVars

(* InitializeVault: Vault.Initialize, then Vault.Unlock with the same PIN.  *)
Initialize ==
    \/ /\ InitializeAnswer = "ok"
       /\ blob' = TRUE
       /\ ResetAttempts
       /\ OpenSession
       /\ tried' = 0
    \/ /\ InitializeAnswer = "error"
       /\ UNCHANGED vaultVars

CloseSession ==
    /\ session' = 0
    /\ stale' = FALSE
    /\ ended' = ended \cup Live(session)
    /\ UNCHANGED <<diskVars, issued, tried>>

(* The check every protected method starts with.  Only the holder of the    *)
(* session makes it expire: another token is refused before the clock is    *)
(* looked at.                                                               *)
RequireSession(t) ==
    IF t # 0 /\ t = session
    THEN /\ session' = IF stale THEN 0 ELSE session
         /\ stale' = FALSE
         /\ UNCHANGED <<diskVars, issued, ended, tried>>
    ELSE UNCHANGED vaultVars

(* LockVault is itself a protected method.                                  *)
LockVault(t) ==
    IF SessionAnswer(t) = "ok" THEN CloseSession ELSE RequireSession(t)

-----------------------------------------------------------------------------
(* What the world does to the vault.                                        *)

SessionAges ==
    /\ session # 0
    /\ ~stale
    /\ stale' = TRUE
    /\ ended' = ended \cup {session}
    /\ UNCHANGED <<diskVars, session, issued, tried>>

LockoutElapses ==
    /\ lockedUntil = "future"
    /\ lockedUntil' = "past"
    /\ UNCHANGED <<blob, failed, session, stale, issued, ended, tried>>

CoreRestart ==
    /\ session # 0
    /\ CloseSession

VaultEnvironment == SessionAges \/ LockoutElapses \/ CoreRestart

=============================================================================
