---------------------------- MODULE BoltzStatus -----------------------------
(***************************************************************************)
(* How a status string of the Boltz provider drives a swap: the three      *)
(* normalisation tables of core/internal/boltz/status.go and the target    *)
(* state the watcher derives from them (resolveProviderTargetState in      *)
(* core/internal/watcher/watcher.go).  A status is kept as the string the  *)
(* provider sends; "" means that no status is known.                       *)
(***************************************************************************)
EXTENDS SwapStates

\* Every status the tables name, and swap.completed / swap.failed, which
\* provider.go declares and no table names: they fall in the default branch.
Statuses ==
    {"swap.created", "transaction.mempool", "transaction.confirmed",
     "invoice.set", "invoice.pending", "invoice.paid", "invoice.failedToPay",
     "transaction.claim.pending", "transaction.claimed", "swap.expired",
     "transaction.lockupFailed", "minerfee.paid", "invoice.settled",
     "invoice.expired", "transaction.failed", "transaction.refunded",
     "transaction.server.mempool", "transaction.server.confirmed",
     "swap.completed", "swap.failed"}

SwapActions == {"none", "wait", "sign", "refund"}

Mapping(state, action) == [state |-> state, action |-> action]

Unknown == Mapping("waiting", "wait")

NormalizeSubmarine(status) ==
    CASE status = "swap.created"          -> Mapping("locked", "wait")
      [] status = "transaction.mempool"   -> Mapping("commit_started", "wait")
      [] status = "invoice.paid"          -> Mapping("waiting_claim_details", "wait")
      [] status = "transaction.claim.pending"
                                          -> Mapping("signing_musig2_partial", "sign")
      [] status = "transaction.claimed"   -> Mapping("completed", "none")
      [] status = "swap.expired"          -> Mapping("failed", "refund")
      [] status \in {"invoice.failedToPay", "transaction.lockupFailed"}
                                          -> Mapping("fallback_script_ready", "refund")
      [] OTHER                            -> Unknown

NormalizeReverse(status) ==
    CASE status = "swap.created"          -> Mapping("locked", "wait")
      [] status \in {"transaction.mempool", "transaction.confirmed"}
                                          -> Mapping("signing_musig2_partial", "sign")
      [] status = "invoice.settled"       -> Mapping("completed", "none")
      [] status \in {"invoice.expired", "transaction.failed",
                     "transaction.refunded", "swap.expired"}
                                          -> Mapping("failed", "none")
      [] OTHER                            -> Unknown

NormalizeChain(status) ==
    CASE status = "swap.created"          -> Mapping("locked", "wait")
      [] status = "transaction.mempool"   -> Mapping("commit_started", "wait")
      [] status \in {"transaction.server.mempool", "transaction.server.confirmed"}
                                          -> Mapping("signing_musig2_partial", "sign")
      [] status = "transaction.claimed"   -> Mapping("completed", "none")
      [] status = "swap.expired"          -> Mapping("failed", "refund")
      [] status = "transaction.lockupFailed"
                                          -> Mapping("fallback_script_ready", "refund")
      [] OTHER                            -> Unknown

Normalize(status, kind) ==
    CASE kind = "submarine" -> NormalizeSubmarine(status)
      [] kind = "reverse"   -> NormalizeReverse(status)
      [] kind = "chain"     -> NormalizeChain(status)

\* looksLikeProviderSuccess and looksLikeProviderFailure look for substrings;
\* these are the statuses that contain one.
LooksLikeSuccess(status) ==
    status \in {"transaction.claimed", "invoice.settled", "swap.completed"}

LooksLikeFailure(status) ==
    status \in {"swap.expired", "invoice.expired", "swap.failed",
                "transaction.failed", "transaction.refunded",
                "invoice.failedToPay", "transaction.lockupFailed"}

(***************************************************************************)
(* resolveProviderTargetState: where a status would take a swap that is in *)
(* state current.                                                          *)
(***************************************************************************)
ResolveTarget(current, status, kind) ==
    LET mapping == Normalize(status, kind)
        closing == current = "waiting_provider_broadcast"
        failing == \/ mapping.action = "refund"
                   \/ LooksLikeFailure(status)
                   \/ mapping.state = "failed"
    IN  CASE current = "refunding"                  -> current
          [] closing /\ LooksLikeSuccess(status)    -> "completed"
          [] closing /\ ~LooksLikeSuccess(status) /\ failing -> "refunding"
          [] OTHER                                  -> mapping.state
=============================================================================
