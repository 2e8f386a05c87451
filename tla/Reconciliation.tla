--------------------------- MODULE Reconciliation ---------------------------
(***************************************************************************)
(* The decision procedure of core/internal/swap/reconcile.go: the facts    *)
(* about a swap and the action they call for.  Heights and timeouts are    *)
(* block heights; a timeout of 0 is one that is not known, as in the code. *)
(***************************************************************************)
EXTENDS SwapStates

CONSTANT ApproachBlocks  \* blocks before the timeout at which it approaches: 10

ASSUME ApproachBlocksIsNat == ApproachBlocks \in Nat

\* Statuses ComputeFacts takes as an explicit success.
ClaimStatuses == {"completed", "swap.completed", "transaction.claimed", "invoice.settled"}

\* Faulty variant of ComputeFacts: a timeout that approaches counts as reached.
ComputeFactsEarly(lockupKnown, timeout, height, status, refundSeen) ==
    [lockupSeen         |-> lockupKnown,
     timeoutApproaching |-> timeout > 0 /\ timeout <= height + ApproachBlocks,
     timeoutReached     |-> timeout > 0 /\ timeout <= height + ApproachBlocks,
     providerStatus     |-> status,
     claimSeen          |-> status \in ClaimStatuses,
     refundSeen         |-> refundSeen]

\* RefundSeen is set afterwards, by applyOnchainRefundEvidence of the watcher.
ComputeFacts(lockupKnown, timeout, height, status, refundSeen) ==
    [lockupSeen         |-> lockupKnown,
     timeoutApproaching |-> timeout > 0 /\ timeout <= height + ApproachBlocks,
     timeoutReached     |-> timeout > 0 /\ timeout <= height,
     providerStatus     |-> status,
     claimSeen          |-> status \in ClaimStatuses,
     refundSeen         |-> refundSeen]

Do(action, to) == [action |-> action, to |-> to]

MuSigStates == {"waiting_claim_details", "signing_musig2_partial",
                "sent_partial_to_provider", "waiting_provider_broadcast"}

NextAction(state, facts) ==
    LET Nothing == Do("none", state)
    IN  CASE state = "commit_started" /\ facts.lockupSeen ->
                 Do("transition", "waiting")
          [] state = "commit_started" /\ ~facts.lockupSeen /\ facts.timeoutReached ->
                 Do("transition", "failed")
          [] state = "waiting" /\ facts.providerStatus \in {"completed", "swap.completed"} ->
                 Do("transition", "completed")
          [] state = "waiting" /\ facts.providerStatus \notin {"completed", "swap.completed"}
                               /\ facts.timeoutApproaching ->
                 Do("prepare_refund", "refund_coop_waiting")
          [] state \in MuSigStates /\ facts.claimSeen ->
                 Do("transition", "completed")
          [] state \in MuSigStates /\ ~facts.claimSeen /\ facts.timeoutApproaching ->
                 Do("prepare_refund", "fallback_script_ready")
          [] state = "refund_coop_waiting" ->
                 IF facts.providerStatus = "completed"
                 THEN Do("transition", "completed")
                 ELSE Do("prepare_refund", "fallback_script_ready")
          [] state = "fallback_script_ready" /\ facts.timeoutReached ->
                 Do("broadcast_refund", "refunding")
          [] state = "refunding" /\ facts.refundSeen ->
                 Do("transition", "completed")
          [] OTHER -> Nothing
=============================================================================
