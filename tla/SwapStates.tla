----------------------------- MODULE SwapStates -----------------------------
(***************************************************************************)
(* The state machine of one swap (core/internal/swap/engine.go): its       *)
(* states, the transition table every write is checked against, and the    *)
(* breadth-first path search the watcher runs over that table              *)
(* (core/internal/watcher/watcher.go, findTransitionPath).  Everything     *)
(* here is constant-level: the modules of the engine and of the watcher    *)
(* build on it.                                                            *)
(***************************************************************************)
EXTENDS Naturals, Sequences, FiniteSets

Kinds == {"submarine", "reverse", "chain"}

States == {"open", "locked", "commit_started", "waiting",
           "waiting_claim_details", "signing_musig2_partial",
           "sent_partial_to_provider", "waiting_provider_broadcast",
           "refund_coop_waiting", "fallback_script_ready", "refunding",
           "completed", "failed", "canceled"}

\* The table of engine.go.  The order of the slices matters only to the path
\* search, and there only when two shortest paths tie: see ShortestPathsUnique.
ValidTransitions ==
    [s \in States |->
        CASE s = "open"                       -> {"locked", "canceled"}
          [] s = "locked"                     -> {"commit_started", "canceled"}
          [] s = "commit_started"             -> {"waiting", "failed"}
          [] s = "waiting"                    -> {"waiting_claim_details",
                                                  "refund_coop_waiting"}
          [] s = "waiting_claim_details"      -> {"signing_musig2_partial"}
          [] s = "signing_musig2_partial"     -> {"sent_partial_to_provider"}
          [] s = "sent_partial_to_provider"   -> {"waiting_provider_broadcast"}
          [] s = "waiting_provider_broadcast" -> {"completed",
                                                  "fallback_script_ready"}
          [] s = "refund_coop_waiting"        -> {"completed",
                                                  "fallback_script_ready"}
          [] s = "fallback_script_ready"      -> {"refunding", "completed"}
          [] s = "refunding"                  -> {"completed", "failed"}
          [] OTHER                            -> {}]

\* ShouldReconcile, and the WHERE clause of listActiveSwaps.
Terminal == {"completed", "failed", "canceled"}

\* The CHECK of the swaps table: states a row may be in with locked_intent NULL.
IntentOptional == {"open", "canceled", "failed"}

(***************************************************************************)
(* findTransitionPath.  The walks of n steps from a state are built by     *)
(* recursion on n; the table has no cycle, so eleven steps reach all of    *)
(* them, and the search returns the shortest walk that ends in the target. *)
(***************************************************************************)
LongestWalk == 11

EndOf(from, walk) == IF walk = <<>> THEN from ELSE walk[Len(walk)]

\* The walks of a set, each made longer by every move the table allows.
Extended(from, walks) ==
    UNION {{Append(w, t) : t \in ValidTransitions[EndOf(from, w)]} : w \in walks}

WalksByLength(from) ==
    LET walks[n \in 0..LongestWalk] ==
            IF n = 0 THEN {<<>>} ELSE Extended(from, walks[n - 1])
    IN  walks

WalksFrom(from) == UNION {WalksByLength(from)[n] : n \in 1..LongestWalk}

ShortestWalks(from, to) ==
    LET hits == {w \in WalksFrom(from) : EndOf(from, w) = to}
    IN  {w \in hits : \A v \in hits : Len(w) <= Len(v)}

\* <<>> stands for both "already there" and "no path": the caller treats a nil
\* path and a failed search alike.
TransitionPath ==
    [from \in States |-> [to \in States |->
        IF ShortestWalks(from, to) = {} THEN <<>>
        ELSE CHOOSE w \in ShortestWalks(from, to) : TRUE]]

\* The search is deterministic whatever the order of the table's slices, so the
\* table may be a set.
ShortestPathsUnique ==
    \A from, to \in States : Cardinality(ShortestWalks(from, to)) <= 1

ASSUME PathsAreUnique == ShortestPathsUnique
=============================================================================
