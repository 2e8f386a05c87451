----------------------------- MODULE SwapEngine -----------------------------
(***************************************************************************)
(* The swap engine (core/internal/swap/engine.go) as every caller uses it: *)
(* the RPC handlers of SwapService, the submarine orchestrator and the     *)
(* watcher all read a swap, decide, and call Transition with the version   *)
(* they read.  Between the read and the write any other caller may have    *)
(* moved the swap: the compare-and-swap on the version is what keeps the   *)
(* history of a swap a single walk through ValidTransitions.               *)
(*                                                                         *)
(* The database has one connection, so a statement, and a transaction, is  *)
(* one step; a handler is several steps, and a cancelled request or a      *)
(* crash may end it between any two of them (Abort).                       *)
(***************************************************************************)
EXTENDS SwapStates

CONSTANTS SwapIds,   \* the swaps that may be created
          Callers,   \* concurrent handlers: RPCs and the watcher
          NoHandle,  \* a caller that has read no swap
          NotLogged  \* a swap whose "create" event is not written

VARIABLES inserted,    \* ids with a row in table swaps
          state,       \* column state
          version,     \* column version
          intent,      \* column locked_intent is not NULL
          events,      \* events[id]: the transitions in table swap_events
          createdAt,   \* how many of them precede the "create" event, or NotLogged
          pc,          \* where each caller is
          handle       \* the swap each caller last read: id, version, state

rowVars == <<inserted, state, version, intent>>
logVars == <<events, createdAt>>
vars == <<rowVars, logVars, pc, handle>>

Handles == [swap : SwapIds, version : Nat, state : States]

ASSUME NoHandleIsNoCopy == NoHandle \notin Handles

ASSUME NotLoggedIsNoPosition == NotLogged \notin Nat

HandleOn(id) == [swap |-> id, version |-> version[id], state |-> state[id]]

Event(from, to) == [from |-> from, to |-> to]

Init == /\ inserted = {}
        /\ state = [id \in SwapIds |-> "open"]
        /\ version = [id \in SwapIds |-> 0]
        /\ intent = [id \in SwapIds |-> FALSE]
        /\ events = [id \in SwapIds |-> <<>>]
        /\ createdAt = [id \in SwapIds |-> NotLogged]
        /\ pc = [c \in Callers |-> "idle"]
        /\ handle = [c \in Callers |-> NoHandle]

-----------------------------------------------------------------------------
(* Faulty variants, for checking that the properties would notice: each    *)
(* stands in for the definition its name begins with.                      *)

\* The row is inserted with Go's zero value for its state.
InsertSwapZeroState(c, id) ==
    /\ pc[c] = "idle"
    /\ id \notin inserted
    /\ inserted' = inserted \cup {id}
    /\ state' = [state EXCEPT ![id] = ""]
    /\ pc' = [pc EXCEPT ![c] = "ready"]
    /\ UNCHANGED <<version, intent, logVars, handle>>

\* The CHECK of the table is missing.
AcceptsWithoutIntent(h, to) ==
    /\ version[h.swap] = h.version
    /\ to \in ValidTransitions[state[h.swap]]

\* The compare-and-swap is missing.
AcceptsAnyVersion(h, to) ==
    /\ to \in ValidTransitions[state[h.swap]]
    /\ to \in IntentOptional \/ intent[h.swap]

\* The table is looked up for the state the caller remembers.
AcceptsFromCopy(h, to) ==
    /\ to \in ValidTransitions[h.state]
    /\ to \in IntentOptional \/ intent[h.swap]

\* No compare-and-swap, and the version is written back from the copy.
CommitTransitionFromCopy(c, to) ==
    LET h == handle[c]
    IN  /\ pc[c] = "ready"
        /\ AcceptsAnyVersion(h, to)
        /\ state' = [state EXCEPT ![h.swap] = to]
        /\ version' = [version EXCEPT ![h.swap] = h.version + 1]
        /\ events' = [events EXCEPT ![h.swap] = Append(@, Event(state[h.swap], to))]
        /\ pc' = [pc EXCEPT ![c] = "committed"]
        /\ UNCHANGED <<inserted, intent, createdAt, handle>>

\* The version is counted up in memory, the state is read after the commit.
ReadBackTorn(c) ==
    LET h == handle[c]
    IN  /\ pc[c] = "committed"
        /\ pc' = [pc EXCEPT ![c] = "ready"]
        /\ handle' = [handle EXCEPT ![c].version = h.version + 1, ![c].state = state[h.swap]]
        /\ UNCHANGED <<rowVars, logVars>>

-----------------------------------------------------------------------------
(* Create: the row and the audit event are two statements, not one transaction. *)

InsertSwap(c, id) ==
    /\ pc[c] = "idle"
    /\ id \notin inserted
    /\ inserted' = inserted \cup {id}
    /\ pc' = [pc EXCEPT ![c] = "inserted"]
    /\ handle' = [handle EXCEPT ![c] = HandleOn(id)]
    /\ UNCHANGED <<state, version, intent, logVars>>

LogCreate(c) ==
    /\ pc[c] = "inserted"
    /\ createdAt' = [createdAt EXCEPT ![handle[c].swap] = Len(events[handle[c].swap])]
    /\ pc' = [pc EXCEPT ![c] = "ready"]
    /\ UNCHANGED <<rowVars, events, handle>>

-----------------------------------------------------------------------------
(* Get, and every other SELECT of a swap (ListSwaps, listActiveSwaps).     *)

Get(c, id) ==
    /\ pc[c] \in {"idle", "ready"}
    /\ id \in inserted
    /\ pc' = [pc EXCEPT ![c] = "ready"]
    /\ handle' = [handle EXCEPT ![c] = HandleOn(id)]
    /\ UNCHANGED <<rowVars, logVars>>

(* The UPDATEs that set locked_intent name the row by id alone.            *)
WriteIntent(c) ==
    /\ pc[c] = "ready"
    /\ intent' = [intent EXCEPT ![handle[c].swap] = TRUE]
    /\ UNCHANGED <<inserted, state, version, logVars, pc, handle>>

-----------------------------------------------------------------------------
(* Transition: one transaction, then a Get of its own.                     *)

Accepts(h, to) ==
    /\ version[h.swap] = h.version
    /\ to \in ValidTransitions[state[h.swap]]
    /\ to \in IntentOptional \/ intent[h.swap]

CommitTransition(c, to) ==
    LET h == handle[c]
    IN  /\ pc[c] = "ready"
        /\ Accepts(h, to)
        /\ state' = [state EXCEPT ![h.swap] = to]
        /\ version' = [version EXCEPT ![h.swap] = @ + 1]
        /\ events' = [events EXCEPT ![h.swap] = Append(@, Event(state[h.swap], to))]
        /\ pc' = [pc EXCEPT ![c] = "committed"]
        /\ UNCHANGED <<inserted, intent, createdAt, handle>>

\* ErrConcurrentModification, ErrInvalidTransition or a failed CHECK: the
\* transaction is rolled back and the caller gives up.
RefuseTransition(c, to) ==
    /\ pc[c] = "ready"
    /\ ~Accepts(handle[c], to)
    /\ pc' = [pc EXCEPT ![c] = "idle"]
    /\ handle' = [handle EXCEPT ![c] = NoHandle]
    /\ UNCHANGED <<rowVars, logVars>>

\* The swap Transition returns is read after the commit: others may have
\* moved it on.
ReadBack(c) ==
    /\ pc[c] = "committed"
    /\ pc' = [pc EXCEPT ![c] = "ready"]
    /\ handle' = [handle EXCEPT ![c] = HandleOn(handle[c].swap)]
    /\ UNCHANGED <<rowVars, logVars>>

Abort(c) ==
    /\ pc[c] # "idle"
    /\ pc' = [pc EXCEPT ![c] = "idle"]
    /\ handle' = [handle EXCEPT ![c] = NoHandle]
    /\ UNCHANGED <<rowVars, logVars>>

Next == \E c \in Callers :
            \/ \E id \in SwapIds : InsertSwap(c, id) \/ Get(c, id)
            \/ \E to \in States : CommitTransition(c, to) \/ RefuseTransition(c, to)
            \/ LogCreate(c) \/ WriteIntent(c) \/ ReadBack(c) \/ Abort(c)

Spec == Init /\ [][Next]_vars

-----------------------------------------------------------------------------
(* Types: the row, the log and the callers' copies are well formed.        *)
TypeOK ==
    /\ inserted \subseteq SwapIds
    /\ state \in [SwapIds -> States]
    /\ version \in [SwapIds -> Nat]
    /\ intent \in [SwapIds -> BOOLEAN]
    /\ events \in [SwapIds -> Seq([from : States, to : States])]
    /\ createdAt \in [SwapIds -> Nat \cup {NotLogged}]
    /\ pc \in [Callers -> {"idle", "inserted", "ready", "committed"}]
    /\ handle \in [Callers -> Handles \cup {NoHandle}]

\* The state a log gives a swap after its first v transitions.
StateAt(log, v) == IF v = 0 THEN "open" ELSE log[v].to

(* The audit log determines the row: as many transitions as the version    *)
(* counts, the first one from open, each one in the table and taking up    *)
(* where the one before it ended, the last one ending in the row's state.  *)
LogReplaysToRow ==
    \A id \in SwapIds :
        /\ Len(events[id]) = version[id]
        /\ state[id] = StateAt(events[id], version[id])
        /\ \A v \in 1..Len(events[id]) :
               /\ events[id][v].from = StateAt(events[id], v - 1)
               /\ events[id][v].to \in ValidTransitions[events[id][v].from]

(* A copy of a swap is never of a state the swap was not in at that        *)
(* version: Get reads state and version in one SELECT, and the read-back   *)
(* of Transition may be late but not torn.                                 *)
HandlesAreHistory ==
    \A c \in Callers :
        handle[c] # NoHandle =>
            /\ handle[c].version <= version[handle[c].swap]
            /\ handle[c].state = StateAt(events[handle[c].swap], handle[c].version)

(* Past open, a swap has its intent unless it was canceled, however it     *)
(* reached its state; the CHECK of the table alone would also let a failed *)
(* swap go without one (migration in core/internal/db/db.go).              *)
IntentOnceLocked ==
    \A id \in SwapIds :
        state[id] \notin {"open", "canceled"} => intent[id]

(* Transition decides on what the caller saw: the state a swap leaves is   *)
(* the state in the copy of the caller that moves it, however long ago the *)
(* copy was made and whoever else was at work.                             *)
NoBlindTransition ==
    [][\A c \in Callers :
           pc[c] = "ready" /\ pc'[c] = "committed" =>
               \A id \in SwapIds :
                   state'[id] # state[id] =>
                       handle[c].swap = id /\ handle[c].state = state[id]]_vars

(* Of all the callers that decided on one version of a swap one at most     *)
(* gets its transition through (WHERE ... AND version = ?): two that are   *)
(* both past their commit, and not yet at their read-back, had read        *)
(* different versions.                                                     *)
OneWinnerPerVersion ==
    \A c, d \in Callers :
        /\ c # d
        /\ pc[c] = "committed"
        /\ pc[d] = "committed"
        /\ handle[c].swap = handle[d].swap
        => handle[c].version # handle[d].version

(* The engine implements the lifecycle it promises.                        *)
Lifecycle == INSTANCE SwapLifecycle
                 WITH phase <- [id \in SwapIds |->
                                   IF id \in inserted THEN state[id] ELSE "none"],
                      age <- version

ImplementsLifecycle == Lifecycle!LifecycleSpec

(* The specification calls the log an immutable audit log that permits     *)
(* replay: the replay of a swap would start with its creation.  Create     *)
(* writes that event in a statement of its own.                            *)
AuditStartsWithCreate ==
    \A id \in SwapIds : version[id] > 0 => createdAt[id] = 0
=============================================================================
