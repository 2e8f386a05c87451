-------------------------- MODULE SwapEngineProofs --------------------------
(***************************************************************************)
(* Theorems about SwapEngine, for any set of swaps and any set of          *)
(* concurrent callers.  IInv strengthens the invariants of the module with *)
(* what they lean on: a caller past "idle" holds a copy of a swap that     *)
(* exists, and a swap that does not exist yet has no history.              *)
(***************************************************************************)
EXTENDS SwapEngine, SwapStatesProofs

BusyCallersHoldCopies ==
    \A c \in Callers :
        /\ pc[c] # "idle" => handle[c] # NoHandle
        /\ handle[c] # NoHandle => handle[c].swap \in inserted

UninsertedIsBlank ==
    \A id \in SwapIds \ inserted : state[id] = "open" /\ version[id] = 0

IInv == /\ TypeOK
        /\ BusyCallersHoldCopies
        /\ UninsertedIsBlank
        /\ LogReplaysToRow
        /\ HandlesAreHistory
        /\ IntentOnceLocked

\* A swap fails only from a state that needs an intent.
LEMMA FailureIsLate ==
    \A s \in States : "failed" \in ValidTransitions[s] => s \in {"commit_started", "refunding"}
BY DEF States, ValidTransitions

-----------------------------------------------------------------------------
(* How IInv comes to hold and is kept: one lemma for the initial states and *)
(* one for each kind of step.                                              *)

\* A caller's copy, once it has one, is of a swap at a version and in a state.
LEMMA CopiesAreHandles ==
    ASSUME TypeOK, NEW id \in SwapIds
    PROVE  HandleOn(id) \in Handles /\ HandleOn(id) # NoHandle
BY NoHandleIsNoCopy DEF TypeOK, HandleOn, Handles

\* Before the first Create the table is empty and no caller holds a copy.
LEMMA InitIInv == Init => IInv
BY NoHandleIsNoCopy DEF Init, IInv, TypeOK, BusyCallersHoldCopies, UninsertedIsBlank, LogReplaysToRow,
   HandlesAreHistory, IntentOnceLocked, StateAt, States, vars, rowVars, logVars

(* Taking a copy: InsertSwap, Get and ReadBack change a caller's copy to   *)
(* the row as it is, and at most add an id to the table.                   *)
LEMMA CopyPreservesIInv ==
    ASSUME IInv,
           NEW c \in Callers, NEW id \in SwapIds, NEW p \in {"inserted", "ready"},
           inserted' \in {inserted, inserted \cup {id}}, id \in inserted',
           pc' = [pc EXCEPT ![c] = p],
           handle' = [handle EXCEPT ![c] = HandleOn(id)],
           UNCHANGED <<state, version, intent, logVars>>
    PROVE  IInv'
<1> USE DEF IInv, logVars
<1>1. HandleOn(id) \in Handles /\ HandleOn(id) # NoHandle
  BY CopiesAreHandles
<1>2. TypeOK'
  BY <1>1 DEF TypeOK
<1>3. BusyCallersHoldCopies'
  BY <1>1 DEF TypeOK, BusyCallersHoldCopies, HandleOn
<1>4. UninsertedIsBlank'
  BY DEF UninsertedIsBlank
<1>5. LogReplaysToRow' /\ IntentOnceLocked'
  BY DEF LogReplaysToRow, IntentOnceLocked, StateAt
<1>6. HandlesAreHistory'
  <2> SUFFICES ASSUME NEW d \in Callers, handle'[d] # NoHandle
               PROVE  /\ handle'[d].version <= version[handle'[d].swap]
                      /\ handle'[d].state = StateAt(events[handle'[d].swap], handle'[d].version)
    BY DEF HandlesAreHistory, StateAt
  <2>1. CASE d = c
    <3>1. handle'[d] = HandleOn(id)
      BY <2>1 DEF TypeOK
    <3> QED
      BY <3>1 DEF HandleOn, TypeOK, LogReplaysToRow
  <2>2. CASE d # c
    <3>1. handle'[d] = handle[d]
      BY <2>2 DEF TypeOK
    <3> QED
      BY <3>1 DEF HandlesAreHistory
  <2> QED
    BY <2>1, <2>2
<1> QED
  BY <1>2, <1>3, <1>4, <1>5, <1>6

(* Giving up: RefuseTransition and Abort only drop the caller's copy.      *)
LEMMA DropPreservesIInv ==
    ASSUME IInv, NEW c \in Callers,
           pc' = [pc EXCEPT ![c] = "idle"],
           handle' = [handle EXCEPT ![c] = NoHandle],
           UNCHANGED <<rowVars, logVars>>
    PROVE  IInv'
<1> USE DEF IInv, rowVars, logVars
<1>1. TypeOK'
  BY DEF TypeOK
<1>2. BusyCallersHoldCopies'
  BY DEF TypeOK, BusyCallersHoldCopies
<1>3. UninsertedIsBlank' /\ LogReplaysToRow' /\ IntentOnceLocked'
  BY DEF UninsertedIsBlank, LogReplaysToRow, IntentOnceLocked, StateAt
<1>4. HandlesAreHistory'
  BY DEF TypeOK, HandlesAreHistory, StateAt
<1> QED
  BY <1>1, <1>2, <1>3, <1>4

(* The "create" event of Create is no transition: it changes neither a row *)
(* nor the transitions logged.                                             *)
LEMMA LogCreatePreservesIInv ==
    ASSUME IInv, NEW c \in Callers, LogCreate(c)
    PROVE  IInv'
<1> USE DEF IInv, LogCreate, rowVars
<1>0. handle[c].swap \in SwapIds
  BY DEF TypeOK, BusyCallersHoldCopies
<1>1. TypeOK'
  <2>1. events[handle[c].swap] \in Seq([from : States, to : States])
    BY <1>0 DEF TypeOK
  <2>2. Len(events[handle[c].swap]) \in Nat
    BY <2>1
  <2> QED
    BY <1>0, <2>2 DEF TypeOK
<1>2. BusyCallersHoldCopies'
  BY DEF TypeOK, BusyCallersHoldCopies
<1>3. UninsertedIsBlank' /\ LogReplaysToRow' /\ IntentOnceLocked' /\ HandlesAreHistory'
  BY DEF UninsertedIsBlank, LogReplaysToRow, IntentOnceLocked, HandlesAreHistory, StateAt
<1> QED
  BY <1>1, <1>2, <1>3

(* Writing locked_intent only ever sets it: the writes by id alone, which  *)
(* look at no version, cannot take a swap's intent away.                   *)
LEMMA WriteIntentPreservesIInv ==
    ASSUME IInv, NEW c \in Callers, WriteIntent(c)
    PROVE  IInv'
<1> USE DEF IInv, WriteIntent, logVars
<1>1. TypeOK'
  BY DEF TypeOK
<1>2. IntentOnceLocked'
  BY DEF TypeOK, IntentOnceLocked
<1>3. BusyCallersHoldCopies' /\ UninsertedIsBlank' /\ LogReplaysToRow' /\ HandlesAreHistory'
  BY DEF BusyCallersHoldCopies, UninsertedIsBlank, LogReplaysToRow, HandlesAreHistory, StateAt
<1> QED
  BY <1>1, <1>2, <1>3

(* A committed transition appends to the log exactly what it does to the   *)
(* row, and leaves every earlier version as it was.                        *)
LEMMA CommitPreservesIInv ==
    ASSUME IInv, NEW c \in Callers, NEW to \in States, CommitTransition(c, to)
    PROVE  IInv'
<1> DEFINE id == handle[c].swap
           log == events[id]
<1>1. handle[c] \in Handles /\ id \in SwapIds /\ id \in inserted
  BY DEF IInv, TypeOK, BusyCallersHoldCopies, CommitTransition
<1>2. /\ version[id] \in Nat /\ state[id] \in States
      /\ log \in Seq([from : States, to : States])
      /\ Len(log) = version[id]
  BY <1>1 DEF IInv, TypeOK, LogReplaysToRow
<1>3. to \in ValidTransitions[state[id]]
  BY DEF CommitTransition, Accepts
<1>4. /\ state' = [state EXCEPT ![id] = to]
      /\ version' = [version EXCEPT ![id] = @ + 1]
      /\ events' = [events EXCEPT ![id] = Append(@, Event(state[id], to))]
      /\ UNCHANGED <<inserted, intent, createdAt, handle>>
      /\ pc[c] = "ready" /\ pc' = [pc EXCEPT ![c] = "committed"]
  BY DEF CommitTransition
<1>5. Event(state[id], to) \in [from : States, to : States]
  BY <1>2 DEF Event
<1>6. /\ events'[id] = Append(log, Event(state[id], to))
      /\ Len(events'[id]) = version[id] + 1
      /\ events'[id][version[id] + 1] = Event(state[id], to)
      /\ \A v \in 1..version[id] : events'[id][v] = log[v]
  BY <1>1, <1>2, <1>4, <1>5 DEF IInv, TypeOK
<1>7. \A d \in SwapIds : d # id => state'[d] = state[d] /\ version'[d] = version[d] /\ events'[d] = events[d]
  BY <1>4 DEF IInv, TypeOK
<1>8. state'[id] = to /\ version'[id] = version[id] + 1
  BY <1>1, <1>4 DEF IInv, TypeOK
\* States the log gave before the step are the states it gives after it.
<1>9. \A d \in SwapIds : \A v \in 0..version[d] : StateAt(events'[d], v) = StateAt(events[d], v)
  <2> SUFFICES ASSUME NEW d \in SwapIds, NEW v \in 0..version[d]
               PROVE  StateAt(events'[d], v) = StateAt(events[d], v)
    OBVIOUS
  <2>1. CASE d # id
    BY <1>7, <2>1
  <2>2. CASE d = id /\ v = 0
    BY <2>2 DEF StateAt
  <2>3. CASE d = id /\ v # 0
    <3>1. v \in 1..version[id]
      BY <1>2, <2>3
    <3>2. events'[id][v] = log[v]
      BY <1>6, <3>1
    <3> QED
      BY <2>3, <3>2 DEF StateAt
  <2> QED
    BY <2>1, <2>2, <2>3
<1>10. StateAt(events'[id], version[id] + 1) = to
  BY <1>2, <1>6 DEF StateAt, Event
<1>11. TypeOK'
  <2>1. Append(log, Event(state[id], to)) \in Seq([from : States, to : States])
    BY <1>2, <1>5
  <2>2. events' \in [SwapIds -> Seq([from : States, to : States])]
    BY <1>4, <2>1 DEF IInv, TypeOK
  <2>3. version' \in [SwapIds -> Nat]
    <3>1. version \in [SwapIds -> Nat] /\ version[id] + 1 \in Nat
      BY <1>2 DEF IInv, TypeOK
    <3> QED
      BY <1>4, <3>1
  <2>5. state' \in [SwapIds -> States]
    <3>1. state \in [SwapIds -> States]
      BY DEF IInv, TypeOK
    <3> QED
      BY <1>4, <3>1
  <2>4. pc' \in [Callers -> {"idle", "inserted", "ready", "committed"}]
    BY <1>4 DEF IInv, TypeOK
  <2> QED
    BY <1>4, <2>2, <2>3, <2>4, <2>5 DEF IInv, TypeOK
<1>12. BusyCallersHoldCopies'
  BY <1>4 DEF IInv, TypeOK, BusyCallersHoldCopies
<1>13. UninsertedIsBlank'
  BY <1>1, <1>4, <1>7 DEF IInv, UninsertedIsBlank
<1>14. LogReplaysToRow'
  <2> SUFFICES ASSUME NEW d \in SwapIds
               PROVE  /\ Len(events'[d]) = version'[d]
                      /\ state'[d] = StateAt(events'[d], version'[d])
                      /\ \A v \in 1..Len(events'[d]) :
                             /\ events'[d][v].from = StateAt(events'[d], v - 1)
                             /\ events'[d][v].to \in ValidTransitions[events'[d][v].from]
    BY DEF LogReplaysToRow
  <2>1. CASE d # id
    BY <1>7, <2>1 DEF IInv, LogReplaysToRow, StateAt
  <2>2. CASE d = id
    <3>1. Len(events'[d]) = version'[d] /\ state'[d] = StateAt(events'[d], version'[d])
      BY <1>2, <1>6, <1>8, <1>10, <2>2 DEF StateAt
    <3>2. ASSUME NEW v \in 1..Len(events'[d])
          PROVE  /\ events'[d][v].from = StateAt(events'[d], v - 1)
                 /\ events'[d][v].to \in ValidTransitions[events'[d][v].from]
      <4>1. CASE v = version[id] + 1
        <5>1. events'[d][v] = Event(state[id], to)
          BY <1>6, <2>2, <4>1
        <5>2. state[id] = StateAt(events'[id], version[id])
          BY <1>1, <1>2, <1>9 DEF IInv, LogReplaysToRow
        <5>3. v - 1 = version[id]
          BY <1>2, <4>1
        <5>4. events'[d][v].from = state[id] /\ events'[d][v].to = to
          BY <5>1 DEF Event
        <5>5. StateAt(events'[d], v - 1) = state[id]
          BY <2>2, <5>2, <5>3
        <5> QED
          BY <1>3, <5>4, <5>5
      <4>2. CASE v # version[id] + 1
        <5>1. v \in 1..version[id] /\ v - 1 \in 0..version[id]
          BY <1>2, <1>6, <2>2, <4>2
        <5>2. events'[d][v] = events[d][v]
          BY <1>6, <2>2, <5>1
        <5>3. StateAt(events'[d], v - 1) = StateAt(events[d], v - 1)
          BY <1>9, <2>2, <5>1 DEF StateAt
        <5> QED
          BY <1>2, <2>2, <5>1, <5>2, <5>3 DEF IInv, LogReplaysToRow
      <4> QED
        BY <4>1, <4>2
    <3> QED
      BY <3>1, <3>2
  <2> QED
    BY <2>1, <2>2
<1>15. HandlesAreHistory'
  <2> SUFFICES ASSUME NEW d \in Callers, handle[d] # NoHandle
               PROVE  /\ handle[d].version <= version'[handle[d].swap]
                      /\ handle[d].state = StateAt(events'[handle[d].swap], handle[d].version)
    BY <1>4 DEF HandlesAreHistory, StateAt
  <2>1. handle[d].swap \in SwapIds /\ handle[d].version \in Nat
    BY DEF IInv, TypeOK, Handles
  <2>2. /\ handle[d].version <= version[handle[d].swap]
        /\ handle[d].state = StateAt(events[handle[d].swap], handle[d].version)
    BY DEF IInv, HandlesAreHistory
  <2>3. handle[d].version \in 0..version[handle[d].swap]
    BY <2>1, <2>2 DEF IInv, TypeOK
  <2>4. StateAt(events'[handle[d].swap], handle[d].version) = StateAt(events[handle[d].swap], handle[d].version)
    BY <1>9, <2>1, <2>3
  <2>5. version[handle[d].swap] <= version'[handle[d].swap]
    BY <1>2, <1>7, <1>8, <2>1 DEF IInv, TypeOK
  <2> QED
    BY <1>4, <2>1, <2>2, <2>4, <2>5 DEF IInv, TypeOK
<1>16. IntentOnceLocked'
  <2>1. ASSUME to \notin {"open", "canceled"} PROVE intent[id]
    <3>1. CASE to = "failed"
      BY <1>1, <1>2, <1>3, <3>1, FailureIsLate DEF IInv, IntentOnceLocked
    <3>2. CASE to # "failed"
      BY <2>1, <3>2 DEF CommitTransition, Accepts, IntentOptional
    <3> QED
      BY <3>1, <3>2
  <2> QED
    BY <1>4, <1>7, <1>8, <2>1 DEF IInv, IntentOnceLocked
<1> QED
  BY <1>11, <1>12, <1>13, <1>14, <1>15, <1>16 DEF IInv

-----------------------------------------------------------------------------
(* Every step of the engine preserves IInv.                                *)
LEMMA NextIInv == IInv /\ [Next]_vars => IInv'
<1> SUFFICES ASSUME IInv, [Next]_vars PROVE IInv'
  OBVIOUS
<1>1. ASSUME NEW c \in Callers, NEW id \in SwapIds, InsertSwap(c, id) PROVE IInv'
  <2>1. /\ inserted' = inserted \cup {id}
        /\ pc' = [pc EXCEPT ![c] = "inserted"]
        /\ handle' = [handle EXCEPT ![c] = HandleOn(id)]
        /\ UNCHANGED <<state, version, intent, logVars>>
    BY <1>1 DEF InsertSwap
  <2> QED
    BY <2>1, CopyPreservesIInv
<1>2. ASSUME NEW c \in Callers, NEW id \in SwapIds, Get(c, id) PROVE IInv'
  <2>1. /\ id \in inserted /\ inserted' = inserted
        /\ pc' = [pc EXCEPT ![c] = "ready"]
        /\ handle' = [handle EXCEPT ![c] = HandleOn(id)]
        /\ UNCHANGED <<state, version, intent, logVars>>
    BY <1>2 DEF Get, rowVars
  <2> QED
    BY <2>1, CopyPreservesIInv
<1>3. ASSUME NEW c \in Callers, NEW to \in States, CommitTransition(c, to) PROVE IInv'
  BY <1>3, CommitPreservesIInv
<1>4. ASSUME NEW c \in Callers, NEW to \in States, RefuseTransition(c, to) PROVE IInv'
  BY <1>4, DropPreservesIInv DEF RefuseTransition
<1>5. ASSUME NEW c \in Callers, LogCreate(c) PROVE IInv'
  BY <1>5, LogCreatePreservesIInv
<1>6. ASSUME NEW c \in Callers, WriteIntent(c) PROVE IInv'
  BY <1>6, WriteIntentPreservesIInv
<1>7. ASSUME NEW c \in Callers, ReadBack(c) PROVE IInv'
  <2> DEFINE id == handle[c].swap
  <2>1. /\ id \in SwapIds /\ id \in inserted /\ inserted' = inserted
        /\ pc' = [pc EXCEPT ![c] = "ready"]
        /\ handle' = [handle EXCEPT ![c] = HandleOn(id)]
        /\ UNCHANGED <<state, version, intent, logVars>>
    BY <1>7 DEF ReadBack, rowVars, IInv, TypeOK, BusyCallersHoldCopies
  <2> QED
    BY <2>1, CopyPreservesIInv
<1>8. ASSUME NEW c \in Callers, Abort(c) PROVE IInv'
  BY <1>8, DropPreservesIInv DEF Abort
<1>9. CASE UNCHANGED vars
  <2> USE <1>9 DEF vars, rowVars, logVars
  <2>1. TypeOK' /\ BusyCallersHoldCopies' /\ UninsertedIsBlank'
    BY DEF IInv, TypeOK, BusyCallersHoldCopies, UninsertedIsBlank
  <2>2. LogReplaysToRow' /\ HandlesAreHistory' /\ IntentOnceLocked'
    BY DEF IInv, LogReplaysToRow, HandlesAreHistory, IntentOnceLocked
  <2> QED
    BY <2>1, <2>2 DEF IInv
<1> QED
  BY <1>1, <1>2, <1>3, <1>4, <1>5, <1>6, <1>7, <1>8, <1>9 DEF Next

(* The strengthened invariant holds in every reachable state.              *)
THEOREM SpecIInv == Spec => []IInv
BY InitIInv, NextIInv, PTL DEF Spec

(* Types: the rows, the audit log and the callers' copies are always well  *)
(* formed.                                                                 *)
THEOREM SpecTypeOK == Spec => []TypeOK
BY SpecIInv, PTL DEF IInv

(* However many callers race through Transition, the audit log of a swap   *)
(* replays to its row: the write of the row and of the event are one       *)
(* transaction guarded by the version.                                     *)
THEOREM SpecLogReplaysToRow == Spec => []LogReplaysToRow
BY SpecIInv, PTL DEF IInv

(* No caller ever holds a copy of a swap that was not its state at the     *)
(* version the copy carries (Get and the read-back of Transition).         *)
THEOREM SpecHandlesAreHistory == Spec => []HandlesAreHistory
BY SpecIInv, PTL DEF IInv

(* A swap past open and not canceled has its locked_intent.                *)
THEOREM SpecIntentOnceLocked == Spec => []IntentOnceLocked
BY SpecIInv, PTL DEF IInv

-----------------------------------------------------------------------------
(* What the compare-and-swap buys: a transition leaves the very state its  *)
(* caller read, so every decision taken outside the transaction is taken   *)
(* on the state it is applied to.                                          *)
THEOREM SpecNoBlindTransition == Spec => NoBlindTransition
<1> DEFINE Seen == \A c \in Callers :
                      pc[c] = "ready" /\ pc'[c] = "committed" =>
                          \A id \in SwapIds :
                              state'[id] # state[id] =>
                                  handle[c].swap = id /\ handle[c].state = state[id]
<1>1. IInv /\ [Next]_vars => [Seen]_vars
  <2> SUFFICES ASSUME IInv, Next,
                      NEW c \in Callers, pc[c] = "ready", pc'[c] = "committed",
                      NEW id \in SwapIds, state'[id] # state[id]
               PROVE  handle[c].swap = id /\ handle[c].state = state[id]
    BY DEF vars
  <2>1. PICK to \in States : CommitTransition(c, to)
    BY DEF Next, InsertSwap, LogCreate, Get, WriteIntent, CommitTransition, RefuseTransition,
           ReadBack, Abort, rowVars, IInv, TypeOK
  <2>2. handle[c].swap = id
    BY <2>1 DEF CommitTransition, IInv, TypeOK
  <2>3. handle[c] # NoHandle
    BY DEF IInv, BusyCallersHoldCopies
  <2>4. version[id] = handle[c].version
    BY <2>1, <2>2 DEF CommitTransition, Accepts
  <2> QED
    BY <2>2, <2>3, <2>4 DEF IInv, HandlesAreHistory, LogReplaysToRow
<1> QED
  BY <1>1, SpecIInv, PTL DEF Spec, NoBlindTransition

(* A caller past its commit has left the version it read behind: that is   *)
(* why no other caller can consume that version once more.                 *)
WinnersAreBehind ==
    \A c \in Callers : pc[c] = "committed" => handle[c].version < version[handle[c].swap]

WinnersInv == OneWinnerPerVersion /\ WinnersAreBehind

LEMMA CommitKeepsWinners ==
    ASSUME IInv, WinnersInv, NEW c \in Callers, NEW to \in States, CommitTransition(c, to)
    PROVE  WinnersInv'
<1> DEFINE id == handle[c].swap
<1>1. /\ handle' = handle /\ pc' = [pc EXCEPT ![c] = "committed"]
      /\ version' = [version EXCEPT ![id] = @ + 1] /\ handle[c].version = version[id]
  BY DEF CommitTransition, Accepts
<1>2. /\ pc \in [Callers -> {"idle", "inserted", "ready", "committed"}]
      /\ version \in [SwapIds -> Nat]
      /\ pc[c] = "ready"
  BY DEF IInv, TypeOK, CommitTransition
<1>3. \A d \in Callers : pc[d] # "idle" => handle[d].swap \in SwapIds /\ handle[d].version \in Nat
  BY DEF IInv, TypeOK, BusyCallersHoldCopies, Handles
<1>4. ASSUME NEW d \in Callers, d # c, pc'[d] = "committed", handle[d].swap = id
      PROVE  handle[d].version # handle[c].version
  <2>1. pc[d] = "committed"
    BY <1>1, <1>2, <1>4
  <2>2. handle[d].version < version[id]
    BY <1>4, <2>1 DEF WinnersInv, WinnersAreBehind
  <2>3. handle[d].version \in Nat /\ version[id] \in Nat
    BY <1>2, <1>3, <1>4, <2>1
  <2> QED
    BY <1>1, <2>2, <2>3
<1>5. ASSUME NEW d \in Callers, pc'[d] = "committed"
      PROVE  handle[d].version < version'[handle[d].swap]
  <2>1. handle[d].swap \in SwapIds /\ handle[d].version \in Nat
    BY <1>1, <1>2, <1>3, <1>5
  <2>2. /\ version[handle[d].swap] \in Nat
        /\ version'[handle[d].swap] \in {version[handle[d].swap], version[handle[d].swap] + 1}
        /\ d = c => version'[handle[d].swap] = version[handle[d].swap] + 1
    BY <1>1, <1>2, <2>1
  <2>3. d # c => handle[d].version < version[handle[d].swap]
    BY <1>1, <1>2, <1>5 DEF WinnersInv, WinnersAreBehind
  <2> QED
    BY <1>1, <2>1, <2>2, <2>3
<1>6. OneWinnerPerVersion'
  <2> SUFFICES ASSUME NEW d \in Callers, NEW e \in Callers, d # e,
                      pc'[d] = "committed", pc'[e] = "committed", handle[d].swap = handle[e].swap
               PROVE  handle[d].version # handle[e].version
    BY <1>1 DEF OneWinnerPerVersion
  <2>1. CASE d = c \/ e = c
    BY <1>4, <2>1
  <2>2. CASE d # c /\ e # c
    BY <1>1, <1>2, <2>2 DEF WinnersInv, OneWinnerPerVersion
  <2> QED
    BY <2>1, <2>2
<1> QED
  BY <1>1, <1>5, <1>6 DEF WinnersInv, WinnersAreBehind

\* No other step takes a caller past a commit, or touches the copy of one that is.
LEMMA OthersKeepWinners ==
    ASSUME IInv, WinnersInv, [Next]_vars,
           ~\E c \in Callers, to \in States : CommitTransition(c, to)
    PROVE  WinnersInv'
<1>1. version' = version
  BY DEF Next, InsertSwap, LogCreate, Get, WriteIntent, RefuseTransition, ReadBack, Abort,
         rowVars, logVars, vars
<1>2. ASSUME NEW d \in Callers, pc'[d] = "committed"
      PROVE  pc[d] = "committed" /\ handle'[d] = handle[d]
  BY <1>2 DEF Next, InsertSwap, LogCreate, Get, WriteIntent, RefuseTransition, ReadBack, Abort,
              rowVars, logVars, vars, IInv, TypeOK
<1> QED
  BY <1>1, <1>2 DEF WinnersInv, OneWinnerPerVersion, WinnersAreBehind

(* What the compare-and-swap is for: however many callers decided on one   *)
(* version of a swap, one at most gets its transition through.             *)
THEOREM SpecOneWinnerPerVersion == Spec => []OneWinnerPerVersion
<1>1. Init => WinnersInv
  BY DEF Init, WinnersInv, OneWinnerPerVersion, WinnersAreBehind
<1>2. IInv /\ WinnersInv /\ [Next]_vars => WinnersInv'
  BY CommitKeepsWinners, OthersKeepWinners
<1>3. WinnersInv => OneWinnerPerVersion
  BY DEF WinnersInv
<1> QED
  BY <1>1, <1>2, <1>3, SpecIInv, PTL DEF Spec

-----------------------------------------------------------------------------
(* The engine implements SwapLifecycle.                                    *)

\* The lifecycle's table is the engine's.
LEMMA SameTable ==
    Lifecycle!States = States /\ Lifecycle!ValidTransitions = ValidTransitions
BY DEF States, ValidTransitions, Lifecycle!States, Lifecycle!ValidTransitions

(* Seen through (state, version) only, each step of the engine is a        *)
(* lifecycle step or no step at all.                                       *)
LEMMA StepImplementsLifecycle ==
    IInv /\ [Next]_vars => [Lifecycle!LifecycleNext]_Lifecycle!lifecycleVars
<1> USE DEF Lifecycle!lifecycleVars
<1> DEFINE phase == [id \in SwapIds |-> IF id \in inserted THEN state[id] ELSE "none"]
<1> SUFFICES ASSUME IInv, [Next]_vars
             PROVE  Lifecycle!LifecycleNext \/ (phase' = phase /\ version' = version)
  OBVIOUS
<1>1. ASSUME NEW c \in Callers, NEW id \in SwapIds, InsertSwap(c, id)
      PROVE  Lifecycle!Appear(id)
  <2>1. phase[id] = "none" /\ state[id] = "open"
    BY <1>1 DEF InsertSwap, IInv, UninsertedIsBlank
  <2>2. phase' = [phase EXCEPT ![id] = "open"]
    BY <1>1, <2>1 DEF InsertSwap
  <2> QED
    BY <1>1, <2>1, <2>2 DEF Lifecycle!Appear, InsertSwap
<1>2. ASSUME NEW c \in Callers, NEW to \in States, CommitTransition(c, to)
      PROVE  Lifecycle!LifecycleNext
  <2> DEFINE id == handle[c].swap
  <2>1. id \in SwapIds /\ id \in inserted
    BY <1>2 DEF CommitTransition, IInv, TypeOK, BusyCallersHoldCopies
  <2>2. phase[id] = state[id] /\ state[id] \in States
    BY <2>1 DEF IInv, TypeOK
  <2>3. phase' = [phase EXCEPT ![id] = to] /\ to \in ValidTransitions[phase[id]]
    BY <1>2, <2>1, <2>2 DEF CommitTransition, Accepts, IInv, TypeOK
  <2>4. version' = [version EXCEPT ![id] = @ + 1]
    BY <1>2 DEF CommitTransition
  <2> QED
    BY <2>1, <2>2, <2>3, <2>4, SameTable DEF Lifecycle!Move, Lifecycle!LifecycleNext
<1>3. ASSUME NEW c \in Callers, NEW id \in SwapIds, Get(c, id)
      PROVE  phase' = phase /\ version' = version
  BY <1>3 DEF Get, rowVars
<1>4. ASSUME NEW c \in Callers, NEW to \in States, RefuseTransition(c, to)
      PROVE  phase' = phase /\ version' = version
  BY <1>4 DEF RefuseTransition, rowVars
<1>5. ASSUME NEW c \in Callers, LogCreate(c) \/ WriteIntent(c) \/ ReadBack(c) \/ Abort(c)
      PROVE  phase' = phase /\ version' = version
  BY <1>5 DEF LogCreate, WriteIntent, ReadBack, Abort, rowVars
<1>6. CASE UNCHANGED vars
  BY <1>6 DEF vars, rowVars
<1>7. CASE Next
  <2> DEFINE Quiet(c) == \/ \E id \in SwapIds : Get(c, id)
                         \/ \E to \in States : RefuseTransition(c, to)
                         \/ LogCreate(c) \/ WriteIntent(c) \/ ReadBack(c) \/ Abort(c)
  <2>1. CASE \E c \in Callers, id \in SwapIds : InsertSwap(c, id)
    <3>1. PICK c \in Callers, id \in SwapIds : InsertSwap(c, id)
      BY <2>1
    <3>2. Lifecycle!Appear(id)
      BY <1>1, <3>1
    <3> QED
      BY <3>2 DEF Lifecycle!LifecycleNext
  <2>2. CASE \E c \in Callers, to \in States : CommitTransition(c, to)
    BY <1>2, <2>2
  <2>3. CASE \E c \in Callers : Quiet(c)
    <3>1. PICK c \in Callers : Quiet(c)
      BY <2>3
    <3>2. phase' = phase /\ version' = version
      <4> HIDE DEF phase
      <4> QED
        BY <1>3, <1>4, <1>5, <3>1
    <3> QED
      BY <3>2
  <2>4. \/ \E c \in Callers, id \in SwapIds : InsertSwap(c, id)
        \/ \E c \in Callers, to \in States : CommitTransition(c, to)
        \/ \E c \in Callers : Quiet(c)
    BY <1>7 DEF Next
  <2> HIDE DEF phase
  <2> QED
    BY <2>1, <2>2, <2>3, <2>4
<1> QED
  BY <1>6, <1>7

\* Before the first Create no swap exists, in the lifecycle's terms either.
LEMMA InitImplementsLifecycle == Init => Lifecycle!LifecycleInit
BY DEF Init, Lifecycle!LifecycleInit

(* Refinement: every behaviour of the engine, for any number of swaps and  *)
(* callers, is a behaviour of the lifecycle.                               *)
THEOREM SpecImplementsLifecycle == Spec => ImplementsLifecycle
BY SpecIInv, InitImplementsLifecycle, StepImplementsLifecycle, PTL
   DEF Spec, ImplementsLifecycle, Lifecycle!LifecycleSpec

-----------------------------------------------------------------------------
(* What the log and the table together say of a history.                   *)

\* The states a log leads through, after open.
WalkOf(log) == [v \in 1..Len(log) |-> log[v].to]

\* The history of a swap is a walk of the table from open to where the row is.
HistoryIsAWalk ==
    \A id \in SwapIds :
        /\ IsWalk("open", WalkOf(events[id]))
        /\ EndOf("open", WalkOf(events[id])) = state[id]

\* A swap is moved ten times at most, and one that was moved is never open again.
HistoryIsShort ==
    \A id \in SwapIds :
        /\ version[id] < LongestWalk
        /\ version[id] = 0 <=> state[id] = "open"

\* A copy of an ended swap is as good as the row.
EndedCopiesAreCurrent ==
    \A c \in Callers :
        handle[c] # NoHandle /\ handle[c].state \in Terminal =>
            /\ handle[c].version = version[handle[c].swap]
            /\ handle[c].state = state[handle[c].swap]

LEMMA LogIsAWalk ==
    ASSUME IInv, NEW id \in SwapIds
    PROVE  LET w == WalkOf(events[id])
           IN  IsWalk("open", w) /\ EndOf("open", w) = state[id] /\ Len(w) = version[id]
<1> DEFINE log == events[id]
           w == WalkOf(log)
<1>1. /\ log \in Seq([from : States, to : States]) /\ Len(log) = version[id]
      /\ version[id] \in Nat /\ state[id] = StateAt(log, version[id])
      /\ \A v \in 1..Len(log) : /\ log[v].from = StateAt(log, v - 1)
                                /\ log[v].to \in ValidTransitions[log[v].from]
  BY DEF IInv, TypeOK, LogReplaysToRow
<1> HIDE DEF log
<1>2. ASSUME NEW v \in 1..Len(log) PROVE log[v].to \in States
  <2> DEFINE E == [from : States, to : States]
  <2> HIDE DEF E
  <2>0. log \in Seq(E) /\ v \in 1..Len(log)
    BY <1>1 DEF E
  <2>1. log[v] \in E
    BY <2>0
  <2> QED BY <2>1 DEF E
<1>3. /\ w \in Seq(States) /\ Len(w) = Len(log) /\ Len(log) \in Nat
      /\ \A v \in 1..Len(log) : w[v] = log[v].to
  BY <1>1, <1>2 DEF WalkOf
<1> HIDE DEF w
<1>4. ASSUME NEW v \in 1..Len(w) PROVE w[v] \in ValidTransitions[Before("open", w, v)]
  <2>1. v \in 1..Len(log) /\ w[v] = log[v].to
    BY <1>3
  <2>2. log[v].to \in ValidTransitions[StateAt(log, v - 1)]
    BY <1>1, <2>1
  <2>3. StateAt(log, v - 1) = Before("open", w, v)
    <3>1. CASE v = 1
      BY <3>1 DEF StateAt, Before
    <3>2. CASE v # 1
      <4>1. v - 1 \in 1..Len(log) /\ v - 1 # 0
        BY <1>3, <2>1, <3>2
      <4>2. w[v - 1] = log[v - 1].to
        BY <1>3, <4>1
      <4> QED BY <3>2, <4>1, <4>2 DEF StateAt, Before
    <3> QED BY <3>1, <3>2
  <2> QED BY <2>1, <2>2, <2>3
<1>5. EndOf("open", w) = state[id]
  <2>1. CASE Len(log) = 0
    <3>1. w = <<>>
      BY <1>3, <2>1
    <3> QED BY <1>1, <2>1, <3>1 DEF EndOf, StateAt
  <2>2. CASE Len(log) # 0
    <3>1. Len(log) \in 1..Len(log) /\ w # <<>>
      BY <1>3, <2>2
    <3>2. w[Len(w)] = log[Len(log)].to
      BY <1>3, <3>1
    <3> QED BY <1>1, <2>2, <3>1, <3>2 DEF EndOf, StateAt
  <2> QED BY <2>1, <2>2
<1>6. IsWalk("open", w)
  BY <1>3, <1>4 DEF IsWalk
<1> QED BY <1>1, <1>3, <1>5, <1>6 DEF w, log

\* The audit log of a swap, however many callers wrote it, is a walk of the
\* transition table from open to the state of the row (engine.go, Transition).
THEOREM SpecHistoryIsAWalk == Spec => []HistoryIsAWalk
<1>1. IInv => HistoryIsAWalk
  BY LogIsAWalk DEF HistoryIsAWalk
<1> QED BY <1>1, SpecIInv, PTL

\* No retry, race or restart moves a swap more than ten times, and none brings
\* it back to open (engine.go, ValidTransitions).
THEOREM SpecHistoryIsShort == Spec => []HistoryIsShort
<1>1. IInv => HistoryIsShort
  <2> SUFFICES ASSUME IInv, NEW id \in SwapIds
               PROVE  version[id] < LongestWalk /\ (version[id] = 0 <=> state[id] = "open")
    BY DEF HistoryIsShort
  <2> DEFINE w == WalkOf(events[id])
  <2>1. IsWalk("open", w) /\ EndOf("open", w) = state[id] /\ Len(w) = version[id]
    BY LogIsAWalk
  <2> HIDE DEF w
  <2>2. "open" \in States
    BY DEF States
  <2>3. Len(w) < LongestWalk /\ (EndOf("open", w) = "open" => w = <<>>)
    BY <2>1, <2>2, WalksAreShort
  <2>4. w \in Seq(States)
    BY <2>1 DEF IsWalk
  <2>5. w = <<>> <=> Len(w) = 0
    BY <2>4
  <2>6. w = <<>> => EndOf("open", w) = "open"
    BY DEF EndOf
  <2> QED BY <2>1, <2>3, <2>5, <2>6
<1> QED BY <1>1, SpecIInv, PTL

\* Who read a swap that had ended may go on with what it read: no move follows an
\* end, so the copy is the row (engine.go, Get and Transition).
THEOREM SpecEndedCopiesAreCurrent == Spec => []EndedCopiesAreCurrent
<1>1. IInv => EndedCopiesAreCurrent
  <2> SUFFICES ASSUME IInv, NEW c \in Callers, handle[c] # NoHandle,
                      handle[c].state \in Terminal
               PROVE  /\ handle[c].version = version[handle[c].swap]
                      /\ handle[c].state = state[handle[c].swap]
    BY DEF EndedCopiesAreCurrent
  <2> DEFINE id == handle[c].swap
             v == handle[c].version
  <2>1. id \in SwapIds /\ v \in Nat /\ version[id] \in Nat
    BY DEF IInv, TypeOK, Handles
  <2>2. v <= version[id] /\ handle[c].state = StateAt(events[id], v)
    BY DEF IInv, HandlesAreHistory
  <2>3. /\ Len(events[id]) = version[id] /\ state[id] = StateAt(events[id], version[id])
        /\ \A n \in 1..Len(events[id]) :
               /\ events[id][n].from = StateAt(events[id], n - 1)
               /\ events[id][n].to \in ValidTransitions[events[id][n].from]
    BY <2>1 DEF IInv, LogReplaysToRow
  <2>4. ASSUME v < version[id] PROVE FALSE
    <3>1. v + 1 \in 1..Len(events[id]) /\ (v + 1) - 1 = v
      BY <2>1, <2>3, <2>4
    <3>2. events[id][v + 1].from = handle[c].state
      BY <2>2, <2>3, <3>1
    <3>3. ValidTransitions[handle[c].state] # {}
      BY <2>3, <3>1, <3>2
    <3> QED BY <3>3 DEF Terminal, ValidTransitions, States
  <2>5. v = version[id]
    BY <2>1, <2>2, <2>4
  <2> QED BY <2>2, <2>3, <2>5
<1> QED BY <1>1, SpecIInv, PTL

\* An ended swap stays as it is, row and log, whoever else is at work (engine.go,
\* Transition).
TerminalIsFinal ==
    [][\A id \in SwapIds :
           state[id] \in Terminal =>
               state'[id] = state[id] /\ version'[id] = version[id] /\ events'[id] = events[id]]_vars

THEOREM SpecTerminalIsFinal == Spec => TerminalIsFinal
<1> DEFINE Final == \A id \in SwapIds :
                        state[id] \in Terminal =>
                            state'[id] = state[id] /\ version'[id] = version[id] /\ events'[id] = events[id]
<1>1. IInv /\ [Next]_vars => [Final]_vars
  <2> SUFFICES ASSUME IInv, Next, NEW id \in SwapIds, state[id] \in Terminal
               PROVE  /\ state'[id] = state[id] /\ version'[id] = version[id]
                      /\ events'[id] = events[id]
    BY DEF vars
  <2>1. CASE \E c \in Callers, to \in States : CommitTransition(c, to)
    <3>1. PICK c \in Callers, to \in States : CommitTransition(c, to)
      BY <2>1
    <3>2. handle[c].swap # id
      BY <3>1 DEF CommitTransition, Accepts, Terminal, ValidTransitions, States
    <3> QED BY <3>1, <3>2 DEF CommitTransition, IInv, TypeOK
  <2>2. CASE ~\E c \in Callers, to \in States : CommitTransition(c, to)
    BY <2>2 DEF Next, InsertSwap, LogCreate, Get, WriteIntent, RefuseTransition, ReadBack, Abort,
                rowVars, logVars
  <2> QED BY <2>1, <2>2
<1> QED BY <1>1, SpecIInv, PTL DEF Spec, TerminalIsFinal

=============================================================================
