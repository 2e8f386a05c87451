--------------------------- MODULE NodeSupervisor ---------------------------
(***************************************************************************)
(* The node manager of the core, for one node: the calls that start, stop  *)
(* and restart it, the supervisor that keeps a wanted node running, and    *)
(* one goroutine per process that waits for its exit.  All of them share   *)
(* the lifecycle record under a mutex; what happens between two sections   *)
(* of it can interleave.  Nodes do not interact, so one stands for all.    *)
(*                                                                         *)
(* The node is enabled, on a local host, and agrees with the manifest: a   *)
(* node that is not is refused by every call and skipped by the            *)
(* supervisor.  Time is kept in ticks of the supervisor.                   *)
(***************************************************************************)
EXTENDS Naturals, Sequences, FiniteSets

CONSTANTS Callers,      \* calls of the shell at one time
          Processes,    \* bound of the model: processes at one time
          NoProcess,
          MaxAttempts,  \* restartMaxAttempts
          Window,       \* restartWindowDuration
          BaseBackoff,  \* restartBaseBackoff
          MaxBackoff    \* restartMaxBackoff

ASSUME SupervisorAssumption ==
    /\ NoProcess \notin Processes
    /\ IsFiniteSet(Processes)
    /\ {MaxAttempts, Window, BaseBackoff, MaxBackoff} \subseteq Nat \ {0}

Least(m, n) == IF m < n THEN m ELSE n

Backoff(attempt) == Least(BaseBackoff * 2^(attempt - 1), MaxBackoff)

(* The backoffs of a node that never comes up end within the window, the    *)
(* last one included, for ERROR_HARD is set by the attempt after it: with   *)
(* the code's values 2 + 4 + 8 + 16 + 32 seconds of 5 minutes.              *)
ASSUME BackoffsFitWindow ==
    LET waited[n \in 0 .. MaxAttempts] ==
            IF n = 0 THEN 0 ELSE waited[n - 1] + Backoff(n)
    IN  waited[MaxAttempts] < Window

ASSUME BackoffIsCapped == \A n \in 1 .. MaxAttempts : Backoff(n) \in 0 .. MaxBackoff

VARIABLES lc,      \* the nodeLifecycleState
          proc,    \* the processes
          due,     \* the ticker of supervisorLoop has fired
          looked,  \* superviseOnce has seen that the node is wanted and not alive
          calls,   \* where the calls are
          tries    \* history: ages of the attempts to start since the last stop

nodeVars == <<lc, proc, due, looked, calls, tries>>

Operations == {"start", "stop", "restart"}

Stages == {"free", "alive", "told", "gone", "orphan"}

(* window holds the ages of the failures, the oldest first; wait is what is *)
(* left until nextStartAfter.                                               *)
Blank == [wanted |-> FALSE, process |-> NoProcess, window |-> <<>>, wait |-> 0, reason |-> "none"]

Idle == [at |-> "idle", op |-> "none", p |-> NoProcess]

(* Besides their types: the record never names a process that was reaped.   *)
TypeOK ==
    /\ lc \in [wanted : BOOLEAN, process : Processes \cup {NoProcess},
               window : Seq(0 .. Window), wait : 0 .. MaxBackoff,
               reason : {"none", "hard", "transient", "backoff"}]
    /\ proc \in [Processes -> Stages]
    /\ lc.process # NoProcess => proc[lc.process] \in {"alive", "gone"}
    /\ due \in BOOLEAN /\ looked \in BOOLEAN
    /\ calls \in [Callers -> [at : {"idle", "asked", "tell", "start"},
                              op : Operations \cup {"none"},
                              p : Processes \cup {NoProcess}]]
    /\ tries \in Seq(0 .. Window - 1)

Init ==
    /\ lc = Blank
    /\ proc = [p \in Processes |-> "free"]
    /\ due = FALSE /\ looked = FALSE
    /\ calls = [c \in Callers |-> Idle]
    /\ tries = <<>>

-----------------------------------------------------------------------------
(* The lifecycle record.                                                    *)

(* A process that has exited is seen as such once Wait has set its state    *)
(* and unless a signal ended it: ProcessState is read without a lock.       *)
MayLookAlive == lc.process # NoProcess
MayLookDead == MayLookAlive => proc[lc.process] = "gone"

(* Failures are appended as they happen: the recent ones are the last.      *)
FirstRecent(window) ==
    CHOOSE i \in 1 .. Len(window) + 1 :
        /\ \A j \in 1 .. i - 1 : window[j] >= Window
        /\ i <= Len(window) => window[i] < Window

Pruned(window) == SubSeq(window, FirstRecent(window), Len(window))

(* Mutant: a start that failed is not counted.                              *)
FailedUncounted(l, window) ==
    [l EXCEPT !.window = window, !.reason = "transient", !.wait = Backoff(Len(window) + 1)]

Failed(l, window) ==
    [l EXCEPT !.window = Append(window, 0),
              !.reason = "transient",
              !.wait = Backoff(Len(window) + 1)]

(* A process is known by its exec.Cmd, which nobody confuses with another.  *)
Unused == {p \in Processes : proc[p] = "free" /\ \A c \in Callers : calls[c].p # p}

Started(l, p) ==
    /\ lc' = [l EXCEPT !.process = p, !.wait = 0, !.reason = "none"]
    /\ proc' = [proc EXCEPT ![p] = "alive"]
    /\ tries' = Append(tries, 0)

(* attemptStartLocked on the record l; blocks is blockOnBackoff.            *)
AttemptStart(l, blocks) ==
    \/ MayLookAlive /\ lc' = l /\ UNCHANGED <<proc, tries>>
    \/ LET window == Pruned(l.window)
           seen == [l EXCEPT !.window = window]
       IN  /\ MayLookDead
           /\ \/ /\ l.reason = "hard" \/ Len(window) >= MaxAttempts
                 /\ lc' = [seen EXCEPT !.reason = "hard"]
                 /\ UNCHANGED <<proc, tries>>
              \/ /\ l.reason # "hard" /\ Len(window) < MaxAttempts
                 /\ l.wait > 0
                 /\ lc' = IF blocks THEN [seen EXCEPT !.reason = "backoff"] ELSE seen
                 /\ UNCHANGED <<proc, tries>>
              \/ /\ l.reason # "hard" /\ Len(window) < MaxAttempts
                 /\ l.wait = 0
                 /\ \/ lc' = Failed(l, window) /\ tries' = Append(tries, 0) /\ UNCHANGED proc
                    \/ \E p \in Unused : Started(seen, p)

-----------------------------------------------------------------------------
(* The calls: page, shell and bridge pass them on, the core serves them     *)
(* even when the bridge has given up on the answer.                         *)

Ask(c, op) ==
    /\ calls[c].at = "idle"
    /\ calls' = [calls EXCEPT ![c] = [Idle EXCEPT !.at = "asked", !.op = op]]
    /\ UNCHANGED <<lc, proc, due, looked, tries>>

(* A call that the deadline, the session check or the bridge ended.         *)
Lose(c) ==
    /\ calls[c].at = "asked"
    /\ calls' = [calls EXCEPT ![c] = Idle]
    /\ UNCHANGED <<lc, proc, due, looked, tries>>

(* The binary, and what else is looked at before the lock, is there or not. *)
StartNode(c) ==
    /\ \/ calls[c].at = "asked" /\ calls[c].op = "start"
       \/ calls[c].at = "start"
    /\ \/ AttemptStart([lc EXCEPT !.wanted = TRUE], TRUE)
       \/ UNCHANGED <<lc, proc, tries>>
    /\ calls' = [calls EXCEPT ![c] = Idle]
    /\ UNCHANGED <<due, looked>>

AfterStop(c) == IF calls[c].op = "restart" THEN [Idle EXCEPT !.at = "start"] ELSE Idle

(* Mutant: the record is cleared, its process left alone.                   *)
StopNodeUntold(c) ==
    /\ calls[c].at = "asked" /\ calls[c].op \in {"stop", "restart"}
    /\ lc' = Blank
    /\ tries' = <<>>
    /\ calls' = [calls EXCEPT ![c] = AfterStop(c)]
    /\ UNCHANGED <<proc, due, looked>>

StopNode(c) ==
    /\ calls[c].at = "asked" /\ calls[c].op \in {"stop", "restart"}
    /\ lc' = Blank
    /\ tries' = <<>>
    /\ calls' = [calls EXCEPT ![c] =
                    IF lc.process = NoProcess THEN AfterStop(c)
                    ELSE [@ EXCEPT !.at = "tell", !.p = lc.process]]
    /\ UNCHANGED <<proc, due, looked>>

(* Interrupt or Kill, after the lock was released.                          *)
SignalNode(c) ==
    /\ calls[c].at = "tell"
    /\ proc' = [proc EXCEPT ![calls[c].p] = IF @ = "alive" THEN "told" ELSE @]
    /\ calls' = [calls EXCEPT ![c] = AfterStop(c)]
    /\ UNCHANGED <<lc, due, looked, tries>>

-----------------------------------------------------------------------------
(* The supervisor.                                                          *)

Older(age) == Least(age + 1, Window)
Aged(ages) == [i \in DOMAIN ages |-> Older(ages[i])]

(* A pass takes less than the ticker's interval.                            *)
Tick ==
    /\ ~due /\ ~looked
    /\ due' = TRUE
    /\ lc' = [lc EXCEPT !.window = Aged(@), !.wait = IF @ = 0 THEN 0 ELSE @ - 1]
    /\ tries' = Pruned(Aged(tries))
    /\ UNCHANGED <<proc, looked, calls>>

(* superviseOnce up to RUnlock.                                             *)
Look ==
    /\ due
    /\ due' = FALSE
    /\ \/ lc.wanted /\ MayLookDead /\ looked' = TRUE
       \/ (~lc.wanted \/ MayLookAlive) /\ looked' = FALSE
    /\ UNCHANGED <<lc, proc, calls, tries>>

(* superviseOnce from the search of the binary on.                          *)
SuperviseStart ==
    /\ looked
    /\ looked' = FALSE
    /\ \/ AttemptStart([lc EXCEPT !.wanted = TRUE], FALSE)
       \/ lc' = [lc EXCEPT !.reason = "hard"] /\ UNCHANGED <<proc, tries>>
    /\ UNCHANGED <<due, calls>>

-----------------------------------------------------------------------------
(* The processes.                                                           *)

(* A process ends, by itself or because it was told to, and Wait returns.   *)
Exit(p) ==
    /\ proc[p] \in {"alive", "told", "orphan"}
    /\ proc' = [proc EXCEPT ![p] = IF @ = "orphan" THEN "free" ELSE "gone"]
    /\ UNCHANGED <<lc, due, looked, calls, tries>>

(* Mutant: the reaped process stays in the record.                          *)
ReleasedNot(p) == lc

Released(p) == IF lc.process = p THEN [lc EXCEPT !.process = NoProcess] ELSE lc

(* Mutant: only the exit of the present process counts.                     *)
CountsOwn(p) == lc.wanted /\ lc.process = p

Counts(p) == lc.wanted

(* waitForNodeExit after Wait, under the lock.                              *)
WaitForNodeExit(p) ==
    /\ proc[p] = "gone"
    /\ proc' = [proc EXCEPT ![p] = "free"]
    /\ LET window == Pruned(lc.window)
       IN  lc' = IF ~Counts(p) THEN Released(p)
                 ELSE IF Len(window) + 1 >= MaxAttempts
                      THEN [Released(p) EXCEPT !.window = Append(window, 0), !.reason = "hard"]
                      ELSE Failed(Released(p), window)
    /\ UNCHANGED <<due, looked, calls, tries>>

(* The core ends and is started again: its nodes live on, unknown to it.    *)
RestartCore ==
    /\ lc' = Blank
    /\ proc' = [p \in Processes |-> CASE proc[p] \in {"alive", "told"} -> "orphan"
                                      [] proc[p] = "gone" -> "free"
                                      [] OTHER -> proc[p]]
    /\ due' = FALSE /\ looked' = FALSE
    /\ calls' = [c \in Callers |-> Idle]
    /\ tries' = <<>>

-----------------------------------------------------------------------------
Next ==
    \/ \E c \in Callers :
           \/ \E op \in Operations : Ask(c, op)
           \/ Lose(c) \/ StartNode(c) \/ StopNode(c) \/ SignalNode(c)
    \/ Tick \/ Look \/ SuperviseStart
    \/ \E p \in Processes : Exit(p) \/ WaitForNodeExit(p)
    \/ RestartCore

Spec == Init /\ [][Next]_nodeVars

(* The ticker runs until the core ends, a pass ends, and a goroutine that   *)
(* waits for the mutex gets it.  Nothing is assumed of the callers, nor of  *)
(* the node's start.                                                        *)
Fairness ==
    /\ WF_nodeVars(Tick) /\ WF_nodeVars(Look) /\ WF_nodeVars(SuperviseStart)
    /\ \A p \in Processes : WF_nodeVars(WaitForNodeExit(p))

FairSpec == Spec /\ Fairness

-----------------------------------------------------------------------------
(* No process of this core is lost: one that runs is the node's present     *)
(* process, or was told to end, or a StopNode that has already let go of    *)
(* the lock is about to tell it, whatever StartNode, RestartNode and the    *)
(* supervisor start meanwhile (services.go, StopNode, attemptStartLocked).  *)
NoProcessIsLost ==
    \A p \in Processes :
        proc[p] = "alive" => lc.process = p \/ \E c \in Callers : calls[c].p = p

(* No attempt to start escapes the count that ends in ERROR_HARD: each one  *)
(* since the last stop that is not older than the window was counted as a   *)
(* failure, or its process was not reaped yet, whether StartNode or the     *)
(* supervisor made it and whatever became of the record since.  Attempts    *)
(* are made below MaxAttempts failures only, so their number is bounded     *)
(* (services.go, attemptStartLocked, waitForNodeExit).                      *)
AttemptsAreCounted ==
    Len(tries) <= Len(Pruned(lc.window)) + Cardinality({p \in Processes : proc[p] \in {"alive", "gone"}})

(* A wanted node runs, or is given up for good, or no longer wanted: no     *)
(* backoff, however often it is set anew, starves it (services.go,          *)
(* superviseOnce, computeBackoff).                                          *)
Up == lc.process # NoProcess /\ proc[lc.process] = "alive"

WantedNodeRuns == lc.wanted ~> Up \/ lc.reason = "hard" \/ ~lc.wanted

-----------------------------------------------------------------------------
(* What TLC refutes.                                                        *)

(* A stopped node stays stopped until a call starts it.  The supervisor     *)
(* that looked before the stop starts it, and wants it from then on.        *)
OnlyCallersStart ==
    [][~lc.wanted /\ lc'.wanted => \E c \in Callers : StartNode(c)]_nodeVars

(* A hard error lasts until a "manual reset" (services.go, attemptStart-    *)
(* Locked).  The exit of a process, counted in a window that was pruned     *)
(* meanwhile, turns it into a transient one.                                *)
HardNeedsReset ==
    [][lc.reason = "hard" /\ lc'.reason # "hard" =>
           RestartCore \/ \E c \in Callers : StopNode(c)]_nodeVars

(* The node has one process.  RestartNode does not wait for the old one.    *)
OneProcess == Cardinality({p \in Processes : proc[p] \in {"alive", "told"}}) <= 1

=============================================================================
