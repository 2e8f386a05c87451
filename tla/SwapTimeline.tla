---------------------------- MODULE SwapTimeline ----------------------------
(***************************************************************************)
(* The event timeline of the Swap Center: the log of the core, its three   *)
(* reads (GetSwapEvents, WatchSwap, and the 5 s poll that stands for a      *)
(* stream over IPC), and the hook useSwapEvents that merges a first fetch,  *)
(* a second first fetch, a stream and a fallback poll into one list.        *)
(*                                                                         *)
(* Every run of the hook's effect for a swap is an instance of its own,     *)
(* numbered in order: the answers it still awaits are given to its          *)
(* callbacks after it was disposed.  A sequence number is the position of   *)
(* an event in the log of all swaps.  Events that are on the way in an open *)
(* event source arrive in order or are lost with it, and it is opened again *)
(* at the last one that arrived: what is on the way is not a state.         *)
(***************************************************************************)
EXTENDS Naturals, Sequences, FiniteSets, FiniteSetsExt

CONSTANTS Swaps,        \* identifiers of swaps
          NoSwap,       \* no swap is selected
          MaxEvents,    \* bound of the model: events logged
          MaxInstances, \* bound of the model: runs of the effect
          MaxRequests   \* bound of the model: event requests in flight

ASSUME TimelineAssumption ==
    /\ NoSwap \notin Swaps
    /\ {MaxEvents, MaxInstances, MaxRequests} \subseteq Nat

VARIABLES log,        \* swap_events: the swap of each event, in order of seq
          transport,  \* "ipc" in the desktop shell, "http" in a browser
          focus,      \* focusedSwapId
          shown,      \* the events in the list, by seq
          lastSeq,    \* lastSeqRef
          effects,    \* the runs of the effect, the current one last
          requests,   \* calls of getSwapEvents in flight
          seen        \* history: events shown since the swap was selected

timelineVars ==
    <<log, transport, focus, shown, lastSeq, effects, requests, seen>>

Seqs == 1 .. MaxEvents
Sources == {"none", "open", "down", "off"}
Kinds == {"refetch", "snapshot", "stream", "fallback"}
Waiting == {0}                   \* no answer yet; 0 is no sequence number

Effect == [swap : Swaps, disposed : BOOLEAN, source : Sources,
           seq : 0 .. MaxEvents, fallback : BOOLEAN]
Request == [kind : Kinds, by : 0 .. MaxInstances, swap : Swaps,
            after : 0 .. MaxEvents, got : SUBSET (0 .. MaxEvents)]

TypeOK ==
    /\ log \in Seq(Swaps) /\ Len(log) <= MaxEvents
    /\ transport \in {"ipc", "http"}
    /\ focus \in Swaps \cup {NoSwap}
    /\ shown \subseteq Seqs
    /\ lastSeq \in 0 .. MaxEvents
    /\ effects \in Seq(Effect) /\ Len(effects) <= MaxInstances
    /\ requests \subseteq Request
    /\ Cardinality(requests) <= MaxRequests
    /\ seen \subseteq Seqs

Init ==
    /\ log = <<>>
    /\ transport \in {"ipc", "http"}
    /\ focus = NoSwap
    /\ shown = {} /\ lastSeq = 0
    /\ effects = <<>>
    /\ requests = {}
    /\ seen = {}

-----------------------------------------------------------------------------
(* The core.                                                                *)

LogEvent(s) ==
    /\ Len(log) < MaxEvents
    /\ log' = Append(log, s)
    /\ UNCHANGED <<transport, focus, shown, lastSeq, effects, requests, seen>>

(* The events of a swap after a sequence number; the limits of 200 and 500  *)
(* are above the bound of the log.                                          *)
FetchSwapEvents(s, after) == {e \in DOMAIN log : log[e] = s /\ e > after}

(* Mutant: the ref holds the sequence number that is due next.              *)
TopNext(E) == IF E = {} THEN 0 ELSE Max(E) + 1

(* The last event of an ordered list.                                       *)
Top(E) == IF E = {} THEN 0 ELSE Max(E)

-----------------------------------------------------------------------------
(* The list and its ref.                                                    *)

Replace(E) ==
    /\ shown' = E
    /\ lastSeq' = Top(E)
    /\ seen' = seen \cup E

(* Known events are skipped, the rest is sorted in; with nothing new the    *)
(* ref is left alone.                                                       *)
Merge(E) ==
    /\ shown' = shown \cup E
    /\ lastSeq' = IF E \subseteq shown THEN lastSeq ELSE Top(shown \cup E)
    /\ seen' = seen \cup E

KeepList == UNCHANGED <<shown, lastSeq, seen>>

-----------------------------------------------------------------------------
(* Calls of getSwapEvents.                                                  *)

Call(kind, g, s, after) ==
    [kind |-> kind, by |-> g, swap |-> s, after |-> after, got |-> Waiting]

Issue(new) ==
    /\ Cardinality(requests \cup new) <= MaxRequests
    /\ requests' = requests \cup new

Serve(r) ==
    /\ r.got = Waiting
    /\ requests' = (requests \ {r}) \cup {[r EXCEPT !.got = FetchSwapEvents(r.swap, r.after)]}
    /\ UNCHANGED <<log, transport, focus, shown, lastSeq, effects, seen>>

Answered(r) == requests' = requests \ {r}

Changed(g, fx) == effects' = [effects EXCEPT ![g] = fx]

Degraded(fx) == [fx EXCEPT !.fallback = @ \/ ~fx.disposed]

(* A failed first fetch or stream poll starts the fallback; the other two   *)
(* calls only show or swallow the error.                                    *)
Fail(r) ==
    /\ r.got = Waiting
    /\ IF r.kind \in {"snapshot", "stream"} THEN Changed(r.by, Degraded(effects[r.by]))
       ELSE UNCHANGED effects
    /\ Answered(r)
    /\ UNCHANGED <<log, transport, focus, shown, lastSeq, seen>>

TakeRefetch(r) ==
    /\ r.kind = "refetch" /\ r.got # Waiting
    /\ Replace(r.got)
    /\ Answered(r)
    /\ UNCHANGED <<log, transport, focus, effects>>

(* startStream: the stream is opened at the ref, for an instance that was   *)
(* disposed meanwhile as well.                                              *)
OpenStream(g) == Changed(g, [effects[g] EXCEPT !.source = "open", !.seq = lastSeq'])

TakeSnapshot(r) ==
    /\ r.kind = "snapshot" /\ r.got # Waiting
    /\ IF effects[r.by].disposed THEN KeepList ELSE Replace(r.got)
    /\ OpenStream(r.by)
    /\ Answered(r)
    /\ UNCHANGED <<log, transport, focus>>

(* An answer of the poll that stands for the stream over IPC: each event    *)
(* goes to upsert, which ends the fallback.                                 *)
TakeStreamPoll(r) ==
    /\ r.kind = "stream" /\ r.got # Waiting
    /\ Merge(r.got)
    /\ LET fx == effects[r.by]
       IN  Changed(r.by, [fx EXCEPT !.seq = Top({fx.seq} \cup r.got),
                                    !.fallback = fx.fallback /\ r.got = {}])
    /\ Answered(r)
    /\ UNCHANGED <<log, transport, focus>>

TakeFallback(r) ==
    /\ r.kind = "fallback" /\ r.got # Waiting
    /\ Merge(r.got)
    /\ Answered(r)
    /\ UNCHANGED <<log, transport, focus, effects>>

-----------------------------------------------------------------------------
(* The user.                                                                *)

Dispose(fx) ==
    IF fx.source = "none" THEN [fx EXCEPT !.disposed = TRUE, !.fallback = FALSE]
    ELSE [fx EXCEPT !.disposed = TRUE, !.source = "off", !.fallback = FALSE]

Mounted(s) == [swap |-> s, disposed |-> FALSE, source |-> "none",
               seq |-> 0, fallback |-> FALSE]

(* The button "Events" selects a swap and calls the refetch of the render   *)
(* it belongs to, which is the refetch of the swap selected before; of no   *)
(* swap, it empties the list.  The new swap mounts the two effects.         *)
SelectSwap(s) ==
    LET n == Len(effects)
        old == IF focus = NoSwap THEN {} ELSE {Call("refetch", 0, focus, 0)}
    IN  /\ focus' = s
        /\ shown' = IF focus = NoSwap THEN {} ELSE shown
        /\ IF s = focus
           THEN /\ Issue(old)
                /\ UNCHANGED <<effects, seen>>
           ELSE /\ n < MaxInstances
                /\ effects' = Append([g \in 1 .. n |-> IF g = n THEN Dispose(effects[g])
                                                              ELSE effects[g]],
                                     Mounted(s))
                /\ Issue(old \cup {Call("refetch", 0, s, 0), Call("snapshot", n + 1, s, 0)})
                /\ seen' = {}
        /\ UNCHANGED <<log, transport, lastSeq>>

-----------------------------------------------------------------------------
(* Timers and the event source.                                             *)

FallbackTick(g) ==
    /\ effects[g].fallback
    /\ Issue({Call("fallback", g, effects[g].swap, lastSeq)})
    /\ UNCHANGED <<log, transport, focus, shown, lastSeq, effects, seen>>

PollTick(g) ==
    /\ transport = "ipc"
    /\ effects[g].source = "open"
    /\ Issue({Call("stream", g, effects[g].swap, effects[g].seq)})
    /\ UNCHANGED <<log, transport, focus, shown, lastSeq, effects, seen>>

(* Mutant: the newest event is sent, as a watcher of states would.           *)
DeliverNewest(g) ==
    LET next == FetchSwapEvents(effects[g].swap, effects[g].seq)
    IN  /\ transport = "http"
        /\ effects[g].source = "open"
        /\ next # {}
        /\ Merge({Max(next)})
        /\ Changed(g, [effects[g] EXCEPT !.seq = Max(next), !.fallback = FALSE])
        /\ UNCHANGED <<log, transport, focus, requests>>

(* The core sends the next event after the last it sent, and the source     *)
(* hands it to upsert.                                                      *)
Deliver(g) ==
    LET next == FetchSwapEvents(effects[g].swap, effects[g].seq)
    IN  /\ transport = "http"
        /\ effects[g].source = "open"
        /\ next # {}
        /\ Merge({Min(next)})
        /\ Changed(g, [effects[g] EXCEPT !.seq = Min(next), !.fallback = FALSE])
        /\ UNCHANGED <<log, transport, focus, requests>>

(* Disconnected, ended by the core, or silent for 45 s.                     *)
Drop(g) ==
    /\ transport = "http"
    /\ effects[g].source = "open"
    /\ Changed(g, [Degraded(effects[g]) EXCEPT !.source = "down"])
    /\ UNCHANGED <<log, transport, focus, shown, lastSeq, requests, seen>>

Reconnect(g) ==
    /\ effects[g].source = "down"
    /\ Changed(g, [effects[g] EXCEPT !.source = "open"])
    /\ UNCHANGED <<log, transport, focus, shown, lastSeq, requests, seen>>

(* Mutant: the stream is given up and nobody is told.                       *)
UnimplementedUnheard(g) ==
    /\ transport = "http"
    /\ effects[g].source = "open"
    /\ Changed(g, [effects[g] EXCEPT !.source = "off"])
    /\ UNCHANGED <<log, transport, focus, shown, lastSeq, requests, seen>>

(* A core without the stream: it is not opened again by this instance.      *)
Unimplemented(g) ==
    /\ transport = "http"
    /\ effects[g].source = "open"
    /\ Changed(g, [Degraded(effects[g]) EXCEPT !.source = "off"])
    /\ UNCHANGED <<log, transport, focus, shown, lastSeq, requests, seen>>

-----------------------------------------------------------------------------
Take(r) == TakeRefetch(r) \/ TakeSnapshot(r) \/ TakeStreamPoll(r) \/ TakeFallback(r)

Next ==
    \/ \E s \in Swaps : LogEvent(s) \/ SelectSwap(s)
    \/ \E r \in requests : Serve(r) \/ Fail(r) \/ Take(r)
    \/ \E g \in DOMAIN effects :
          FallbackTick(g) \/ PollTick(g) \/ Deliver(g) \/ Drop(g)
          \/ Reconnect(g) \/ Unimplemented(g)

Current == {g \in DOMAIN effects : g = Len(effects)}

(* Timers tick, answers are taken, and neither the calls nor the stream     *)
(* fail for ever: SF where the step needs a free request or a healthy       *)
(* network again and again.                                                 *)
Fairness ==
    /\ SF_timelineVars(\E r \in requests : Serve(r))
    /\ WF_timelineVars(\E r \in requests : Take(r))
    /\ SF_timelineVars(\E g \in Current : FallbackTick(g) \/ PollTick(g) \/ Deliver(g))
    /\ WF_timelineVars(\E g \in Current : Reconnect(g))

Spec == Init /\ [][Next]_timelineVars /\ Fairness

-----------------------------------------------------------------------------
(* A stream has skipped no event of its swap up to where it stands: the     *)
(* fetch before it, drops, failed and overtaken polls leave no gap (api.ts, *)
(* watchSwapEvents; swap_service.go, WatchSwap).                            *)
StreamSkipsNothing ==
    \A g \in Current : {e \in FetchSwapEvents(effects[g].swap, 0) : e <= effects[g].seq}
                           \subseteq seen

(* As long as the user stays on the first swap, each of its events that is  *)
(* later than the list reaches the list, by whatever source (hooks.ts,      *)
(* useSwapEvents).                                                          *)
Missing(e) == /\ Len(effects) = 1
              /\ e \in FetchSwapEvents(focus, lastSeq) \ seen
EventsArrive == \A e \in Seqs : Missing(e) ~> ~Missing(e)

-----------------------------------------------------------------------------
(* The timeline is the one of the selected swap.  TLC refutes it: answers   *)
(* of the swap selected before are still taken, and the click itself asks   *)
(* for the events of that swap.                                             *)
TimelineOfOneSwap == requests = {} => \A e \in shown : log[e] = focus

=============================================================================
