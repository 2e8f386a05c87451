------------------------------ MODULE SwapFeed ------------------------------
(***************************************************************************)
(* The list of swaps in the pages that show it (hook useSwaps), and the two *)
(* feeds behind it: in the desktop shell the main process polls the bridge  *)
(* every 10 s for whoever subscribed and publishes a list that differs from *)
(* the last one; in a browser the page itself opens the stream of all swap  *)
(* events, fetches the swap of each event, and polls while it has no        *)
(* stream.                                                                  *)
(*                                                                         *)
(* The list is kept as its version: the number of swap events so far, so    *)
(* that event n makes version n.  Calls end in any order, with what was     *)
(* true when they were served.                                             *)
(***************************************************************************)
EXTENDS Naturals, FiniteSets

CONSTANTS MaxVersion,   \* bound of the model: changes of the swaps
          MaxCalls      \* bound of the model: calls of one kind in flight

ASSUME FeedAssumption == {MaxVersion, MaxCalls} \subseteq Nat \ {0}

VARIABLES transport,  \* "ipc" or "http"
          version,    \* the swaps of the core
          open,       \* the session of the shell, or of the page, is valid
          mount,      \* the hook: "none", "waiting" for watchAllSwaps, or "up"
          list,       \* what the page shows, 0 for the list it starts with
          subscribed, \* main: swapWatchSubscribers holds the page, the timer runs
          last,       \* main: lastSwapWatchPayload, 0 for ""
          source,     \* page: the event source
          seq,        \* page: lastSeq of watchAllSwaps
          fallback,   \* page: the fallback interval runs
          calls,      \* calls in flight
          asked       \* history: the version when this mount last asked for swaps

mainVars == <<subscribed, last>>
streamVars == <<source, seq, fallback>>
feedVars == <<transport, version, open, mount, list, mainVars, streamVars, calls, asked>>

Versions == 1 .. MaxVersion
Kinds == {"publish", "refetch", "first", "poll", "get"}

FeedTypeOK ==
    /\ transport \in {"ipc", "http"}
    /\ version \in Versions
    /\ open \in BOOLEAN
    /\ mount \in {"none", "waiting", "up"}
    /\ list \in {0} \cup Versions
    /\ subscribed \in BOOLEAN
    /\ last \in {0} \cup Versions
    /\ source \in {"none", "open", "down", "off"}
    /\ seq \in {0} \cup Versions
    /\ fallback \in BOOLEAN
    /\ calls \subseteq [kind : Kinds, got : {0} \cup Versions]
    /\ asked \in {0} \cup Versions

FeedInit ==
    /\ transport \in {"ipc", "http"}
    /\ version = 1
    /\ open = TRUE
    /\ mount = "none" /\ list = 0
    /\ subscribed = FALSE /\ last = 0
    /\ source = "none" /\ seq = 0 /\ fallback = FALSE
    /\ calls = {}
    /\ asked = 0

-----------------------------------------------------------------------------
(* Calls.                                                                   *)

(* Calls that were not served yet are all alike: one stands for them.       *)
Unserved(kind) == [kind |-> kind, got |-> 0]

Start(kind) ==
    /\ Cardinality({c \in calls : c.kind = kind}) < MaxCalls
    /\ calls' = calls \cup {Unserved(kind)}
    /\ asked' = IF kind = "publish" THEN asked ELSE version

Serve(c) ==
    /\ c.got = 0
    /\ open
    /\ calls' = (calls \ {c}) \cup {[c EXCEPT !.got = version]}
    /\ UNCHANGED <<transport, version, open, mount, list, mainVars, streamVars, asked>>

End(c) == calls' = calls \ {c}

-----------------------------------------------------------------------------
(* The desktop shell.                                                       *)

(* setSwapWatchSubscription: a first subscriber starts the timer, which     *)
(* publishes at once.                                                       *)
Subscribe ==
    /\ subscribed' = TRUE
    /\ calls' = IF subscribed THEN calls ELSE calls \cup {Unserved("publish")}
    /\ UNCHANGED last

Unsubscribe == subscribed' = FALSE /\ last' = 0

PublishTick ==
    /\ subscribed
    /\ Start("publish")
    /\ UNCHANGED <<transport, version, open, mount, list, mainVars, streamVars>>

(* Mutant: only the first list of a subscription is sent.                    *)
PublishFirst(c) ==
    /\ c.kind = "publish" /\ c.got # 0
    /\ last' = c.got
    /\ list' = IF last = 0 /\ subscribed /\ mount # "none" THEN c.got ELSE list
    /\ End(c)
    /\ UNCHANGED <<transport, version, open, mount, subscribed, streamVars, asked>>

(* A list that is the last one is dropped, whoever has it.                  *)
Publish(c) ==
    /\ c.kind = "publish" /\ c.got # 0
    /\ last' = c.got
    /\ list' = IF c.got # last /\ subscribed /\ mount # "none" THEN c.got ELSE list
    /\ End(c)
    /\ UNCHANGED <<transport, version, open, mount, subscribed, streamVars, asked>>

-----------------------------------------------------------------------------
(* The page.                                                                *)

(* The subscription is sent and the listener is there at once; how to take  *)
(* it back is known only when the answer has come.                          *)
Mount ==
    /\ mount = "none"
    /\ open
    /\ mount' = "waiting"
    /\ list' = 0 /\ asked' = 0
    /\ source' = "none" /\ seq' = 0 /\ fallback' = FALSE
    /\ IF transport = "ipc" THEN Subscribe
       ELSE calls' = calls \cup {Unserved("first")} /\ UNCHANGED mainVars
    /\ UNCHANGED <<transport, version, open>>

Resolved ==
    /\ transport = "ipc"
    /\ mount = "waiting"
    /\ mount' = "up"
    /\ UNCHANGED <<transport, version, open, list, mainVars, streamVars, calls, asked>>

(* Answers for a page that is gone change nothing that is seen.             *)
Gone == {c \in calls : c.kind # "publish"}

(* A page that leaves while it waits, or after the lock, leaves its         *)
(* subscription behind.                                                     *)
Unmount ==
    /\ mount # "none"
    /\ mount' = "none"
    /\ IF transport = "ipc" /\ mount = "up" /\ open THEN Unsubscribe
       ELSE UNCHANGED mainVars
    /\ source' = "none" /\ fallback' = FALSE
    /\ calls' = calls \ Gone
    /\ UNCHANGED <<transport, version, open, list, seq, asked>>

(* The Swap Center lists again after a swap was created or advanced.        *)
ListAgain ==
    /\ mount = "up"
    /\ Start("refetch")
    /\ UNCHANGED <<transport, version, open, mount, list, mainVars, streamVars>>

TakeList(c) ==
    /\ c.kind \in {"refetch", "poll"} /\ c.got # 0
    /\ list' = c.got
    /\ End(c)
    /\ UNCHANGED <<transport, version, open, mount, mainVars, streamVars, asked>>

-----------------------------------------------------------------------------
(* The browser: watchAllSwaps over HTTP.                                    *)

(* The first poll, taken or failed, and then the stream from its beginning. *)
First(c) ==
    /\ c.kind = "first"
    /\ list' = IF c.got = 0 THEN list ELSE c.got
    /\ mount' = "up"
    /\ source' = "open"
    /\ End(c)
    /\ UNCHANGED <<transport, version, open, mainVars, seq, fallback, asked>>

FallbackTick ==
    /\ fallback
    /\ Start("poll")
    /\ UNCHANGED <<transport, version, open, mount, list, mainVars, streamVars>>

(* Mutant: the event is counted and its swap is not fetched.                *)
SwapEventOnlyCounted ==
    /\ source = "open"
    /\ seq < version
    /\ seq' = seq + 1
    /\ UNCHANGED <<transport, version, open, mount, list, mainVars, source, fallback, calls, asked>>

(* Mutant: the position is moved by the event and by its swap.               *)
SwapEventCountedTwice ==
    /\ source = "open"
    /\ seq < version
    /\ seq' = seq + 2
    /\ Start("get")
    /\ UNCHANGED <<transport, version, open, mount, list, mainVars, source, fallback>>

(* The next event: the position moves on, and the swap is fetched.          *)
SwapEvent ==
    /\ source = "open"
    /\ seq < version
    /\ seq' = seq + 1
    /\ Start("get")
    /\ UNCHANGED <<transport, version, open, mount, list, mainVars, source, fallback>>

TakeSwap(c) ==
    /\ c.kind = "get" /\ c.got # 0
    /\ list' = c.got
    /\ End(c)
    /\ UNCHANGED <<transport, version, open, mount, mainVars, streamVars, asked>>

(* onopen ends the fallback.                                                *)
Opened ==
    /\ source = "open"
    /\ fallback
    /\ fallback' = FALSE
    /\ UNCHANGED <<transport, version, open, mount, list, mainVars, source, seq, calls, asked>>

(* onerror, the watchdog, or "unimplemented" from an old core, after which  *)
(* nothing opens the stream again.                                          *)
Dropped ==
    /\ source = "open"
    /\ source' \in {"down", "off"}
    /\ fallback' = TRUE
    /\ UNCHANGED <<transport, version, open, mount, list, mainVars, seq, calls, asked>>

Reconnect ==
    /\ source = "down"
    /\ source' = "open"
    /\ UNCHANGED <<transport, version, open, mount, list, mainVars, seq, fallback, calls, asked>>

-----------------------------------------------------------------------------
(* The rest of the program.                                                 *)

Change ==
    /\ version < MaxVersion
    /\ version' = version + 1
    /\ UNCHANGED <<transport, open, mount, list, mainVars, streamVars, calls, asked>>

(* wallet.lock, or a 401: the pages leave after it.                         *)
Lock ==
    /\ open
    /\ open' = FALSE
    /\ UNCHANGED <<transport, version, mount, list, mainVars, streamVars, calls, asked>>

Unlock ==
    /\ ~open
    /\ mount = "none"
    /\ open' = TRUE
    /\ UNCHANGED <<transport, version, mount, list, mainVars, streamVars, calls, asked>>

(* The renderer is loaded anew; the main process is not told.               *)
Reload ==
    /\ mount' = "none"
    /\ source' = "none" /\ fallback' = FALSE
    /\ calls' = calls \ Gone
    /\ UNCHANGED <<transport, version, open, list, mainVars, seq, asked>>

Fail(c) ==
    /\ c.kind # "first"
    /\ c.got = 0
    /\ End(c)
    /\ UNCHANGED <<transport, version, open, mount, list, mainVars, streamVars, asked>>

TakeAnswer(c) == Publish(c) \/ TakeList(c) \/ First(c) \/ TakeSwap(c)

FeedNext ==
    \/ Change \/ Lock \/ Unlock \/ Reload
    \/ Mount \/ Resolved \/ Unmount \/ ListAgain
    \/ PublishTick \/ FallbackTick
    \/ SwapEvent \/ Opened \/ Dropped \/ Reconnect
    \/ \E c \in calls : Serve(c) \/ Fail(c) \/ TakeAnswer(c)

(* Timers tick, an open source receives, answers are taken, and a bridge    *)
(* that is asked again and again is not down every time.                    *)
Fairness ==
    /\ SF_feedVars(\E c \in calls : c.kind = "publish" /\ Serve(c))
    /\ SF_feedVars(\E c \in calls : c.kind # "publish" /\ Serve(c))
    /\ WF_feedVars(\E c \in calls : TakeAnswer(c))
    /\ WF_feedVars(\E c \in calls : Fail(c) /\ ~open)
    /\ SF_feedVars(PublishTick)
    /\ SF_feedVars(FallbackTick \/ SwapEvent)
    /\ WF_feedVars(Reconnect)

FeedSpec == FeedInit /\ [][FeedNext]_feedVars /\ Fairness

-----------------------------------------------------------------------------
(* A list that differs from the last one that was published reaches the     *)
(* page, whatever polls overtake each other: the main process never         *)
(* believes that a page has a list it was not sent (main.ts,                *)
(* publishSwapWatchSnapshot).                                               *)
Showing == transport = "ipc" /\ mount = "up" /\ subscribed /\ open
ChangeIsShown == (Showing /\ last # version) ~> (~Showing \/ list = version)

(* Every change is followed by a call that asks for it, by stream or poll,  *)
(* as long as the page stays; a call that fails is not repeated for a       *)
(* stream event (api.ts, watchAllSwaps).                                    *)
Streaming == transport = "http" /\ mount = "up" /\ open
ChangeIsAskedFor == (Streaming /\ asked < version) ~> (~Streaming \/ asked = version)

-----------------------------------------------------------------------------
(* A page that shows the swaps gets them.  TLC refutes it: a subscription   *)
(* that outlived its page is taken for the one of the new page, and the     *)
(* list is the last one published.                                          *)
ListArrives == Showing ~> (~Showing \/ list # 0)

=============================================================================
