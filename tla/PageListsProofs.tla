--------------------------- MODULE PageListsProofs ---------------------------
(***************************************************************************)
(* Theorems about the lists that pages show, for any number of clicks,     *)
(* requests and changes.  WalletViews: of every list of the wallet page at *)
(* most one request is the newest, and it is the one the list waits for.   *)
(* SwapFeed: what the two feeds of the list of swaps keep of the core, and *)
(* that a page always has one of them.                                     *)
(***************************************************************************)
EXTENDS WalletViews, SwapFeed, TLAPS

-----------------------------------------------------------------------------
(* WalletViews: the inductive invariant.                                   *)

\* The request whose answer a list will take.
Awaits(R, v) == \E r \in R : r.view = v /\ r.newest

OneNewest(R) == \A r, q \in R : r.newest /\ q.newest /\ r.view = q.view => r = q

\* The page itself asks for the chosen chain only.
PageAsksForActive(R, c) == \A r \in R : r.newest /\ r.by = "page" => r.chain = c

ShownOK(view, c) == /\ view \in View
                    /\ view.loading \/ view.error \/ view.newest
                    /\ view.chain # c => view.by \in Mutations

ViewsInv ==
    /\ activeChain \in Chains /\ switches \in 0 .. MaxSwitches
    /\ handlers \subseteq [op : Mutations, chain : Chains]
    /\ requests \subseteq Request /\ OneNewest(requests)
    /\ PageAsksForActive(requests, activeChain)
    /\ shown \in [Views -> View]
    /\ \A v \in Views : /\ ShownOK(shown[v], activeChain)
                        /\ shown[v].loading <=> Awaits(requests, v)

-----------------------------------------------------------------------------
(* Requests.                                                               *)

Refetched(R, V, c, who) == Superseded(R, V) \cup {Asking(v, c, who) : v \in V}

\* What a refetch of the lists V leaves in flight: for them the new requests are
\* the newest, of the others nothing changes.
LEMMA RefetchedRequests ==
    ASSUME NEW R, R \subseteq Request, NEW V, V \subseteq Views, NEW c \in Chains,
           NEW who \in Askers, OneNewest(R)
    PROVE  LET N == Refetched(R, V, c, who)
           IN  /\ N \subseteq Request
               /\ \A n \in N : n.newest => \/ n.view \in V /\ n = Asking(n.view, c, who)
                                           \/ n.view \notin V /\ n \in R
               /\ OneNewest(N)
               /\ \A v \in Views : Awaits(N, v) <=> v \in V \/ Awaits(R, v)
<1> DEFINE N == Refetched(R, V, c, who)
<1>0. N = Superseded(R, V) \cup {Asking(v, c, who) : v \in V}
  BY DEF Refetched
<1> HIDE DEF N
<1>1. \A v \in V : /\ Asking(v, c, who) \in Request /\ Asking(v, c, who).view = v
                   /\ Asking(v, c, who).newest /\ Asking(v, c, who) \in N
  BY <1>0 DEF Asking, Request
<1>2. ASSUME NEW r \in R
      PROVE  LET s == [r EXCEPT !.newest = @ /\ r.view \notin V]
             IN  /\ s \in Request /\ s \in N /\ s.view = r.view
                 /\ s.newest => r.newest /\ r.view \notin V /\ s = r
                 /\ r.newest /\ r.view \notin V => s = r
  <2> DEFINE b == r.newest /\ r.view \notin V
             s == [r EXCEPT !.newest = b]
  <2>1. r \in Request /\ b \in BOOLEAN
    OBVIOUS
  <2>2. s \in N
    BY <1>0 DEF Superseded
  <2> HIDE DEF b
  <2>3. s \in Request /\ s.view = r.view /\ s.newest = b /\ s.chain = r.chain /\ s.by = r.by
    BY <2>1 DEF Request
  <2>4. b => s = r
    <3> SUFFICES ASSUME b PROVE s = r
      OBVIOUS
    <3>1. r.newest = TRUE /\ b = TRUE
      BY <2>1 DEF b, Request
    <3> QED BY <2>1, <3>1 DEF Request
  <2> QED BY <2>2, <2>3, <2>4 DEF b
<1>3. ASSUME NEW n \in N
      PROVE  \/ \E v \in V : n = Asking(v, c, who)
             \/ \E r \in R : n = [r EXCEPT !.newest = @ /\ r.view \notin V]
  BY <1>0 DEF Superseded
<1>4. N \subseteq Request
  BY <1>1, <1>2, <1>3
<1>5. ASSUME NEW n \in N, n.newest
      PROVE  \/ n.view \in V /\ n = Asking(n.view, c, who)
             \/ n.view \notin V /\ n \in R
  <2>1. CASE \E v \in V : n = Asking(v, c, who)
    BY <1>1, <2>1
  <2>2. CASE \E r \in R : n = [r EXCEPT !.newest = @ /\ r.view \notin V]
    <3>1. PICK r \in R : n = [r EXCEPT !.newest = @ /\ r.view \notin V]
      BY <2>2
    <3>2. n = r /\ r.view \notin V
      BY <1>2, <1>5, <3>1
    <3> QED BY <3>2
  <2> QED BY <1>3, <2>1, <2>2
<1>6. OneNewest(N)
  BY <1>5 DEF OneNewest
<1>7. ASSUME NEW v \in Views PROVE Awaits(N, v) <=> v \in V \/ Awaits(R, v)
  <2>1. ASSUME Awaits(N, v) PROVE v \in V \/ Awaits(R, v)
    BY <1>5, <2>1 DEF Awaits
  <2>2. ASSUME v \in V PROVE Awaits(N, v)
    BY <1>1, <2>2 DEF Awaits
  <2>3. ASSUME v \notin V, Awaits(R, v) PROVE Awaits(N, v)
    <3>1. PICK r \in R : r.view = v /\ r.newest
      BY <2>3 DEF Awaits
    <3>2. r \in N
      BY <1>2, <2>3, <3>1
    <3> QED BY <3>1, <3>2 DEF Awaits
  <2> QED BY <2>1, <2>2, <2>3
<1> QED BY <1>4, <1>5, <1>6, <1>7 DEF N

\* An answer taken: if it was of the newest request, its list waits no more.
LEMMA TakenRequests ==
    ASSUME NEW R, R \subseteq Request, OneNewest(R), NEW r \in R
    PROVE  /\ OneNewest(R \ {r})
           /\ \A v \in Views : Awaits(R \ {r}, v) <=> Awaits(R, v) /\ ~(r.newest /\ r.view = v)
  BY DEF OneNewest, Awaits

-----------------------------------------------------------------------------
(* Lists.                                                                  *)

\* What the page relies on, of the requests R and the lists sh, while c is chosen.
ListsOK(R, sh, c) ==
    /\ R \subseteq Request /\ OneNewest(R) /\ PageAsksForActive(R, c)
    /\ sh \in [Views -> View]
    /\ \A v \in Views : /\ ShownOK(sh[v], c)
                        /\ sh[v].loading <=> Awaits(R, v)

LEMMA ListsOfInv == ViewsInv <=> /\ activeChain \in Chains /\ switches \in 0 .. MaxSwitches
                             /\ handlers \subseteq [op : Mutations, chain : Chains]
                             /\ ListsOK(requests, shown, activeChain)
  BY DEF ViewsInv, ListsOK

LEMMA WaitingIsOK ==
    ASSUME NEW view, NEW c, ShownOK(view, c)
    PROVE  ShownOK(Waiting(view), c) /\ Waiting(view).loading
<1>1. view \in View
  BY DEF ShownOK
<1>2. /\ Waiting(view) \in View /\ Waiting(view).loading
      /\ Waiting(view).chain = view.chain /\ Waiting(view).by = view.by
  BY <1>1 DEF Waiting, View
<1> QED BY <1>2 DEF ShownOK

LEMMA RefetchedLists ==
    ASSUME NEW c \in Chains, NEW R, NEW sh, ListsOK(R, sh, c),
           NEW V, V \subseteq Views, NEW d \in Chains, NEW who \in Askers,
           who = "page" => d = c
    PROVE  ListsOK(Refetched(R, V, d, who),
                   [v \in Views |-> IF v \in V THEN Waiting(sh[v]) ELSE sh[v]], c)
<1> DEFINE N == Refetched(R, V, d, who)
           sn == [v \in Views |-> IF v \in V THEN Waiting(sh[v]) ELSE sh[v]]
<1>1. /\ N \subseteq Request
      /\ \A n \in N : n.newest => \/ n.view \in V /\ n = Asking(n.view, d, who)
                                  \/ n.view \notin V /\ n \in R
      /\ OneNewest(N)
      /\ \A v \in Views : Awaits(N, v) <=> v \in V \/ Awaits(R, v)
  BY RefetchedRequests DEF ListsOK
<1> HIDE DEF N
<1>2. PageAsksForActive(N, c)
  <2> SUFFICES ASSUME NEW n \in N, n.newest, n.by = "page" PROVE n.chain = c
    BY DEF PageAsksForActive
  <2>1. CASE n = Asking(n.view, d, who)
    <3>1. n.by = who /\ n.chain = d
      BY <2>1 DEF Asking
    <3> QED BY <3>1
  <2>2. CASE n \in R
    BY <2>2 DEF ListsOK, PageAsksForActive
  <2> QED BY <1>1, <2>1, <2>2
<1>3. ASSUME NEW v \in Views
      PROVE  ShownOK(sn[v], c) /\ (sn[v].loading <=> Awaits(N, v))
  <2>1. ShownOK(sh[v], c) /\ (sh[v].loading <=> Awaits(R, v))
    BY DEF ListsOK
  <2>2. CASE v \in V
    BY <1>1, <2>1, <2>2, WaitingIsOK
  <2>3. CASE v \notin V
    BY <1>1, <2>1, <2>3
  <2> QED BY <2>2, <2>3
<1>4. sn \in [Views -> View]
  BY <1>3 DEF ShownOK
<1> HIDE DEF sn
<1>5. ListsOK(N, sn, c)
  BY <1>1, <1>2, <1>3, <1>4 DEF ListsOK
<1> QED BY <1>5 DEF N, sn

\* An answer, or its error, is taken by the list that waits for it, if any.
LEMMA AnsweredLists ==
    ASSUME ViewsInv, NEW r \in requests, NEW ok \in BOOLEAN
    PROVE  ListsOK(requests \ {r}, Answered(r, ok), activeChain)
<1> DEFINE sn == Answered(r, ok)
           R == requests \ {r}
           taken == IF ok THEN Listed(shown[r.view], r)
                    ELSE [shown[r.view] EXCEPT !.error = TRUE, !.loading = FALSE]
<1>1. /\ ListsOK(requests, shown, activeChain) /\ r \in Request /\ r.view \in Views
      /\ shown \in [Views -> View] /\ shown[r.view] \in View
  BY ListsOfInv DEF ListsOK, Request
<1>2. sn = [shown EXCEPT ![r.view] = IF ~r.newest THEN @ ELSE taken]
  BY DEF Answered
<1>3. OneNewest(R) /\ \A v \in Views : Awaits(R, v) <=> Awaits(requests, v) /\ ~(r.newest /\ r.view = v)
  BY <1>1, TakenRequests DEF ListsOK
<1>4. R \subseteq Request /\ PageAsksForActive(R, activeChain)
  BY <1>1 DEF ListsOK, PageAsksForActive
<1>5. ASSUME r.newest PROVE ShownOK(taken, activeChain) /\ ~taken.loading
  <2>1. CASE ok
    <3>1. /\ taken \in View /\ taken.chain = r.chain /\ taken.by = r.by
          /\ taken.newest = r.newest /\ taken.loading = FALSE
      BY <1>1, <2>1 DEF Listed, View, Request
    <3>2. r.chain # activeChain => r.by \in Mutations
      BY <1>1, <1>5 DEF ListsOK, PageAsksForActive, Request, Askers
    <3> QED BY <1>5, <3>1, <3>2 DEF ShownOK
  <2>2. CASE ~ok
    <3>1. /\ taken \in View /\ taken.chain = shown[r.view].chain /\ taken.by = shown[r.view].by
          /\ taken.error = TRUE /\ taken.loading = FALSE
      BY <1>1, <2>2 DEF View
    <3> QED BY <1>1, <3>1 DEF ListsOK, ShownOK
  <2> QED BY <2>1, <2>2
<1> HIDE DEF sn, R, taken
<1>6. ASSUME NEW v \in Views
      PROVE  ShownOK(sn[v], activeChain) /\ (sn[v].loading <=> Awaits(R, v))
  <2>1. ShownOK(shown[v], activeChain) /\ (shown[v].loading <=> Awaits(requests, v))
    BY <1>1 DEF ListsOK
  <2>2. CASE r.newest /\ r.view = v
    <3>1. sn[v] = taken
      BY <1>1, <1>2, <2>2
    <3> QED BY <1>3, <1>5, <2>2, <3>1
  <2>3. CASE ~(r.newest /\ r.view = v)
    <3>1. sn[v] = shown[v]
      BY <1>1, <1>2, <2>3
    <3> QED BY <1>3, <2>1, <2>3, <3>1
  <2> QED BY <2>2, <2>3
<1>7. sn \in [Views -> View]
  <2>1. DOMAIN sn = Views /\ sn = [v \in Views |-> sn[v]]
    BY <1>1, <1>2
  <2> QED BY <1>6, <2>1 DEF ShownOK
<1>8. ListsOK(R, sn, activeChain)
  BY <1>3, <1>4, <1>6, <1>7 DEF ListsOK
<1> QED BY <1>8 DEF R, sn

-----------------------------------------------------------------------------
(* The steps of the wallet page.                                           *)

LEMMA RefetchKeepsInv ==
    ASSUME ViewsInv, NEW V, V \subseteq Views, NEW c \in Chains, NEW who \in Askers,
           who = "page" => c = activeChain,
           Refetch(requests, V, c, who), Loading(V), UNCHANGED activeChain,
           switches' \in 0 .. MaxSwitches, handlers' \subseteq handlers
    PROVE  ViewsInv'
<1>1. ListsOK(requests, shown, activeChain) /\ activeChain \in Chains
      /\ handlers' \subseteq [op : Mutations, chain : Chains]
  BY ListsOfInv
<1>2. ListsOK(requests', shown', activeChain)
  BY <1>1, RefetchedLists DEF Refetch, Refetched, Loading
<1> QED BY <1>1, <1>2, ListsOfInv DEF ViewsInv, ListsOK

LEMMA TakeKeepsInv ==
    ASSUME ViewsInv, NEW r \in requests, NEW ok \in BOOLEAN, Take(r, ok)
    PROVE  ViewsInv'
<1>1. /\ ListsOK(requests \ {r}, Answered(r, ok), activeChain)
      /\ activeChain \in Chains /\ r.chain \in Chains
      /\ UNCHANGED <<activeChain, switches, handlers>>
  BY AnsweredLists DEF Take, ViewsInv, Request
<1>2. ListsOK(requests', shown', activeChain)
  <2>1. CASE r.by = "send" /\ r.view = "utxos"
    <3> DEFINE V == {"transactions"}
               sh == Answered(r, ok)
    <3>1. /\ requests' = Refetched(requests \ {r}, V, r.chain, "send")
          /\ shown' = [sh EXCEPT !["transactions"] = Waiting(@)]
      BY <2>1 DEF Take, Refetch, Refetched
    <3>2. sh \in [Views -> View]
      BY <1>1 DEF ListsOK
    <3> HIDE DEF sh
    <3>3. shown' = [v \in Views |-> IF v \in V THEN Waiting(sh[v]) ELSE sh[v]]
      BY <3>1, <3>2 DEF Views
    <3>4. V \subseteq Views /\ "send" \in Askers
      BY DEF Views, Askers, Mutations
    <3>5. ListsOK(requests \ {r}, sh, activeChain)
      BY <1>1 DEF sh
    <3> HIDE DEF V
    <3>6. ListsOK(Refetched(requests \ {r}, V, r.chain, "send"),
                  [v \in Views |-> IF v \in V THEN Waiting(sh[v]) ELSE sh[v]], activeChain)
      BY <1>1, <3>4, <3>5, RefetchedLists
    <3> QED BY <3>1, <3>3, <3>6
  <2>2. CASE ~(r.by = "send" /\ r.view = "utxos")
    BY <1>1, <2>2 DEF Take
  <2> QED BY <2>1, <2>2
<1> QED BY <1>1, <1>2 DEF ViewsInv, ListsOK

LEMMA SwitchTabKeepsInv ==
    ASSUME ViewsInv, NEW c \in Chains, SwitchTab(c)
    PROVE  ViewsInv'
<1>1. /\ activeChain' = c /\ UNCHANGED handlers
      /\ requests' = Refetched(requests, Views, c, "page")
      /\ shown' = [v \in Views |-> Empty(c)]
  BY DEF SwitchTab, Refetch, Refetched, Cleared
<1>2. switches' \in 0 .. MaxSwitches
  BY ViewsAssumption DEF SwitchTab, ViewsInv
<1>3. "page" \in Askers
  BY DEF Askers
<1>4. /\ requests' \subseteq Request
      /\ \A n \in requests' : n.newest => n.view \notin Views \/ n = Asking(n.view, c, "page")
      /\ OneNewest(requests')
      /\ \A v \in Views : Awaits(requests', v)
  <2> DEFINE N == Refetched(requests, Views, c, "page")
  <2>1. requests \subseteq Request /\ OneNewest(requests)
    BY DEF ViewsInv
  <2>2. /\ N \subseteq Request
        /\ \A n \in N : n.newest => \/ n.view \in Views /\ n = Asking(n.view, c, "page")
                                    \/ n.view \notin Views /\ n \in requests
        /\ OneNewest(N)
        /\ \A v \in Views : Awaits(N, v) <=> v \in Views \/ Awaits(requests, v)
    BY <1>3, <2>1, RefetchedRequests
  <2> HIDE DEF N
  <2>3. requests' = N
    BY <1>1 DEF N
  <2> QED BY <2>2, <2>3
<1>5. PageAsksForActive(requests', c)
  <2> SUFFICES ASSUME NEW n \in requests', n.newest PROVE n.chain = c
    BY DEF PageAsksForActive
  <2>1. n = Asking(n.view, c, "page")
    BY <1>4 DEF Request
  <2> QED BY <2>1 DEF Asking
<1>6. ShownOK(Empty(c), c) /\ Empty(c).loading
  BY <1>3 DEF ShownOK, Empty, View
<1> QED BY <1>1, <1>2, <1>4, <1>5, <1>6 DEF ViewsInv, ShownOK

-----------------------------------------------------------------------------
(* The theorems about WalletViews.                                         *)

LEMMA InitEstablishesViewsInv == Init => ViewsInv
<1> SUFFICES ASSUME Init PROVE ViewsInv
  OBVIOUS
<1>1. /\ activeChain = "btc" /\ switches = 0 /\ handlers = {}
      /\ shown = [v \in Views |-> Empty("btc")]
      /\ requests = {Asking(v, "btc", "page") : v \in Views}
  BY DEF Init
<1>2. "btc" \in Chains /\ "page" \in Askers /\ 0 \in 0 .. MaxSwitches
  BY ViewsAssumption DEF Chains, Askers
<1>3. \A v \in Views : /\ Asking(v, "btc", "page") \in Request
                       /\ Asking(v, "btc", "page").view = v
                       /\ Asking(v, "btc", "page").newest
                       /\ Asking(v, "btc", "page").chain = "btc"
  BY <1>2 DEF Asking, Request
<1>4. /\ requests \subseteq Request /\ OneNewest(requests) /\ PageAsksForActive(requests, "btc")
      /\ \A v \in Views : Awaits(requests, v)
  BY <1>1, <1>3 DEF OneNewest, PageAsksForActive, Awaits
<1>5. ShownOK(Empty("btc"), "btc") /\ Empty("btc").loading
  BY <1>2 DEF ShownOK, Empty, View
<1> QED BY <1>1, <1>2, <1>4, <1>5 DEF ViewsInv, ShownOK

LEMMA NextKeepsViewsInv == ViewsInv /\ [Next]_viewVars => ViewsInv'
<1> SUFFICES ASSUME ViewsInv, [Next]_viewVars PROVE ViewsInv'
  OBVIOUS
<1>1. /\ activeChain \in Chains /\ switches \in 0 .. MaxSwitches
      /\ handlers \subseteq [op : Mutations, chain : Chains]
  BY DEF ViewsInv
<1>2. ASSUME NEW c \in Chains, SwitchTab(c) PROVE ViewsInv'
  BY <1>2, SwitchTabKeepsInv
<1>3. ASSUME NEW v \in Views, ClickRefresh(v) PROVE ViewsInv'
  <2>1. {v} \subseteq Views /\ "page" \in Askers
    BY DEF Askers
  <2> QED BY <1>1, <1>3, <2>1, RefetchKeepsInv DEF ClickRefresh
<1>4. ASSUME NEW op \in Mutations, Click(op) PROVE ViewsInv'
  <2>1. handlers' \subseteq [op : Mutations, chain : Chains]
    BY <1>1, <1>4 DEF Click
  <2> QED BY <1>4, <2>1 DEF Click, ViewsInv
<1>5. ASSUME NEW h \in handlers, HandlerReturns(h) PROVE ViewsInv'
  <2>1. h.op \in Mutations /\ h.chain \in Chains /\ ChainOf(h) = h.chain
    BY <1>1 DEF ChainOf
  <2>2. FetchedAfter(h.op) \subseteq Views /\ h.op \in Askers /\ h.op # "page"
    BY <2>1 DEF FetchedAfter, Views, Askers, Mutations
  <2>3. UNCHANGED activeChain /\ switches' \in 0 .. MaxSwitches /\ handlers' \subseteq handlers
    BY <1>1, <1>5 DEF HandlerReturns
  <2> QED BY <1>5, <2>1, <2>2, <2>3, RefetchKeepsInv DEF HandlerReturns
<1>6. ASSUME NEW h \in handlers, HandlerThrows(h) PROVE ViewsInv'
  BY <1>6 DEF HandlerThrows, ViewsInv
<1>7. ASSUME NEW r \in requests, NEW ok \in BOOLEAN, Take(r, ok) PROVE ViewsInv'
  BY <1>7, TakeKeepsInv
<1>8. CASE UNCHANGED viewVars
  BY <1>8 DEF viewVars, ViewsInv
<1> QED BY <1>2, <1>3, <1>4, <1>5, <1>6, <1>7, <1>8
       DEF Next, ClickReceive, ClickSend, Mutations

\* Of every list at most one request is the newest, and it decides.
THEOREM ViewsInvariant == Spec => []ViewsInv
<1> QED BY InitEstablishesViewsInv, NextKeepsViewsInv, PTL DEF Spec

\* Every variable keeps its type.
THEOREM ViewsTypeCorrect == Spec => []TypeOK
<1>1. ViewsInv => TypeOK
  BY DEF ViewsInv, TypeOK
<1> QED BY <1>1, ViewsInvariant, PTL

\* A list is loading exactly while its newest request is under way, and what is
\* shown then is the answer to that request (hooks.ts, the request counters of
\* useAddressBook, useWalletUtxos and useWalletTransactions).
THEOREM NewestDecides == Spec => []NewestAnswerWins
<1>1. ViewsInv => NewestAnswerWins
  BY DEF ViewsInv, NewestAnswerWins, ShownOK, Awaits
<1> QED BY <1>1, ViewsInvariant, PTL

\* The page never brings the chain of the other tab into a list; only a handler
\* of an earlier render does (hooks.ts and WalletPage.tsx).
THEOREM OtherChainFromHandlers == Spec => []OtherChainOnlyByHandler
<1>1. ViewsInv => OtherChainOnlyByHandler
  BY DEF ViewsInv, OtherChainOnlyByHandler, ShownOK
<1> QED BY <1>1, ViewsInvariant, PTL

-----------------------------------------------------------------------------
(* SwapFeed: the inductive invariant.                                      *)

FeedCalls == [kind : Kinds, got : {0} \cup Versions]

\* The variables but for the calls: of their types, and nothing that is shown or
\* kept is newer than the core.
KeptOK ==
    /\ transport \in {"ipc", "http"}
    /\ version \in Versions
    /\ open \in BOOLEAN /\ subscribed \in BOOLEAN /\ fallback \in BOOLEAN
    /\ mount \in {"none", "waiting", "up"}
    /\ source \in {"none", "open", "down", "off"}
    /\ list \in 0 .. version /\ last \in 0 .. version
    /\ seq \in 0 .. version /\ asked \in 0 .. version

\* The calls that a feed makes while the hook is at a stage.
CallsOf(feed, stage) ==
    IF feed = "ipc"
    THEN IF stage = "up" THEN {"publish", "refetch"} ELSE {"publish"}
    ELSE CASE stage = "none"    -> {}
           [] stage = "waiting" -> {"first"}
           [] stage = "up"      -> {"refetch", "poll", "get"}

\* The calls S are of the feed at its stage, and none brings more than version v;
\* a page of the browser that waits has exactly its first poll to wait for.
CallsOK(S, feed, stage, v) ==
    /\ S \subseteq FeedCalls
    /\ \A c \in S : c.got <= v /\ c.kind \in CallsOf(feed, stage)
    /\ feed = "http" /\ stage = "waiting" => \E c \in S : S = {c}

\* A page that is shown has a feed: in the shell the subscription, in the
\* browser the stream or, while there is none, the fallback.
PageHasAFeed ==
    /\ transport = "ipc" /\ mount # "none" => subscribed
    /\ transport = "http" /\ mount = "up" => source = "open" \/ (source # "none" /\ fallback)

\* No feed runs for a page that is not there, but for the subscription of the
\* shell that outlives its page.
NoOtherFeed ==
    /\ transport = "ipc" => source = "none" /\ ~fallback /\ seq = 0
    /\ transport = "http" => ~subscribed /\ last = 0
    /\ mount # "up" => source = "none" /\ ~fallback

FeedInv == /\ KeptOK
           /\ CallsOK(calls, transport, mount, version)
           /\ PageHasAFeed
           /\ NoOtherFeed

-----------------------------------------------------------------------------
(* Calls of the feeds.                                                     *)

LEMMA UnservedIsACall ==
    ASSUME NEW kind \in Kinds
    PROVE  /\ Unserved(kind) \in FeedCalls
           /\ Unserved(kind).kind = kind /\ Unserved(kind).got = 0
BY DEF Unserved, FeedCalls

LEMMA ServedIsACall ==
    ASSUME NEW c \in FeedCalls, NEW v \in Versions
    PROVE  LET s == [c EXCEPT !.got = v]
           IN  s \in FeedCalls /\ s.kind = c.kind /\ s.got = v
BY DEF FeedCalls

LEMMA CallStarts ==
    ASSUME NEW S, NEW feed, NEW stage, NEW v \in Nat, CallsOK(S, feed, stage, v),
           NEW kind \in Kinds, kind \in CallsOf(feed, stage),
           ~(feed = "http" /\ stage = "waiting")
    PROVE  CallsOK(S \cup {Unserved(kind)}, feed, stage, v)
<1>1. Unserved(kind) \in FeedCalls /\ Unserved(kind).kind = kind /\ Unserved(kind).got = 0
  BY UnservedIsACall
<1> QED BY <1>1 DEF CallsOK

LEMMA CallEnds ==
    ASSUME NEW S, NEW feed, NEW stage, NEW v, CallsOK(S, feed, stage, v), NEW c \in S,
           ~(feed = "http" /\ stage = "waiting")
    PROVE  CallsOK(S \ {c}, feed, stage, v)
BY DEF CallsOK

\* The answers for a page that has gone are forgotten; what is left is of the
\* shell.
LEMMA PageCallsGone ==
    ASSUME FeedInv
    PROVE  CallsOK(calls \ Gone, transport, "none", version)
<1>1. \A c \in calls \ Gone : c \in calls /\ c.kind = "publish"
  BY DEF Gone
<1>2. CallsOK(calls, transport, mount, version) /\ transport \in {"ipc", "http"}
      /\ mount \in {"none", "waiting", "up"}
  BY DEF FeedInv, KeptOK
<1>3. transport = "http" => calls \ Gone = {}
  BY <1>1, <1>2 DEF CallsOK, CallsOf
<1> QED BY <1>1, <1>2, <1>3 DEF CallsOK, CallsOf

-----------------------------------------------------------------------------
(* Steps that leave the calls alone.                                       *)

\* The answer to watchAllSwaps: the stage of a call of the shell does not matter.
LEMMA ResolvedKeepsFeedInv ==
    ASSUME FeedInv, Resolved
    PROVE  FeedInv'
<1>1. /\ transport = "ipc" /\ mount = "waiting" /\ mount' = "up"
      /\ UNCHANGED <<transport, version, open, list, subscribed, last, source, seq, fallback,
                     calls, asked>>
  BY DEF Resolved, mainVars, streamVars
<1>2. CallsOK(calls', transport', mount', version')
  BY <1>1 DEF FeedInv, CallsOK, CallsOf
<1>3. KeptOK' /\ PageHasAFeed' /\ NoOtherFeed'
  BY <1>1 DEF FeedInv, KeptOK, PageHasAFeed, NoOtherFeed
<1> QED BY <1>2, <1>3 DEF FeedInv

\* The stream opens, breaks off and is opened again.
LEMMA StreamKeepsFeedInv ==
    ASSUME FeedInv, Opened \/ Dropped \/ Reconnect
    PROVE  FeedInv'
<1>1. /\ UNCHANGED <<transport, version, open, mount, list, subscribed, last, seq, calls, asked>>
      /\ source \in {"open", "down"} /\ source' \in {"open", "down", "off"}
      /\ source' # "open" => fallback'
      /\ fallback' \in BOOLEAN
  BY DEF Opened, Dropped, Reconnect, mainVars, FeedInv, KeptOK
<1>2. CallsOK(calls', transport', mount', version')
  BY <1>1 DEF FeedInv
<1>3. KeptOK'
  BY <1>1 DEF FeedInv, KeptOK
<1>4. transport = "http" /\ mount = "up"
  BY <1>1 DEF FeedInv, KeptOK, NoOtherFeed
<1>5. PageHasAFeed'
  <2>1. source' = "open" \/ (source' # "none" /\ fallback')
    BY <1>1
  <2> QED BY <1>1, <1>4, <2>1 DEF PageHasAFeed
<1>6. NoOtherFeed'
  BY <1>1, <1>4 DEF FeedInv, NoOtherFeed
<1> QED BY <1>2, <1>3, <1>5, <1>6 DEF FeedInv

LEMMA ChangeKeepsFeedInv ==
    ASSUME FeedInv, Change
    PROVE  FeedInv'
<1>1. /\ UNCHANGED <<transport, open, mount, list, subscribed, last, source, seq, fallback,
                     calls, asked>>
      /\ version' = version + 1 /\ version < MaxVersion /\ version \in 1 .. MaxVersion
      /\ MaxVersion \in Nat
  BY FeedAssumption DEF Change, mainVars, streamVars, FeedInv, KeptOK, Versions
<1>2. version' \in Versions /\ 0 .. version \subseteq 0 .. version'
  BY <1>1 DEF Versions
<1>3. \A c \in calls : c.got <= version'
  <2>1. \A c \in calls : c.got \in Nat /\ c.got <= version
    BY FeedAssumption DEF FeedInv, CallsOK, FeedCalls, Versions
  <2> QED BY <1>1, <2>1
<1>4. CallsOK(calls', transport', mount', version')
  BY <1>1, <1>3 DEF FeedInv, CallsOK
<1>5. KeptOK'
  BY <1>1, <1>2 DEF FeedInv, KeptOK
<1>6. PageHasAFeed' /\ NoOtherFeed'
  BY <1>1 DEF FeedInv, PageHasAFeed, NoOtherFeed
<1> QED BY <1>4, <1>5, <1>6 DEF FeedInv

LEMMA SessionKeepsFeedInv ==
    ASSUME FeedInv, Lock \/ Unlock
    PROVE  FeedInv'
<1>1. /\ UNCHANGED <<transport, version, mount, list, subscribed, last, source, seq, fallback,
                     calls, asked>>
      /\ open' \in BOOLEAN
  BY DEF Lock, Unlock, mainVars, streamVars
<1> QED BY <1>1 DEF FeedInv, KeptOK, PageHasAFeed, NoOtherFeed

-----------------------------------------------------------------------------
(* A call starts, is served and ends.                                      *)

\* What a step that starts a call does, beside moving the position.
LEMMA StartKeepsCalls ==
    ASSUME FeedInv, NEW kind \in Kinds, kind \in CallsOf(transport, mount), Start(kind),
           ~(transport = "http" /\ mount = "waiting"),
           UNCHANGED <<transport, mount, version>>
    PROVE  CallsOK(calls', transport', mount', version') /\ asked' \in 0 .. version'
<1>1. version \in Nat /\ asked \in 0 .. version /\ CallsOK(calls, transport, mount, version)
  BY FeedAssumption DEF FeedInv, KeptOK, Versions
<1>2. CallsOK(calls \cup {Unserved(kind)}, transport, mount, version)
  BY <1>1, CallStarts
<1>3. calls' = calls \cup {Unserved(kind)} /\ asked' \in {asked, version}
  BY DEF Start
<1> QED BY <1>1, <1>2, <1>3

LEMMA AskingKeepsFeedInv ==
    ASSUME FeedInv, PublishTick \/ ListAgain \/ FallbackTick \/ SwapEvent
    PROVE  FeedInv'
<1>1. /\ UNCHANGED <<transport, version, open, mount, list, subscribed, last, source, fallback>>
      /\ seq' = seq \/ (source = "open" /\ seq < version /\ seq' = seq + 1)
  <2>1. CASE PublishTick \/ ListAgain \/ FallbackTick
    BY <2>1 DEF PublishTick, ListAgain, FallbackTick, mainVars, streamVars
  <2>2. CASE SwapEvent
    BY <2>2 DEF SwapEvent, mainVars
  <2> QED BY <2>1, <2>2
<1>2. /\ transport \in {"ipc", "http"} /\ mount \in {"none", "waiting", "up"}
      /\ version \in Nat /\ seq \in 0 .. version
  BY FeedAssumption DEF FeedInv, KeptOK, Versions
<1>3. CallsOK(calls', transport', mount', version') /\ asked' \in 0 .. version'
  <2>1. CASE PublishTick
    <3>1. transport = "ipc" /\ Start("publish")
      BY <1>2, <2>1 DEF PublishTick, FeedInv, NoOtherFeed
    <3> QED BY <1>1, <3>1, StartKeepsCalls DEF Kinds, CallsOf
  <2>2. CASE ListAgain
    <3>1. mount = "up" /\ Start("refetch")
      BY <2>2 DEF ListAgain
    <3> QED BY <1>1, <1>2, <3>1, StartKeepsCalls DEF Kinds, CallsOf
  <2>3. CASE FallbackTick
    <3>1. mount = "up" /\ transport = "http" /\ Start("poll")
      BY <1>2, <2>3 DEF FallbackTick, FeedInv, NoOtherFeed
    <3> QED BY <1>1, <3>1, StartKeepsCalls DEF Kinds, CallsOf
  <2>4. CASE SwapEvent
    <3>1. mount = "up" /\ transport = "http" /\ Start("get")
      BY <1>2, <2>4 DEF SwapEvent, FeedInv, NoOtherFeed
    <3> QED BY <1>1, <3>1, StartKeepsCalls DEF Kinds, CallsOf
  <2> QED BY <2>1, <2>2, <2>3, <2>4
<1>4. seq' \in 0 .. version
  BY <1>1, <1>2
<1>5. KeptOK'
  BY <1>1, <1>3, <1>4 DEF FeedInv, KeptOK
<1>6. PageHasAFeed' /\ NoOtherFeed'
  BY <1>1 DEF FeedInv, PageHasAFeed, NoOtherFeed
<1> QED BY <1>3, <1>5, <1>6 DEF FeedInv

\* A call is served: it takes the version along.
LEMMA ServeKeepsFeedInv ==
    ASSUME FeedInv, NEW c \in calls, Serve(c)
    PROVE  FeedInv'
<1> DEFINE s == [c EXCEPT !.got = version]
<1>1. /\ UNCHANGED <<transport, version, open, mount, list, subscribed, last, source, seq,
                     fallback, asked>>
      /\ calls' = (calls \ {c}) \cup {s}
  BY DEF Serve, mainVars, streamVars
<1>2. /\ c \in FeedCalls /\ version \in Versions /\ version \in Nat
      /\ CallsOK(calls, transport, mount, version)
  BY FeedAssumption DEF FeedInv, KeptOK, CallsOK, Versions
<1>3. s \in FeedCalls /\ s.kind = c.kind /\ s.got = version
  BY <1>2, ServedIsACall
<1> HIDE DEF s
<1>4. CallsOK(calls', transport', mount', version')
  BY <1>1, <1>2, <1>3 DEF CallsOK
<1> QED BY <1>1, <1>4 DEF FeedInv, KeptOK, PageHasAFeed, NoOtherFeed

\* A call other than the first poll fails, or its answer is taken.
LEMMA EndKeepsFeedInv ==
    ASSUME FeedInv, NEW c \in calls, Fail(c) \/ Publish(c) \/ TakeList(c) \/ TakeSwap(c)
    PROVE  FeedInv'
<1>1. /\ UNCHANGED <<transport, version, open, mount, subscribed, source, seq, fallback, asked>>
      /\ calls' = calls \ {c} /\ c.kind # "first"
      /\ list' \in {list, c.got} /\ last' \in {last, c.got}
      /\ last' # last => c.kind = "publish"
  BY DEF Fail, Publish, TakeList, TakeSwap, End, mainVars, streamVars
<1>2. /\ c.got \in Nat /\ c.got <= version /\ c.kind \in CallsOf(transport, mount)
      /\ version \in Nat /\ CallsOK(calls, transport, mount, version)
      /\ transport \in {"ipc", "http"} /\ mount \in {"none", "waiting", "up"}
  BY FeedAssumption DEF FeedInv, KeptOK, CallsOK, FeedCalls, Versions
<1>3. ~(transport = "http" /\ mount = "waiting")
  BY <1>1, <1>2 DEF CallsOf
<1>4. CallsOK(calls', transport', mount', version')
  BY <1>1, <1>2, <1>3, CallEnds
<1>5. KeptOK'
  BY <1>1, <1>2 DEF FeedInv, KeptOK
<1>6. c.kind = "publish" => transport # "http"
  BY <1>2 DEF CallsOf
<1>7. PageHasAFeed' /\ NoOtherFeed'
  BY <1>1, <1>6 DEF FeedInv, PageHasAFeed, NoOtherFeed
<1> QED BY <1>4, <1>5, <1>7 DEF FeedInv

\* The first poll was the only call, and the page goes up with a stream.
LEMMA FirstKeepsFeedInv ==
    ASSUME FeedInv, NEW c \in calls, First(c)
    PROVE  FeedInv'
<1>1. /\ UNCHANGED <<transport, version, open, subscribed, last, seq, fallback, asked>>
      /\ calls' = calls \ {c} /\ c.kind = "first" /\ mount' = "up" /\ source' = "open"
      /\ list' \in {list, c.got}
  BY DEF First, End, mainVars
<1>2. /\ c.got \in Nat /\ c.got <= version /\ c.kind \in CallsOf(transport, mount)
      /\ version \in Nat /\ CallsOK(calls, transport, mount, version)
      /\ transport \in {"ipc", "http"} /\ mount \in {"none", "waiting", "up"}
  BY FeedAssumption DEF FeedInv, KeptOK, CallsOK, FeedCalls, Versions
<1>3. transport = "http" /\ mount = "waiting"
  BY <1>1, <1>2 DEF CallsOf
<1>4. calls' = {}
  BY <1>1, <1>2, <1>3 DEF CallsOK
<1>5. CallsOK(calls', transport', mount', version')
  BY <1>1, <1>4 DEF CallsOK
<1>6. KeptOK'
  BY <1>1, <1>2 DEF FeedInv, KeptOK
<1>7. PageHasAFeed'
  BY <1>1, <1>3 DEF PageHasAFeed
<1>8. NoOtherFeed'
  BY <1>1, <1>3 DEF FeedInv, NoOtherFeed
<1> QED BY <1>5, <1>6, <1>7, <1>8 DEF FeedInv

-----------------------------------------------------------------------------
(* The page comes and goes.                                                *)

LEMMA MountKeepsFeedInv ==
    ASSUME FeedInv, Mount
    PROVE  FeedInv'
<1>1. /\ UNCHANGED <<transport, version, open>>
      /\ mount = "none" /\ mount' = "waiting" /\ list' = 0 /\ asked' = 0
      /\ source' = "none" /\ seq' = 0 /\ fallback' = FALSE
  BY DEF Mount
<1>2. /\ transport \in {"ipc", "http"} /\ version \in Nat /\ 0 \in 0 .. version
      /\ CallsOK(calls, transport, "none", version)
  BY <1>1, FeedAssumption DEF FeedInv, KeptOK, Versions
<1>3. CASE transport = "ipc"
  <2>1. /\ subscribed' = TRUE /\ last' = last
        /\ calls' \in {calls, calls \cup {Unserved("publish")}}
    BY <1>3 DEF Mount, Subscribe
  <2>2. CallsOK(calls, transport, "none", version)
        /\ CallsOK(calls \cup {Unserved("publish")}, transport, "none", version)
    <3>1. "publish" \in Kinds /\ "publish" \in CallsOf(transport, "none")
      BY <1>3 DEF Kinds, CallsOf
    <3> QED BY <1>2, <1>3, <3>1, CallStarts
  <2>3. CallsOK(calls', transport, "none", version)
    BY <2>1, <2>2
  <2>4. CallsOK(calls', transport', mount', version')
    BY <1>1, <1>3, <2>3 DEF CallsOK, CallsOf
  <2>5. KeptOK'
    <3>1. list' \in 0 .. version' /\ seq' \in 0 .. version' /\ asked' \in 0 .. version'
      BY <1>1, <1>2
    <3>2. /\ transport' \in {"ipc", "http"} /\ version' \in Versions /\ open' \in BOOLEAN
          /\ subscribed' \in BOOLEAN /\ last' \in 0 .. version'
      BY <1>1, <2>1 DEF FeedInv, KeptOK
    <3>3. /\ fallback' \in BOOLEAN /\ mount' \in {"none", "waiting", "up"}
          /\ source' \in {"none", "open", "down", "off"}
      BY <1>1
    <3> QED BY <3>1, <3>2, <3>3 DEF KeptOK
  <2>6. PageHasAFeed' /\ NoOtherFeed'
    BY <1>1, <1>3, <2>1 DEF PageHasAFeed, NoOtherFeed
  <2> QED BY <2>4, <2>5, <2>6 DEF FeedInv
<1>4. CASE transport = "http"
  <2>1. /\ calls' = calls \cup {Unserved("first")}
        /\ UNCHANGED <<subscribed, last>>
    BY <1>4 DEF Mount, mainVars
  <2>2. calls = {}
    BY <1>2, <1>4 DEF CallsOK, CallsOf
  <2>3. /\ Unserved("first") \in FeedCalls
        /\ Unserved("first").kind = "first" /\ Unserved("first").got = 0
    BY UnservedIsACall DEF Kinds
  <2>4. CallsOK(calls', transport', mount', version')
    <3>1. calls' = {Unserved("first")}
      BY <2>1, <2>2
    <3> QED BY <1>1, <1>2, <1>4, <2>3, <3>1 DEF CallsOK, CallsOf
  <2>5. KeptOK'
    <3>1. list' \in 0 .. version' /\ seq' \in 0 .. version' /\ asked' \in 0 .. version'
      BY <1>1, <1>2
    <3>2. /\ transport' \in {"ipc", "http"} /\ version' \in Versions /\ open' \in BOOLEAN
          /\ subscribed' \in BOOLEAN /\ last' \in 0 .. version'
      BY <1>1, <2>1 DEF FeedInv, KeptOK
    <3>3. /\ fallback' \in BOOLEAN /\ mount' \in {"none", "waiting", "up"}
          /\ source' \in {"none", "open", "down", "off"}
      BY <1>1
    <3> QED BY <3>1, <3>2, <3>3 DEF KeptOK
  <2>6. PageHasAFeed'
    BY <1>1, <1>4 DEF PageHasAFeed
  <2>7. NoOtherFeed'
    BY <1>1, <1>4, <2>1 DEF FeedInv, NoOtherFeed
  <2> QED BY <2>4, <2>5, <2>6, <2>7 DEF FeedInv
<1> QED BY <1>2, <1>3, <1>4

\* The page leaves, or the renderer is loaded anew: the subscription may stay.
LEMMA LeavingKeepsFeedInv ==
    ASSUME FeedInv, Unmount \/ Reload
    PROVE  FeedInv'
<1>1. /\ UNCHANGED <<transport, version, open, list, seq, asked>>
      /\ mount' = "none" /\ source' = "none" /\ fallback' = FALSE
      /\ calls' = calls \ Gone
  BY DEF Unmount, Reload
<1>2. /\ subscribed' \in BOOLEAN /\ last' \in {0, last}
      /\ transport = "http" => subscribed' = subscribed /\ last' = last
  <2>1. CASE Unmount
    BY <2>1 DEF Unmount, Unsubscribe, mainVars, FeedInv, KeptOK
  <2>2. CASE Reload
    BY <2>2 DEF Reload, mainVars, FeedInv, KeptOK
  <2> QED BY <2>1, <2>2
<1>3. CallsOK(calls', transport', mount', version')
  BY <1>1, PageCallsGone
<1>4. KeptOK'
  <2>1. 0 \in 0 .. version
    BY FeedAssumption DEF FeedInv, KeptOK, Versions
  <2>2. last' \in 0 .. version'
    BY <1>1, <1>2, <2>1 DEF FeedInv, KeptOK
  <2> QED BY <1>1, <1>2, <2>2 DEF FeedInv, KeptOK
<1>5. PageHasAFeed'
  BY <1>1 DEF PageHasAFeed
<1>6. NoOtherFeed'
  BY <1>1, <1>2 DEF FeedInv, NoOtherFeed
<1> QED BY <1>3, <1>4, <1>5, <1>6 DEF FeedInv

-----------------------------------------------------------------------------
(* The theorems about SwapFeed.                                            *)

LEMMA InitEstablishesFeedInv == FeedInit => FeedInv
<1> SUFFICES ASSUME FeedInit PROVE FeedInv
  OBVIOUS
<1>1. 1 \in Versions /\ 0 \in 0 .. 1
  BY FeedAssumption DEF Versions
<1>2. KeptOK
  BY <1>1 DEF FeedInit, KeptOK
<1>3. CallsOK(calls, transport, mount, version)
  BY DEF FeedInit, CallsOK
<1>4. PageHasAFeed /\ NoOtherFeed
  BY DEF FeedInit, PageHasAFeed, NoOtherFeed
<1> QED BY <1>2, <1>3, <1>4 DEF FeedInv

LEMMA NextKeepsFeedInv == FeedInv /\ [FeedNext]_feedVars => FeedInv'
<1> SUFFICES ASSUME FeedInv, [FeedNext]_feedVars PROVE FeedInv'
  OBVIOUS
<1>1. CASE Change \/ Lock \/ Unlock \/ Reload \/ Mount \/ Resolved \/ Unmount
  BY <1>1, ChangeKeepsFeedInv, SessionKeepsFeedInv, LeavingKeepsFeedInv, MountKeepsFeedInv,
     ResolvedKeepsFeedInv
<1>2. CASE ListAgain \/ PublishTick \/ FallbackTick \/ SwapEvent
  BY <1>2, AskingKeepsFeedInv
<1>3. CASE Opened \/ Dropped \/ Reconnect
  BY <1>3, StreamKeepsFeedInv
<1>4. ASSUME NEW c \in calls, Serve(c) \/ Fail(c) \/ TakeAnswer(c) PROVE FeedInv'
  BY <1>4, ServeKeepsFeedInv, EndKeepsFeedInv, FirstKeepsFeedInv DEF TakeAnswer
<1>5. CASE UNCHANGED feedVars
  BY <1>5 DEF feedVars, mainVars, streamVars, FeedInv, KeptOK, PageHasAFeed, NoOtherFeed
<1> QED BY <1>1, <1>2, <1>3, <1>4, <1>5 DEF FeedNext

\* Nothing a page shows, a feed keeps or a call brings is newer than the core,
\* and every call is one the feed makes at its stage.
THEOREM FeedInvariant == FeedSpec => []FeedInv
<1> QED BY InitEstablishesFeedInv, NextKeepsFeedInv, PTL DEF FeedSpec

\* Every variable of the feeds keeps its type: the position in the stream never
\* passes the events there are.
THEOREM FeedTypeCorrect == FeedSpec => []FeedTypeOK
<1>1. FeedInv => FeedTypeOK
  <2> SUFFICES ASSUME FeedInv PROVE FeedTypeOK
    OBVIOUS
  <2>1. version \in Versions /\ 0 .. version \subseteq {0} \cup Versions
    BY FeedAssumption DEF FeedInv, KeptOK, Versions
  <2>2. calls \subseteq [kind : Kinds, got : {0} \cup Versions]
    BY DEF FeedInv, CallsOK, FeedCalls
  <2> QED BY <2>1, <2>2 DEF FeedInv, KeptOK, FeedTypeOK
<1> QED BY <1>1, FeedInvariant, PTL

\* The page of the swaps is never without a feed: in the shell its subscription
\* runs, in the browser the stream or the fallback, whatever drops, answers late
\* or is unmounted meanwhile (api.ts, watchAllSwaps; main.ts,
\* setSwapWatchSubscription).
THEOREM ShownPageHasAFeed == FeedSpec => []PageHasAFeed
<1>1. FeedInv => PageHasAFeed
  BY DEF FeedInv
<1> QED BY <1>1, FeedInvariant, PTL

\* A page of the browser that waits has its first poll under way and no other
\* call: it is not left waiting by an answer for a page before it (api.ts,
\* watchAllSwaps).
FirstPollIsUnderWay ==
    transport = "http" /\ mount = "waiting" => \E c \in calls : calls = {c} /\ c.kind = "first"

THEOREM WaitingPageIsServed == FeedSpec => []FirstPollIsUnderWay
<1>1. FeedInv => FirstPollIsUnderWay
  BY DEF FeedInv, FirstPollIsUnderWay, CallsOK, CallsOf
<1> QED BY <1>1, FeedInvariant, PTL

=============================================================================
