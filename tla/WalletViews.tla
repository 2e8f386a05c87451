----------------------------- MODULE WalletViews -----------------------------
(***************************************************************************)
(* The wallet page: one tab per chain, three lists that are fetched for the *)
(* chosen chain (hooks useAddressBook, useWalletUtxos,                      *)
(* useWalletTransactions), and two handlers that change the wallet and then *)
(* fetch lists again.                                                      *)
(*                                                                         *)
(* The hooks number their requests and take only the answer of the newest. *)
(* A handler is a closure of the render it was clicked in: what it fetches *)
(* after its await is of the chain that was chosen then.  Of a list is kept *)
(* the chain it belongs to, who asked for it, and whether the newest        *)
(* request brought it; a request is served after it was issued, so such a   *)
(* list shows whatever the handler that issued it had done.                 *)
(***************************************************************************)
EXTENDS Naturals, FiniteSets

CONSTANTS MaxSwitches,   \* bound of the model: clicks on a tab
          MaxRequests,   \* bound of the model: list requests in flight
          MaxHandlers    \* bound of the model: handlers that wait

ASSUME ViewsAssumption == {MaxSwitches, MaxRequests, MaxHandlers} \subseteq Nat \ {0}

VARIABLES activeChain,
          switches,   \* clicks on a tab so far
          shown,      \* the three lists, their loading and error
          requests,   \* list requests in flight
          handlers    \* handlers that await their mutation

viewVars == <<activeChain, switches, shown, requests, handlers>>

Chains == {"btc", "liquid"}
Views == {"addresses", "utxos", "transactions"}
Mutations == {"derive", "send"}
Askers == {"page"} \cup Mutations   \* "page": an effect or a button

View == [chain : Chains, by : Askers, newest : BOOLEAN,
         loading : BOOLEAN, error : BOOLEAN]
Request == [view : Views, chain : Chains, by : Askers, newest : BOOLEAN]

TypeOK ==
    /\ activeChain \in Chains
    /\ switches \in 0 .. MaxSwitches
    /\ shown \in [Views -> View]
    /\ requests \subseteq Request
    /\ handlers \subseteq [op : Mutations, chain : Chains]

-----------------------------------------------------------------------------
(* The hooks.                                                               *)

Asking(v, c, who) == [view |-> v, chain |-> c, by |-> who, newest |-> TRUE]

Superseded(R, V) == {[r EXCEPT !.newest = @ /\ r.view \notin V] : r \in R}

(* refetch, for a set of lists, beside the requests R that are in flight.   *)
Refetch(R, V, c, who) ==
    /\ requests' = Superseded(R, V) \cup {Asking(v, c, who) : v \in V}
    /\ Cardinality(requests') <= MaxRequests

Waiting(view) == [view EXCEPT !.loading = TRUE, !.newest = FALSE]

Loading(V) ==
    shown' = [v \in Views |-> IF v \in V THEN Waiting(shown[v]) ELSE shown[v]]

Empty(c) ==
    [chain |-> c, by |-> "page", newest |-> FALSE, loading |-> TRUE, error |-> FALSE]

Init ==
    /\ activeChain = "btc"
    /\ switches = 0
    /\ shown = [v \in Views |-> Empty(activeChain)]
    /\ requests = {Asking(v, activeChain, "page") : v \in Views}
    /\ handlers = {}

Listed(view, r) ==
    [view EXCEPT !.chain = r.chain, !.by = r.by, !.newest = r.newest,
                 !.error = FALSE, !.loading = FALSE]

(* Mutant: an error leaves the hook before its finally.                      *)
AnsweredNoFinally(r, ok) ==
    [shown EXCEPT ![r.view] =
        IF ~r.newest THEN @
        ELSE IF ok THEN Listed(@, r) ELSE [@ EXCEPT !.error = TRUE]]

(* What an answer, or its error, makes of the lists.                        *)
Answered(r, ok) ==
    [shown EXCEPT ![r.view] =
        IF ~r.newest THEN @
        ELSE IF ok THEN Listed(@, r)
        ELSE [@ EXCEPT !.error = TRUE, !.loading = FALSE]]

(* handleSend awaits the coins, whatever becomes of them, and then asks for *)
(* the transactions.                                                        *)
Take(r, ok) ==
    /\ IF r.by = "send" /\ r.view = "utxos"
       THEN /\ Refetch(requests \ {r}, {"transactions"}, r.chain, "send")
            /\ shown' = [Answered(r, ok) EXCEPT !["transactions"] = Waiting(@)]
       ELSE /\ requests' = requests \ {r}
            /\ shown' = Answered(r, ok)
    /\ UNCHANGED <<activeChain, switches, handlers>>

-----------------------------------------------------------------------------
(* The page.                                                                *)

(* Mutant: the lists of the other chain are left until the new ones come.    *)
ClearedNot(c) == Loading(Views)

(* The lists are emptied.                                                   *)
Cleared(c) == shown' = [v \in Views |-> Empty(c)]

SwitchTab(c) ==
    /\ c # activeChain
    /\ switches < MaxSwitches
    /\ switches' = switches + 1
    /\ activeChain' = c
    /\ Refetch(requests, Views, c, "page")
    /\ Cleared(c)
    /\ UNCHANGED handlers

ClickRefresh(v) ==
    /\ v \in {"utxos", "transactions"}
    /\ ~shown[v].loading
    /\ Refetch(requests, {v}, activeChain, "page")
    /\ Loading({v})
    /\ UNCHANGED <<activeChain, switches, handlers>>

Click(op) ==
    /\ Cardinality(handlers) < MaxHandlers
    /\ handlers' = handlers \cup {[op |-> op, chain |-> activeChain]}
    /\ UNCHANGED <<activeChain, switches, shown, requests>>

(* The card "Receive" may be clicked while an address is under way, "Send   *)
(* now" is disabled while a send is awaited.                                *)
ClickReceive == Click("derive")
ClickSend == {h \in handlers : h.op = "send"} = {} /\ Click("send")

(* What a handler fetches again, first.                                     *)
FetchedAfter(op) == IF op = "derive" THEN {"addresses"} ELSE {"utxos"}

(* Mutant: the chain is taken from the answer, which names it otherwise.     *)
ChainOfAnswer(h) == IF h.chain = "btc" THEN "CHAIN_BTC" ELSE "CHAIN_LIQUID"

ChainOf(h) == h.chain

HandlerReturns(h) ==
    /\ handlers' = handlers \ {h}
    /\ Refetch(requests, FetchedAfter(h.op), ChainOf(h), h.op)
    /\ Loading(FetchedAfter(h.op))
    /\ UNCHANGED <<activeChain, switches>>

(* A mutation that throws ends its handler, whether the core did it or not. *)
HandlerThrows(h) ==
    /\ handlers' = handlers \ {h}
    /\ UNCHANGED <<activeChain, switches, shown, requests>>

Next ==
    \/ \E c \in Chains : SwitchTab(c)
    \/ \E v \in Views : ClickRefresh(v)
    \/ ClickReceive \/ ClickSend
    \/ \E h \in handlers : HandlerReturns(h) \/ HandlerThrows(h)
    \/ \E r \in requests, ok \in BOOLEAN : Take(r, ok)

Spec == Init /\ [][Next]_viewVars

-----------------------------------------------------------------------------
(* The newest request alone decides.  A list is loading exactly while its   *)
(* newest request is under way: no late answer ends the wait of a newer     *)
(* one, and no error leaves it waiting.  A list that is neither loading nor *)
(* in error is the answer to that request: an address just derived or a     *)
(* payment just made is in it, whatever handlers, tabs and buttons overlap  *)
(* (hooks.ts, useAddressBook, useWalletUtxos, useWalletTransactions).       *)
NewestAnswerWins ==
    \A v \in Views :
        /\ shown[v].loading <=> \E r \in requests : r.view = v /\ r.newest
        /\ shown[v].loading \/ shown[v].error \/ shown[v].newest

(* Only a handler can bring the chain of the other tab into a list: loading *)
(* and refreshing never do (hooks.ts, the effects on chain).                *)
OtherChainOnlyByHandler ==
    \A v \in Views : shown[v].chain # activeChain => shown[v].by \in Mutations

-----------------------------------------------------------------------------
(* The lists are of the chosen chain.  TLC refutes it: the refetch of a     *)
(* handler is the one of the render it was clicked in, and is the newest.   *)
ListIsOfActiveChain == \A v \in Views : shown[v].chain = activeChain

=============================================================================
