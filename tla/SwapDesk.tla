------------------------------ MODULE SwapDesk ------------------------------
(***************************************************************************)
(* The Swap Center and the way of its two calls: "Create Swap" and         *)
(* "Advance" go from the page through the shell and the HTTP bridge, which *)
(* makes two calls of the core out of each, to the table of swaps.         *)
(*                                                                         *)
(* Whether a form is complete is decided three times, by three pieces of   *)
(* code: the page, the shell and the bridge, and the kind of the swap is   *)
(* derived from the chains twice.  A call may end in an error at any of    *)
(* its steps, with what it did before in place: the deadline of the bridge *)
(* cancels the handler of the core where it is.  Beside the page there is  *)
(* a second client.                                                        *)
(*                                                                         *)
(* A field is kept as whether it is filled in; the commit is one step, its *)
(* own steps are in SwapExecution, which also has the watcher; lists that  *)
(* overtake each other are in SwapFeed.                                    *)
(***************************************************************************)
EXTENDS Naturals, Sequences, FiniteSets

CONSTANTS Routes,     \* the presets of the form
          MaxSwaps,   \* bound of the model: swaps ever made
          MaxChecks   \* bound of the model: calls of "Advance" in flight

Chains == {"btc", "liquid", "ln"}

ASSUME DeskAssumption ==
    /\ Routes \subseteq Chains \X Chains
    /\ \A r \in Routes : r[1] # r[2]
    /\ {MaxSwaps, MaxChecks} \subseteq Nat \ {0}

VARIABLES create,     \* the one call of createSwap
          checks,     \* the calls of checkSwap
          checking,   \* useCheckSwap: loading
          selected,   \* selectedSwapId, 0 for null
          cards,      \* the swaps the page lists
          swaps,      \* the rows of the core, in order of their creation
          clicks,     \* history: clicks on "Advance" before the commit, at most two
          locked      \* history: swaps locked by their own creation, before the commit

pageVars == <<checking, selected, cards>>
coreVars == <<swaps, locked>>
deskVars == <<create, checks, pageVars, coreVars, clicks>>

Ids == 1 .. MaxSwaps
Slots == 1 .. MaxChecks
Fields == {"amount", "invoice", "destination"}
Kinds == {"submarine", "reverse", "chain"}
SwapStates == {"open", "locked", "commit_started"}   \* the last with all that follow it

NoCreate == [at |-> "idle", route |-> <<"btc", "ln">>, fields |-> {},
             kind |-> "submarine", with |-> {}, id |-> 0]
NoCheck == [at |-> "idle", swap |-> 0, by |-> "page", version |-> 0]

TypeOK ==
    /\ create \in [at : {"idle", "sent", "invalid", "complete", "quoted", "inserted",
                         "intended", "locked"},
                   route : Chains \X Chains, fields : SUBSET Fields,
                   kind : Kinds, with : SUBSET Fields, id : Ids \cup {0}]
    /\ checks \in [Slots -> [at : {"idle", "sent", "lock", "commit", "done", "listing"},
                             swap : Ids \cup {0}, by : {"page", "other"}, version : 0 .. 2]]
    /\ checking \in BOOLEAN
    /\ selected \in Ids \cup {0}
    /\ cards \in Seq([kind : Kinds, route : Chains \X Chains]) /\ Len(cards) <= Len(swaps)
    /\ swaps \in Seq([kind : Kinds, route : Routes, with : SUBSET Fields, intent : BOOLEAN,
                      state : SwapStates, version : 0 .. 2])
    /\ clicks \in [Ids -> 0 .. 2]
    /\ locked \subseteq DOMAIN swaps

Init ==
    /\ create = NoCreate
    /\ checks = [k \in Slots |-> NoCheck]
    /\ checking = FALSE /\ selected = 0
    /\ cards = <<>>
    /\ swaps = <<>>
    /\ clicks = [i \in Ids |-> 0]
    /\ locked = {}

-----------------------------------------------------------------------------
(* What a route needs, as the page, the shell and the bridge see it.        *)

OnChain == {"btc", "liquid"}

RouteKind(r) ==
    IF r[1] = "ln" THEN "reverse"
    ELSE IF r[1] \in OnChain /\ r[2] \in OnChain THEN "chain" ELSE "submarine"

Needs(r) ==
    {f \in {"invoice"} : RouteKind(r) = "submarine" /\ r[2] = "ln"}
    \cup {f \in {"destination"} : RouteKind(r) \in {"reverse", "chain"}}

FormComplete(r, filled) == {"amount"} \cup Needs(r) \subseteq filled

(* validateSwapCreate, of the chains alone.                                 *)
ShellAccepts(r, fields) ==
    /\ "amount" \in fields
    /\ r[2] = "ln" => "invoice" \in fields
    /\ r[2] # "ln" => "destination" \in fields

(* Mutant: of the two ways between the chains one is forgotten.              *)
BridgeKindOneWay(r) ==
    IF r[1] = "ln" THEN "reverse"
    ELSE IF r = <<"btc", "liquid">> THEN "chain" ELSE "submarine"

BridgeKind(r) ==
    IF r[1] = "ln" THEN "reverse"
    ELSE IF r \in {<<"btc", "liquid">>, <<"liquid", "btc">>} THEN "chain" ELSE "submarine"

BridgeAccepts(r, fields) ==
    /\ "amount" \in fields
    /\ IF BridgeKind(r) = "submarine" THEN "invoice" \in fields ELSE "destination" \in fields

(* The parameters of the quote, by its kind.                                *)
QuoteWith(kind, fields) ==
    fields \cap (IF kind = "submarine" THEN {"invoice"} ELSE {"destination"})

(* The form holds whatever was typed, for this route or another; only the   *)
(* field that the kind requires is sent.                                    *)
ClickCreate ==
    /\ create.at = "idle"
    /\ \E r \in Routes, filled \in SUBSET Fields :
          /\ FormComplete(r, filled)
          /\ create' = [NoCreate EXCEPT !.at = "sent", !.route = r,
                                        !.fields = filled \cap ({"amount"} \cup Needs(r))]
    /\ UNCHANGED <<checks, pageVars, coreVars, clicks>>

-----------------------------------------------------------------------------
(* createSwap: shell and bridge, QuoteSwap, and CreateSwap with its three   *)
(* writes.                                                                  *)

CreateGoes == UNCHANGED <<checks, pageVars, clicks>>

Validated ==
    /\ create.at = "sent"
    /\ create' = [create EXCEPT !.at =
                     IF ShellAccepts(create.route, create.fields)
                        /\ BridgeAccepts(create.route, create.fields)
                     THEN "complete" ELSE "invalid"]
    /\ CreateGoes /\ UNCHANGED coreVars

Quoted ==
    /\ create.at = "complete"
    /\ LET kind == BridgeKind(create.route)
       IN  create' = [create EXCEPT !.at = "quoted", !.kind = kind,
                                    !.with = QuoteWith(kind, create.fields)]
    /\ CreateGoes /\ UNCHANGED coreVars

(* Mutant: the row has the zero value for its state.                         *)
InsertedStateless ==
    /\ create.at = "quoted"
    /\ Len(swaps) < MaxSwaps
    /\ swaps' = Append(swaps, [kind |-> create.kind, route |-> create.route,
                               with |-> create.with, intent |-> FALSE,
                               state |-> "", version |-> 0])
    /\ create' = [NoCreate EXCEPT !.at = "inserted", !.id = Len(swaps) + 1]
    /\ CreateGoes /\ UNCHANGED locked

Inserted ==
    /\ create.at = "quoted"
    /\ Len(swaps) < MaxSwaps
    /\ swaps' = Append(swaps, [kind |-> create.kind, route |-> create.route,
                               with |-> create.with, intent |-> FALSE,
                               state |-> "open", version |-> 0])
    /\ create' = [NoCreate EXCEPT !.at = "inserted", !.id = Len(swaps) + 1]
    /\ CreateGoes /\ UNCHANGED locked

Intended ==
    /\ create.at = "inserted"
    /\ swaps' = [swaps EXCEPT ![create.id] = [@ EXCEPT !.intent = TRUE]]
    /\ create' = [create EXCEPT !.at = "intended"]
    /\ CreateGoes /\ UNCHANGED locked

(* Transition, on behalf of whoever read that version: the state must allow *)
(* it, and the table refuses a locked swap without its intent.              *)
Moves(i, version, from, to) ==
    /\ swaps[i].version = version
    /\ swaps[i].state = from
    /\ swaps[i].intent
    /\ swaps' = [swaps EXCEPT ![i] = [@ EXCEPT !.state = to, !.version = version + 1]]

Locked ==
    /\ create.at = "intended"
    /\ Moves(create.id, 0, "open", "locked")
    /\ locked' = locked \cup {create.id}
    /\ create' = [NoCreate EXCEPT !.at = "locked"]
    /\ CreateGoes

(* The form is emptied and the swaps are listed again.                      *)
CreateReturns ==
    /\ create.at = "locked"
    /\ create' = NoCreate
    /\ UNCHANGED <<checks, pageVars, coreVars, clicks>>

(* Refused by the limiter, by a locked shell, by a core that is not ready,  *)
(* by another client's lock; or cut off at the deadline.                    *)
CreateFails ==
    /\ create.at # "idle"
    /\ create' = NoCreate
    /\ CreateGoes /\ UNCHANGED coreVars

-----------------------------------------------------------------------------
(* checkSwap.                                                               *)

Committed(i) == swaps[i].state = "commit_started"
Forgotten(i) ==
    /\ clicks' = [clicks EXCEPT ![i] = IF Committed(i)' THEN 0 ELSE @]
    /\ locked' = {j \in locked : ~Committed(j)'}

Goes(k, at) == checks' = [checks EXCEPT ![k] = [@ EXCEPT !.at = at, !.version = 0]]
CheckGoes == UNCHANGED <<create, pageVars>>

Click(i, who) ==
    /\ \E k \in Slots :
          /\ checks[k] = NoCheck
          /\ \A j \in 1 .. k - 1 : checks[j] # NoCheck
          /\ checks' = [checks EXCEPT ![k] = [NoCheck EXCEPT !.at = "sent", !.swap = i, !.by = who]]
    /\ clicks' = [clicks EXCEPT ![i] = IF @ = 2 \/ Committed(i) THEN @ ELSE @ + 1]

(* The spinner is what disables the button, and it is of one swap only.     *)
Spins(i) == checking /\ selected = i

ClickAdvance(i) ==
    /\ ~Spins(i)
    /\ Click(i, "page")
    /\ selected' = i
    /\ checking' = TRUE
    /\ UNCHANGED <<create, cards, coreVars>>

OtherAdvances(i) ==
    /\ Click(i, "other")
    /\ UNCHANGED <<create, pageVars, coreVars>>

(* GetSwap, and what the bridge makes of the state it reads.                *)
CheckReads(k) ==
    /\ checks[k].at = "sent"
    /\ LET s == swaps[checks[k].swap]
           next == CASE s.state = "open" -> "lock"
                     [] s.state = "locked" -> "commit"
                     [] OTHER -> "done"
       IN  checks' = [checks EXCEPT ![k] = [@ EXCEPT !.version = s.version, !.at = next]]
    /\ CheckGoes /\ UNCHANGED <<coreVars, clicks>>

(* Mutant: a lock is followed by the commit, to save the user a click.       *)
CheckMovesOn(k) ==
    \/ /\ checks[k].at = "lock"
       /\ Moves(checks[k].swap, checks[k].version, "open", "locked")
       /\ checks' = [checks EXCEPT ![k].at = "commit", ![k].version = @ + 1]
       /\ CheckGoes /\ UNCHANGED <<clicks, locked>>
    \/ /\ checks[k].at = "commit"
       /\ Moves(checks[k].swap, checks[k].version, "locked", "commit_started")
       /\ Goes(k, "done")
       /\ CheckGoes /\ Forgotten(checks[k].swap)

(* LockSwap or CommitSwap, with the version that was read.                  *)
CheckMoves(k) ==
    /\ \/ /\ checks[k].at = "lock"
          /\ Moves(checks[k].swap, checks[k].version, "open", "locked")
       \/ /\ checks[k].at = "commit"
          /\ Moves(checks[k].swap, checks[k].version, "locked", "commit_started")
    /\ Goes(k, "done")
    /\ CheckGoes /\ Forgotten(checks[k].swap)

(* The page lists again before it forgets which swap it was.                *)
CheckReturns(k) ==
    /\ checks[k].at = "done"
    /\ IF checks[k].by = "page"
       THEN checking' = FALSE /\ Goes(k, "listing")
       ELSE checks' = [checks EXCEPT ![k] = NoCheck] /\ UNCHANGED checking
    /\ UNCHANGED <<create, selected, cards, coreVars, clicks>>

(* Mutant: an error leaves the hook before its finally.                      *)
CheckFailsSpinning(k) ==
    /\ checks[k].at \in {"sent", "lock", "commit", "done"}
    /\ checks' = [checks EXCEPT ![k] = NoCheck]
    /\ UNCHANGED <<create, pageVars, coreVars, clicks>>

CheckFails(k) ==
    /\ checks[k].at \in {"sent", "lock", "commit", "done"}
    /\ checks' = [checks EXCEPT ![k] = NoCheck]
    /\ IF checks[k].by = "page" THEN checking' = FALSE /\ selected' = 0
       ELSE UNCHANGED <<checking, selected>>
    /\ UNCHANGED <<create, cards, coreVars, clicks>>

(* ListSwaps gives of a swap its kind, and the bridge fills in the chains   *)
(* that are usual for that kind.                                            *)
UsualRoute(kind) ==
    CASE kind = "reverse" -> <<"ln", "btc">>
      [] kind = "chain" -> <<"btc", "liquid">>
      [] OTHER -> <<"btc", "ln">>

CardOf(s) == [kind |-> s.kind, route |-> UsualRoute(s.kind)]

Listed == cards' = [i \in DOMAIN swaps |-> CardOf(swaps[i])]

CheckEnds(k) ==
    /\ checks[k].at = "listing"
    /\ checks' = [checks EXCEPT ![k] = NoCheck]
    /\ selected' = 0
    /\ Listed
    /\ UNCHANGED <<create, checking, coreVars, clicks>>

(* The feed, or the refetch after a creation.                               *)
ListArrives ==
    /\ Listed
    /\ UNCHANGED <<create, checks, checking, selected, coreVars, clicks>>

-----------------------------------------------------------------------------
Next ==
    \/ ClickCreate \/ Validated \/ Quoted \/ Inserted \/ Intended \/ Locked
    \/ CreateReturns \/ CreateFails
    \/ \E i \in DOMAIN cards : ClickAdvance(i)
    \/ \E i \in DOMAIN swaps : OtherAdvances(i)
    \/ \E k \in Slots : CheckReads(k) \/ CheckMoves(k) \/ CheckReturns(k)
                        \/ CheckFails(k) \/ CheckEnds(k)
    \/ ListArrives

Spec == Init /\ [][Next]_deskVars

-----------------------------------------------------------------------------
(* The page, the shell and the bridge agree: a form that the page takes for *)
(* complete is refused by nobody for its fields, and the swap that is made  *)
(* of it is of the kind the page named, with the parameter that this kind   *)
(* needs and no other (SwapCenter.tsx, registry.ts, server.js).             *)
ContractKept ==
    /\ create.at # "invalid"
    /\ \A i \in DOMAIN swaps : /\ swaps[i].kind = RouteKind(swaps[i].route)
                               /\ swaps[i].with = Needs(swaps[i].route)

(* Nothing is committed by a creation, nor by a click that was needed to    *)
(* lock: when a swap is committed it was advanced once, or twice if its own *)
(* creation never came to lock it, whoever else advanced it meanwhile and   *)
(* whatever answers were lost (server.js, POST /swaps/:id/check).           *)
StepsBy(i) == clicks[i] + IF i \in locked THEN 1 ELSE 0
OneStepPerClick ==
    [][\A i \in DOMAIN swaps :
          swaps'[i].state # swaps[i].state =>
              /\ swaps'[i].state = "locked" => StepsBy(i)' >= 1
              /\ swaps'[i].state = "commit_started" => StepsBy(i) >= 2]_deskVars

(* A swap that is shown as advancing is being advanced: the one flag and    *)
(* the one identifier that all calls of the page share never tell of a call *)
(* that is over, however calls for several swaps overlap (SwapCenter.tsx,   *)
(* handleCheckSwap).                                                        *)
SpinnerIsHonest ==
    \A i \in Ids : Spins(i) =>
        \E k \in Slots : checks[k].swap = i /\ checks[k].by = "page" /\ checks[k].at # "listing"

-----------------------------------------------------------------------------
(* A card shows the swap it stands for.  TLC refutes it: the core lists     *)
(* swaps without their chains and addresses, and a swap from Liquid to      *)
(* Bitcoin is shown as one from Bitcoin to Liquid.                          *)
CardShowsTheSwap == \A i \in DOMAIN cards : cards[i].route = swaps[i].route

=============================================================================
