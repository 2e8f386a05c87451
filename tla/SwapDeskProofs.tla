--------------------------- MODULE SwapDeskProofs ---------------------------
(***************************************************************************)
(* Theorems about SwapDesk, for any set of routes, any number of swaps and *)
(* any number of calls in flight: what page, shell and bridge agree on,    *)
(* and that every move of a swap is paid for by a click of its own.        *)
(***************************************************************************)
EXTENDS SwapDesk, TLAPS

-----------------------------------------------------------------------------
(* The inductive invariant.                                                *)

Creates == [at : {"idle", "sent", "invalid", "complete", "quoted", "inserted",
                  "intended", "locked"},
            route : Chains \X Chains, fields : SUBSET Fields,
            kind : Kinds, with : SUBSET Fields, id : Ids \cup {0}]

Checks == [at : {"idle", "sent", "lock", "commit", "done", "listing"},
           swap : Ids \cup {0}, by : {"page", "other"}, version : 0 .. 2]

Rows == [kind : Kinds, route : Routes, with : SUBSET Fields, intent : BOOLEAN,
         state : SwapStates, version : 0 .. 2]

Cards == [kind : Kinds, route : Chains \X Chains]

\* The creation, with n swaps in the table: from the click on it carries what
\* the route needs, and is then of the kind of the route.
CreateOK(c, n) ==
    /\ c.at # "invalid"
    /\ c.at \in {"sent", "complete", "quoted"} => c.route \in Routes
    /\ c.at \in {"sent", "complete"} => c.fields = {"amount"} \cup Needs(c.route)
    /\ c.at = "quoted" => c.kind = RouteKind(c.route) /\ c.with = Needs(c.route)
    /\ c.at \in {"inserted", "intended"} => c.id \in 1 .. n

OfItsRoute(s) == s.kind = RouteKind(s.route) /\ s.with = Needs(s.route)

CreateInv == /\ CreateOK(create, Len(swaps))
             /\ \A i \in 1 .. Len(swaps) : OfItsRoute(swaps[i])

\* The table: versions count the moves, and only a swap that is locked can have
\* been locked by its creation.
TableInv ==
    /\ Len(swaps) <= MaxSwaps
    /\ \A i \in 1 .. Len(swaps) :
           /\ swaps[i].state = "open" => swaps[i].version = 0
           /\ swaps[i].state = "locked" => swaps[i].version = 1
           /\ i \in locked => swaps[i].state = "locked"
    /\ \A k \in Slots : checks[k].at # "idle" => checks[k].swap \in 1 .. Len(swaps)

\* A call that has not moved its swap yet, and may.
Pending(k, i) == checks[k].swap = i /\ checks[k].at \in {"sent", "lock", "commit"}

LockedByClick(i) == swaps[i].state = "locked" /\ i \notin locked

\* Every call that may still move a swap, and the click that locked it, were
\* clicks of their own.
ClicksInv ==
    \A i \in 1 .. Len(swaps) :
        swaps[i].state # "commit_started" =>
            /\ LockedByClick(i) => clicks[i] >= 1
            /\ \A k \in Slots : Pending(k, i) =>
                   /\ clicks[i] >= 1
                   /\ LockedByClick(i) => clicks[i] = 2
                   /\ \A l \in Slots : l # k /\ Pending(l, i) => clicks[i] = 2

IInv == TypeOK /\ CreateInv /\ TableInv /\ ClicksInv /\ SpinnerIsHonest

USE DeskAssumption

-----------------------------------------------------------------------------
(* Routes.                                                                 *)

\* Page, shell and bridge agree on every route, and the bridge on its kind.
LEMMA RouteIsUnderstood ==
    ASSUME NEW r \in Routes
    PROVE  LET filled == {"amount"} \cup Needs(r)
           IN  /\ ShellAccepts(r, filled) /\ BridgeAccepts(r, filled)
               /\ BridgeKind(r) = RouteKind(r)
               /\ QuoteWith(BridgeKind(r), filled) = Needs(r)
<1> DEFINE filled == {"amount"} \cup Needs(r)
<1>1. r \in Chains \X Chains /\ r[1] # r[2] /\ r = <<r[1], r[2]>>
  OBVIOUS
<1>2. \/ r[1] = "ln" /\ r[2] \in OnChain
      \/ r[1] \in OnChain /\ r[2] = "ln"
      \/ r[1] = "btc" /\ r[2] = "liquid"
      \/ r[1] = "liquid" /\ r[2] = "btc"
  BY <1>1 DEF Chains, OnChain
<1>3. BridgeKind(r) = RouteKind(r)
  BY <1>1, <1>2 DEF BridgeKind, RouteKind, OnChain
<1>4. CASE RouteKind(r) = "submarine"
  <2>1. r[2] = "ln"
    BY <1>2, <1>4 DEF RouteKind, OnChain
  <2>2. Needs(r) = {"invoice"}
    BY <1>4, <2>1 DEF Needs
  <2> QED BY <1>3, <1>4, <2>1, <2>2 DEF ShellAccepts, BridgeAccepts, QuoteWith
<1>5. CASE RouteKind(r) \in {"reverse", "chain"}
  <2>1. r[2] # "ln"
    BY <1>1, <1>2, <1>5 DEF RouteKind, OnChain
  <2>2. Needs(r) = {"destination"}
    BY <1>5 DEF Needs
  <2> QED BY <1>3, <1>5, <2>1, <2>2 DEF ShellAccepts, BridgeAccepts, QuoteWith
<1> QED BY <1>4, <1>5 DEF RouteKind

-----------------------------------------------------------------------------
(* Steps of the page and of the creation that leave the table alone.       *)

LEMMA WellTyped ==
    ASSUME IInv
    PROVE  /\ create \in Creates
           /\ checks \in [Slots -> Checks]
           /\ checking \in BOOLEAN /\ selected \in Ids \cup {0}
           /\ cards \in Seq(Cards) /\ Len(cards) <= Len(swaps)
           /\ swaps \in Seq(Rows) /\ Len(swaps) \in Nat /\ 1 .. Len(swaps) \subseteq Ids
           /\ clicks \in [Ids -> 0 .. 2]
           /\ locked \subseteq 1 .. Len(swaps)
  BY DEF IInv, TypeOK, TableInv, Creates, Checks, Rows, Cards, Ids

LEMMA TypesStay ==
    ASSUME create' \in Creates, checks' \in [Slots -> Checks],
           checking' \in BOOLEAN, selected' \in Ids \cup {0},
           cards' \in Seq(Cards), Len(cards') <= Len(swaps'),
           swaps' \in Seq(Rows), clicks' \in [Ids -> 0 .. 2], locked' \subseteq 1 .. Len(swaps')
    PROVE  TypeOK'
  BY DEF TypeOK, Creates, Checks, Rows, Cards

LEMMA CreationKeepsInv ==
    ASSUME IInv, create' \in Creates, CreateOK(create', Len(swaps)),
           UNCHANGED <<checks, pageVars, coreVars, clicks>>
    PROVE  IInv'
<1>1. UNCHANGED <<checks, checking, selected, cards, swaps, locked, clicks>>
  BY DEF pageVars, coreVars
<1>2. TypeOK'
  BY <1>1 DEF IInv, TypeOK, Creates
<1>3. CreateInv'
  BY <1>1 DEF IInv, CreateInv
<1>4. TableInv' /\ ClicksInv' /\ SpinnerIsHonest'
  BY <1>1 DEF IInv, TableInv, ClicksInv, Pending, LockedByClick, SpinnerIsHonest, Spins
<1> QED BY <1>2, <1>3, <1>4 DEF IInv

LEMMA ClickCreateKeepsInv ==
    ASSUME IInv, ClickCreate
    PROVE  IInv'
<1>1. PICK r \in Routes, filled \in SUBSET Fields :
          /\ FormComplete(r, filled)
          /\ create' = [NoCreate EXCEPT !.at = "sent", !.route = r,
                                        !.fields = filled \cap ({"amount"} \cup Needs(r))]
  BY DEF ClickCreate
<1> DEFINE sent == filled \cap ({"amount"} \cup Needs(r))
<1>2. sent \in SUBSET Fields /\ sent = {"amount"} \cup Needs(r) /\ r \in Chains \X Chains
  BY <1>1 DEF FormComplete
<1> HIDE DEF sent
<1>3. NoCreate \in Creates
  BY DEF NoCreate, Creates, Chains, Kinds
<1>4. create' \in Creates /\ create'.at = "sent" /\ create'.route = r /\ create'.fields = sent
  BY <1>1, <1>2, <1>3 DEF Creates, sent
<1>5. CreateOK(create', Len(swaps))
  BY <1>2, <1>4 DEF CreateOK
<1> QED BY <1>4, <1>5, CreationKeepsInv DEF ClickCreate

LEMMA ValidatedKeepsInv ==
    ASSUME IInv, Validated
    PROVE  IInv'
<1>1. /\ create \in Creates /\ create.at = "sent" /\ create.route \in Routes
      /\ create.fields = {"amount"} \cup Needs(create.route)
  BY WellTyped DEF Validated, IInv, CreateInv, CreateOK
<1>2. create' = [create EXCEPT !.at = "complete"]
  BY <1>1, RouteIsUnderstood DEF Validated
<1>3. /\ create' \in Creates /\ create'.at = "complete" /\ create'.route = create.route
      /\ create'.fields = create.fields
  BY <1>1, <1>2 DEF Creates
<1>4. CreateOK(create', Len(swaps))
  BY <1>1, <1>3 DEF CreateOK
<1> QED BY <1>3, <1>4, CreationKeepsInv DEF Validated, CreateGoes

LEMMA QuotedKeepsInv ==
    ASSUME IInv, Quoted
    PROVE  IInv'
<1> DEFINE kind == BridgeKind(create.route)
           with == QuoteWith(kind, create.fields)
<1>1. /\ create \in Creates /\ create.at = "complete" /\ create.route \in Routes
      /\ create.fields = {"amount"} \cup Needs(create.route)
      /\ create' = [create EXCEPT !.at = "quoted", !.kind = kind, !.with = with]
  BY WellTyped DEF Quoted, IInv, CreateInv, CreateOK
<1>2. /\ kind = RouteKind(create.route) /\ with = Needs(create.route)
      /\ kind \in Kinds /\ with \in SUBSET Fields
  BY <1>1, RouteIsUnderstood DEF RouteKind, Kinds, Needs, Fields
<1> HIDE DEF kind, with
<1>3. /\ create' \in Creates /\ create'.at = "quoted" /\ create'.route = create.route
      /\ create'.kind = kind /\ create'.with = with
  BY <1>1, <1>2 DEF Creates
<1>4. CreateOK(create', Len(swaps))
  BY <1>1, <1>2, <1>3 DEF CreateOK
<1> QED BY <1>3, <1>4, CreationKeepsInv DEF Quoted, CreateGoes

LEMMA CreateEndsKeepsInv ==
    ASSUME IInv, CreateReturns \/ CreateFails
    PROVE  IInv'
<1>1. create' = NoCreate /\ UNCHANGED <<checks, pageVars, coreVars, clicks>>
  BY DEF CreateReturns, CreateFails, CreateGoes
<1>2. NoCreate \in Creates /\ NoCreate.at = "idle"
  BY DEF NoCreate, Creates, Chains, Kinds
<1>3. CreateOK(NoCreate, Len(swaps))
  BY <1>2 DEF CreateOK
<1> QED BY <1>1, <1>2, <1>3, CreationKeepsInv

-----------------------------------------------------------------------------
(* Steps of the creation that write the table.                             *)

\* A row that is changed is the only one that is.
LEMMA OneRowChanges ==
    ASSUME swaps \in Seq(Rows), NEW i \in 1 .. Len(swaps), NEW s \in Rows,
           swaps' = [swaps EXCEPT ![i] = s]
    PROVE  /\ swaps' \in Seq(Rows) /\ Len(swaps') = Len(swaps) /\ swaps'[i] = s
           /\ \A j \in 1 .. Len(swaps) : j # i => swaps'[j] = swaps[j]
  OBVIOUS

LEMMA MovedRow ==
    ASSUME IInv, NEW i \in 1 .. Len(swaps), NEW version, NEW from, NEW to \in SwapStates,
           Moves(i, version, from, to), version < 2
    PROVE  /\ swaps' \in Seq(Rows) /\ Len(swaps') = Len(swaps)
           /\ swaps'[i].state = to /\ swaps'[i].version = version + 1
           /\ swaps[i].state = from /\ swaps[i].version = version
           /\ OfItsRoute(swaps[i]) => OfItsRoute(swaps'[i])
           /\ \A j \in 1 .. Len(swaps) : j # i => swaps'[j] = swaps[j]
<1> DEFINE next == version + 1
           s == [swaps[i] EXCEPT !.state = to, !.version = next]
<1>1. swaps \in Seq(Rows) /\ swaps[i] \in Rows
  BY WellTyped
<1>2. swaps' = [swaps EXCEPT ![i] = s] /\ swaps[i].state = from /\ swaps[i].version = version
  BY DEF Moves
<1>3. next \in 0 .. 2
  <2>1. swaps[i].version \in 0 .. 2
    BY <1>1 DEF Rows
  <2> QED BY <1>2, <2>1
<1> HIDE DEF next
<1>4. /\ s \in Rows /\ s.state = to /\ s.version = next /\ s.kind = swaps[i].kind
      /\ s.route = swaps[i].route /\ s.with = swaps[i].with
  BY <1>1, <1>3 DEF Rows
<1> HIDE DEF s
<1>5. /\ swaps' \in Seq(Rows) /\ Len(swaps') = Len(swaps) /\ swaps'[i] = s
      /\ \A j \in 1 .. Len(swaps) : j # i => swaps'[j] = swaps[j]
  BY <1>1, <1>2, <1>4, OneRowChanges
<1> QED BY <1>2, <1>4, <1>5 DEF OfItsRoute, next

LEMMA InsertedKeepsInv ==
    ASSUME IInv, Inserted
    PROVE  IInv'
<1> DEFINE s == [kind |-> create.kind, route |-> create.route, with |-> create.with,
                 intent |-> FALSE, state |-> "open", version |-> 0]
           n == Len(swaps)
<1>1. /\ create.at = "quoted" /\ n < MaxSwaps /\ swaps' = Append(swaps, s)
      /\ create' = [NoCreate EXCEPT !.at = "inserted", !.id = n + 1]
      /\ UNCHANGED <<checks, checking, selected, cards, clicks, locked>>
  BY DEF Inserted, CreateGoes, pageVars
<1>2. /\ create \in Creates /\ create.route \in Routes
      /\ create.kind = RouteKind(create.route) /\ create.with = Needs(create.route)
      /\ swaps \in Seq(Rows) /\ n \in Nat /\ MaxSwaps \in Nat
  BY <1>1, WellTyped DEF IInv, CreateInv, CreateOK
<1>3. s \in Rows /\ OfItsRoute(s) /\ s.state = "open" /\ s.version = 0
  BY <1>2 DEF Rows, Creates, SwapStates, OfItsRoute
<1> HIDE DEF s
<1>4. /\ swaps' \in Seq(Rows) /\ Len(swaps') = n + 1 /\ swaps'[n + 1] = s
      /\ \A i \in 1 .. n : swaps'[i] = swaps[i]
  BY <1>1, <1>2, <1>3
<1>5. n + 1 \in Ids /\ n + 1 \in Ids \cup {0}
  BY <1>1, <1>2 DEF Ids
<1> HIDE DEF n
<1>6. create' \in Creates /\ create'.at = "inserted" /\ create'.id = n + 1
  <2>1. NoCreate \in Creates
    BY DEF NoCreate, Creates, Chains, Kinds
  <2> QED BY <1>1, <1>5, <2>1 DEF Creates
<1>7. TypeOK'
  <2>1. Len(cards) <= n + 1 /\ locked \subseteq 1 .. n + 1
    <3>1. Len(cards) \in Nat /\ Len(cards) <= n /\ locked \subseteq 1 .. n
      BY WellTyped DEF n
    <3> QED BY <1>2, <3>1
  <2> QED BY <1>1, <1>4, <1>6, <2>1, WellTyped DEF TypeOK, Creates, Checks, Rows, Cards
<1>8. \A i \in 1 .. n + 1 : i \in 1 .. n \/ i = n + 1
  BY <1>2
<1>9. CreateInv'
  <2>1. \A i \in 1 .. Len(swaps') : OfItsRoute(swaps'[i])
    BY <1>3, <1>4, <1>8 DEF IInv, CreateInv, n
  <2>2. CreateOK(create', Len(swaps'))
    BY <1>2, <1>4, <1>6 DEF CreateOK
  <2> QED BY <2>1, <2>2 DEF CreateInv
<1>10. TableInv'
  <2>1. n + 1 \notin locked /\ n + 1 <= MaxSwaps
    BY <1>1, <1>2, WellTyped DEF n
  <2>2. ASSUME NEW i \in 1 .. Len(swaps')
        PROVE  /\ swaps'[i].state = "open" => swaps'[i].version = 0
               /\ swaps'[i].state = "locked" => swaps'[i].version = 1
               /\ i \in locked' => swaps'[i].state = "locked"
    <3>1. CASE i = n + 1
      BY <1>1, <1>3, <1>4, <2>1, <3>1
    <3>2. CASE i \in 1 .. n
      BY <1>1, <1>4, <3>2 DEF IInv, TableInv, n
    <3> QED BY <1>4, <1>8, <3>1, <3>2
  <2>3. \A k \in Slots : checks'[k].at # "idle" => checks'[k].swap \in 1 .. Len(swaps')
    BY <1>1, <1>2, <1>4 DEF IInv, TableInv, n
  <2> QED BY <1>4, <2>1, <2>2, <2>3 DEF TableInv
<1>11. ClicksInv'
  <2>1. ASSUME NEW k \in Slots PROVE ~Pending(k, n + 1)
    <3>1. checks[k].at # "idle" => checks[k].swap \in 1 .. n
      BY DEF IInv, TableInv, n
    <3> QED BY <1>2, <3>1 DEF Pending
  <2>2. ASSUME NEW i \in 1 .. Len(swaps'), swaps'[i].state # "commit_started"
        PROVE  /\ LockedByClick(i)' => clicks'[i] >= 1
               /\ \A k \in Slots : Pending(k, i)' =>
                      /\ clicks'[i] >= 1
                      /\ LockedByClick(i)' => clicks'[i] = 2
                      /\ \A l \in Slots : l # k /\ Pending(l, i)' => clicks'[i] = 2
    <3>1. CASE i = n + 1
      <4>1. ~LockedByClick(i)'
        BY <1>3, <1>4, <3>1 DEF LockedByClick
      <4>2. \A k \in Slots : ~Pending(k, i)'
        BY <1>1, <2>1, <3>1 DEF Pending
      <4> QED BY <4>1, <4>2
    <3>2. CASE i \in 1 .. n
      BY <1>1, <1>4, <2>2, <3>2 DEF IInv, ClicksInv, Pending, LockedByClick, n
    <3> QED BY <1>4, <1>8, <3>1, <3>2
  <2> QED BY <2>2 DEF ClicksInv
<1>12. SpinnerIsHonest'
  BY <1>1 DEF IInv, SpinnerIsHonest, Spins
<1> QED BY <1>7, <1>9, <1>10, <1>11, <1>12 DEF IInv

LEMMA IntendedKeepsInv ==
    ASSUME IInv, Intended
    PROVE  IInv'
<1> DEFINE i == create.id
           s == [swaps[i] EXCEPT !.intent = TRUE]
<1>1. /\ create.at = "inserted" /\ swaps' = [swaps EXCEPT ![i] = s]
      /\ create' = [create EXCEPT !.at = "intended"]
      /\ UNCHANGED <<checks, checking, selected, cards, clicks, locked>>
  BY DEF Intended, CreateGoes, pageVars
<1>2. create \in Creates /\ i \in 1 .. Len(swaps) /\ swaps \in Seq(Rows) /\ swaps[i] \in Rows
  BY <1>1, WellTyped DEF IInv, CreateInv, CreateOK
<1>3. create' \in Creates /\ create'.at = "intended" /\ create'.id = i
  BY <1>1, <1>2 DEF Creates
<1> HIDE DEF i
<1>4. /\ s \in Rows /\ s.state = swaps[i].state /\ s.version = swaps[i].version
      /\ s.kind = swaps[i].kind /\ s.route = swaps[i].route /\ s.with = swaps[i].with
  BY <1>2 DEF Rows
<1> HIDE DEF s
<1>5. /\ swaps' \in Seq(Rows) /\ Len(swaps') = Len(swaps) /\ swaps'[i] = s
      /\ \A j \in 1 .. Len(swaps) : j # i => swaps'[j] = swaps[j]
  BY <1>1, <1>2, <1>4, OneRowChanges
<1>6. \A j \in 1 .. Len(swaps) : /\ swaps'[j].state = swaps[j].state
                                 /\ swaps'[j].version = swaps[j].version
                                 /\ OfItsRoute(swaps[j]) => OfItsRoute(swaps'[j])
  BY <1>4, <1>5 DEF OfItsRoute
<1>7. TypeOK'
  BY <1>1, <1>3, <1>5, WellTyped, TypesStay
<1>8. CreateInv'
  BY <1>2, <1>3, <1>5, <1>6 DEF IInv, CreateInv, CreateOK
<1>9. TableInv'
  BY <1>1, <1>5, <1>6 DEF IInv, TableInv
<1>10. ClicksInv'
  BY <1>1, <1>5, <1>6 DEF IInv, ClicksInv, Pending, LockedByClick
<1>11. SpinnerIsHonest'
  BY <1>1 DEF IInv, SpinnerIsHonest, Spins
<1> QED BY <1>7, <1>8, <1>9, <1>10, <1>11 DEF IInv

LEMMA LockedKeepsInv ==
    ASSUME IInv, Locked
    PROVE  IInv'
<1>1. /\ create.at = "intended" /\ Moves(create.id, 0, "open", "locked")
      /\ locked' = locked \cup {create.id}
      /\ create' = [NoCreate EXCEPT !.at = "locked"]
      /\ UNCHANGED <<checks, checking, selected, cards, clicks>>
  BY DEF Locked, CreateGoes, pageVars
<1>2. PICK i \in 1 .. Len(swaps) : i = create.id
  BY <1>1 DEF IInv, CreateInv, CreateOK
<1>3. /\ swaps' \in Seq(Rows) /\ Len(swaps') = Len(swaps)
      /\ swaps'[i].state = "locked" /\ swaps'[i].version = 1 /\ swaps[i].state = "open"
      /\ OfItsRoute(swaps[i]) => OfItsRoute(swaps'[i])
      /\ \A j \in 1 .. Len(swaps) : j # i => swaps'[j] = swaps[j]
  <2>1. Moves(i, 0, "open", "locked") /\ swaps[i].version = 0
    BY <1>1, <1>2 DEF Moves
  <2>2. "locked" \in SwapStates
    BY DEF SwapStates
  <2> QED BY <2>1, <2>2, MovedRow
<1>4. create' \in Creates /\ create'.at = "locked"
  <2>1. NoCreate \in Creates
    BY DEF NoCreate, Creates, Chains, Kinds
  <2> QED BY <1>1, <2>1 DEF Creates
<1>5. TypeOK'
  <2>1. locked' \subseteq 1 .. Len(swaps')
    BY <1>1, <1>2, <1>3, WellTyped
  <2> QED BY <1>1, <1>3, <1>4, <2>1, WellTyped, TypesStay
<1>6. CreateInv'
  BY <1>3, <1>4 DEF IInv, CreateInv, CreateOK
<1>7. TableInv'
  BY <1>1, <1>2, <1>3 DEF IInv, TableInv
<1>8. ClicksInv'
  <2>1. ~LockedByClick(i)' /\ ~LockedByClick(i)
    BY <1>1, <1>2, <1>3 DEF LockedByClick
  <2>2. \A j \in 1 .. Len(swaps) : j # i => (LockedByClick(j)' <=> LockedByClick(j))
    BY <1>1, <1>2, <1>3 DEF LockedByClick
  <2>3. \A j \in 1 .. Len(swaps) : swaps'[j].state # "commit_started"
                                       => swaps[j].state # "commit_started"
    BY <1>3
  <2> QED BY <1>1, <1>3, <2>1, <2>2, <2>3 DEF IInv, ClicksInv, Pending
<1>9. SpinnerIsHonest'
  BY <1>1 DEF IInv, SpinnerIsHonest, Spins
<1> QED BY <1>5, <1>6, <1>7, <1>8, <1>9 DEF IInv

-----------------------------------------------------------------------------
(* Steps of the calls of "Advance".                                        *)

\* One call is replaced, and the table is not written: enough is that the new
\* record may move nothing that the old one could not.
LEMMA CallKeepsInv ==
    ASSUME IInv, NEW k \in Slots, NEW c \in Checks, checks' = [checks EXCEPT ![k] = c],
           c.at # "idle" => c.swap = checks[k].swap,
           c.at \in {"sent", "lock", "commit"} => checks[k].at \in {"sent", "lock", "commit"},
           checks[k].at # "idle",
           UNCHANGED <<create, swaps, locked, clicks>>,
           checking' \in BOOLEAN, selected' \in Ids \cup {0},
           cards' \in Seq(Cards), Len(cards') <= Len(swaps),
           SpinnerIsHonest'
    PROVE  IInv'
<1>1. /\ checks \in [Slots -> Checks] /\ checks' \in [Slots -> Checks] /\ checks'[k] = c
      /\ \A l \in Slots : l # k => checks'[l] = checks[l]
  BY WellTyped
<1>2. TypeOK'
  BY <1>1, WellTyped, TypesStay
<1>3. CreateInv'
  BY DEF IInv, CreateInv
<1>4. TableInv'
  BY <1>1 DEF IInv, TableInv
<1>5. ClicksInv'
  <2>1. \A l \in Slots, i \in 1 .. Len(swaps) : Pending(l, i)' => Pending(l, i)
    BY <1>1 DEF Pending
  <2>2. \A i \in 1 .. Len(swaps) : LockedByClick(i)' <=> LockedByClick(i)
    BY DEF LockedByClick
  <2> QED BY <2>1, <2>2 DEF IInv, ClicksInv
<1> QED BY <1>2, <1>3, <1>4, <1>5 DEF IInv

\* The spinner stays honest when a call that is not over stays one.
LEMMA SpinnerStays ==
    ASSUME SpinnerIsHonest, NEW k \in Slots, checks \in [Slots -> Checks],
           \A l \in Slots : l # k => checks'[l] = checks[l],
           UNCHANGED <<checking, selected>>,
           \/ checks[k].by = "other"
           \/ checks'[k].swap = checks[k].swap /\ checks'[k].by = "page" /\ checks'[k].at # "listing"
    PROVE  SpinnerIsHonest'
<1>1. SUFFICES ASSUME NEW i \in Ids, Spins(i)
               PROVE  \E l \in Slots : /\ checks'[l].swap = i /\ checks'[l].by = "page"
                                       /\ checks'[l].at # "listing"
  BY DEF SpinnerIsHonest, Spins
<1>2. PICK l \in Slots : checks[l].swap = i /\ checks[l].by = "page" /\ checks[l].at # "listing"
  BY <1>1 DEF SpinnerIsHonest
<1>3. CASE l # k
  BY <1>2, <1>3
<1>4. CASE l = k
  BY <1>2, <1>4
<1> QED BY <1>3, <1>4

LEMMA NoCheckIsACheck == NoCheck \in Checks /\ NoCheck.at = "idle" /\ NoCheck.swap = 0
  BY DEF NoCheck, Checks

\* A call goes on with the same swap, for the same client.
LEMMA GoneOn ==
    ASSUME checks \in [Slots -> Checks], NEW k \in Slots,
           NEW at \in {"done", "listing"}, Goes(k, at)
    PROVE  \E c \in Checks : /\ checks' = [checks EXCEPT ![k] = c] /\ c.at = at
                             /\ c.swap = checks[k].swap /\ c.by = checks[k].by
<1> DEFINE c == [checks[k] EXCEPT !.at = at, !.version = 0]
<1>1. checks' = [checks EXCEPT ![k] = c]
  BY DEF Goes
<1>2. 0 \in 0 .. 2 /\ checks[k] \in Checks
  OBVIOUS
<1>3. c \in Checks /\ c.at = at /\ c.swap = checks[k].swap /\ c.by = checks[k].by
  BY <1>2 DEF Checks
<1> HIDE DEF c
<1> QED BY <1>1, <1>3

LEMMA CheckReadsKeepsInv ==
    ASSUME IInv, NEW k \in Slots, CheckReads(k)
    PROVE  IInv'
<1> DEFINE s == swaps[checks[k].swap]
           next == CASE s.state = "open" -> "lock"
                     [] s.state = "locked" -> "commit"
                     [] OTHER -> "done"
           version == s.version
           c == [checks[k] EXCEPT !.version = version, !.at = next]
<1>1. /\ checks[k].at = "sent" /\ checks' = [checks EXCEPT ![k] = c]
      /\ UNCHANGED <<create, checking, selected, cards, swaps, locked, clicks>>
  BY DEF CheckReads, CheckGoes, pageVars, coreVars
<1>2. checks \in [Slots -> Checks] /\ checks[k] \in Checks
  BY WellTyped
<1>3. version \in 0 .. 2
  <2>1. checks[k].swap \in 1 .. Len(swaps)
    BY <1>1 DEF IInv, TableInv
  <2>2. s \in Rows
    BY <2>1, WellTyped
  <2> QED BY <2>2 DEF Rows
<1>4. next \in {"lock", "commit", "done"}
  OBVIOUS
<1> HIDE DEF next, version, s
<1>5. c \in Checks /\ c.at = next /\ c.swap = checks[k].swap /\ c.by = checks[k].by
  BY <1>2, <1>3, <1>4 DEF Checks
<1> HIDE DEF c
<1>6. checks'[k] = c /\ (\A l \in Slots : l # k => checks'[l] = checks[l])
  BY <1>1, <1>2
<1>7. SpinnerIsHonest'
  BY <1>1, <1>2, <1>4, <1>5, <1>6, SpinnerStays DEF IInv, Checks
<1> QED BY <1>1, <1>4, <1>5, <1>7, CallKeepsInv, WellTyped

LEMMA CheckReturnsKeepsInv ==
    ASSUME IInv, NEW k \in Slots, CheckReturns(k)
    PROVE  IInv'
<1>1. /\ checks[k].at = "done"
      /\ UNCHANGED <<create, selected, cards, swaps, locked, clicks>>
  BY DEF CheckReturns, coreVars
<1>2. checks \in [Slots -> Checks] /\ checks[k] \in Checks
  BY WellTyped
<1>3. CASE checks[k].by = "page"
  <2>1. checking' = FALSE /\ Goes(k, "listing")
    BY <1>3 DEF CheckReturns
  <2>2. PICK c \in Checks : /\ checks' = [checks EXCEPT ![k] = c]
                            /\ c.at = "listing" /\ c.swap = checks[k].swap
    BY <1>2, <2>1, GoneOn
  <2>3. SpinnerIsHonest'
    BY <2>1 DEF SpinnerIsHonest, Spins
  <2> QED BY <1>1, <2>1, <2>2, <2>3, CallKeepsInv, WellTyped
<1>4. CASE checks[k].by # "page"
  <2>1. checks' = [checks EXCEPT ![k] = NoCheck] /\ checking' = checking
    BY <1>4 DEF CheckReturns
  <2>2. checks[k].by = "other" /\ (\A l \in Slots : l # k => checks'[l] = checks[l])
    BY <1>2, <1>4, <2>1 DEF Checks
  <2>3. SpinnerIsHonest'
    BY <1>1, <1>2, <2>1, <2>2, SpinnerStays DEF IInv
  <2> QED BY <1>1, <2>1, <2>3, NoCheckIsACheck, CallKeepsInv, WellTyped
<1> QED BY <1>3, <1>4

LEMMA CheckFailsKeepsInv ==
    ASSUME IInv, NEW k \in Slots, CheckFails(k)
    PROVE  IInv'
<1>1. /\ checks[k].at \in {"sent", "lock", "commit", "done"}
      /\ checks' = [checks EXCEPT ![k] = NoCheck]
      /\ UNCHANGED <<create, cards, swaps, locked, clicks>>
  BY DEF CheckFails, coreVars
<1>2. checks \in [Slots -> Checks] /\ checks[k] \in Checks
  BY WellTyped
<1>3. CASE checks[k].by = "page"
  <2>1. checking' = FALSE /\ selected' = 0
    BY <1>3 DEF CheckFails
  <2>2. SpinnerIsHonest'
    BY <2>1 DEF SpinnerIsHonest, Spins
  <2> QED BY <1>1, <2>1, <2>2, NoCheckIsACheck, CallKeepsInv, WellTyped
<1>4. CASE checks[k].by # "page"
  <2>1. UNCHANGED <<checking, selected>>
    BY <1>4 DEF CheckFails
  <2>2. checks[k].by = "other" /\ (\A l \in Slots : l # k => checks'[l] = checks[l])
    BY <1>1, <1>2, <1>4 DEF Checks
  <2>3. SpinnerIsHonest'
    BY <1>2, <2>1, <2>2, SpinnerStays DEF IInv
  <2> QED BY <1>1, <2>1, <2>3, NoCheckIsACheck, CallKeepsInv, WellTyped
<1> QED BY <1>3, <1>4

LEMMA ListedIsTyped ==
    ASSUME swaps \in Seq(Rows), Listed
    PROVE  cards' \in Seq(Cards) /\ Len(cards') = Len(swaps)
<1>1. \A kind \in Kinds : UsualRoute(kind) \in Chains \X Chains
  BY DEF Kinds, UsualRoute, Chains
<1>2. \A i \in 1 .. Len(swaps) : CardOf(swaps[i]) \in Cards
  <2>1. \A s \in Rows : s.kind \in Kinds
    BY DEF Rows
  <2> QED BY <1>1, <2>1 DEF CardOf, Cards
<1>3. cards' = [i \in 1 .. Len(swaps) |-> CardOf(swaps[i])]
  BY DEF Listed
<1> QED BY <1>2, <1>3

LEMMA CheckEndsKeepsInv ==
    ASSUME IInv, NEW k \in Slots, CheckEnds(k)
    PROVE  IInv'
<1>1. /\ checks[k].at = "listing" /\ checks' = [checks EXCEPT ![k] = NoCheck]
      /\ selected' = 0 /\ Listed
      /\ UNCHANGED <<create, checking, swaps, locked, clicks>>
  BY DEF CheckEnds, coreVars
<1>2. cards' \in Seq(Cards) /\ Len(cards') <= Len(swaps)
  BY <1>1, ListedIsTyped, WellTyped
<1>3. SpinnerIsHonest'
  BY <1>1 DEF SpinnerIsHonest, Spins, Ids
<1> QED BY <1>1, <1>2, <1>3, NoCheckIsACheck, CallKeepsInv, WellTyped

LEMMA ListArrivesKeepsInv ==
    ASSUME IInv, ListArrives
    PROVE  IInv'
<1>1. Listed /\ UNCHANGED <<create, checks, checking, selected, swaps, locked, clicks>>
  BY DEF ListArrives, coreVars
<1>2. cards' \in Seq(Cards) /\ Len(cards') <= Len(swaps)
  BY <1>1, ListedIsTyped, WellTyped
<1>3. TypeOK'
  BY <1>1, <1>2, WellTyped, TypesStay
<1> QED BY <1>1, <1>3
        DEF IInv, CreateInv, TableInv, ClicksInv, Pending, LockedByClick, SpinnerIsHonest, Spins

-----------------------------------------------------------------------------
(* A call begins, and a call moves its swap.                               *)

\* A click is counted: the new call is the only one, or it is the second click.
LEMMA ClickKeepsInv ==
    ASSUME IInv, NEW i \in 1 .. Len(swaps), NEW who \in {"page", "other"}, Click(i, who),
           UNCHANGED <<create, cards, swaps, locked>>,
           \/ who = "other" /\ UNCHANGED <<checking, selected>>
           \/ who = "page" /\ checking' = TRUE /\ selected' = i
    PROVE  IInv'
<1> DEFINE c == [NoCheck EXCEPT !.at = "sent", !.swap = i, !.by = who]
           more == IF clicks[i] = 2 \/ Committed(i) THEN clicks[i] ELSE clicks[i] + 1
<1>1. PICK k \in Slots : checks[k] = NoCheck /\ checks' = [checks EXCEPT ![k] = c]
  BY DEF Click
<1>2. clicks' = [clicks EXCEPT ![i] = more]
  BY DEF Click
<1>3. i \in Ids /\ i \in Ids \cup {0} /\ i # 0
  BY WellTyped DEF Ids
<1>4. c \in Checks /\ c.at = "sent" /\ c.swap = i /\ c.by = who
  BY <1>3, NoCheckIsACheck DEF Checks
<1> HIDE DEF c
<1>5. /\ checks \in [Slots -> Checks] /\ checks' \in [Slots -> Checks] /\ checks'[k] = c
      /\ \A l \in Slots : l # k => checks'[l] = checks[l]
  BY <1>1, <1>4, WellTyped
<1>6. clicks[i] \in 0 .. 2 /\ clicks \in [Ids -> 0 .. 2]
  BY <1>3, WellTyped
<1>7. /\ more \in 0 .. 2
      /\ ~Committed(i) => more >= 1 /\ (clicks[i] >= 1 => more = 2)
  BY <1>6
<1> HIDE DEF more
<1>8. /\ clicks' \in [Ids -> 0 .. 2] /\ clicks'[i] = more
      /\ \A j \in Ids : j # i => clicks'[j] = clicks[j]
  BY <1>2, <1>3, <1>6, <1>7
<1>9. TypeOK'
  <2>1. checking' \in BOOLEAN /\ selected' \in Ids \cup {0}
    BY <1>3, WellTyped
  <2> QED BY <1>5, <1>8, <2>1, WellTyped, TypesStay
<1>10. CreateInv'
  BY DEF IInv, CreateInv
<1>11. TableInv'
  BY <1>4, <1>5 DEF IInv, TableInv
<1>12. ClicksInv'
  <2>1. \A l \in Slots, j \in 1 .. Len(swaps) :
            Pending(l, j)' <=> IF l = k THEN j = i ELSE Pending(l, j)
    BY <1>4, <1>5 DEF Pending
  <2>2. \A j \in 1 .. Len(swaps) : LockedByClick(j)' <=> LockedByClick(j)
    BY DEF LockedByClick
  <2>3. ASSUME NEW j \in 1 .. Len(swaps'), swaps'[j].state # "commit_started"
        PROVE  /\ LockedByClick(j)' => clicks'[j] >= 1
               /\ \A l \in Slots : Pending(l, j)' =>
                      /\ clicks'[j] >= 1
                      /\ LockedByClick(j)' => clicks'[j] = 2
                      /\ \A m \in Slots : m # l /\ Pending(m, j)' => clicks'[j] = 2
    <3>1. j \in 1 .. Len(swaps) /\ j \in Ids /\ swaps[j].state # "commit_started"
      BY <2>3, WellTyped
    <3>2. CASE j = i
      <4>1. more >= 1 /\ (clicks[i] >= 1 => more = 2)
        BY <1>7, <2>3, <3>1, <3>2 DEF Committed
      <4>2. LockedByClick(i) => clicks[i] >= 1
        BY <3>1, <3>2 DEF IInv, ClicksInv
      <4>3. \A l \in Slots : Pending(l, i) => clicks[i] >= 1
        BY <3>1, <3>2 DEF IInv, ClicksInv
      <4> QED BY <1>8, <2>1, <2>2, <3>1, <3>2, <4>1, <4>2, <4>3
    <3>3. CASE j # i
      BY <1>8, <2>1, <2>2, <3>1, <3>3 DEF IInv, ClicksInv
    <3> QED BY <3>2, <3>3
  <2> QED BY <2>3 DEF ClicksInv
<1>13. SpinnerIsHonest'
  <2>1. CASE who = "page"
    BY <1>1, <1>4, <1>5, <2>1 DEF SpinnerIsHonest, Spins
  <2>2. CASE who = "other"
    <3>1. SUFFICES ASSUME NEW j \in Ids, Spins(j)
                   PROVE  \E l \in Slots : /\ checks'[l].swap = j /\ checks'[l].by = "page"
                                           /\ checks'[l].at # "listing"
      <4>1. UNCHANGED <<checking, selected>>
        BY <2>2
      <4> QED BY <4>1 DEF SpinnerIsHonest, Spins
    <3>2. PICK l \in Slots : checks[l].swap = j /\ checks[l].by = "page" /\ checks[l].at # "listing"
      BY <3>1 DEF IInv, SpinnerIsHonest
    <3>3. l # k
      BY <1>1, <3>2, NoCheckIsACheck DEF Ids
    <3> QED BY <1>5, <3>2, <3>3
  <2> QED BY <2>1, <2>2
<1> QED BY <1>9, <1>10, <1>11, <1>12, <1>13 DEF IInv

LEMMA ClicksKeepInv ==
    ASSUME IInv,
           \/ \E i \in DOMAIN cards : ClickAdvance(i)
           \/ \E i \in DOMAIN swaps : OtherAdvances(i)
    PROVE  IInv'
<1>1. ASSUME NEW i \in DOMAIN cards, ClickAdvance(i)
      PROVE  IInv'
  <2>1. i \in 1 .. Len(swaps)
    <3>1. Len(cards) \in Nat /\ Len(cards) <= Len(swaps) /\ DOMAIN cards = 1 .. Len(cards)
      BY WellTyped
    <3>2. Len(swaps) \in Nat
      BY WellTyped
    <3> QED BY <3>1, <3>2
  <2> QED BY <1>1, <2>1, ClickKeepsInv DEF ClickAdvance, coreVars
<1>2. ASSUME NEW i \in DOMAIN swaps, OtherAdvances(i)
      PROVE  IInv'
  <2>1. i \in 1 .. Len(swaps)
    BY WellTyped
  <2> QED BY <1>2, <2>1, ClickKeepsInv DEF OtherAdvances, pageVars, coreVars
<1> QED BY <1>1, <1>2

\* What a move by a call does: one row moves, and the call is done.
LEMMA MoveByCall ==
    ASSUME IInv, NEW k \in Slots, CheckMoves(k)
    PROVE  \E i \in 1 .. Len(swaps), c \in Checks, to \in SwapStates :
             /\ i = checks[k].swap /\ Pending(k, i)
             /\ \/ swaps[i].state = "open" /\ to = "locked" /\ swaps'[i].version = 1
                \/ swaps[i].state = "locked" /\ to = "commit_started"
             /\ checks' = [checks EXCEPT ![k] = c]
             /\ c.at = "done" /\ c.swap = i /\ c.by = checks[k].by
             /\ swaps' \in Seq(Rows) /\ Len(swaps') = Len(swaps) /\ swaps'[i].state = to
             /\ OfItsRoute(swaps[i]) => OfItsRoute(swaps'[i])
             /\ \A j \in 1 .. Len(swaps) : j # i => swaps'[j] = swaps[j]
<1>1. checks[k].at \in {"lock", "commit"} /\ Goes(k, "done")
  BY DEF CheckMoves
<1>2. PICK i \in 1 .. Len(swaps) : i = checks[k].swap
  BY <1>1 DEF IInv, TableInv
<1>3. PICK c \in Checks : /\ checks' = [checks EXCEPT ![k] = c] /\ c.at = "done"
                          /\ c.swap = i /\ c.by = checks[k].by
  BY <1>1, <1>2, GoneOn, WellTyped
<1>4. Pending(k, i)
  BY <1>1, <1>2 DEF Pending
<1>5. "locked" \in SwapStates /\ "commit_started" \in SwapStates
  BY DEF SwapStates
<1>6. CASE checks[k].at = "lock"
  <2>1. Moves(i, checks[k].version, "open", "locked")
    BY <1>2, <1>6 DEF CheckMoves
  <2>2. swaps[i].state = "open" /\ checks[k].version = 0
    BY <2>1 DEF Moves, IInv, TableInv
  <2>3. Moves(i, 0, "open", "locked")
    BY <2>1, <2>2
  <2>4. /\ swaps' \in Seq(Rows) /\ Len(swaps') = Len(swaps) /\ swaps'[i].state = "locked"
        /\ swaps'[i].version = 1
        /\ OfItsRoute(swaps[i]) => OfItsRoute(swaps'[i])
        /\ \A j \in 1 .. Len(swaps) : j # i => swaps'[j] = swaps[j]
    BY <1>5, <2>3, MovedRow
  <2> QED BY <1>2, <1>3, <1>4, <1>5, <2>2, <2>4
<1>7. CASE checks[k].at = "commit"
  <2>1. Moves(i, checks[k].version, "locked", "commit_started")
    BY <1>2, <1>7 DEF CheckMoves
  <2>2. swaps[i].state = "locked" /\ checks[k].version = 1
    BY <2>1 DEF Moves, IInv, TableInv
  <2>3. Moves(i, 1, "locked", "commit_started")
    BY <2>1, <2>2
  <2>4. /\ swaps' \in Seq(Rows) /\ Len(swaps') = Len(swaps) /\ swaps'[i].state = "commit_started"
        /\ swaps'[i].version = 2
        /\ OfItsRoute(swaps[i]) => OfItsRoute(swaps'[i])
        /\ \A j \in 1 .. Len(swaps) : j # i => swaps'[j] = swaps[j]
    BY <1>5, <2>3, MovedRow
  <2> QED BY <1>2, <1>3, <1>4, <1>5, <2>2, <2>4
<1> QED BY <1>1, <1>6, <1>7

LEMMA CheckMovesKeepsInv ==
    ASSUME IInv, NEW k \in Slots, CheckMoves(k)
    PROVE  IInv'
<1>1. UNCHANGED <<create, checking, selected, cards>>
  BY DEF CheckMoves, CheckGoes, pageVars
<1>2. PICK i \in 1 .. Len(swaps), c \in Checks, to \in SwapStates :
             /\ i = checks[k].swap /\ Pending(k, i)
             /\ \/ swaps[i].state = "open" /\ to = "locked" /\ swaps'[i].version = 1
                \/ swaps[i].state = "locked" /\ to = "commit_started"
             /\ checks' = [checks EXCEPT ![k] = c]
             /\ c.at = "done" /\ c.swap = i /\ c.by = checks[k].by
             /\ swaps' \in Seq(Rows) /\ Len(swaps') = Len(swaps) /\ swaps'[i].state = to
             /\ OfItsRoute(swaps[i]) => OfItsRoute(swaps'[i])
             /\ \A j \in 1 .. Len(swaps) : j # i => swaps'[j] = swaps[j]
  BY MoveByCall
<1>3. /\ checks \in [Slots -> Checks] /\ checks' \in [Slots -> Checks] /\ checks'[k] = c
      /\ \A l \in Slots : l # k => checks'[l] = checks[l]
  BY <1>2, WellTyped
<1>4. i \in Ids /\ clicks \in [Ids -> 0 .. 2] /\ clicks[i] \in 0 .. 2
  BY WellTyped
<1>5. /\ clicks' = [clicks EXCEPT ![i] = IF to = "commit_started" THEN 0 ELSE clicks[i]]
      /\ locked' = {j \in locked : swaps'[j].state # "commit_started"}
  <2>1. checks'[k].swap = i
    BY <1>2, <1>3
  <2> QED BY <1>2, <2>1 DEF CheckMoves, Forgotten, Committed
<1>6. /\ clicks' \in [Ids -> 0 .. 2]
      /\ clicks'[i] = IF to = "commit_started" THEN 0 ELSE clicks[i]
      /\ \A j \in Ids : j # i => clicks'[j] = clicks[j]
  <2>1. 0 \in 0 .. 2
    OBVIOUS
  <2> QED BY <1>4, <1>5, <2>1
<1>7. locked' \subseteq locked /\ (\A j \in locked : j # i => j \in locked')
  <2>1. \A j \in locked : j # i => swaps'[j].state = "locked"
    BY <1>2, WellTyped DEF IInv, TableInv
  <2> QED BY <1>5, <2>1
<1>8. TypeOK'
  BY <1>1, <1>2, <1>3, <1>6, <1>7, WellTyped, TypesStay
<1>9. CreateInv'
  BY <1>1, <1>2 DEF IInv, CreateInv
<1>10. TableInv'
  <2>1. ASSUME NEW j \in 1 .. Len(swaps')
        PROVE  /\ swaps'[j].state = "open" => swaps'[j].version = 0
               /\ swaps'[j].state = "locked" => swaps'[j].version = 1
               /\ j \in locked' => swaps'[j].state = "locked"
    <3>1. CASE j = i
      <4>1. swaps[i].state = "open" => i \notin locked
        BY DEF IInv, TableInv
      <4> QED BY <1>2, <1>5, <1>7, <3>1, <4>1
    <3>2. CASE j # i
      BY <1>2, <1>7, <2>1, <3>2 DEF IInv, TableInv
    <3> QED BY <3>1, <3>2
  <2>2. \A l \in Slots : checks'[l].at # "idle" => checks'[l].swap \in 1 .. Len(swaps')
    BY <1>2, <1>3 DEF IInv, TableInv
  <2>3. Len(swaps') <= MaxSwaps
    BY <1>2 DEF IInv, TableInv
  <2> QED BY <2>1, <2>2, <2>3 DEF TableInv
<1>11. ClicksInv'
  <2>1. \A l \in Slots, j \in 1 .. Len(swaps) : Pending(l, j)' => l # k /\ Pending(l, j)
    BY <1>2, <1>3 DEF Pending
  <2>2. ASSUME NEW j \in 1 .. Len(swaps'), swaps'[j].state # "commit_started"
        PROVE  /\ LockedByClick(j)' => clicks'[j] >= 1
               /\ \A l \in Slots : Pending(l, j)' =>
                      /\ clicks'[j] >= 1
                      /\ LockedByClick(j)' => clicks'[j] = 2
                      /\ \A m \in Slots : m # l /\ Pending(m, j)' => clicks'[j] = 2
    <3>1. CASE j = i
      <4>1. swaps[i].state = "open" /\ clicks'[i] = clicks[i]
        BY <1>2, <1>6, <2>2, <3>1
      <4>2. /\ clicks[i] >= 1
            /\ \A l \in Slots : l # k /\ Pending(l, i) => clicks[i] = 2
        BY <1>2, <4>1 DEF IInv, ClicksInv
      <4> QED BY <1>4, <2>1, <3>1, <4>1, <4>2
    <3>2. CASE j # i
      <4>1. swaps'[j] = swaps[j] /\ clicks'[j] = clicks[j] /\ j \in 1 .. Len(swaps)
        BY <1>2, <1>6, <3>2, WellTyped
      <4>2. LockedByClick(j)' => LockedByClick(j)
        BY <1>7, <3>2, <4>1 DEF LockedByClick
      <4> QED BY <2>1, <2>2, <4>1, <4>2 DEF IInv, ClicksInv
    <3> QED BY <3>1, <3>2
  <2> QED BY <2>2 DEF ClicksInv
<1>12. SpinnerIsHonest'
  BY <1>1, <1>2, <1>3, SpinnerStays DEF IInv, Checks
<1> QED BY <1>8, <1>9, <1>10, <1>11, <1>12 DEF IInv

-----------------------------------------------------------------------------
(* The theorems.                                                           *)

LEMMA InitEstablishesInv == Init => IInv
<1> SUFFICES ASSUME Init PROVE IInv
  OBVIOUS
<1>1. Len(swaps) = 0 /\ Len(cards) = 0 /\ swaps \in Seq(Rows) /\ cards \in Seq(Cards)
  BY DEF Init
<1>2. NoCreate \in Creates /\ NoCreate.at = "idle"
  BY DEF NoCreate, Creates, Chains, Kinds
<1>3. checks \in [Slots -> Checks] /\ (\A k \in Slots : checks[k] = NoCheck)
  BY NoCheckIsACheck DEF Init
<1>4. clicks \in [Ids -> 0 .. 2]
  <2>1. 0 \in 0 .. 2
    OBVIOUS
  <2> QED BY <2>1 DEF Init
<1>5. TypeOK
  <2>1. create \in Creates /\ checking \in BOOLEAN /\ selected \in Ids \cup {0}
    BY <1>2 DEF Init
  <2>2. Len(cards) <= Len(swaps) /\ locked \subseteq DOMAIN swaps
    BY <1>1 DEF Init
  <2> QED BY <1>1, <1>3, <1>4, <2>1, <2>2 DEF TypeOK, Creates, Checks, Rows, Cards
<1>6. CreateInv
  BY <1>1, <1>2 DEF Init, CreateInv, CreateOK
<1>7. TableInv
  <2>1. 0 <= MaxSwaps
    OBVIOUS
  <2> QED BY <1>1, <1>3, <2>1, NoCheckIsACheck DEF TableInv
<1>8. ClicksInv /\ SpinnerIsHonest
  BY <1>1 DEF Init, ClicksInv, SpinnerIsHonest, Spins
<1> QED BY <1>5, <1>6, <1>7, <1>8 DEF IInv

LEMMA NextKeepsInv == IInv /\ [Next]_deskVars => IInv'
<1> SUFFICES ASSUME IInv, [Next]_deskVars PROVE IInv'
  OBVIOUS
<1>1. CASE ClickCreate
  BY <1>1, ClickCreateKeepsInv
<1>2. CASE Validated
  BY <1>2, ValidatedKeepsInv
<1>3. CASE Quoted
  BY <1>3, QuotedKeepsInv
<1>4. CASE Inserted
  BY <1>4, InsertedKeepsInv
<1>5. CASE Intended
  BY <1>5, IntendedKeepsInv
<1>6. CASE Locked
  BY <1>6, LockedKeepsInv
<1>7. CASE CreateReturns \/ CreateFails
  BY <1>7, CreateEndsKeepsInv
<1>8. CASE \/ \E i \in DOMAIN cards : ClickAdvance(i)
           \/ \E i \in DOMAIN swaps : OtherAdvances(i)
  BY <1>8, ClicksKeepInv
<1>9. ASSUME NEW k \in Slots,
             CheckReads(k) \/ CheckMoves(k) \/ CheckReturns(k) \/ CheckFails(k) \/ CheckEnds(k)
      PROVE  IInv'
  BY <1>9, CheckReadsKeepsInv, CheckMovesKeepsInv, CheckReturnsKeepsInv, CheckFailsKeepsInv,
     CheckEndsKeepsInv
<1>10. CASE ListArrives
  BY <1>10, ListArrivesKeepsInv
<1>11. CASE UNCHANGED deskVars
  <2>1. UNCHANGED <<create, checks, checking, selected, cards, swaps, locked, clicks>>
    BY <1>11 DEF deskVars, pageVars, coreVars
  <2> QED BY <2>1 DEF IInv, TypeOK, CreateInv, TableInv, ClicksInv, Pending, LockedByClick,
                      SpinnerIsHonest, Spins
<1> QED BY <1>1, <1>2, <1>3, <1>4, <1>5, <1>6, <1>7, <1>8, <1>9, <1>10, <1>11 DEF Next

\* Every reachable state satisfies the inductive invariant: the versions count
\* the moves, and whoever may still move a swap has a click of its own.
THEOREM Invariant == Spec => []IInv
  BY InitEstablishesInv, NextKeepsInv, PTL DEF Spec

\* The state stays what the modules of the page, the bridge and the core hold.
THEOREM TypeCorrect == Spec => []TypeOK
  BY Invariant, PTL DEF IInv

\* For any set of routes between two chains: a form the page takes for complete
\* is refused by neither shell nor bridge, and the swap made of it is of the kind
\* of its route with the parameter of that kind (SwapCenter.tsx, registry.ts,
\* server.js).
THEOREM Contract == Spec => []ContractKept
<1>1. IInv => ContractKept
  BY WellTyped DEF IInv, CreateInv, CreateOK, OfItsRoute, ContractKept
<1> QED BY <1>1, Invariant, PTL

\* However the calls of any number of swaps overlap, a swap that is shown as
\* advancing has a call of the page under way (SwapCenter.tsx, handleCheckSwap).
THEOREM Spinner == Spec => []SpinnerIsHonest
  BY Invariant, PTL DEF IInv

\* A swap is locked by a creation or a click, and committed by a click beyond the
\* one that locked it, with any number of swaps and of calls in flight
\* (server.js, POST /swaps/:id/check).
THEOREM StepsArePaid == Spec => OneStepPerClick
<1> DEFINE Paid == \A i \in DOMAIN swaps :
                      swaps'[i].state # swaps[i].state =>
                          /\ swaps'[i].state = "locked" => StepsBy(i)' >= 1
                          /\ swaps'[i].state = "commit_started" => StepsBy(i) >= 2
<1>1. IInv /\ [Next]_deskVars => [Paid]_deskVars
  <2> SUFFICES ASSUME IInv, Next PROVE Paid
    OBVIOUS
  <2>1. DOMAIN swaps = 1 .. Len(swaps)
    BY WellTyped
  <2>2. CASE UNCHANGED swaps
    BY <2>2
  <2>3. CASE Inserted
    <3>1. \A i \in 1 .. Len(swaps) : swaps'[i] = swaps[i]
      BY <2>3, WellTyped DEF Inserted
    <3> QED BY <2>1, <3>1
  <2>4. CASE Intended
    <3>1. create.id \in 1 .. Len(swaps)
      BY <2>4 DEF Intended, IInv, CreateInv, CreateOK
    <3>2. \A i \in 1 .. Len(swaps) : swaps'[i].state = swaps[i].state
      BY <2>4, <3>1, WellTyped DEF Intended, Rows
    <3> QED BY <2>1, <3>2
  <2>5. CASE Locked
    <3>1. PICK i \in 1 .. Len(swaps) : i = create.id
      BY <2>5 DEF Locked, IInv, CreateInv, CreateOK
    <3>2. "locked" \in SwapStates /\ Moves(i, 0, "open", "locked")
      BY <2>5, <3>1 DEF Locked, SwapStates
    <3>3. /\ swaps'[i].state = "locked"
          /\ \A j \in 1 .. Len(swaps) : j # i => swaps'[j] = swaps[j]
      BY <3>2, MovedRow
    <3>4. i \in locked' /\ clicks'[i] \in 0 .. 2
      BY <2>5, <3>1, WellTyped DEF Locked, CreateGoes
    <3>5. StepsBy(i)' >= 1
      BY <3>4 DEF StepsBy
    <3> QED BY <2>1, <3>3, <3>5
  <2>6. ASSUME NEW k \in Slots, CheckMoves(k)
        PROVE  Paid
    <3>1. PICK i \in 1 .. Len(swaps), c \in Checks, to \in SwapStates :
             /\ i = checks[k].swap /\ Pending(k, i)
             /\ \/ swaps[i].state = "open" /\ to = "locked" /\ swaps'[i].version = 1
                \/ swaps[i].state = "locked" /\ to = "commit_started"
             /\ checks' = [checks EXCEPT ![k] = c]
             /\ c.at = "done" /\ c.swap = i /\ c.by = checks[k].by
             /\ swaps' \in Seq(Rows) /\ Len(swaps') = Len(swaps) /\ swaps'[i].state = to
             /\ OfItsRoute(swaps[i]) => OfItsRoute(swaps'[i])
             /\ \A j \in 1 .. Len(swaps) : j # i => swaps'[j] = swaps[j]
      BY <2>6, MoveByCall
    <3>2. i \in Ids /\ clicks \in [Ids -> 0 .. 2] /\ clicks[i] \in 0 .. 2
      BY WellTyped
    <3>3. clicks[i] >= 1 /\ (LockedByClick(i) => clicks[i] = 2)
      BY <3>1 DEF IInv, ClicksInv
    <3>4. CASE to = "locked"
      <4>1. checks'[k].swap = i
        BY <3>1, WellTyped
      <4>2. clicks'[i] = clicks[i]
        BY <2>6, <3>1, <3>2, <3>4, <4>1 DEF CheckMoves, Forgotten, Committed
      <4>3. StepsBy(i)' >= 1
        BY <3>2, <3>3, <4>2 DEF StepsBy
      <4> QED BY <2>1, <3>1, <3>4, <4>3
    <3>5. CASE to = "commit_started"
      <4>1. StepsBy(i) >= 2
        BY <3>1, <3>2, <3>3, <3>5 DEF StepsBy, LockedByClick
      <4> QED BY <2>1, <3>1, <3>5, <4>1
    <3> QED BY <3>1, <3>4, <3>5
  <2>7. \/ UNCHANGED swaps \/ Inserted \/ Intended \/ Locked
        \/ \E k \in Slots : CheckMoves(k)
    BY DEF Next, ClickCreate, Validated, Quoted, CreateReturns, CreateFails, ClickAdvance,
           OtherAdvances, CheckReads, CheckReturns, CheckFails, CheckEnds, ListArrives, coreVars
  <2> QED BY <2>2, <2>3, <2>4, <2>5, <2>6, <2>7
<1> QED BY <1>1, Invariant, PTL DEF Spec, OneStepPerClick

-----------------------------------------------------------------------------
(* The rows of the table seen as swaps of the lifecycle.                   *)

Phases == [i \in Ids |-> IF i \in 1 .. Len(swaps) THEN swaps[i].state ELSE "none"]
Ages == [i \in Ids |-> IF i \in 1 .. Len(swaps) THEN swaps[i].version ELSE 0]

Lifecycle == INSTANCE SwapLifecycle WITH SwapIds <- Ids, phase <- Phases, age <- Ages

\* The creation and the calls of "Advance", of the page and of the other client,
\* make of every row a swap of the lifecycle: it appears open, and moves along
\* the table of the engine, one version a move (swap_service.go, CreateSwap,
\* LockSwap and CommitSwap, as far as the commit).
DeskImplementsLifecycle == Lifecycle!LifecycleSpec

LEMMA FirstMoves ==
    /\ "open" \in Lifecycle!States /\ "locked" \in Lifecycle!States
    /\ "locked" \in Lifecycle!ValidTransitions["open"]
    /\ "commit_started" \in Lifecycle!ValidTransitions["locked"]
  BY DEF Lifecycle!States, Lifecycle!ValidTransitions

LEMMA RowsAreSeen ==
    ASSUME IInv
    PROVE  /\ DOMAIN Phases = Ids /\ DOMAIN Ages = Ids
           /\ \A i \in 1 .. Len(swaps) : Phases[i] = swaps[i].state /\ Ages[i] = swaps[i].version
           /\ \A i \in Ids : i \notin 1 .. Len(swaps) => Phases[i] = "none" /\ Ages[i] = 0
  BY WellTyped DEF Phases, Ages

LEMMA RowsStaySeen ==
    ASSUME Len(swaps') = Len(swaps),
           \A i \in 1 .. Len(swaps) : /\ swaps'[i].state = swaps[i].state
                                      /\ swaps'[i].version = swaps[i].version
    PROVE  UNCHANGED <<Phases, Ages>>
  BY DEF Phases, Ages

LEMMA MovedRowsMove ==
    ASSUME IInv, NEW i \in 1 .. Len(swaps), NEW version, NEW from, NEW to,
           \/ from = "open" /\ to = "locked"
           \/ from = "locked" /\ to = "commit_started",
           Moves(i, version, from, to)
    PROVE  Lifecycle!Move(i)
<1>1. to \in SwapStates /\ version < 2
  BY DEF Moves, IInv, TableInv, SwapStates
<1>2. /\ Len(swaps') = Len(swaps) /\ swaps'[i].state = to /\ swaps'[i].version = version + 1
      /\ swaps[i].state = from /\ swaps[i].version = version
      /\ \A j \in 1 .. Len(swaps) : j # i => swaps'[j] = swaps[j]
  BY <1>1, MovedRow
<1>3. i \in Ids
  BY WellTyped
<1>4. Phases' = [Phases EXCEPT ![i] = to]
  BY <1>2, <1>3 DEF Phases
<1>5. Ages' = [Ages EXCEPT ![i] = @ + 1]
  BY <1>2, <1>3 DEF Ages
<1>6. Phases[i] = from
  BY <1>2, RowsAreSeen
<1> QED BY <1>4, <1>5, <1>6, FirstMoves DEF Lifecycle!Move

\* Whatever the page, the other client and lost answers do, the table of swaps
\* implements the lifecycle of the engine (swap_service.go; engine.go).
THEOREM DeskRefinesLifecycle == Spec => DeskImplementsLifecycle
<1>1. Init => Lifecycle!LifecycleInit
  <2> SUFFICES ASSUME Init PROVE Lifecycle!LifecycleInit
    OBVIOUS
  <2>1. Len(swaps) = 0
    BY DEF Init
  <2>2. \A i : i \notin 1 .. Len(swaps)
    BY <2>1
  <2> QED BY <2>2 DEF Phases, Ages, Lifecycle!LifecycleInit
<1>2. ASSUME IInv, [Next]_deskVars
      PROVE  [Lifecycle!LifecycleNext]_(Lifecycle!lifecycleVars)
  <2>1. CASE UNCHANGED swaps
    BY <2>1, RowsStaySeen DEF Lifecycle!lifecycleVars
  <2>2. CASE Inserted
    <3> DEFINE n == Len(swaps)
    <3>1. /\ n < MaxSwaps /\ n \in Nat /\ swaps \in Seq(Rows)
      BY <1>2, <2>2, WellTyped DEF Inserted
    <3>2. PICK s : swaps' = Append(swaps, s) /\ s.state = "open" /\ s.version = 0
      BY <2>2 DEF Inserted
    <3>3. /\ Len(swaps') = n + 1 /\ swaps'[n + 1] = s
          /\ \A i \in 1 .. n : swaps'[i] = swaps[i]
      BY <3>1, <3>2
    <3>4. n + 1 \in Ids /\ n + 1 \notin 1 .. n
      BY <3>1 DEF Ids
    <3>5. \A i : i \in 1 .. n + 1 <=> i \in 1 .. n \/ i = n + 1
      BY <3>1
    <3>6. Phases' = [Phases EXCEPT ![n + 1] = "open"]
      BY <3>2, <3>3, <3>4, <3>5 DEF Phases
    <3>7. Ages' = Ages /\ Phases[n + 1] = "none"
      BY <3>2, <3>3, <3>4, <3>5 DEF Ages, Phases
    <3>8. Lifecycle!Appear(n + 1)
      BY <3>6, <3>7 DEF Lifecycle!Appear
    <3> QED BY <3>4, <3>8 DEF Lifecycle!LifecycleNext
  <2>3. CASE Intended
    <3>1. create.id \in 1 .. Len(swaps)
      BY <1>2, <2>3 DEF Intended, IInv, CreateInv, CreateOK
    <3>2. /\ Len(swaps') = Len(swaps)
          /\ \A i \in 1 .. Len(swaps) : /\ swaps'[i].state = swaps[i].state
                                        /\ swaps'[i].version = swaps[i].version
      BY <1>2, <2>3, <3>1, WellTyped DEF Intended, Rows
    <3> QED BY <3>2, RowsStaySeen DEF Lifecycle!lifecycleVars
  <2>4. CASE Locked
    <3>1. create.id \in 1 .. Len(swaps)
      BY <1>2, <2>4 DEF Locked, IInv, CreateInv, CreateOK
    <3>2. Lifecycle!Move(create.id)
      BY <1>2, <2>4, <3>1, MovedRowsMove DEF Locked
    <3> QED BY <1>2, <3>1, <3>2, WellTyped DEF Lifecycle!LifecycleNext
  <2>5. ASSUME NEW k \in Slots, CheckMoves(k)
        PROVE  Lifecycle!LifecycleNext
    <3>1. checks[k].swap \in 1 .. Len(swaps)
      BY <1>2, <2>5 DEF CheckMoves, IInv, TableInv
    <3>2. Lifecycle!Move(checks[k].swap)
      BY <1>2, <2>5, <3>1, MovedRowsMove DEF CheckMoves
    <3> QED BY <1>2, <3>1, <3>2, WellTyped DEF Lifecycle!LifecycleNext
  <2>6. \/ UNCHANGED swaps \/ Inserted \/ Intended \/ Locked
        \/ \E k \in Slots : CheckMoves(k)
    BY <1>2 DEF Next, ClickCreate, Validated, Quoted, CreateReturns, CreateFails, ClickAdvance,
           OtherAdvances, CheckReads, CheckReturns, CheckFails, CheckEnds, ListArrives, coreVars,
           deskVars
  <2> QED BY <2>1, <2>2, <2>3, <2>4, <2>5, <2>6
<1> QED BY <1>1, <1>2, Invariant, PTL DEF Spec, DeskImplementsLifecycle, Lifecycle!LifecycleSpec

=============================================================================
