----------------------------- MODULE MCSwapDesk -----------------------------
(* Presets of the Swap Center (SwapCenter.tsx, ROUTES): one of each kind,   *)
(* the chain swap in the direction that is not the usual one.               *)
EXTENDS SwapDesk

Presets == {<<"btc", "ln">>, <<"ln", "btc">>, <<"liquid", "btc">>}

=============================================================================
