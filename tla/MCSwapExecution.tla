-------------------------- MODULE MCSwapExecution ---------------------------
(* SwapExecution for TLC: handlers are interchangeable, and the answers    *)
(* are those of the two providers of the code.                             *)
EXTENDS SwapExecution, TLC

ClientSymmetry == Permutations(Clients)

\* Boltz answers with the details and the timelock.  The mock has no details,
\* and its timeout is the quote's number of blocks, which the row holds already.
Boltz == {[details |-> TRUE, timeout |-> ProviderTimeout]}
BoltzOrMock == Boltz \cup {[details |-> FALSE, timeout |-> 0]}

\* A bound: the watcher never learns the height, where no height matters.
HeightUnknown == cached = 0
=============================================================================
