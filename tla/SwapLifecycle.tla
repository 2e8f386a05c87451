--------------------------- MODULE SwapLifecycle ----------------------------
(***************************************************************************)
(* What the state machine of core/internal/swap/engine.go promises for     *)
(* every swap, whoever drives it: a swap appears open, moves only along    *)
(* ValidTransitions, one move per version, and a terminal state is final.  *)
(* SwapEngine, SwapExecution and SwapDesk implement this specification.    *)
(***************************************************************************)
EXTENDS SwapStates

CONSTANT SwapIds

VARIABLES phase,  \* phase[id]: the state of the swap, "none" before it exists
          age     \* age[id]: how many moves it has made, its version

lifecycleVars == <<phase, age>>

LifecycleInit == /\ phase = [id \in SwapIds |-> "none"]
                 /\ age = [id \in SwapIds |-> 0]

Appear(id) == /\ phase[id] = "none"
              /\ phase' = [phase EXCEPT ![id] = "open"]
              /\ UNCHANGED age

Move(id) == /\ phase[id] \in States
            /\ \E to \in ValidTransitions[phase[id]] :
                   phase' = [phase EXCEPT ![id] = to]
            /\ age' = [age EXCEPT ![id] = @ + 1]

LifecycleNext == \E id \in SwapIds : Appear(id) \/ Move(id)

LifecycleSpec == LifecycleInit /\ [][LifecycleNext]_lifecycleVars
=============================================================================
