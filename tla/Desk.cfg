SPECIFICATION Spec
CONSTANTS
    Routes <- Presets
    MaxSwaps = 2
    MaxChecks = 2
INVARIANTS TypeOK ContractKept SpinnerIsHonest
PROPERTY OneStepPerClick
