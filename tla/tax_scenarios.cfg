CONSTANTS
    Whole = 100000
    None = None
    Rules <- Rules2025
    Simulations <- Wizard2025
    Steps <- Steps2025
    MaxSaved = 2
    MaxChanged = 2
    Rounding = 3
SPECIFICATION Spec
PROPERTIES SpendingNeverCosts EarningMorePays
INVARIANTS ExemptionNeverCosts ExemptIncomeStillRates EntryOrderIrrelevant EqualSpousesIndifferent IdleYearsDoNotCount
CHECK_DEADLOCK FALSE
