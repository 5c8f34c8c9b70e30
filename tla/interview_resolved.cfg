\* A conflict is resolved in the review of the guided screen.
CONSTANTS
    None = None
    Asked <- MCAsked
    Values = {"yes", "no", "single", "married", "low"}
    Profiles <- MCProfiles
    Ledger <- MCLedger
    Documented = {"withholdingCents"}
    Proven = {"low", "high"}
    Patient = {"continue", "resolve", "documents"}
    MaxCalls = 1
SPECIFICATION Spec
PROPERTIES
    ResolutionRetained
