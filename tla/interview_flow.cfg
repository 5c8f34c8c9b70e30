\* The user answers, goes back, edits, leaves and returns at any moment.
CONSTANTS
    None = None
    Asked <- MCAsked
    Values = {"yes", "no", "single", "married", "low"}
    Profiles <- MCProfiles
    Ledger <- MCLedger
    Documented = {"withholdingCents"}
    Proven = {"low", "high"}
    Patient = {"documents"}
    MaxCalls = 2
SPECIFICATION Spec
INVARIANTS
    TypeOK
    CompletedMatchesProfile
    NothingSkipped
PROPERTIES
    EstimateIsConfirmed
