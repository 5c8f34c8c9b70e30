\* Two documents; the user waits for the writes to the record file.
CONSTANTS
    Docs = {d1, d2}
    Types = {gross, withheld}
    Faults = {"gateway", "record"}
    Patient = TRUE
    MaxJobs = 2
    Manual = manual
    None = None
    Absent = Absent
SYMMETRY Symmetry
SPECIFICATION Spec
INVARIANTS
    TypeOK
    SlotIsAwaited
    ListIsCurrent
PROPERTIES
    AllOrNothing
