\* Calls that wait for each other; the process may die and the disk may fail.
CONSTANTS
    Calls = {c1}
    Ids = {i1, i2, i3}
    Kinds = {"put", "add", "remove", "clear"}
    Serial = TRUE
    Troubles = {"death", "error"}
SPECIFICATION Spec
SYMMETRY Symmetric
INVARIANTS
    TypeOK
    NeverLeftPartial
PROPERTIES
    EditsOrLosesAll
