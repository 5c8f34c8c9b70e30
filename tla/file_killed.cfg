\* The process dies while the guided interview is being saved.
CONSTANTS
    Calls = {c1}
    Ids = {i1, i2, i3}
    Kinds = {"put"}
    Serial = TRUE
    Troubles = {"death"}
SPECIFICATION Spec
PROPERTY Atomic
