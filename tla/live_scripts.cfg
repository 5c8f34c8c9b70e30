\* Every AT script, on machines with defects and against any answer.
CONSTANTS
    Programs <- AllPrograms
    Envs <- MCEnvs
    Answers <- MCAnswers
    MaxClock = 3
SPECIFICATION FairSpec
INVARIANTS
    TypeOK
    GatesBeforeNetwork
    FreshSecurity
    NeverUnderCounted
    StopsAtFirstFailure
    ConfirmedExactly
    WipedAtEnd
PROPERTY EventuallyEnds
CHECK_DEADLOCK FALSE
