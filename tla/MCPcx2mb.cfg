CONSTANTS
    d1 = d1
    d2 = d2
    none = none
    Dests <- TwoDests
    NoDest = none
    Data = {0}
    LastEntry = 4
SPECIFICATION FairSpec
INVARIANTS
    TypeOK
    CountersAgree
    ControlMarksFirst
PROPERTIES
    DropsAgree
    ImplementsLink
    CreditsReturn
