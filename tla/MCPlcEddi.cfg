CONSTANTS
    Addrs = {0, 1, 2}
    Ways = {0, 1}
    Values = {0, 1}
    ListCap = 4
    Stimuli <- EddiStimuli
    Pairs <- MixedPairs
SPECIFICATION MCEddiSpec
INVARIANTS
    CheckAfterDuplicate
    PairsAligned
PROPERTY NoFalseAlarm
CONSTRAINT UntilCorrupt
