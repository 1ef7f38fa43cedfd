CONSTANTS
    Addrs = {0, 1}
    Ways = {0}
    Values = {0, 1}
    ListCap = 2
    Stimuli <- StimuliWay0
SPECIFICATION Spec
INVARIANT OnlyRegisteredCounted
