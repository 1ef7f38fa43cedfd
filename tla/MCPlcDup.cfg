CONSTANTS
    Addrs = {0, 1}
    Ways = {0, 1}
    Values = {0, 1}
    ListCap = 2
    Stimuli <- StimuliWay1
SPECIFICATION Spec
PROPERTY DuplicateFound
