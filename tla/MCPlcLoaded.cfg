CONSTANTS
    Addrs = {0, 1, 2, 3}
    Ways = {0}
    Values = {0, 1}
    ListCap = 4
    Stimuli <- NoAddStimuli
SPECIFICATION LoadedSpec
PROPERTIES
    CheckFindsMismatch
    ErrorIsGenuine
