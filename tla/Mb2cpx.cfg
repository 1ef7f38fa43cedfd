CONSTANTS
    Data = {0, 1}
    Atoms = {TRUE, FALSE}
    Wastes = {0, 3}
SPECIFICATION FairSpec
INVARIANTS
    TypeOK
    DeliveredInOrder
PROPERTY AllDelivered
