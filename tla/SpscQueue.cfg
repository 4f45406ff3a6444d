SPECIFICATION FairSpec
CONSTANTS
    Values = {v1, v2}
    NoValue = NoValue
    Size = 4
    WeakLoads = TRUE
    MaxStores = 6
INVARIANTS NoSlotRace
PROPERTIES ImplementsFifo EveryValueLeaves
