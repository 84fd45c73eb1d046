SPECIFICATION WavesSpec
CONSTANTS
    Fronts = {0, 1}
    MeleeEvery = 2
    SiegeEvery = 8
    Initial <- MCInitial
    Maximum <- MCMaximum
    IncreaseEvery <- MCIncreaseEvery
    LevelUpEvery = 3
    MaxLevel = 3
    LastRound = 8
INVARIANTS
    SiegeCreepsSpawn
CHECK_DEADLOCK FALSE
