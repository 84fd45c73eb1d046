SPECIFICATION CrowdSpec
CONSTANTS
    hero1 = hero1
    hero2 = hero2
    creep1 = creep1
    creep2 = creep2
    creep3 = creep3
    tower = tower
    NoName = NoName
    Width = 3
    Height = 2
    Cliffs <- MCCliffs
    Terrain <- MCHill
    Heroes <- MCWalkers
    Creeps <- MCCrowd
    Fixtures = {tower}
    InitialPosition <- MCInitial
    HeroSpawnPoint <- MCHeroSpawn
    CreepSpawnPoint <- MCCrowdSpawn
    PerGrid = 3
    Unit = 2
    MaxActionPoint = 2
    ReviveRounds = 2
    PerGrids = {1, 2}
    Unreached = {2, 3, 4}
INVARIANTS
    PositionsConsistent
    PricesAreLowest
CHECK_DEADLOCK FALSE
SYMMETRY MCCrowdSymmetry
