SPECIFICATION BoardAndSight
CONSTANTS
    hero1 = hero1
    hero2 = hero2
    creep1 = creep1
    creep2 = creep2
    tower = tower
    NoName = NoName
    Width = 3
    Height = 2
    Cliffs <- MCCliffs
    Terrain <- MCTerrain
    Heroes <- MCWalkers
    Creeps <- MCCreeps
    Fixtures = {tower}
    InitialPosition <- MCInitial
    HeroSpawnPoint <- MCHeroSpawn
    CreepSpawnPoint <- MCCreepSpawn
    PerGrid = 3
    Unit = 2
    MaxActionPoint = 2
    ReviveRounds = 2
    Units <- MCUnits
    TeamOf <- MCTeamOf
    SightOf <- MCSightOf
    Movers = {hero1}
    Comers = {creep1}
    SightStarts <- MCSightStarts
    Grounds <- MCGrounds
    ObstacleHeight = 0
    PoolSize = 2
    MaxThreads = 3
    MaxRefreshes = 2
    Hides <- MCHides
    FullCircle = 9
    Arcs <- MCArcs
    WideArcs <- MCWideArcs
    MaxArcs = 8
INVARIANTS
    TypeOK
    SightIsExact
    ShadowsAreExact
    NobodyLost
PROPERTY WalkingCosts
SYMMETRY MCSymmetry
