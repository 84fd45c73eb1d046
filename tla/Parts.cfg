CONSTANTS
    MaxRenderers = 3
    BUFFER_COUNT = 4
    Taps = {t1, t2}
    NoEngine = noEngine
    ModelNames = {hero, tower}
    TextureNames = {skin}
    Sizes = {1}
    MaxBuffers = 3
    MaxTextures = 2
    Callers = {t1, t2, t3}
    NoCaller = noCaller
    MaxCalls = 2
    Fronts = {0, 1}
    MeleeEvery = 2
    SiegeEvery = 8
    Initial <- MCInitial
    Maximum <- MCMaximum
    IncreaseEvery <- MCIncreaseEvery
    LevelUpEvery = 3
    MaxLevel = 3
    LastRound = 8
    LastGrid = 2
    Spawn = 1
    Forest = {2}
    Hero = theHero
    Tree = aTree
    Nobody = nobody
    treant = treant
    sprout = sprout
    Treants = {treant}
    Sprouts = {sprout}
    Creeps = {creep}
    Duration <- MCDuration
    DeathCounts = {1, 2}
SPECIFICATION Spec
INVARIANTS TypeOK GameBehindScene StatisticsOfAnEnd ButtonsReachTheirScene
           ParentsOutliveChildren PlaysFromLiveMemory
           DrawsWithinBuffer NothingElseLeaks
           OneScriptAtATime FrontsKeepPace HeroInOnePlace
PROPERTIES ClosingEnds FallsSilent WavesNeverWeaken SummonsExpire
CHECK_DEADLOCK FALSE
