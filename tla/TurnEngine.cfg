SPECIFICATION Spec
CONSTANTS
    Player = hero
    Towers = {tower}
    Creeps = {creep1, creep2}
    Flag = flag
    NoName = NoName
    UI = ui
    Workers = {w1, w2, w3}
    NoThread = NoThread
    ReviveRounds = 2
    SpawnEvery = 2
    EagerUser = FALSE
INVARIANTS
    TypeOK
    RoundOrderNotCorrupted
    NoThreadFindsNull
    OneTurnAtATime
    CloseWaits
PROPERTIES
    TurnsGoRound
    HandOverEnds
    TurnComesBack
CHECK_DEADLOCK FALSE
