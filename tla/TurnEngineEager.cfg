SPECIFICATION Spec
CONSTANTS
    Player = hero
    Towers = {tower}
    Creeps = {creep1}
    Flag = flag
    NoName = NoName
    UI = ui
    Workers = {w1, w2, w3}
    NoThread = NoThread
    ReviveRounds = 2
    SpawnEvery = 2
    EagerUser = TRUE
INVARIANTS
    RoundOrderNotCorrupted
CHECK_DEADLOCK FALSE
