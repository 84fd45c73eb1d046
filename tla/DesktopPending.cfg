SPECIFICATION DesktopSpec
CONSTANTS
    LastGrid = 2
    Spawn = 1
    Forest = {2}
    Hero = theHero
    Tree = aTree
    Nobody = nobody
    treant = treant
    sprout = sprout
    Treants = {treant}
    Sprouts = {sprout}
    Creeps = {creep}
    Duration <- MCDuration
    DeathCounts = {1, 2}
PROPERTIES OnlyOwnUnitsAct
CHECK_DEADLOCK FALSE
