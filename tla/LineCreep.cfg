CONSTANTS
    Width = 4
    Height = 3
    Cliffs <- MCCliffs
    Terrain <- MCTerrain
    creep = creep
    tower = tower
    barrack = barrack
    NoEnemy = noEnemy
    Enemies <- MCEnemies
    EnemyAt <- MCEnemyAt
    Life <- MCLife
    Removable <- MCRemovable
    Guards <- MCGuards
    Trees <- MCTrees
    Friends <- MCFriends
    Starts <- MCStarts
    Checkpoints <- MCCheckpoints
    Radius = 2
    Sight = 3
    MaxActionPoint = 6
    PerGrid = 3
    AttackCost = 4
    Unit = 2
SPECIFICATION Spec
INVARIANTS TypeOK StrandedOnlyBroke
PROPERTIES StaleTargetsSpared EndsUnlessStranded
