CONSTANTS
    Width = 4
    Height = 3
    Cliffs <- MCCliffs
    Terrain <- MCTerrain
    creep = creep
    tower = tower
    barrack = barrack
    NoEnemy = noEnemy
    Enemies <- MCEnemies
    EnemyAt <- MCEnemyAt
    Life <- MCLife
    Removable <- MCRemovable
    Guards <- MCGuards
    Trees <- MCTrees
    Friends <- MCFriends
    Starts <- MCStarts
    Checkpoints <- MCCheckpoints
    Radius = 2
    Sight = 3
    MaxActionPoint = 100
    PerGrid = 95479
    AttackCost = 504670
    Unit = 10000
SPECIFICATION Spec
PROPERTY TurnEnds
