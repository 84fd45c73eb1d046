SPECIFICATION Spec
CONSTANTS
    hero = hero
    rival = rival
    creep1 = creep1
    creep2 = creep2
    outer = outer
    inner = inner
    barrack = barrack
    ancient1 = ancient1
    ancient2 = ancient2
    Player = hero
    Rivals = {rival}
    Creeps = {creep2}
    Towers = {outer, inner}
    Barracks = {barrack}
    Ancients = {ancient1, ancient2}
    Nobody = Nobody
    Team <- MCTeam
    Front <- MCFront
    Order <- MCOrder
    MaxHP <- MCMaxHP
    HPGain <- MCHPGain
    MaxAP = 2
    AttackAP = 1
    AttackFraction = 0
    Damages = {0, 1}
    Bounty <- MCBounty
    ExpLevels = {200, 500}
    MaxMoney = 2
PROPERTIES
    KillsAreRewarded
