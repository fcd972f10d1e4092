SPECIFICATION Spec
CONSTANTS
    p = p
    m = m
    e = e
    SideA <- Ours
    SideB <- Theirs
    Player = p
    Medic = m
    Late <- Latecomers
    ArrivalTime = 0
    Blows <- MeleeTimings
    Shots <- ShotTimings
    Archers <- Bowmen
    Throwers <- ThrowersOfDarts
    Second = 2
    MinAccess = 2
    MaxTime = 3
    Quiver = 1
    Supplies = 1
    MayDisengage = TRUE
INVARIANTS
    ActionsAhead
    BlowsAreCausal
CHECK_DEADLOCK FALSE
