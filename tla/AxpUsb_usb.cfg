CONSTANTS
    Moves = 3
    BatDet = {TRUE, FALSE}
SPECIFICATION Spec
INVARIANTS
    ConnectFollows
    OnlineShown
    LimitSettles
