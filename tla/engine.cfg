\* Two other processes may get the identifier of the game.
CONSTANTS
    Game = Game
    None = None
    A = A
    B = B
    Others = {A, B}
SPECIFICATION DiscoverySpec
INVARIANTS
    ConfirmedIsGone
    OnlyGameKilled
    QuitOnlyToGame
    OverdueWasKilled
    SettledIsFound
PROPERTIES
    InputOutlivesGame
    CallsReturn
