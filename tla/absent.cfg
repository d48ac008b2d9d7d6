CONSTANTS
    Game = Game
    None = None
    A = A
    Others = {A}
SPECIFICATION DiscoverySpec
INVARIANTS
    AbsentIsGone
