\* Keyboards of size L: ANSI, and one whose layout has no table.
CONSTANTS
    OtherEffects = {0}
    Size = "LIBMK_L"
    Layouts = {1, 3}
    Paintings <- MCPaintings
    Red = Red
    Blue = Blue
    Black = Black
    Colors = {Red, Blue, Black}
    SingleKeys <- MCSingleKeys
    StrayBytes = {255}
    MaxCalls = 2
SPECIFICATION Spec
CHECK_DEADLOCK FALSE
INVARIANTS
    KeysAreLit
    OldOrNew
