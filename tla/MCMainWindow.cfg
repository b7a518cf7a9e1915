SPECIFICATION Spec
CONSTANTS
    c = c
    Newline = nl
    Nul = nul
    CharWidth <- MCCharWidth
    Uint8 = 4
    MaxLine = 5
    LineWidths <- MCLineWidths
    TicksForUpdate = 1
    WindowSizes <- MCWindowSizes
    Points <- MCPoints
    Keys = {c}
    MessageTexts <- MCMessageTexts
    NicknameWidth = 0
    MaxText = 2
    MaxMessages = 2
    MaxPos = 10
INVARIANTS
    PaintedAsMeasured
    ColumnIsStacked
    ScrollsWithinColumn
PROPERTIES
    TextBoxFits
    ReadingPlaceKept
    NewestShown
CHECK_DEADLOCK FALSE
