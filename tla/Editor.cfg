SPECIFICATION Spec
CONSTANTS
    Chars <- Keyboard
    MaxText = 4
    MaxErrors = 3
    Widths = {0, 1, 2, 3}
    LineBufferExtent = 2
    PromptLen = 1
CHECK_DEADLOCK FALSE
INVARIANTS TypeOK CursorInRange BuffersFit SplitsAsMeant LineShown CursorInPlace LineDrawn CommandDrawn
PROPERTY ScanShrinks
