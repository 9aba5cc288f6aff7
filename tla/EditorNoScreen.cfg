SPECIFICATION Spec
CONSTANTS
    Chars <- Keyboard
    MaxText = 3
    MaxErrors = 1
    Widths = {2}
    LineBufferExtent = 2
    PromptLen = 1
CHECK_DEADLOCK FALSE
INVARIANT ScreenNotNeeded
