CONSTANTS
    Rows = 2
    Cols = 3
    MaxInputLength = 3
    MaxHistory = 2
    ByteValues = 2
    PromptLengths = {1, 2}
    Chars = {c, h}
    Blank = Blank
    Mark = Mark
    Clear = Clear
    Help = Help
    HelpLines = 2
SPECIFICATION TerminalSpec
PROPERTIES InsertsAtCursor
CHECK_DEADLOCK FALSE
