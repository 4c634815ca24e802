\* Lines of up to three characters, the most a byte counts here.
CONSTANTS
    x = x  y = y
    Char <- TwoChars  MaxByte = 3  MemSize = 6  Limit <- AllLimits
    Prompt <- Prompts  MaxAhead = 2
SPECIFICATION Spec
INVARIANTS TypeOK RoomLeft RowShowsLine
PROPERTIES WritesBuffer EndedLineAnswered ImplementsLineEditor
CHECK_DEADLOCK FALSE
