\* Four names, one of them a folder, in one user area, or two names in two; two
\* host changes.
CONSTANTS
    User <- UsersTwo  SearchUsers <- UsersTwo
    Name <- FourNames  Folders <- ThirdName  Pattern <- AllOrTwo  SubName <- SecondName
    Length <- OneLength
    BlkSZ = 2  BlkEX = 2  MaxEX = 1  extentsPerDirEntry = 2  RecordSpan = 16
    MaxChanges = 2
SPECIFICATION Spec
CONSTRAINT OneAreaOrTwo
INVARIANTS MissesBounded RepeatsBounded
PROPERTIES DeleteExact DeleteReturns
CHECK_DEADLOCK FALSE
