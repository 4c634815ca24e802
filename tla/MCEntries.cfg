\* Files of up to five extents in three user areas, one of them not searched.
CONSTANTS
    User <- UsersThree  SearchUsers <- SearchTwo
    Name <- OneName  Folders <- NoFolders  Pattern <- OnlyOne  SubName <- NoFolders
    Length <- Lengths
    BlkSZ = 2  BlkEX = 2  MaxEX = 1  extentsPerDirEntry = 2  RecordSpan = 16
    MaxChanges = 0
SPECIFICATION Spec
INVARIANTS TypeOK EntriesRight
CHECK_DEADLOCK FALSE
