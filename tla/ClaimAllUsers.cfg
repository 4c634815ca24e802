\* One drive, four user areas, of which the third is not there; empty files.
CONSTANTS
    Drive <- OneDrive  User <- FourUsers  SearchUsers <- FourUsers
    Name <- TwoNames  Pattern <- Patterns  InitLen <- NoLength
    BlkSZ = 2  ExtRecords = 2  MaxRecords = 2  Record <- Records
    Width = 16  Room <- Rooms
SPECIFICATION GapSpec
INVARIANT AllUsersReturned
CHECK_DEADLOCK FALSE
