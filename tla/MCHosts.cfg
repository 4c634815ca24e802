\* One drive, three user areas, the last without a hexadecimal digit, two names;
\* records of two bytes, extents of two records, and a largest file of two.
CONSTANTS
    Drive <- OneDrive  User <- ThreeUsers  SearchUsers <- HexUsers
    Name <- TwoNames  Pattern <- Patterns  InitLen <- Lengths
    BlkSZ = 2  ExtRecords = 2  MaxRecords = 2  Record <- Records
    Width = 16  Room <- Rooms
SPECIFICATION MCSpec
INVARIANTS HostsAgree WritesTold SearchesExact
CHECK_DEADLOCK FALSE
