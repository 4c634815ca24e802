\* Both devices, another name, user area 0 of A: and one more place.
CONSTANTS
    keep = keep  homeA = homeA  userB = userB  x = x
    Pun = pun  Lst = lst  OtherName <- OneName  Place <- TwoPlaces  Home = homeA
    Char <- OneChar  Size = 1  File <- ThreeFiles  MaxPrinted = 2  HostMayFail = TRUE
SPECIFICATION Spec
INVARIANTS TypeOK PrintedKept FlushedAtBoot PrintsToItsName
CHECK_DEADLOCK FALSE
