----------------------------- MODULE MCDirSearch -----------------------------
(***************************************************************************)
(* Instances of DirSearch for TLC.  Names and user areas are ordered, so   *)
(* they have no symmetry.                                                  *)
(***************************************************************************)
EXTENDS DirSearch

UserZero    == {0}
UsersTwo    == {0, 1}
UsersThree  == {0, 1, 16}
SearchTwo   == {0, 1}
OneName     == {1}
TwoNames    == {1, 2}
FourNames   == {1, 2, 3, 4}
SecondName  == {2}
NoFolders   == {}
ThirdName   == {3}
AllOrTwo    == {FourNames, {1, 4}}
OnlyOne     == {{1}}
OneLength   == {3}
Lengths     == {0, 3, 8, 19}
FullLength  == {8}

\* Constraint: searches of one user area, where the host adds and removes files at
\* any time ...
OneArea ==
    /\ \A id \in Id : id[1] # 0 => files[id] < 0
    /\ userCode = 0 /\ findUser = 0 /\ foundId[1] = 0 /\ locked = {} /\ Idle

\* ... and deletes, for which '?' as an extent means nothing, of two user areas, two
\* names, where the host acts, and refuses removes too, inside a delete only: what it
\* adds and removes before is in the initial files, and for its locks there is time
\* before the first remove.
TwoAreas ==
    /\ \A id \in Id : id[2] \notin TwoNames => files[id] < 0
    /\ foundId[2] \in TwoNames /\ phase = "none" /\ ~allExtents
    /\ Idle => changes = 0

OneAreaOrTwo == OneArea \/ TwoAreas
=============================================================================
