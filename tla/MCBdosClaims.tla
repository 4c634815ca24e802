----------------------------- MODULE MCBdosClaims -----------------------------
(***************************************************************************)
(* Instances of BdosClaims for TLC: one user area and one name.            *)
(***************************************************************************)
EXTENDS BdosClaims

OnlyA       == {0}
DrivesAB    == {0, 1}
UserZero    == {0}
NoLengths   == {}
OddLength   == {1}
NoRecords   == {}
=============================================================================
