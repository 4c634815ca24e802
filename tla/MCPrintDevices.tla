---------------------------- MODULE MCPrintDevices ----------------------------
(***************************************************************************)
(* An instance of PrintDevices for TLC.                                    *)
(***************************************************************************)
EXTENDS PrintDevices

CONSTANTS keep, homeA, userB, x

OneName     == {keep}
TwoPlaces   == {homeA, userB}
OneChar     == {x}
ThreeFiles  == 1..3
=============================================================================
