------------------------------- MODULE MCHosts -------------------------------
(***************************************************************************)
(* Instances of HostClaims, and with it of HostSearch and HostFiles.  The  *)
(* first makes file calls on the files of one user area, and searches      *)
(* among the empty files of several: Explored is part of the next-state    *)
(* relation and not a constraint, so that the states left out are not even *)
(* evaluated.                                                              *)
(***************************************************************************)
EXTENDS HostClaims

OneDrive   == {0}
ThreeUsers == {0, 1, 2}
HexUsers   == {0, 1}
TwoNames   == {1, 2}
Patterns   == {TwoNames, {1}}
Lengths    == {0, 1}
Records    == {0, 1, 2}
Rooms      == {0, 1, 2, 6}

InOneArea ==
    /\ phase["posix"] = "none" /\ userCode = 0 /\ folders["posix"] \subseteq {<<0>>, <<0, 0>>}
    /\ Cardinality({p \in DOMAIN files["posix"] : files["posix"][p] # <<>>}) <= 1

Empty ==
    /\ \A p \in DOMAIN files["posix"] : files["posix"][p] = <<>>
    /\ buffer["posix"] = Blank /\ result["posix"] = 0
    /\ Cardinality(DOMAIN files["posix"]) <= 2
    /\ userCode \in {0, 2}

Explored == InOneArea \/ Empty

MCInit == SearchInit /\ Explored
MCNext == agreed /\ SearchCall /\ Explored'
MCSpec == MCInit /\ [][MCNext]_allVars

-----------------------------------------------------------------------------
(* The claim: a file in area 1 and one behind the gap that area 2 leaves.  *)

FourUsers  == {0, 1, 2, 3}
NoLength   == {0}

GapInit ==
    /\ SearchInit
    /\ folders["windows"] = {<<0>>} \cup {<<0, u>> : u \in {0, 1, 3}}
    /\ DOMAIN files["windows"] = {<<0, 1, 1>>, <<0, 3, 1>>}
GapSpec == GapInit /\ [][agreed /\ SearchCall]_allVars
=============================================================================
