------------------------------ MODULE BdosClaims ------------------------------
(***************************************************************************)
(* What the readme says of the disk calls, where they do something else.   *)
(* The property here is refuted by a run; the README tells what the        *)
(* counterexample shows.                                                   *)
(***************************************************************************)
EXTENDS BdosDisk

\* "It supports making "disks" read-only" (readme.md): no call changes a file
\* of a drive that is write-protected.
ProtectedFilesKept ==
    [][\A id \in FileId : id[1] \in roVector => files'[id] = files[id]]_vars
=============================================================================
