----------------------------- MODULE MCRecordFile -----------------------------
(***************************************************************************)
(* Instances of BdosRecordFile for TLC: one drive, one user area, one name.*)
(***************************************************************************)
EXTENDS BdosRecordFile

OnlyA    == {0}
UserZero == {0}
TheOnlyFile == CHOOSE id \in FileId : TRUE
NoLengths == {}
OddLength == {1}

\* The instances are those the refinement is stated for.
ASSUME InstanceHasOneFile == OneFileOnly

\* The seeks of the instance: the first record, both sides of a module
\* boundary, the last record of the largest file and the first one past it.
SomeRecords == {0, BlkS2, Capacity - 1, Capacity}

\* The emulator is not ended and the drive not protected, FCBs seek to those
\* records only, and one record of the file is marked at most: enough to tell
\* records apart.
Undisturbed ==
    /\ Status # 1 /\ roVector = {}
    /\ \A f \in Fcb : fcb[f].r \in RandomArg
    /\ \A i, j \in Record :
          files[TheFile].data[i] # Zero /\ files[TheFile].data[j] # Zero => i = j
=============================================================================
