---------------------------- MODULE BdosRecordFile ----------------------------
(***************************************************************************)
(* The calls of BdosDisk, seen by programs that use one file of one drive  *)
(* and user area, implement RecordFile: the bytes cr, ex and s2 of an FCB  *)
(* are a plain record number, whatever order of sequential and random      *)
(* calls, opens, makes and closes the program chooses.                     *)
(***************************************************************************)
EXTENDS BdosDisk

CONSTANT TheFile    \* the one <<drive, user, name>> there is

\* What the refinement is stated for: no other file, and a host that loses no
\* write.
OneFileOnly == FileId = {TheFile} /\ ~HostMayFail

\* The length in whole records, a last part of a record counted as one.
Records(h) == IF h.len < 0 THEN -1 ELSE (h.len + BlkSZ - 1) \div BlkSZ

TheRecordFile ==
    INSTANCE RecordFile WITH
        Handle     <- Fcb,
        Trimmer    <- BatchFCB,
        Span       <- RandomSpan,
        ModuleSize <- BlkS2,
        MaxCut     <- MaxRC,
        size       <- Records(files[TheFile]),
        data       <- files[TheFile].data,
        pos        <- [f \in Fcb |-> SeqRecord(fcb[f])],
        buf        <- mem[dmaAddr]

\* Every step of the BDOS is a step of the record file, or leaves it alone
\* (_OpenFile to _WriteRand, which reassemble and split the record number).
ImplementsRecordFile == TheRecordFile!Spec
=============================================================================
