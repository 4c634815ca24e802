----------------------------- MODULE RecordFile -----------------------------
(***************************************************************************)
(* What the BDOS promises a program about one file: an array of records,   *)
(* which every handle (FCB) reads and writes through a position of its own *)
(* that is a plain number.  There are no extents, modules, host files or   *)
(* byte lengths here.  BdosRecordFile shows that the calls of BdosDisk     *)
(* implement this; its comments tie each action to the code.               *)
(***************************************************************************)
EXTENDS Integers

CONSTANTS
    Handle,       \* who can hold the file open
    Trimmer,      \* the handle whose close may cut the file short
    Value, Zero,  \* what a record holds, and what an unwritten one reads as
    Span,         \* records a random call can name: 0..Span - 1
    Capacity,     \* records a sequential position can tell apart
    ModuleSize,   \* records in a module
    MaxCut        \* the longest file a cut leaves

VARIABLES
    size,         \* records in the file, -1 if there is none
    data,         \* what they hold
    pos,          \* the next sequential record of each handle
    buf           \* the transfer buffer

vars == <<size, data, pos, buf>>

Record == 0..(Span - 1)
Blank  == [i \in Record |-> Zero]

\* Positions run from 0 to Capacity, both included: the last record of the
\* file and the first one share the module number, so the position after
\* Capacity is 1.
NextPos(p) == IF p = Capacity THEN 1 ELSE p + 1

Stored(record, v) ==
    /\ data' = [data EXCEPT ![record] = v]
    /\ size' = IF size <= record THEN record + 1 ELSE size

Init ==
    /\ size \in -1..Span
    /\ data \in [Record -> Value]
    /\ \A i \in Record : i >= size => data[i] = Zero
    /\ pos = [h \in Handle |-> 0]
    /\ buf \in Value

\* Make: a new file is empty, an existing one is kept; the position is 0.
Create(h) ==
    /\ IF size = -1 THEN size' = 0 /\ data' = Blank ELSE UNCHANGED <<size, data>>
    /\ pos' = [pos EXCEPT ![h] = 0] /\ UNCHANGED buf

\* Open: the position goes back to the first module, and stays where it was
\* within the module.
Reopen(h) ==
    /\ size >= 0
    /\ \E p \in 0..ModuleSize :
          p % ModuleSize = pos[h] % ModuleSize /\ pos' = [pos EXCEPT ![h] = p]
    /\ UNCHANGED <<size, data, buf>>

\* The program clears the position bytes.
Rewind(h) == pos' = [pos EXCEPT ![h] = 0] /\ UNCHANGED <<size, data, buf>>

\* Sequential read and write: the record at the position, which then moves on.
ReadNext(h) ==
    /\ pos[h] < size
    /\ buf' = data[pos[h]] /\ pos' = [pos EXCEPT ![h] = NextPos(@)]
    /\ UNCHANGED <<size, data>>

WriteNext(h) ==
    /\ size >= 0
    /\ Stored(pos[h], buf) /\ pos' = [pos EXCEPT ![h] = NextPos(@)]
    /\ UNCHANGED buf

\* Random read and write: any record, where the position then stays.
ReadAt(h, record) ==
    /\ size >= 0
    /\ buf' = IF record < size THEN data[record] ELSE buf
    /\ pos' = [pos EXCEPT ![h] = record % Capacity]
    /\ UNCHANGED <<size, data>>

WriteAt(h, record) ==
    /\ size >= 0
    /\ Stored(record, buf) /\ pos' = [pos EXCEPT ![h] = record % Capacity]
    /\ UNCHANGED buf

\* Close of the trimming handle: n records are left.
Cut(n) ==
    /\ size >= 0 /\ size' = n
    /\ data' = [i \in Record |-> IF i < n THEN data[i] ELSE Zero]
    /\ UNCHANGED <<pos, buf>>

Remove == size' = -1 /\ data' = Blank /\ UNCHANGED <<pos, buf>>

Fill(v) == buf' = v /\ UNCHANGED <<size, data, pos>>

Next ==
    \/ \E h \in Handle :
          \/ Create(h) \/ Reopen(h) \/ Rewind(h) \/ ReadNext(h) \/ WriteNext(h)
          \/ \E record \in Record : ReadAt(h, record) \/ WriteAt(h, record)
    \/ Trimmer \in Handle /\ \E n \in 0..MaxCut : Cut(n)
    \/ Remove
    \/ \E v \in Value : Fill(v)

Spec == Init /\ [][Next]_vars
=============================================================================
