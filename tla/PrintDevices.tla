----------------------------- MODULE PrintDevices -----------------------------
(***************************************************************************)
(* The punch and list devices: BDOS calls 4 and 5 write to host files that *)
(* stay open from one call to the next (RunCPM/cpm.h), a delete of a file  *)
(* of their name closes them (_DeleteFile of RunCPM/disk.h), and main      *)
(* flushes them at a warm boot (RunCPM/main.c).                            *)
(*                                                                         *)
(* Directory entries and the files behind them are told apart: a stream    *)
(* stays on its file when a call renames or removes the name.              *)
(*                                                                         *)
(* Abstractions.  A device is also the name of its file.  A delete is one  *)
(* step (DirSearch has its loop).  Programs make, rename and delete files  *)
(* of the devices' names but do not write into them.                       *)
(***************************************************************************)
EXTENDS Integers, Sequences, SequencesExt, FiniteSetsExt

CONSTANTS
    Pun, Lst,    \* the devices
    OtherName,   \* other file names
    Place,       \* user areas on drives
    Home,        \* user area 0 of drive A:
    Char,        \* what programs print
    Size,        \* characters a stream's buffer holds
    File,        \* bound: numbers of the host's files
    MaxPrinted,  \* bound: characters printed in one printing
    HostMayFail  \* TRUE if the host may refuse to open a device's file

ASSUME DeviceAssumption ==
    /\ Home \in Place /\ Pun # Lst /\ {Pun, Lst} \cap OtherName = {}
    /\ Size \in Nat \ {0} /\ File \subseteq Nat \ {0} /\ MaxPrinted \in Nat
    /\ HostMayFail \in BOOLEAN

VARIABLES
    names,    \* the file behind each <<place, name>>, 0 if there is none
    data,     \* what the host has of each file
    open,     \* pun_open, lst_open
    dev,      \* pun_dev, lst_dev: "null", "live" or "closed", which dangles
    file,     \* the file of a live stream
    pos,      \* where in it the buffer goes
    buffer,   \* what the stream has not written
    crashed   \* TRUE when stdio was handed a stream it cannot take

\* What the properties compare with.
VARIABLES
    printed,  \* what was printed since the device was last opened
    overrun,  \* devices that shared their file with another
    moved,    \* TRUE once a rename took a device's name in Home
    booted    \* TRUE if nothing was printed since the last warm boot

streamVars == <<open, dev, file, pos, buffer>>
viewVars   == <<printed, overrun, moved, booted>>
vars == <<names, data, streamVars, crashed, viewVars>>

Device == {Pun, Lst}
Name == Device \cup OtherName
Dir  == Place \X Name
Live == {d \in Device : dev[d] = "live"}

\* What a file holds when s is written over it at p.
Written(old, p, s) ==
    [i \in 1..Max({Len(old), p + Len(s)}) |->
        IF i \in (p + 1)..(p + Len(s)) THEN s[i - p]
        ELSE IF i <= Len(old) THEN old[i] ELSE "gap"]

\* The data when the stream of a device is flushed, if it is one of ds.
FlushedOne(all, d, ds) ==
    IF d \in ds \cap Live
      THEN [all EXCEPT ![file[d]] = Written(@, pos[d], buffer[d])] ELSE all

\* The data when the streams of the devices ds are flushed, d before e.
Flushed(d, e, ds) == FlushedOne(FlushedOne(data, d, ds), e, ds)

\* A file no name and no stream refers to.
Unused == File \ ({names[e] : e \in Dir} \cup {file[d] : d \in Live})

Fresh  == CHOOSE f \in Unused : TRUE

\* The data the host keeps after a step: a file out of use is gone.
Kept(all) == [f \in File |-> IF f \in Unused' THEN <<>> ELSE all[f]]

-----------------------------------------------------------------------------
(* Printing.                                                               *)

\* fputc: a full buffer is written out first.
Put(d, c) ==
    IF Len(buffer[d]) < Size
      THEN buffer' = [buffer EXCEPT ![d] = Append(@, c)] /\ UNCHANGED <<data, pos>>
      ELSE /\ data' = [data EXCEPT ![file[d]] = Written(@, pos[d], buffer[d])]
           /\ pos' = [pos EXCEPT ![d] = @ + Len(buffer[d])]
           /\ buffer' = [buffer EXCEPT ![d] = <<c>>]

\* fopen with "wb": the file of the device's name is made, or cut to nothing.
OpenStream(d, c) ==
    LET f == IF names[<<Home, d>>] # 0 THEN names[<<Home, d>>] ELSE Fresh
        sharing == {e \in Live \ {d} : file[e] = f}
    IN  /\ names[<<Home, d>>] # 0 \/ Unused # {}
        /\ names' = [names EXCEPT ![<<Home, d>>] = f]
        /\ data' = [data EXCEPT ![f] = <<>>]
        /\ dev' = [dev EXCEPT ![d] = "live"] /\ file' = [file EXCEPT ![d] = f]
        /\ pos' = [pos EXCEPT ![d] = 0] /\ buffer' = [buffer EXCEPT ![d] = <<c>>]
        /\ overrun' = IF sharing = {} THEN overrun \ {d} ELSE overrun \cup sharing \cup {d}

\* The host refuses: pun_open is set, and what is printed is dropped.
OpenRefused(d) ==
    /\ HostMayFail /\ dev' = [dev EXCEPT ![d] = "null"]
    /\ UNCHANGED <<names, data, file, pos, buffer, overrun>>

\* A device that opens for each character.
OpensAlways(d) == TRUE

\* The test of pun_open and lst_open.
Opens(d) == ~open[d]

\* 4 and 5: print.  The first one opens the device.
PrintChar(d, c) ==
    /\ ~crashed /\ Len(printed[d]) < MaxPrinted
    /\ open' = [open EXCEPT ![d] = TRUE]
    /\ \/ Opens(d) /\ (OpenStream(d, c) \/ OpenRefused(d))
       \/ /\ ~Opens(d) /\ dev[d] = "null"
          /\ UNCHANGED <<names, data, dev, file, pos, buffer, overrun>>
       \/ /\ ~Opens(d) /\ dev[d] = "live" /\ Put(d, c)
          /\ UNCHANGED <<names, dev, file, overrun>>
    /\ printed' = [printed EXCEPT ![d] = Append(IF open[d] THEN @ ELSE <<>>, c)]
    /\ booted' = FALSE /\ UNCHANGED <<crashed, moved>>

-----------------------------------------------------------------------------
(* Calls on the files.                                                     *)

\* 22: make, by a program that does not print.
MakeFile(e) ==
    /\ ~crashed /\ names[e] = 0 /\ Unused # {}
    /\ names' = [names EXCEPT ![e] = Fresh]
    /\ data' = [data EXCEPT ![Fresh] = <<>>]
    /\ UNCHANGED <<streamVars, crashed, viewVars>>

\* The devices a delete would close if it looked at no name.
ClosesNone(p, ns) == {}

\* The devices whose name a delete of ns in p finds while they are open.
Closes(p, ns) == {d \in Device \cap ns : names[<<p, d>>] # 0 /\ open[d]}

\* What pun_open and lst_open would become if an fclose left them as they are.
ClosedLeftOpen(ds) == open

\* What pun_open and lst_open become when the devices ds are closed.
Closed(ds) == [d \in Device |-> open[d] /\ d \notin ds]

\* fclose of the devices ds: they are flushed, and the pointers dangle.
CloseStreams(ds) ==
    /\ open' = Closed(ds)
    /\ dev' = [d \in Device |-> IF d \in ds THEN "closed" ELSE dev[d]]
    /\ file' = [d \in Device |-> IF d \in ds THEN 0 ELSE file[d]]
    /\ pos' = [d \in Device |-> IF d \in ds THEN 0 ELSE pos[d]]
    /\ buffer' = [d \in Device |-> IF d \in ds THEN <<>> ELSE buffer[d]]
    /\ printed' = [d \in Device |-> IF d \in ds THEN <<>> ELSE printed[d]]
    /\ overrun' = overrun \ ds

\* 19: delete the names ns in p.  A device of one of the names is closed,
\* wherever p is, LST.TXT first as in the listing; fclose cannot take the NULL of
\* a device that did not open.
DeleteFile(p, ns) ==
    LET ds == Closes(p, ns)
    IN  /\ ~crashed
        /\ IF ds \subseteq Live
             THEN /\ names' = [e \in Dir |-> IF e[1] = p /\ e[2] \in ns THEN 0
                                                                        ELSE names[e]]
                  /\ CloseStreams(ds) /\ data' = Kept(Flushed(Lst, Pun, ds))
                  /\ UNCHANGED <<crashed, moved, booted>>
             ELSE crashed' = TRUE /\ UNCHANGED <<names, data, streamVars, viewVars>>

\* 23: rename, which replaces a file of the new name and leaves streams alone.
RenameFile(p, n, m) ==
    /\ ~crashed /\ n # m /\ names[<<p, n>>] # 0
    /\ names' = [names EXCEPT ![<<p, m>>] = names[<<p, n>>], ![<<p, n>>] = 0]
    /\ moved' = (moved \/ (p = Home /\ {n, m} \cap Device # {}))
    /\ UNCHANGED <<streamVars, crashed, printed, overrun, booted>> /\ data' = Kept(data)

\* A warm boot that flushes nothing.
BootFlushesNone == {}

\* The devices a warm boot flushes: those whose pointer is set.
BootFlushes == {d \in Device : dev[d] # "null"}

\* A warm boot.  To flush a pointer that dangles may do nothing, or stop the
\* emulator; what it had flushed by then no longer matters.
WarmBoot ==
    /\ ~crashed
    /\ \/ /\ data' = Flushed(Pun, Lst, BootFlushes) /\ booted' = TRUE /\ UNCHANGED crashed
          /\ pos' = [d \in Device |-> IF d \in BootFlushes \cap Live
                                       THEN pos[d] + Len(buffer[d]) ELSE pos[d]]
          /\ buffer' = [d \in Device |-> IF d \in BootFlushes \cap Live THEN <<>>
                                                                        ELSE buffer[d]]
       \/ /\ ~(BootFlushes \subseteq Live)
          /\ crashed' = TRUE /\ UNCHANGED <<data, pos, buffer, booted>>
    /\ UNCHANGED <<names, open, dev, file, printed, overrun, moved>>

-----------------------------------------------------------------------------
Init ==
    /\ names = [e \in Dir |-> 0] /\ data = [f \in File |-> <<>>]
    /\ open = [d \in Device |-> FALSE] /\ dev = [d \in Device |-> "null"]
    /\ file = [d \in Device |-> 0] /\ pos = [d \in Device |-> 0]
    /\ buffer = [d \in Device |-> <<>>] /\ crashed = FALSE
    /\ printed = [d \in Device |-> <<>>] /\ overrun = {} /\ moved = FALSE
    /\ booted = FALSE

Next ==
    \/ \E d \in Device, c \in Char : PrintChar(d, c)
    \/ \E e \in Dir : MakeFile(e)
    \/ \E p \in Place, ns \in SUBSET Name \ {{}} : DeleteFile(p, ns)
    \/ \E p \in Place, n, m \in Name : RenameFile(p, n, m)
    \/ WarmBoot

Spec == Init /\ [][Next]_vars

-----------------------------------------------------------------------------
(* Properties.                                                             *)

\* Type invariant; a device that counts as open has no dangling pointer, so
\* nothing is printed to a closed stream.
TypeOK ==
    /\ names \in [Dir -> File \cup {0}]
    /\ data \in [File -> Seq(Char \cup {"gap"})]
    /\ open \in [Device -> BOOLEAN]
    /\ dev \in [Device -> {"null", "live", "closed"}]
    /\ file \in [Device -> File \cup {0}] /\ pos \in [Device -> Nat]
    /\ \A d \in Device : Len(buffer[d]) <= Size
    /\ \A d \in Device : IF open[d] THEN dev[d] # "closed" ELSE dev[d] # "live"

\* The host's file and the buffer of a device make up what was printed since it
\* was opened, through every make, rename and delete, as long as no two devices
\* share a file (calls 4 and 5, fclose in _DeleteFile).
PrintedKept ==
    \A d \in Live \ overrun : Written(data[file[d]], pos[d], buffer[d]) = printed[d]

\* After a warm boot the host has all of it, until more is printed (main's fflush).
FlushedAtBoot ==
    booted => \A d \in Live \ overrun : data[file[d]] = printed[d]

\* An open device prints to the file of its name in user area 0 of A:, unless a
\* rename took the name: a delete of that file closes the device (_DeleteFile).
PrintsToItsName ==
    ~moved => \A d \in Live : names[<<Home, d>>] = file[d]
=============================================================================
