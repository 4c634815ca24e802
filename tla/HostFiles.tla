------------------------------ MODULE HostFiles ------------------------------
(***************************************************************************)
(* The file layer below the BDOS, on the three kinds of host RunCPM is     *)
(* built for: POSIX (posix.h), Windows (abstraction_vstudio.h) and an SD   *)
(* card (abstraction_arduino.h).  disk.h calls the same _sys_ functions on *)
(* all of them.  The model makes each call on the three hosts at once,     *)
(* from the same files, so that what one host does otherwise shows.        *)
(*                                                                         *)
(* A file is the sequence of its bytes.  stdio (POSIX and Windows) may     *)
(* seek past the end of a file, and buffers what is written until the file *)
(* is closed, where nobody looks for an error; the SD library refuses such *)
(* a seek, so the Arduino layer writes the missing bytes first, and a      *)
(* write reports its own failure.                                          *)
(***************************************************************************)
EXTENDS Integers, Sequences, SequencesExt, FiniteSetsExt

CONSTANTS
    Drive, User, Name,   \* drives, user areas and file names
    InitLen,             \* lengths in bytes of the files there may be at first
    BlkSZ,               \* bytes in a record
    ExtRecords,          \* records in an extent
    MaxRecords,          \* records in the largest CP/M file
    Record,              \* the records programs name
    Width,               \* values of the unsigned type that file sizes have
    Room                 \* bytes there may be left on a disk or card

ASSUME HostAssumption ==
    /\ {BlkSZ, ExtRecords, MaxRecords, Width} \subseteq Nat \ {0}
    /\ InitLen \subseteq Nat /\ Record \subseteq Nat /\ Room \subseteq Nat
    /\ \A rec \in Record : rec * BlkSZ < Width

VARIABLES
    files,    \* of each host: the bytes of the files there are
    folders,  \* of each host: its drives, as <<d>>, and user areas, as <<d, u>>
    buffer,   \* of each host: the record at the DMA address
    result,   \* of each host: what the last call returned
    agreed    \* no call was made that hosts are known to answer differently

vars == <<files, folders, buffer, result, agreed>>

Host == {"posix", "windows", "arduino"}
Path == Drive \X User \X Name
Byte == {"zero", "eof", "data"}
Blank == [i \in 1..BlkSZ |-> "eof"]
Data  == [i \in 1..BlkSZ |-> "data"]

There(h, p) == p \in DOMAIN files[h]
HasFolder(h, p) == <<p[1], p[2]>> \in folders[h]

\* What a call leaves behind on one host, and what it returns.
Outcome(fs, b, r) == [files |-> fs, buffer |-> b, result |-> r]
Answer(h, r) == Outcome(files[h], buffer[h], r)

Zeros(n) == [i \in 1..n |-> "zero"]

\* Bytes s with record b at position pos; a gap before it reads as zeros.
Overlay(s, pos, b) ==
    LET end == pos + BlkSZ
    IN  [i \in DOMAIN s \cup 1..end |->
            IF pos < i /\ i <= end THEN b[i - pos]
            ELSE IF i <= Len(s) THEN s[i] ELSE "zero"]

-----------------------------------------------------------------------------
(* Opening, making, deleting, renaming.                                    *)

OpenOn(h, p) == Answer(h, IF There(h, p) THEN 1 ELSE 0)

SizeOn(h, p) == Answer(h, IF There(h, p) THEN Len(files[h][p]) ELSE -1)

With(fs, p, s) == [q \in DOMAIN fs \cup {p} |-> IF q = p THEN s ELSE fs[q]]
Without(fs, p) == [q \in DOMAIN fs \ {p} |-> fs[q]]

\* Make keeps a file that is there: stdio's mode "a", O_CREAT on the card.
MakeOn(h, p) ==
    IF There(h, p) THEN Answer(h, 1)
    ELSE IF HasFolder(h, p) THEN Outcome(With(files[h], p, <<>>), buffer[h], 1)
    ELSE Answer(h, 0)

DeleteOn(h, p) ==
    IF There(h, p) THEN Outcome(Without(files[h], p), buffer[h], 1) ELSE Answer(h, 0)

\* rename(2) replaces a file of the new name; Windows and the card refuse one.
Replaces(h, p, q) ==
    \/ ~There(h, q)
    \/ h = "posix"
    \/ h = "windows" /\ p = q

RenameOn(h, p, q) ==
    IF There(h, p) /\ Replaces(h, p, q)
    THEN Outcome(With(Without(files[h], p), q, files[h][p]), buffer[h], 1)
    ELSE Answer(h, 0)

-----------------------------------------------------------------------------
(* Reading.                                                                *)

\* The record of bytes s at pos, filled up with end-of-file bytes.
Fetched(s, pos) == [i \in 1..BlkSZ |-> IF pos + i <= Len(s) THEN s[pos + i] ELSE "eof"]

\* A read that found the position: a record, or 1 at the end of the file.
ReadAt(h, p, pos) ==
    IF pos < Len(files[h][p])
    THEN Outcome(files[h], Fetched(files[h][p], pos), 0) ELSE Answer(h, 1)

\* Only the card refuses a position past the end.
SeekFails(h, p, pos) == h = "arduino" /\ pos > Len(files[h][p])

ReadSeqOn(h, p, pos) ==
    IF ~There(h, p) THEN Answer(h, 16)
    ELSE IF SeekFails(h, p, pos) THEN Answer(h, 1)
    ELSE ReadAt(h, p, pos)

\* Why a random read could not seek: past the largest file, in an extent with
\* no data, or in one that has some.
SeekError(s, pos) ==
    LET extent == ExtRecords * BlkSZ
    IN  IF pos >= MaxRecords * BlkSZ THEN 6
        ELSE IF pos < extent * ((Len(s) + extent - 1) \div extent) THEN 1 ELSE 4

ReadRandOn(h, p, pos) ==
    IF ~There(h, p) THEN Answer(h, 16)
    ELSE IF SeekFails(h, p, pos) THEN Answer(h, SeekError(files[h][p], pos))
    ELSE ReadAt(h, p, pos)

-----------------------------------------------------------------------------
(* Writing.  room is what the disk still takes; kept says whether a     *)
(* buffered record that did not fit was stored after all (a gap needs no   *)
(* room on some file systems).                                             *)

Fits(s, pos, room) == pos + BlkSZ - Len(s) <= room

WriteStdio(h, p, pos, room, kept) ==
    IF ~There(h, p) THEN Answer(h, 16)
    ELSE LET s == files[h][p]
         IN  IF Fits(s, pos, room) \/ kept
             THEN Outcome([files[h] EXCEPT ![p] = Overlay(s, pos, buffer[h])], buffer[h], 0)
             ELSE Answer(h, 0)

\* The turn before which a loop ends whose condition is goesOn.
FirstTurn(goesOn) ==
    CHOOSE i \in DOMAIN goesOn : ~goesOn[i] /\ \A j \in 0..(i - 1) : goesOn[j]

\* Turns of the loop of _sys_extendfile, were its bound to count down.
TurnsDown(size, pos) ==
    FirstTurn([i \in 0..Width |-> i < (pos - (size + i)) % Width])

\* Turns of the loop of _sys_extendfile.  Its bound is read again each turn, as
\* the file grows: it is a negative number, which is a large unsigned one,
\* until the file ends at pos, where it is 0.
Turns(size, pos) ==
    FirstTurn([i \in 0..Width |-> i < ((size + i) - pos) % Width])

\* The file after _sys_extendfile, which stops at the first byte not taken.
Extended(s, pos, room) ==
    IF pos > Len(s) THEN s \o Zeros(Min({Turns(Len(s), pos), room})) ELSE s

\* A write that does not look whether the file could be extended nor whether the
\* position was found: it goes to the start of the file.
WriteCardUnchecked(h, p, pos, room) ==
    IF ~There(h, p) THEN Answer(h, 16)
    ELSE LET s  == Extended(files[h][p], pos, room)
             at == IF pos <= Len(s) THEN pos ELSE 0
         IN  Outcome([files[h] EXCEPT ![p] = Overlay(s, at, buffer[h])], buffer[h], 0)

\* Extend, then open again to write.
WriteCard(h, p, pos, room) ==
    IF ~There(h, p) THEN Answer(h, 16)
    ELSE LET s     == Extended(files[h][p], pos, room)
             longer == [files[h] EXCEPT ![p] = s]
             left  == room - (Len(s) - Len(files[h][p]))
         IN  IF Len(s) < pos THEN Outcome(longer, buffer[h], 16)
             ELSE IF ~Fits(s, pos, left) THEN Outcome(longer, buffer[h], 255)
             ELSE Outcome([longer EXCEPT ![p] = Overlay(s, pos, buffer[h])], buffer[h], 0)

\* _sys_writeseq and _sys_writerand; they differ in the code of a failed seek,
\* which no host meets, as the card's file ends at pos or later by then.
WriteOn(h, p, pos, room, kept) ==
    IF h = "arduino" THEN WriteCard(h, p, pos, room)
                     ELSE WriteStdio(h, p, pos, room, kept)

\* _Truncate: a shorter file is made longer, except on the card, where it fails.
\* The hosts return different codes for success, which no caller looks at.
Cut(s, n) == IF n <= Len(s) THEN SubSeq(s, 1, n) ELSE s \o Zeros(n - Len(s))

TruncateOn(h, p, n) ==
    LET done == There(h, p) /\ (h = "arduino" => n <= Len(files[h][p]))
    IN  Outcome(IF done THEN [files[h] EXCEPT ![p] = Cut(@, n)] ELSE files[h], buffer[h], 0)

-----------------------------------------------------------------------------
(* The calls, made on all the hosts.                                       *)

Answered(outcomes) ==
    \E out \in {outcomes} :
       /\ files'  = [h \in Host |-> out[h].files]
       /\ buffer' = [h \in Host |-> out[h].buffer]
       /\ result' = [h \in Host |-> out[h].result]

Same(f) == \A g, h \in Host : f[g] = f[h]

OpenFile(p)   == Answered([h \in Host |-> OpenOn(h, p)]) /\ UNCHANGED <<folders, agreed>>
FileSize(p)   == Answered([h \in Host |-> SizeOn(h, p)]) /\ UNCHANGED <<folders, agreed>>
MakeFile(p)   == Answered([h \in Host |-> MakeOn(h, p)]) /\ UNCHANGED <<folders, agreed>>
DeleteFile(p) == Answered([h \in Host |-> DeleteOn(h, p)]) /\ UNCHANGED <<folders, agreed>>

\* The hosts differ over a new name that is taken.
RenameFile(p, n) ==
    LET q == <<p[1], p[2], n>>
    IN  /\ Answered([h \in Host |-> RenameOn(h, p, q)])
        /\ agreed' = (agreed /\ \A h \in Host : There(h, p) => ~There(h, q))
        /\ UNCHANGED folders

ReadSeq(p, rec) ==
    /\ Answered([h \in Host |-> ReadSeqOn(h, p, rec * BlkSZ)])
    /\ UNCHANGED <<folders, agreed>>

ReadRand(p, rec) ==
    /\ Answered([h \in Host |-> ReadRandOn(h, p, rec * BlkSZ)])
    /\ UNCHANGED <<folders, agreed>>

\* The hosts differ once the disk is full.
Write(p, rec, room, kept) ==
    /\ Answered([h \in Host |-> WriteOn(h, p, rec * BlkSZ, room, kept)])
    /\ agreed' = (agreed /\ \A h \in Host : There(h, p) => Fits(files[h][p], rec * BlkSZ, room))
    /\ UNCHANGED folders

\* The hosts differ over a file that is shorter than the cut.
Truncate(p, n) ==
    /\ Answered([h \in Host |-> TruncateOn(h, p, n * BlkSZ)])
    /\ agreed' = (agreed /\ \A h \in Host : There(h, p) => n * BlkSZ <= Len(files[h][p]))
    /\ UNCHANGED folders

\* _sys_select: the folder of drive d.
SelectDisk(d) ==
    /\ result' = [h \in Host |-> IF <<d>> \in folders[h] THEN 1 ELSE 0]
    /\ UNCHANGED <<files, folders, buffer, agreed>>

\* _MakeUserDir, which returns nothing.
MakeUserDir(d, u) ==
    /\ folders' = [h \in Host |-> IF <<d>> \in folders[h] THEN folders[h] \cup {<<d, u>>}
                                                          ELSE folders[h]]
    /\ result' = [h \in Host |-> 0]
    /\ UNCHANGED <<files, buffer, agreed>>

\* _sys_makedisk: mkdir is 0 when it made the folder, where the two others are
\* not, so POSIX makes the user area of a drive that was there, and they of a
\* new one.
MakeDisk(d) ==
    LET made(h)   == <<d>> \notin folders[h]
        second(h) == IF h = "posix" THEN ~made(h) ELSE made(h)
    IN  /\ folders' = [h \in Host |-> folders[h] \cup {<<d>>}
                                        \cup (IF second(h) THEN {<<d, 0>>} ELSE {})]
        /\ result' = [h \in Host |-> IF second(h) THEN 0 ELSE 254]
        /\ agreed' = FALSE
        /\ UNCHANGED <<files, buffer>>

\* A program fills its buffer.
Fill ==
    /\ buffer' = [h \in Host |-> Data] /\ result' = [h \in Host |-> 0]
    /\ UNCHANGED <<files, folders, agreed>>

-----------------------------------------------------------------------------
\* The same folders and files on every host, some of which are not a whole
\* number of records.
InitWith(ds, areas, len) ==
    /\ files = [h \in Host |-> [p \in DOMAIN len |-> [i \in 1..len[p] |-> "data"]]]
    /\ folders = [h \in Host |-> {<<d>> : d \in ds} \cup areas]
    /\ buffer = [h \in Host |-> Blank]
    /\ result = [h \in Host |-> 0]
    /\ agreed = TRUE

Init ==
    \E ds \in SUBSET Drive : \E areas \in SUBSET (ds \X User) :
    \E there \in SUBSET {p \in Path : <<p[1], p[2]>> \in areas} :
    \E len \in [there -> InitLen] : InitWith(ds, areas, len)

-----------------------------------------------------------------------------
(* Properties.                                                             *)

Refusals == {1, 4, 6}

\* The port layer: a program sees the same files, buffer and results on every
\* host, whatever it does, but for a new name that is taken, a full disk, a cut
\* beyond the end and the making of a drive; and a read beyond the end gets
\* nothing on any host, though the reasons differ (_sys_readseq to _Truncate).
HostsAgree ==
    agreed => /\ Same(files) /\ Same(folders) /\ Same(buffer)
              /\ \/ Same(result)
                 \/ \A h \in Host : result[h] \in Refusals

\* Bytes new are bytes s, and zeros behind them.
Grown(s, new) ==
    /\ Len(s) <= Len(new)
    /\ \A i \in 1..Len(new) : new[i] = IF i <= Len(s) THEN s[i] ELSE "zero"

\* Whatever write a program makes next, on each host: if it reports success it
\* has stored its record and kept the bytes around it, unless stdio met a full
\* disk; and one that fails keeps the bytes there were, and adds only zeros
\* (_sys_writeseq, _sys_writerand, _sys_extendfile).
WritesTold ==
    \A h \in Host : \A p \in DOMAIN files[h] :
    \A rec \in Record, room \in Room, kept \in BOOLEAN :
    \A out \in {WriteOn(h, p, rec * BlkSZ, room, kept)} :
       LET s   == files[h][p]
           new == out.files[p]
           asAsked == new = Overlay(s, rec * BlkSZ, buffer[h])
       IN  IF out.result = 0 /\ (h = "arduino" \/ Fits(s, rec * BlkSZ, room))
           THEN asAsked
           ELSE \/ Grown(s, new)
                \/ h # "arduino" /\ asAsked
=============================================================================
