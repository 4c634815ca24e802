------------------------------ MODULE DirSearch ------------------------------
(***************************************************************************)
(* Directory search on one drive: BDOS calls 17 and 18, and the delete     *)
(* call 19, whose loop searches, removes and searches again (RunCPM/disk.h *)
(* and _findnext of RunCPM/abstraction_posix.h).                           *)
(*                                                                         *)
(* A search keeps its place in globals, not in the program's FCB: a folder *)
(* (the start of the global filename), a pattern, and an index into a host *)
(* listing that is made anew on every call.  Meanwhile the host may add    *)
(* and remove files, and the program may make other calls.  The delete     *)
(* loop is modelled one iteration a step, so the host can act inside it,   *)
(* and its remove may fail: the loop then meets the same match again.      *)
(*                                                                         *)
(* Abstractions.  The drive exists and is not protected (BdosDisk has the  *)
(* rest).  A host name is a number, in the order of glob's listing, and a  *)
(* pattern is the set of names it matches; host names are in upper case,   *)
(* as the readme asks.  The allocation blocks of an entry are left out.    *)
(***************************************************************************)
EXTENDS Integers, Sequences, SequencesExt, FiniteSetsExt

CONSTANTS
    User,         \* user areas
    SearchUsers,  \* those whose folder is a hexadecimal digit
    Name,         \* host names, numbered in listing order
    Folders,      \* names that are not regular files
    Pattern,      \* the patterns programs use
    SubName,      \* the names that start with $
    Length,       \* lengths of host files in bytes
    BlkSZ,        \* bytes in a record
    BlkEX,        \* records in an extent
    MaxEX,        \* largest value of ex
    extentsPerDirEntry,  \* extents a directory entry describes
    RecordSpan,   \* how many values fileRecords, a uint16, can take
    MaxChanges    \* bound: what the host does while the emulator runs

ASSUME SearchAssumption ==
    /\ IsFiniteSet(User) /\ IsFiniteSet(Name)
    /\ User \subseteq Nat /\ SearchUsers \subseteq User /\ 0 \in User
    /\ Name \subseteq Nat /\ Folders \subseteq Name /\ SubName \subseteq Name
    /\ Pattern \subseteq (SUBSET Name) \ {{}}
    /\ Length \subseteq Nat
    /\ {BlkSZ, BlkEX, extentsPerDirEntry, RecordSpan} \subseteq Nat \ {0}
    /\ MaxEX \in Nat /\ MaxChanges \in Nat

VARIABLES
    files,        \* length of each <<user, name>> on the host, -1 if there is none
    locked,       \* files whose remove the host refuses
    userCode,     \* current user area
    findUser,     \* user area in the global filename, where _findnext lists
    pattern,      \* file matching pattern
    allUsers,     \* TRUE when dr was '?' in search first
    allExtents,   \* TRUE when ex was '?' in search first
    dirPos,       \* host entries the search has gone past
    foundId,      \* the file found last: findNextDirName, and tmpFCB
    rest,         \* fileRecords, fileExtents and fileExtentsUsed
    entry,        \* the directory entry written last
    hl,           \* result of the last call
    deleting,     \* pattern of the delete in progress, {} if there is none
    deleted       \* result that delete will return

\* What the properties compare with: the program's view of its search.
VARIABLES
    phase,        \* "none", "on" or "over": the program is searching, undisturbed
    heard,        \* what the search returned so far, as <<file, entry>>
    stable,       \* files there since the search or delete began
    gone, come,   \* host removals and additions since then
    changes       \* all host changes

placeVars  == <<findUser, pattern, allUsers, allExtents>>
deleteVars == <<deleting, deleted>>
viewVars   == <<phase, heard, stable, gone, come>>
vars == <<files, locked, userCode, placeVars, dirPos, foundId, rest, entry, hl, deleteVars,
          viewVars, changes>>

Id       == User \X Name
Nothing  == [records |-> 0, extents |-> 0, used |-> 0]
NoEntry  == [user |-> 0, ex |-> 0, s2 |-> 0, rc |-> 0]
In(fs)   == {id \in Id : fs[id] >= 0}

-----------------------------------------------------------------------------
(* Listing and matching.                                                   *)

Before(a, b) == a[1] < b[1] \/ (a[1] = b[1] /\ a[2] < b[2])

\* glob of the folder of user area u, or of them all, and the place of an entry
\* in what it lists.
Listing(fs, all, u) == {id \in In(fs) : all \/ id[1] = u}
Place(list, id) == Cardinality({x \in list : Before(x, id)}) + 1

\* What _findnext returns of a listing: regular files in hexadecimal folders.
Listed(id, p) == id[2] \in p \ Folders /\ id[1] \in SearchUsers

\* The entries of a listing after the first pos that a search would return.
Hits(list, pos, p) == {id \in list : Listed(id, p) /\ Place(list, id) > pos}
First(hits) == CHOOSE id \in hits : \A x \in hits : ~Before(x, id)

\* A scan that counts its hit twice.
ScanSkips(fs, pos, p, all, u) ==
    LET list == Listing(fs, all, u)
        hits == Hits(list, pos, p)
    IN  IF hits = {} THEN [hit |-> FALSE, pos |-> Max({pos, Cardinality(list)})]
        ELSE [hit |-> TRUE, pos |-> Place(list, First(hits)) + 1, id |-> First(hits)]

\* A scan that does not count its hit.
ScanStays(fs, pos, p, all, u) ==
    LET list == Listing(fs, all, u)
        hits == Hits(list, pos, p)
    IN  IF hits = {} THEN [hit |-> FALSE, pos |-> Max({pos, Cardinality(list)})]
        ELSE [hit |-> TRUE, pos |-> Place(list, First(hits)) - 1, id |-> First(hits)]

\* The loop of _findnext over the listing, from entry pos on.
Scan(fs, pos, p, all, u) ==
    LET list == Listing(fs, all, u)
        hits == Hits(list, pos, p)
    IN  IF hits = {} THEN [hit |-> FALSE, pos |-> Max({pos, Cardinality(list)})]
        ELSE [hit |-> TRUE, pos |-> Place(list, First(hits)), id |-> First(hits)]

-----------------------------------------------------------------------------
(* Directory entries.                                                      *)

CeilDiv(a, b) == (a + b - 1) \div b

\* The counters for a file of n bytes, before its first entry.
Counters(n) ==
    LET records == CeilDiv(n, BlkSZ) % RecordSpan
    IN  [records |-> records, extents |-> CeilDiv(records, BlkEX), used |-> 0]

\* An extent number that is not split into ex and s2.
ExtentFieldsFlat(x) == [ex |-> x, s2 |-> 0]

\* An extent number, in the fields of an entry.
ExtentFields(x) == [ex |-> x % (MaxEX + 1), s2 |-> x \div (MaxEX + 1)]

\* _mockupDirEntry: the entry for counters r, with user code u.
DirEntry(r, u) ==
    LET last   == r.extents <= extentsPerDirEntry
        count  == IF last THEN r.extents ELSE extentsPerDirEntry
        fields == ExtentFields(IF count = 0 THEN 0 ELSE count - 1 + r.used)
    IN  [user |-> u, ex |-> fields.ex, s2 |-> fields.s2,
         rc   |-> IF count = 0 THEN 0
                  ELSE IF last THEN r.records - BlkEX * (count - 1) ELSE BlkEX]

\* Counters that forget how many extents were used.
RestForgetful(r) ==
    IF r.extents <= extentsPerDirEntry THEN Nothing
    ELSE [records |-> r.records - BlkEX * extentsPerDirEntry,
          extents |-> r.extents - extentsPerDirEntry,
          used    |-> extentsPerDirEntry]

\* The counters for the next entry of the file.
Rest(r) ==
    IF r.extents <= extentsPerDirEntry THEN Nothing
    ELSE [records |-> r.records - BlkEX * extentsPerDirEntry,
          extents |-> r.extents - extentsPerDirEntry,
          used    |-> r.used + extentsPerDirEntry]

-----------------------------------------------------------------------------
(* Searching.                                                              *)

Idle == deleting = {}

\* _findnext with isdir, from entry pos on; none is what the counters hold
\* if nothing is found.
FindFile(pos, none) ==
    LET scan == Scan(files, pos, pattern', allUsers', findUser')
    IN  /\ dirPos' = scan.pos
        /\ IF scan.hit
             THEN LET r == Counters(files[scan.id])
                  IN  /\ hl' = 0 /\ foundId' = scan.id /\ rest' = Rest(r)
                      /\ entry' = DirEntry(r, IF allUsers' THEN scan.id[1] ELSE userCode)
             ELSE hl' = 255 /\ rest' = none /\ UNCHANGED <<foundId, entry>>

Hear(old) ==
    /\ heard' = IF hl' = 0 THEN Append(old, <<foundId', entry'>>) ELSE old
    /\ phase' = IF hl' = 0 THEN "on" ELSE "over"

\* 17: search for first.
SearchFirst(p, all, exts) ==
    /\ Idle
    /\ findUser' = userCode /\ allUsers' = all /\ allExtents' = exts
    /\ pattern' = IF all THEN Name ELSE p
    /\ FindFile(0, Nothing)
    /\ Hear(<<>>) /\ stable' = In(files) /\ gone' = 0 /\ come' = 0
    /\ UNCHANGED <<files, locked, userCode, deleteVars, changes>>

\* 18: search for next, another entry of the same file...
NextExtent ==
    /\ allExtents /\ rest.records > 0
    /\ hl' = 0 /\ entry' = DirEntry(rest, IF allUsers THEN foundId[1] ELSE userCode)
    /\ rest' = Rest(rest)
    /\ UNCHANGED <<dirPos, foundId>>

\* ... or the first entry of the next file.
NextFile ==
    /\ ~(allExtents /\ rest.records > 0)
    /\ FindFile(dirPos, rest)

SearchNext ==
    /\ Idle /\ UNCHANGED placeVars
    /\ NextExtent \/ NextFile
    /\ IF phase = "on" THEN Hear(heard) ELSE UNCHANGED <<phase, heard>>
    /\ UNCHANGED <<files, locked, userCode, deleteVars, stable, gone, come, changes>>

-----------------------------------------------------------------------------
(* Calls that search on the way.                                           *)

\* _SearchFirst without an entry, of pattern p in folder listing fs.
FindOnly(fs, p, all, exts) ==
    LET scan == Scan(fs, 0, pattern', all, userCode)
    IN  /\ findUser' = userCode /\ pattern' = IF all THEN Name ELSE p
        /\ allUsers' = all /\ allExtents' = exts
        /\ dirPos' = scan.pos /\ rest' = Nothing
        /\ foundId' = IF scan.hit THEN scan.id ELSE foundId

\* 19: delete, up to its first search.
DeleteFirst(p, all, exts) ==
    /\ Idle /\ FindOnly(files, p, all, exts)
    /\ IF Scan(files, 0, pattern', all, userCode).hit
         THEN deleting' = pattern' /\ deleted' = 255 /\ UNCHANGED hl
         ELSE hl' = 255 /\ UNCHANGED deleteVars
    /\ phase' = "none" /\ heard' = <<>>
    /\ stable' = In(files) /\ gone' = 0 /\ come' = 0
    /\ UNCHANGED <<files, locked, userCode, entry, changes>>

\* What an iteration of delete removes: the name in tmpFCB, in the current
\* user area, wherever the search found it.
Victim == <<userCode, foundId[2]>>

\* _sys_deletefile of it.
Removes == files[Victim] >= 0 /\ Victim \notin locked

\* The search of an iteration, were it to go on instead of to start anew.
FindAgainOnwards(fs) ==
    LET scan == Scan(fs, dirPos, pattern, allUsers, userCode)
    IN  /\ dirPos' = scan.pos /\ rest' = Nothing
        /\ foundId' = IF scan.hit THEN scan.id ELSE foundId
        /\ deleting' = IF scan.hit THEN deleting ELSE {}
        /\ UNCHANGED placeVars

\* The search of an iteration, were it to leave tmpFCB as it was.
FindAgainStale(fs) ==
    LET scan == Scan(fs, 0, pattern, allUsers, userCode)
    IN  /\ dirPos' = scan.pos /\ rest' = Nothing
        /\ deleting' = IF scan.hit THEN deleting ELSE {}
        /\ UNCHANGED <<placeVars, foundId>>

\* The search of an iteration, and whether the loop goes on.
FindAgain(fs) ==
    /\ FindOnly(fs, deleting, allUsers, allExtents)
    /\ deleting' = IF Scan(fs, 0, deleting, allUsers, userCode).hit THEN deleting ELSE {}

\* An iteration: remove what was found, and search again from the start,
\* whether or not the remove succeeded.
DeleteNext ==
    /\ ~Idle
    /\ files' = IF Removes THEN [files EXCEPT ![Victim] = -1] ELSE files
    /\ deleted' = IF Removes THEN 0 ELSE deleted
    /\ FindAgain(files')
    /\ hl' = IF Idle' THEN deleted' ELSE hl
    /\ UNCHANGED <<locked, userCode, entry, viewVars, changes>>

\* 13: reset the disk system, which looks for a submit file.
ResetDisks ==
    /\ Idle /\ FindOnly(files, SubName, FALSE, FALSE)
    /\ hl' = IF Scan(files, 0, SubName, FALSE, userCode).hit THEN 255 ELSE 0
    /\ phase' = "none" /\ heard' = <<>>
    /\ UNCHANGED <<files, locked, userCode, entry, deleteVars, stable, gone, come, changes>>

-----------------------------------------------------------------------------
(* Calls that use the globals of the search, or change what it sees.       *)

\* Any other call on a file of the current user area writes the global
\* filename: the search goes on in another folder if it was in another.
OtherCall ==
    /\ Idle /\ findUser' = userCode /\ hl' = 0
    /\ phase' = IF allUsers \/ findUser = userCode THEN phase ELSE "none"
    /\ heard' = IF phase' = "none" THEN <<>> ELSE heard
    /\ UNCHANGED <<files, locked, userCode, pattern, allUsers, allExtents, dirPos, foundId,
                   rest, entry, deleteVars, stable, gone, come, changes>>

\* 32: set the user area.
SetUser(u) ==
    /\ Idle /\ userCode' = u /\ hl' = 0
    /\ UNCHANGED <<files, locked, placeVars, dirPos, foundId, rest, entry, deleteVars,
                   viewVars, changes>>

\* The host's user adds or removes a file, between calls or inside a delete.
HostAdd(id, n) ==
    /\ changes < MaxChanges /\ changes' = changes + 1
    /\ files[id] < 0 /\ files' = [files EXCEPT ![id] = n]
    /\ come' = come + 1
    /\ UNCHANGED <<locked, userCode, placeVars, dirPos, foundId, rest, entry, hl, deleteVars,
                   phase, heard, stable, gone>>

HostRemove(id) ==
    /\ changes < MaxChanges /\ changes' = changes + 1
    /\ files[id] >= 0 /\ files' = [files EXCEPT ![id] = -1]
    /\ gone' = gone + 1 /\ stable' = stable \ {id}
    /\ UNCHANGED <<locked, userCode, placeVars, dirPos, foundId, rest, entry, hl, deleteVars,
                   phase, heard, come>>

\* The host takes away the right to remove a file, or gives it back.
HostLock(id) ==
    /\ changes < MaxChanges /\ changes' = changes + 1
    /\ locked' = IF id \in locked THEN locked \ {id} ELSE locked \cup {id}
    /\ UNCHANGED <<files, userCode, placeVars, dirPos, foundId, rest, entry, hl, deleteVars,
                   viewVars>>

-----------------------------------------------------------------------------
Init ==
    /\ files \in [Id -> {-1} \cup Length] /\ locked = {}
    /\ userCode = 0 /\ findUser = 0 /\ pattern = {} /\ allUsers = FALSE
    /\ allExtents = FALSE /\ dirPos = 0 /\ foundId \in Id
    /\ rest = Nothing /\ entry = NoEntry /\ hl = 0
    /\ deleting = {} /\ deleted = 255
    /\ phase = "none" /\ heard = <<>> /\ stable = {} /\ gone = 0 /\ come = 0
    /\ changes = 0

Next ==
    \/ \E p \in Pattern, all, exts \in BOOLEAN : SearchFirst(p, all, exts)
    \/ SearchNext
    \/ \E p \in Pattern, all, exts \in BOOLEAN : DeleteFirst(p, all, exts)
    \/ DeleteNext
    \/ ResetDisks \/ OtherCall
    \/ \E u \in User : SetUser(u)
    \/ \E id \in Id : HostRemove(id) \/ HostLock(id) \/ \E n \in Length : HostAdd(id, n)

\* The emulator goes on with a delete it has begun; nothing else is owed.
Spec == Init /\ [][Next]_vars /\ WF_vars(DeleteNext)

-----------------------------------------------------------------------------
(* Properties.                                                             *)

\* The extent number an entry describes, and the files a search should return.
EntryExtent(e) == e.s2 * (MaxEX + 1) + e.ex
Wanted == {id \in stable : Listed(id, pattern) /\ (allUsers \/ id[1] = findUser)}
HeardIds == {heard[i][1] : i \in DOMAIN heard}
FirstEntries == {i \in DOMAIN heard : EntryExtent(heard[i][2]) < extentsPerDirEntry}

\* The entries CP/M has for a file of n bytes: each but the last is full and
\* names its last extent; the last names the last extent and its records.
CpmEntries(n) ==
    LET records == CeilDiv(n, BlkSZ)
        extents == CeilDiv(records, BlkEX)
        count   == Max({1, CeilDiv(extents, extentsPerDirEntry)})
    IN  [i \in 1..count |->
           IF i < count THEN [extent |-> extentsPerDirEntry * i - 1, rc |-> BlkEX]
           ELSE IF extents = 0 THEN [extent |-> 0, rc |-> 0]
           ELSE [extent |-> extents - 1, rc |-> records - BlkEX * (extents - 1)]]

\* Which of the entries returned for its file the i-th one is, and their number.
Nth(h, i) == Cardinality({j \in 1..i : h[j][1] = h[i][1]})
EntriesOf(h, id) == Cardinality({i \in DOMAIN h : h[i][1] = id})

\* Type invariant.
TypeOK ==
    /\ files \in [Id -> {-1} \cup Length] /\ locked \subseteq Id /\ userCode \in User
    /\ findUser \in User /\ pattern \subseteq Name
    /\ allUsers \in BOOLEAN /\ allExtents \in BOOLEAN
    /\ dirPos \in Nat /\ foundId \in Id
    /\ rest \in [records : 0..(RecordSpan - 1), extents : Nat, used : Nat]
    /\ entry \in [user : User, ex : 0..MaxEX, s2 : Nat, rc : 0..BlkEX]
    /\ hl \in {0, 255} /\ deleting \subseteq Name /\ deleted \in {0, 255}

\* A search that ran to its end missed no more of the files that were there all
\* along than the host removed meanwhile (_findnext's index into a new listing);
\* with none removed it missed none.
MissesBounded ==
    phase = "over" => Cardinality(Wanted \ HeardIds) <= gone

\* It returned no file twice, but for one repeat for each file the host added.
RepeatsBounded ==
    phase # "none" => Cardinality(FirstEntries) - Cardinality(HeardIds) <= come

\* The entries returned for a file that fileRecords can count are those CP/M has:
\* the first one, or all of them in order if all extents were asked for, each with
\* the file's own user area if all users were (_mockupDirEntry).
EntriesRight ==
    phase # "none" /\ gone = 0 /\ come = 0 =>
        \A i \in DOMAIN heard :
            LET id    == heard[i][1]
                e     == heard[i][2]
                right == CpmEntries(files[id])
            IN  /\ allUsers => e.user = id[1]
                /\ CeilDiv(files[id], BlkSZ) < RecordSpan =>
                      /\ Nth(heard, i) \in DOMAIN right
                      /\ [extent |-> EntryExtent(e), rc |-> e.rc] = right[Nth(heard, i)]
                      /\ IF allExtents
                           THEN phase = "over" \/ Last(heard)[1] # id =>
                                    EntriesOf(heard, id) = Len(right)
                           ELSE EntriesOf(heard, id) = 1

\* What the delete in progress is to remove, and those of it that its removes do
\* not take away: the host refuses, or the file lies in another user area, which
\* a delete with '?' for a drive searches too.
Matching(id) == Listed(id, deleting) /\ (allUsers \/ id[1] = userCode)
Unremovable == {id \in In(files) : Matching(id) /\ (id \in locked \/ id[1] # userCode)}

\* A delete does not return while a file that matches is there, removable or not.
\* If the host neither adds nor removes a file, it removes every file that matches,
\* and no other, and reports success, also when removes failed on the way: the one
\* step that BdosDisk takes for it (_DeleteFile).
DeleteExact ==
    [][~Idle /\ Idle' =>
          /\ \A id \in In(files') : ~Matching(id)
          /\ gone = 0 /\ come = 0 =>
                /\ In(files') = {id \in stable : ~Matching(id)}
                /\ hl' = 0]_vars

\* A delete returns, or comes to a file that matches and that it cannot remove: the
\* one thing that keeps its loop going, and, by DeleteExact, for as long as that
\* file is there (_DeleteFile looks at the result of a remove for what it reports,
\* not for whether to go on).
DeleteReturns == ~Idle ~> Idle \/ Unremovable # {}
=============================================================================
