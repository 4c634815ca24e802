------------------------------ MODULE HostSearch ------------------------------
(***************************************************************************)
(* Directory search on the three kinds of host, among the file calls of    *)
(* HostFiles.  DirSearch has the POSIX search in detail, with files that   *)
(* come and go; here no file does while a search is on, and the question   *)
(* is whether the three hosts return the same files.                       *)
(*                                                                         *)
(* A search keeps its place in globals: on POSIX an index into a listing   *)
(* made anew from the folder in the global filename; on Windows a handle,  *)
(* whose folder and pattern are fixed, and for all users the filename,     *)
(* which gives the next folder; on the card open folders.  Every file call *)
(* overwrites the filename.                                                *)
(*                                                                         *)
(* Abstractions: a drive's user areas are numbers, of which SearchUsers    *)
(* have a hexadecimal digit for a folder name.  A pattern is a set of      *)
(* names.  On Windows the pattern of all names also matches the entries    *)
(* "." and ".." of a folder, so an area that is there is found.            *)
(***************************************************************************)
EXTENDS HostFiles

CONSTANTS
    SearchUsers,   \* user areas whose folder is a hexadecimal digit
    Pattern        \* sets of names that programs look for

ASSUME SearchAssumption ==
    /\ IsFiniteSet(Drive) /\ IsFiniteSet(User) /\ IsFiniteSet(Name)
    /\ User \subseteq Nat /\ Name \subseteq Nat /\ 0 \in User
    /\ SearchUsers \subseteq User /\ Pattern \subseteq SUBSET Name

VARIABLES
    userCode,      \* current user area
    filename,      \* of each host: drive, user area and names in the global filename
    allUsers,      \* the search is for all user areas
    place,         \* of each host: where its search is
    phase          \* of each host: "on", "over" once nothing was found, or "none",
                   \* also when a file call got in the way of the search

\* What the properties compare with.
VARIABLES
    began,         \* where the search began
    heard          \* of each host: files and user codes returned since then

searchVars == <<filename, allUsers, place, phase, began, heard>>
allVars == <<vars, userCode, searchVars>>

Target(d, u, ns) == [drive |-> d, user |-> u, names |-> ns]
Nowhere == Target(0, 0, {})

\* The files of a drive and a set of user areas, in the order of area and name.
InAreas(d, us) == {p \in DOMAIN files["posix"] : p[1] = d /\ p[2] \in us}
Order(p, q) == p[2] < q[2] \/ (p[2] = q[2] /\ p[3] < q[3])
Rank(s, p) == Cardinality({q \in s : Order(q, p)}) + 1
InOrder(s) == [i \in 1..Cardinality(s) |-> CHOOSE p \in s : Rank(s, p) = i]
Listing(d, us) == InOrder(InAreas(d, us))

\* The card lists a folder, and the folders of a drive, in an order of its own.
SlotListing(d, us) == Reverse(Listing(d, us))

\* The first entry of a list after pos that is in set s, 0 if there is none.
NextIn(list, pos, s) ==
    LET hits == {i \in (pos + 1)..Len(list) : list[i] \in s}
    IN  IF hits = {} THEN 0 ELSE Min(hits)

\* What a search step leaves, and the file and user code it found.
Found(at, t, p, code) == [place |-> at, target |-> t, hits |-> <<<<p, code>>>>]
Missed(at, t) == [place |-> at, target |-> t, hits |-> <<>>]

-----------------------------------------------------------------------------
(* POSIX: _findnext of abstraction_posix.h, from place [pos, names].       *)

PosixStep(at, t, all, code) ==
    LET list == Listing(t.drive, IF all THEN User ELSE {t.user})
        i    == NextIn(list, at.pos,
                       {p \in Path : p[3] \in at.names /\ p[2] \in SearchUsers})
    IN  IF i = 0 THEN Missed([at EXCEPT !.pos = Max({at.pos, Len(list)})], t)
        ELSE Found([at EXCEPT !.pos = i], t, list[i], IF all THEN list[i][2] ELSE code)

PosixFirst(t, all, code) ==
    PosixStep([pos |-> 0, names |-> IF all THEN Name ELSE t.names], t, all, code)

-----------------------------------------------------------------------------
(* The card: _findnext and _findnextallusers of abstraction_arduino.h, from *)
(* place [list, pos, names].  The folders a search goes through are open,   *)
(* so the filename has no part in it.                                       *)

CardStep(at, t, all, code) ==
    LET i == NextIn(at.list, at.pos, {p \in Path : p[3] \in at.names})
    IN  IF i = 0 THEN Missed([at EXCEPT !.pos = Len(at.list)], t)
        ELSE Found([at EXCEPT !.pos = i], t, at.list[i],
                   IF all THEN at.list[i][2] ELSE code)

\* A search of all users that keeps to the user area of its start.
CardFirstHere(t, all, code) ==
    CardStep([list  |-> SlotListing(t.drive, {t.user}), pos |-> 0,
              names |-> IF all THEN Name ELSE t.names], t, all, code)

CardFirst(t, all, code) ==
    CardStep([list  |-> SlotListing(t.drive, IF all THEN SearchUsers ELSE {t.user}),
              pos   |-> 0,
              names |-> IF all THEN Name ELSE t.names], t, all, code)

-----------------------------------------------------------------------------
(* Windows: _findnext of abstraction_vstudio.h, from place [dirPos, handle]. *)
(* A handle is a list and a position in it; it is shut when nothing matches *)
(* or the search is over.                                                   *)

Shut == [open |-> FALSE, list |-> <<>>, pos |-> 0]

\* FindFirstFile; an area that is there always has "." to match all names.
FindFirstFile(t) ==
    LET list == InOrder({p \in InAreas(t.drive, {t.user}) : p[3] \in t.names})
        some == list # <<>> \/ (t.names = Name /\ <<t.drive, t.user>> \in folders["windows"])
    IN  IF some THEN [open |-> TRUE, list |-> list, pos |-> 0] ELSE Shut

\* NextUserArea as far as it goes from area u: the next areas that are there
\* but have no file that matches are passed over, one that is not ends it.
Gap(t, u) ==
    CHOOSE v \in (u + 1)..(Max(User) + 1) :
       /\ FindFirstFile([t EXCEPT !.user = v]).list # <<>>
             \/ ~FindFirstFile([t EXCEPT !.user = v]).open
       /\ \A w \in (u + 1)..(v - 1) :
             LET h == FindFirstFile([t EXCEPT !.user = w]) IN h.open /\ h.list = <<>>

\* The file after a handle's position, in this area or, for all users, in a
\* later one.  The user code of the entry is the current user area, or for all
\* users currFindUser, which Windows never sets.
WindowsStep(at, t, all, code) ==
    LET h == at.handle
        c == IF all THEN 0 ELSE code
        later == [t EXCEPT !.user = Gap(t, t.user)]
        g == FindFirstFile(later)
    IN  IF h.open /\ h.pos < Len(h.list)
        THEN Found([dirPos |-> at.dirPos + 1, handle |-> [h EXCEPT !.pos = @ + 1]], t,
                   h.list[h.pos + 1], c)
        ELSE IF ~all THEN Missed([at EXCEPT !.handle = Shut], t)
        ELSE IF ~g.open THEN Missed([at EXCEPT !.handle = Shut], later)
        ELSE Found([dirPos |-> at.dirPos + 1, handle |-> [g EXCEPT !.pos = 1]], later,
                   g.list[1], c)

\* The first step; only an open handle leads on to another area.
WindowsFirst(t, all, code) ==
    LET h == FindFirstFile(t)
    IN  IF h.open THEN WindowsStep([dirPos |-> 0, handle |-> h], t, all, code)
                  ELSE Missed([dirPos |-> 0, handle |-> Shut], t)

-----------------------------------------------------------------------------
(* The calls.                                                              *)

\* The places and files of a step on hosts hs; its result, 0 or 255, is in the
\* phase.
Searched(hs, step, old) ==
    /\ place' = [h \in Host |-> IF h \in hs THEN step[h].place ELSE place[h]]
    /\ filename' = [h \in Host |-> IF h \in hs THEN step[h].target ELSE filename[h]]
    /\ heard' = [h \in Host |-> IF h \in hs THEN old[h] \o step[h].hits ELSE heard[h]]
    /\ phase' = [h \in Host |-> IF h \notin hs THEN phase[h]
                                ELSE IF step[h].hits = <<>> THEN "over" ELSE "on"]

\* 17: search for first.  Windows starts a search for all users at area 0.
SearchFirst(d, ns, all) ==
    LET t == Target(d, userCode, IF all THEN Name ELSE ns)
        w == IF all THEN [t EXCEPT !.user = 0] ELSE t
    IN  /\ <<d>> \in folders["posix"]
        /\ Searched(Host, [h \in Host |->
                       CASE h = "posix"   -> PosixFirst(t, all, userCode)
                         [] h = "windows" -> WindowsFirst(w, all, userCode)
                         [] h = "arduino" -> CardFirst(t, all, userCode)],
                    [h \in Host |-> <<>>])
        /\ allUsers' = all /\ began' = t
        /\ UNCHANGED <<vars, userCode>>

\* 18: search for next, on the hosts that have not said that there is none.
SearchNext ==
    LET on == {h \in Host : phase[h] = "on"}
    IN  /\ on # {}
        /\ Searched(on, [h \in on |->
               CASE h = "posix"   -> PosixStep(place[h], filename[h], allUsers, userCode)
                 [] h = "windows" -> WindowsStep(place[h], filename[h], allUsers, userCode)
                 [] h = "arduino" -> CardStep(place[h], filename[h], allUsers, userCode)],
               heard)
        /\ UNCHANGED <<vars, userCode, allUsers, began>>

\* What a search returns is no longer followed on hosts hs.
Dropped(hs) ==
    /\ phase' = [h \in Host |-> IF h \in hs THEN "none" ELSE phase[h]]
    /\ place' = [h \in Host |-> IF h \in hs THEN Shut ELSE place[h]]
    /\ heard' = [h \in Host |-> IF h \in hs THEN <<>> ELSE heard[h]]
    /\ UNCHANGED <<began, allUsers>>

\* 32: set user, which makes the folder.
SetUser(d, u) ==
    /\ MakeUserDir(d, u) /\ userCode' = u
    /\ UNCHANGED filename
    /\ IF folders' = folders THEN UNCHANGED <<allUsers, place, phase, began, heard>>
                              ELSE Dropped(Host)

\* A file call of path p, in the current user area, writes the filename, which a
\* search reads again: on POSIX the drive and, within an area, the user area; on
\* Windows all of it, when it goes on to another area.
Disturbs(h, p) ==
    /\ phase[h] # "none"
    /\ \/ h = "posix" /\ (p[1] # began.drive \/ (~allUsers /\ p[2] # began.user))
       \/ h = "windows" /\ allUsers

CallOn(p) ==
    \/ OpenFile(p) \/ FileSize(p) \/ MakeFile(p)
    \/ \E n \in Name : RenameFile(p, n)
    \/ \E rec \in Record :
          \/ ReadSeq(p, rec) \/ ReadRand(p, rec) \/ Truncate(p, rec)
          \/ \E room \in Room, kept \in BOOLEAN : Write(p, rec, room, kept)

FileCall(p) ==
    /\ p[2] = userCode /\ CallOn(p)
    /\ filename' = [h \in Host |-> Target(p[1], userCode, {p[3]})]
    /\ Dropped(IF DOMAIN files'["posix"] = DOMAIN files["posix"]
               THEN {h \in Host : Disturbs(h, p)} ELSE Host)
    /\ UNCHANGED userCode

\* 19: delete, which searches on its own.
Delete(p) ==
    /\ p[2] = userCode /\ DeleteFile(p) /\ Dropped(Host)
    /\ filename' = [h \in Host |-> Target(p[1], userCode, {p[3]})]
    /\ UNCHANGED userCode

\* Calls that name no file.
OtherCall ==
    /\ Fill \/ \E d \in Drive : SelectDisk(d) \/ MakeDisk(d)
    /\ UNCHANGED <<userCode, searchVars>>

-----------------------------------------------------------------------------
SearchInit ==
    /\ Init
    /\ userCode = 0 /\ allUsers = FALSE /\ began = Nowhere
    /\ filename = [h \in Host |-> Nowhere] /\ place = [h \in Host |-> Shut]
    /\ phase = [h \in Host |-> "none"] /\ heard = [h \in Host |-> <<>>]

\* The model ends where the hosts went their own ways.
SearchCall ==
    \/ \E p \in Path : FileCall(p) \/ Delete(p)
    \/ OtherCall
    \/ \E d \in Drive, ns \in Pattern, all \in BOOLEAN : SearchFirst(d, ns, all)
    \/ SearchNext
    \/ \E d \in Drive, u \in User : SetUser(d, u)

SearchSpec == SearchInit /\ [][agreed /\ SearchCall]_allVars

-----------------------------------------------------------------------------
(* Properties.                                                             *)

Ids(h) == {heard[h][i][1] : i \in DOMAIN heard[h]}

\* The files that a search asks for on host h: those of its drive, areas and
\* names.  On POSIX an area has to have a hexadecimal digit, and so on the card
\* in a search for all users.
WantedOn(h) ==
    LET areas == IF allUsers THEN (IF h = "windows" THEN User ELSE SearchUsers)
                 ELSE IF h = "posix" THEN {began.user} \cap SearchUsers ELSE {began.user}
    IN  {p \in InAreas(began.drive, areas) : p[3] \in began.names}

\* Some user area before that of file p is not there.
BehindGap(p) == \E v \in 0..(p[2] - 1) : <<began.drive, v>> \notin folders["windows"]

\* However file calls come in between, short of those that have the search
\* dropped (Disturbs), a search returns files that it asks for, none twice, and
\* let go to its end all of them, but on Windows in a search for all users those
\* behind a missing area; and on POSIX and the card, where a search for all
\* users sets the user code, each comes with its own area (_findfirst to
\* _findnextallusers of the three hosts).  What Windows does here against the
\* code's own comments is the matter of HostClaims.
SearchesExact ==
    \A h \in Host : phase[h] # "none" =>
       /\ Cardinality(Ids(h)) = Len(heard[h])
       /\ Ids(h) \subseteq WantedOn(h)
       /\ phase[h] = "over" => \A p \in WantedOn(h) \ Ids(h) :
             h = "windows" /\ allUsers /\ BehindGap(p)
       /\ allUsers /\ h # "windows" => \A i \in DOMAIN heard[h] :
             heard[h][i][2] = heard[h][i][1][2]
=============================================================================
