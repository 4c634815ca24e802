--------------------------- MODULE DirSearchProofs ---------------------------
(***************************************************************************)
(* Theorems about DirSearch, for every set of files and patterns, every    *)
(* size of a record, an extent and an entry, and however often the host    *)
(* adds and removes files.                                                 *)
(***************************************************************************)
EXTENDS DirSearch, FiniteSetTheorems, WellFoundedInduction, TLAPS

-----------------------------------------------------------------------------
(* Numbers and finite sets.                                                *)

LEMMA Division ==
    ASSUME NEW a \in Int, NEW b \in Nat \ {0}
    PROVE  /\ a \div b \in Int
           /\ a % b \in 0..(b - 1)
           /\ a = b * (a \div b) + (a % b)
           /\ a >= 0 => a \div b >= 0
  OBVIOUS

LEMMA DivisionUnique ==
    ASSUME NEW a \in Int, NEW b \in Nat \ {0}, NEW q \in Int, NEW r \in 0..(b - 1),
           a = b * q + r
    PROVE  a \div b = q /\ a % b = r
  OBVIOUS

LEMMA MaxOfTwo ==
    ASSUME NEW a \in Int, NEW b \in Int
    PROVE  Max({a, b}) = IF a >= b THEN a ELSE b
  <1>1. \E x \in {a, b} : \A y \in {a, b} : x >= y
    OBVIOUS
  <1> QED
    BY <1>1 DEF Max

\* A set of numbers has a least one.
LEMMA LeastNumber ==
    ASSUME NEW S \in SUBSET Nat, S # {}
    PROVE  \E n \in S : \A m \in S : n <= m
  <1> DEFINE Less == {ss \in Nat \X Nat : ss[1] < ss[2]}
  <1>1. OpToRel(<, Nat) = Less
    BY Zenon DEF OpToRel
  <1>2. IsWellFoundedOn(Less, Nat)
    BY <1>1, NatLessThanWellFounded, Zenon
  <1> HIDE DEF Less
  <1>3. PICK n \in S : \A m \in S : <<m, n>> \notin Less
    BY <1>2, WFMin
  <1>4. \A m \in Nat : m < n => <<m, n>> \in Less
    BY DEF Less
  <1>5. ASSUME NEW m \in S
        PROVE  n <= m
    <2>1. m \in Nat /\ n \in Nat
      OBVIOUS
    <2>2. ~(m < n)
      BY <1>3, <1>4, <2>1, Zenon
    <2> QED
      BY <2>1, <2>2
  <1> QED
    BY <1>5

\* A set with at most one element that another does not have.
LEMMA OneMore ==
    ASSUME NEW S, NEW T, IsFiniteSet(S), IsFiniteSet(T),
           \A x, y \in T \ S : x = y
    PROVE  Cardinality(T) <= Cardinality(S) + 1
  <1>1. CASE T \ S = {}
    <2>1. T \in SUBSET S
      BY <1>1
    <2> QED
      BY <2>1, FS_Subset, FS_CardinalityType
  <1>2. CASE T \ S # {}
    <2>1. PICK x \in T \ S : TRUE
      BY <1>2
    <2>2. T \in SUBSET (S \cup {x})
      BY <2>1
    <2>3. IsFiniteSet(S \cup {x}) /\ Cardinality(S \cup {x}) = Cardinality(S) + 1
      BY <2>1, FS_AddElement
    <2>4. Cardinality(T) <= Cardinality(S \cup {x})
      BY <2>2, <2>3, FS_Subset
    <2> QED
      BY <2>3, <2>4
  <1> QED
    BY <1>1, <1>2

-----------------------------------------------------------------------------
(* Listings.                                                               *)

LEMMA IdFinite ==
    /\ IsFiniteSet(Id)
    /\ \A S \in SUBSET Id : IsFiniteSet(S) /\ Cardinality(S) \in Nat
  <1>1. IsFiniteSet(Id)
    BY SearchAssumption, FS_Product DEF Id
  <1> QED
    BY <1>1, FS_Subset, FS_CardinalityType

\* Names are listed in a total order.
LEMMA BeforeOrder ==
    ASSUME NEW a \in Id, NEW b \in Id
    PROVE  /\ ~Before(a, a)
           /\ a # b => Before(a, b) \/ Before(b, a)
           /\ Before(a, b) => ~Before(b, a)
           /\ \A c \in Id : Before(a, b) /\ Before(b, c) => Before(a, c)
  <1>1. User \subseteq Nat /\ Name \subseteq Nat
    BY SearchAssumption, Zenon
  <1>2. \A x \in Id : x[1] \in User /\ x[2] \in Name /\ x = <<x[1], x[2]>>
    BY DEF Id
  <1> QED
    BY <1>1, <1>2 DEF Before

\* Places follow that order, so no two entries have one place.
LEMMA PlaceOrder ==
    ASSUME NEW list \in SUBSET Id, NEW a \in Id, NEW b \in Id
    PROVE  /\ Place(list, a) \in Nat \ {0}
           /\ a \in list /\ Before(a, b) => Place(list, a) < Place(list, b)
           /\ a \in list /\ b \in list /\ Place(list, a) = Place(list, b) => a = b
           /\ a \in list => Place(list, a) <= Cardinality(list)
  <1> DEFINE Below(x) == {y \in list : Before(y, x)}
  <1>1. \A x \in Id : /\ IsFiniteSet(Below(x)) /\ Cardinality(Below(x)) \in Nat
                      /\ Place(list, x) = Cardinality(Below(x)) + 1
    BY IdFinite DEF Place
  <1>2. ASSUME NEW x \in list, NEW y \in Id, Before(x, y)
        PROVE  Place(list, x) < Place(list, y)
    <2>1. Below(x) \cup {x} \in SUBSET Below(y) /\ x \notin Below(x)
      BY <1>2, BeforeOrder
    <2> HIDE DEF Below
    <2>2. Cardinality(Below(x) \cup {x}) = Cardinality(Below(x)) + 1
      BY <1>1, <2>1, FS_AddElement
    <2>3. Cardinality(Below(x) \cup {x}) <= Cardinality(Below(y))
      BY <1>1, <2>1, FS_Subset
    <2> QED
      BY <1>1, <2>2, <2>3
  <1>3. \A x \in list, y \in list : Place(list, x) = Place(list, y) => x = y
    <2> HIDE DEF Below
    <2> SUFFICES ASSUME NEW x \in list, NEW y \in list, Place(list, x) = Place(list, y), x # y
                 PROVE  FALSE
      OBVIOUS
    <2>1. Before(x, y) \/ Before(y, x)
      BY BeforeOrder
    <2>2. Place(list, x) < Place(list, y) \/ Place(list, y) < Place(list, x)
      BY <1>2, <2>1
    <2> QED
      BY <1>1, <2>2
  <1>4. ASSUME a \in list
        PROVE  Place(list, a) <= Cardinality(list)
    <2>1. Below(a) \cup {a} \in SUBSET list /\ a \notin Below(a)
      BY <1>4, BeforeOrder
    <2> HIDE DEF Below
    <2>2. Cardinality(Below(a) \cup {a}) = Cardinality(Below(a)) + 1
      BY <1>1, <2>1, FS_AddElement
    <2>3. Cardinality(Below(a) \cup {a}) <= Cardinality(list)
      BY <2>1, IdFinite, FS_Subset
    <2> QED
      BY <1>1, <2>2, <2>3
  <1> HIDE DEF Below
  <1>5. Place(list, a) \in Nat \ {0}
    BY <1>1
  <1> QED
    BY <1>2, <1>3, <1>4, <1>5

\* An entry that comes or goes moves the others by one place at most.
LEMMA PlaceShift ==
    ASSUME NEW list \in SUBSET Id, NEW r \in Id, NEW a \in Id
    PROVE  /\ Place(list \ {r}, a) <= Place(list, a)
           /\ Place(list, a) <= Place(list \ {r}, a) + 1
           /\ ~Before(r, a) => Place(list, a) = Place(list \ {r}, a)
  <1> DEFINE Below == {y \in list : Before(y, a)}
             BelowLeft == {y \in list \ {r} : Before(y, a)}
  <1>1. /\ IsFiniteSet(Below) /\ Cardinality(Below) \in Nat
        /\ Place(list, a) = Cardinality(Below) + 1
        /\ Place(list \ {r}, a) = Cardinality(BelowLeft) + 1
    BY IdFinite DEF Place
  <1>2. BelowLeft = Below \ {r}
    OBVIOUS
  <1>3. Cardinality(Below \ {r}) = IF r \in Below THEN Cardinality(Below) - 1
                                                  ELSE Cardinality(Below)
    BY <1>1, FS_RemoveElement
  <1> HIDE DEF Below, BelowLeft
  <1>4. ~Before(r, a) => r \notin Below
    BY DEF Below
  <1> QED
    BY <1>1, <1>2, <1>3, <1>4

\* The files there are.
LEMMA ListingTyped ==
    ASSUME NEW fs, NEW all, NEW u
    PROVE  Listing(fs, all, u) \in SUBSET Id
  BY DEF Listing, In

\* What a scan stops at: the first match behind pos, or the end.
LEMMA ScanRight ==
    ASSUME NEW fs, NEW pos \in Nat, NEW p, NEW all, NEW u
    PROVE  LET list == Listing(fs, all, u)
               scan == Scan(fs, pos, p, all, u)
           IN  /\ scan.hit \in BOOLEAN /\ scan.pos \in Nat /\ scan.pos >= pos
               /\ scan.hit => /\ scan.id \in list /\ Listed(scan.id, p)
                              /\ scan.pos = Place(list, scan.id) /\ scan.pos > pos
               /\ \A x \in list : Listed(x, p) /\ Place(list, x) > pos
                                     => scan.hit /\ Place(list, x) >= scan.pos
  <1> DEFINE list == Listing(fs, all, u)
             hits == Hits(list, pos, p)
             scan == Scan(fs, pos, p, all, u)
  <1>1. list \in SUBSET Id /\ Cardinality(list) \in Nat
    BY ListingTyped, IdFinite
  <1>2. \A x \in list : Place(list, x) \in Nat
    BY <1>1, PlaceOrder
  <1>3. CASE hits = {}
    <2>1. scan = [hit |-> FALSE, pos |-> Max({pos, Cardinality(list)})]
      BY <1>3 DEF Scan
    <2>2. scan.hit = FALSE /\ scan.pos \in Nat /\ scan.pos >= pos
      BY <1>1, <2>1, MaxOfTwo
    <2>3. \A x \in list : ~(Listed(x, p) /\ Place(list, x) > pos)
      BY <1>3 DEF Hits
    <2> QED
      BY <2>2, <2>3
  <1>4. CASE hits # {}
    <2> DEFINE places == {Place(list, x) : x \in hits}
    <2>1. hits \in SUBSET list
      BY DEF Hits
    <2>2. places \in SUBSET Nat /\ places # {}
      BY <1>2, <1>4, <2>1
    <2> HIDE DEF hits, list
    <2>3. PICK n \in places : \A m \in places : n <= m
      BY <2>2, LeastNumber
    <2>4. PICK x \in hits : n = Place(list, x)
      BY <2>3
    <2>5. \A y \in hits : ~Before(y, x)
      <3> SUFFICES ASSUME NEW y \in hits, Before(y, x) PROVE FALSE
        OBVIOUS
      <3>1. Place(list, y) < Place(list, x)
        BY <1>1, <2>1, PlaceOrder
      <3>2. Place(list, x) <= Place(list, y)
        BY <2>3, <2>4
      <3> QED
        BY <1>2, <2>1, <3>1, <3>2
    <2>6. First(hits) \in hits /\ \A y \in hits : ~Before(y, First(hits))
      BY <2>5 DEF First
    <2>7. \A y \in hits : Place(list, First(hits)) <= Place(list, y)
      <3> SUFFICES ASSUME NEW y \in hits
                   PROVE  Place(list, First(hits)) <= Place(list, y)
        OBVIOUS
      <3>1. y = First(hits) \/ Before(First(hits), y)
        BY <1>1, <2>1, <2>6, BeforeOrder
      <3>2. y # First(hits) => Place(list, First(hits)) < Place(list, y)
        BY <1>1, <2>1, <2>6, <3>1, PlaceOrder
      <3> QED
        BY <1>2, <2>1, <2>6, <3>2
    <2>8. scan = [hit |-> TRUE, pos |-> Place(list, First(hits)), id |-> First(hits)]
      BY <1>4 DEF Scan, list, hits
    <2>9. Listed(First(hits), p) /\ Place(list, First(hits)) > pos
      BY <2>6 DEF hits, Hits
    <2>10. \A y \in list : Listed(y, p) /\ Place(list, y) > pos => y \in hits
      BY DEF hits, Hits
    <2>11. First(hits) \in list /\ Place(list, First(hits)) \in Nat
      BY <1>2, <2>1, <2>6
    <2> HIDE DEF scan
    <2> QED
      BY <1>2, <2>7, <2>8, <2>9, <2>10, <2>11 DEF list, scan
  <1> QED
    BY <1>3, <1>4

-----------------------------------------------------------------------------
(* Directory entries.                                                      *)

LEMMA Sizes ==
    /\ BlkSZ \in Nat \ {0} /\ BlkEX \in Nat \ {0} /\ extentsPerDirEntry \in Nat \ {0}
    /\ RecordSpan \in Nat \ {0} /\ MaxEX \in Nat
  BY SearchAssumption

LEMMA CeilDivBounds ==
    ASSUME NEW a \in Nat, NEW b \in Nat \ {0}
    PROVE  /\ CeilDiv(a, b) \in Nat
           /\ \A k \in Int : CeilDiv(a, b) <= k <=> a <= b * k
  <1>1. PICK q \in Int : q = (a + b - 1) \div b
    OBVIOUS
  <1>2. PICK r \in Int : r = (a + b - 1) % b
    OBVIOUS
  <1>3. /\ r \in 0..(b - 1) /\ a + b - 1 = b * q + r /\ q >= 0
        /\ CeilDiv(a, b) = q
    BY <1>1, <1>2, Division DEF CeilDiv
  <1> HIDE <1>1, <1>2
  <1>4. ASSUME NEW k \in Int
        PROVE  q <= k <=> a <= b * k
    <2>1. q <= k => b * q <= b * k
      OBVIOUS
    <2>2. k <= q - 1 => b * k <= b * (q - 1)
      OBVIOUS
    <2>3. b * (q - 1) = b * q - b /\ b * q \in Int /\ b * k \in Int
      OBVIOUS
    <2> QED
      BY <1>3, <2>1, <2>2, <2>3
  <1> QED
    BY <1>3, <1>4

LEMMA CeilDivLess ==
    ASSUME NEW a \in Nat, NEW b \in Nat \ {0}, NEW c \in Int, a - b * c \in Nat
    PROVE  CeilDiv(a - b * c, b) = CeilDiv(a, b) - c
  <1>1. PICK q \in Int : q = (a + b - 1) \div b
    OBVIOUS
  <1>2. PICK r \in Int : r = (a + b - 1) % b
    OBVIOUS
  <1>3. r \in 0..(b - 1) /\ a + b - 1 = b * q + r
    BY <1>1, <1>2, Division
  <1>4. PICK x \in Int : x = a - b * c + b - 1
    OBVIOUS
  <1>5. x = b * (q - c) + r
    <2>1. b * (q - c) = b * q - b * c /\ b * q \in Int /\ b * c \in Int
      OBVIOUS
    <2> HIDE <1>1, <1>2
    <2> QED
      BY <1>3, <1>4, <2>1
  <1>6. x \div b = q - c
    <2>1. PICK d \in Int : d = q - c
      OBVIOUS
    <2> QED
      BY <1>3, <1>5, <2>1, DivisionUnique
  <1> QED
    BY <1>1, <1>4, <1>6 DEF CeilDiv

Entry == [user : User, ex : 0..MaxEX, s2 : Nat, rc : 0..BlkEX]

\* Counters that agree with each other.
CountersRight(r) ==
    /\ r \in [records : 0..(RecordSpan - 1), extents : Nat, used : Nat]
    /\ r.extents = CeilDiv(r.records, BlkEX)

LEMMA CountersOfFile ==
    ASSUME NEW n \in Nat
    PROVE  CountersRight(Counters(n)) /\ Counters(n).used = 0
  <1>1. PICK c \in Int : c = CeilDiv(n, BlkSZ)
    BY Sizes, CeilDivBounds
  <1>2. PICK m \in 0..(RecordSpan - 1) : m = c % RecordSpan
    BY Sizes, Division
  <1>3. m \in Nat /\ BlkEX \in Nat \ {0}
    BY Sizes
  <1>4. CeilDiv(m, BlkEX) \in Nat
    BY <1>3, CeilDivBounds, Zenon
  <1> QED
    BY <1>1, <1>2, <1>4 DEF Counters, CountersRight

LEMMA NothingRight == CountersRight(Nothing) /\ Nothing.records = 0
  <1>1. CeilDiv(0, BlkEX) \in Nat /\ CeilDiv(0, BlkEX) <= 0
    BY Sizes, CeilDivBounds
  <1> QED
    BY <1>1, Sizes DEF CountersRight, Nothing

\* An entry uses up the extents it describes, and is not the first if there were
\* any before it.
LEMMA RestRight ==
    ASSUME NEW r, CountersRight(r)
    PROVE  /\ CountersRight(Rest(r))
           /\ Rest(r).records > 0 => Rest(r).used >= extentsPerDirEntry
  <1>1. CASE r.extents <= extentsPerDirEntry
    BY <1>1, NothingRight DEF Rest
  <1>2. CASE ~(r.extents <= extentsPerDirEntry)
    <2>1. /\ r.records \in 0..(RecordSpan - 1) /\ r.extents \in Nat /\ r.used \in Nat
          /\ r.extents = CeilDiv(r.records, BlkEX)
      BY DEF CountersRight
    <2>2. BlkEX * extentsPerDirEntry \in Nat /\ r.records \in Nat
      BY <2>1, Sizes
    <2>3. ~(r.records <= BlkEX * extentsPerDirEntry)
      <3>1. extentsPerDirEntry \in Int /\ BlkEX \in Nat \ {0}
        BY Sizes
      <3>2. CeilDiv(r.records, BlkEX) <= extentsPerDirEntry
              <=> r.records <= BlkEX * extentsPerDirEntry
        BY <2>2, <3>1, CeilDivBounds, Zenon
      <3> QED
        BY <1>2, <2>1, <3>2
    <2>4. r.records - BlkEX * extentsPerDirEntry \in 0..(RecordSpan - 1)
      BY <2>1, <2>2, <2>3, Sizes
    <2>5. CeilDiv(r.records - BlkEX * extentsPerDirEntry, BlkEX)
              = r.extents - extentsPerDirEntry
      BY <2>1, <2>2, <2>4, Sizes, CeilDivLess
    <2>6. Rest(r) = [records |-> r.records - BlkEX * extentsPerDirEntry,
                     extents |-> r.extents - extentsPerDirEntry,
                     used    |-> r.used + extentsPerDirEntry]
      BY <1>2 DEF Rest
    <2>7. /\ r.extents - extentsPerDirEntry \in Nat
          /\ r.used + extentsPerDirEntry \in Nat /\ r.used + extentsPerDirEntry >= extentsPerDirEntry
      BY <1>2, <2>1, Sizes
    <2> QED
      BY <2>4, <2>5, <2>6, <2>7 DEF CountersRight
  <1> QED
    BY <1>1, <1>2

\* The extent number of an entry, and its type.
LEMMA EntryRight ==
    ASSUME NEW r, CountersRight(r), NEW u \in User
    PROVE  /\ DirEntry(r, u) \in Entry /\ DirEntry(r, u).user = u
           /\ EntryExtent(DirEntry(r, u)) =
                  IF r.extents = 0 THEN 0
                  ELSE IF r.extents <= extentsPerDirEntry THEN r.extents - 1 + r.used
                  ELSE extentsPerDirEntry - 1 + r.used
           /\ DirEntry(r, u).rc =
                  IF r.extents = 0 THEN 0
                  ELSE IF r.extents <= extentsPerDirEntry
                         THEN r.records - BlkEX * (r.extents - 1)
                  ELSE BlkEX
  <1> DEFINE count == IF r.extents <= extentsPerDirEntry THEN r.extents
                                                         ELSE extentsPerDirEntry
             x == IF count = 0 THEN 0 ELSE count - 1 + r.used
             rc == IF count = 0 THEN 0
                   ELSE IF r.extents <= extentsPerDirEntry
                          THEN r.records - BlkEX * (count - 1) ELSE BlkEX
  <1>1. /\ r.records \in 0..(RecordSpan - 1) /\ r.extents \in Nat /\ r.used \in Nat
        /\ r.extents = CeilDiv(r.records, BlkEX)
    BY DEF CountersRight
  <1>2. x \in Nat /\ count \in Nat
    BY <1>1, Sizes
  <1>3. rc \in 0..BlkEX
    <2>1. CASE r.extents = 0 \/ ~(r.extents <= extentsPerDirEntry)
      BY <2>1, <1>1, Sizes
    <2>2. CASE r.extents # 0 /\ r.extents <= extentsPerDirEntry
      <3>5. /\ r.extents \in Int /\ r.extents - 1 \in Int /\ r.records \in Nat
            /\ BlkEX \in Nat \ {0} /\ r.extents <= r.extents /\ ~(r.extents <= r.extents - 1)
        BY <1>1, Sizes
      <3>6. \A k \in Int : r.extents <= k <=> r.records <= BlkEX * k
        BY <1>1, <3>5, CeilDivBounds, Zenon
      <3>1. r.records <= BlkEX * r.extents
        BY <3>5, <3>6, Zenon
      <3>2. ~(r.records <= BlkEX * (r.extents - 1))
        BY <3>5, <3>6, Zenon
      <3>3. BlkEX * (r.extents - 1) = BlkEX * r.extents - BlkEX
            /\ BlkEX * r.extents \in Int /\ BlkEX * (r.extents - 1) \in Int
        BY <1>1, Sizes
      <3>4. rc = r.records - BlkEX * (r.extents - 1)
        BY <2>2, Sizes
      <3> QED
        BY <1>1, <3>1, <3>2, <3>3, <3>4, Sizes
    <2> QED
      BY <2>1, <2>2
  <1>4. /\ DirEntry(r, u) = [user |-> u, ex |-> ExtentFields(x).ex, s2 |-> ExtentFields(x).s2,
                            rc |-> rc]
    BY DEF DirEntry
  <1> HIDE DEF x, rc
  <1>5. /\ ExtentFields(x).ex \in 0..MaxEX /\ ExtentFields(x).s2 \in Nat
        /\ ExtentFields(x).s2 * (MaxEX + 1) + ExtentFields(x).ex = x
    <2>1. MaxEX + 1 \in Nat \ {0} /\ x \in Int
      BY <1>2, Sizes
    <2>2. PICK m \in Nat \ {0} : m = MaxEX + 1
      BY <2>1
    <2>6. x >= 0 /\ x \in Int
      BY <1>2
    <2>3. x \div m \in Int /\ x \div m >= 0 /\ x % m \in 0..(m - 1) /\ x = m * (x \div m) + (x % m)
      BY <2>6, Division, Zenon
    <2>4. m * (x \div m) = (x \div m) * m
      BY <2>3
    <2>5. ExtentFields(x).ex = x % m /\ ExtentFields(x).s2 = x \div m
      BY <2>2 DEF ExtentFields
    <2> QED
      BY <2>2, <2>3, <2>4, <2>5, Sizes
  <1>6. DirEntry(r, u) \in Entry
    BY <1>3, <1>4, <1>5 DEF Entry
  <1>7. EntryExtent(DirEntry(r, u)) = x /\ DirEntry(r, u).rc = rc /\ DirEntry(r, u).user = u
    BY <1>4, <1>5 DEF EntryExtent
  <1> QED
    BY <1>1, <1>6, <1>7, Sizes DEF x, rc

\* The records and extents of a file of n bytes, and the counters after k entries.
Records(n) == CeilDiv(n, BlkSZ)
Extents(n) == CeilDiv(Records(n), BlkEX)
RestAfter(n, k) ==
    IF Extents(n) <= extentsPerDirEntry * k THEN Nothing
    ELSE [records |-> Records(n) - BlkEX * (extentsPerDirEntry * k),
          extents |-> Extents(n) - extentsPerDirEntry * k,
          used    |-> extentsPerDirEntry * k]

LEMMA FileSizes ==
    ASSUME NEW n \in Nat
    PROVE  /\ Records(n) \in Nat /\ Extents(n) \in Nat
           /\ \A k \in Int : Extents(n) <= k <=> Records(n) <= BlkEX * k
           /\ Len(CpmEntries(n)) \in Nat \ {0}
           /\ DOMAIN CpmEntries(n) = 1..Len(CpmEntries(n))
           /\ \A k \in Nat \ {0} : Len(CpmEntries(n)) <= k <=> Extents(n) <= extentsPerDirEntry * k
           /\ \A i \in 1..Len(CpmEntries(n)) :
                 CpmEntries(n)[i] =
                    IF i < Len(CpmEntries(n))
                      THEN [extent |-> extentsPerDirEntry * i - 1, rc |-> BlkEX]
                    ELSE IF Extents(n) = 0 THEN [extent |-> 0, rc |-> 0]
                    ELSE [extent |-> Extents(n) - 1, rc |-> Records(n) - BlkEX * (Extents(n) - 1)]
  <1> DEFINE c == CeilDiv(Extents(n), extentsPerDirEntry)
             count == Max({1, c})
             Nth1(i) == IF i < count THEN [extent |-> extentsPerDirEntry * i - 1, rc |-> BlkEX]
                       ELSE IF Extents(n) = 0 THEN [extent |-> 0, rc |-> 0]
                       ELSE [extent |-> Extents(n) - 1,
                             rc |-> Records(n) - BlkEX * (Extents(n) - 1)]
  <1>1. Records(n) \in Nat
    BY Sizes, CeilDivBounds DEF Records
  <1>2. Extents(n) \in Nat /\ \A k \in Int : Extents(n) <= k <=> Records(n) <= BlkEX * k
    BY <1>1, Sizes, CeilDivBounds, Zenon DEF Extents
  <1>3. c \in Nat /\ \A k \in Int : c <= k <=> Extents(n) <= extentsPerDirEntry * k
    BY <1>2, Sizes, CeilDivBounds, Zenon
  <1> HIDE DEF c
  <1>4. count = IF c <= 1 THEN 1 ELSE c
    <2>1. count = IF 1 >= c THEN 1 ELSE c
      BY <1>3, MaxOfTwo
    <2> QED
      BY <1>3, <2>1
  <1>5. CpmEntries(n) = [i \in 1..count |-> Nth1(i)]
    BY DEF CpmEntries, Records, Extents, c
  <1>6. count \in Nat \ {0} /\ \A k \in Nat \ {0} : count <= k <=> c <= k
    BY <1>3, <1>4
  <1>7. \A k \in Nat \ {0} : count <= k <=> Extents(n) <= extentsPerDirEntry * k
    BY <1>3, <1>6
  <1> HIDE DEF count, Nth1
  <1>8. Len(CpmEntries(n)) = count /\ DOMAIN CpmEntries(n) = 1..count
    BY <1>5, <1>6
  <1>9. \A i \in 1..count : CpmEntries(n)[i] = Nth1(i)
    BY <1>5
  <1> QED
    BY <1>1, <1>2, <1>6, <1>7, <1>8, <1>9 DEF Nth1

\* The counters of a file, entry after entry.
LEMMA RestOfFile ==
    ASSUME NEW n \in Nat, Records(n) < RecordSpan, NEW k \in Nat
    PROVE  /\ Counters(n) = RestAfter(n, 0)
           /\ CountersRight(RestAfter(n, k))
           /\ Rest(RestAfter(n, k)) = RestAfter(n, k + 1)
           /\ RestAfter(n, k).records = 0 <=> Extents(n) <= extentsPerDirEntry * k
  <1>1. PICK R \in Nat : R = Records(n)
    BY FileSizes
  <1>2. PICK X \in Nat : X = Extents(n)
    BY FileSizes
  <1>3. PICK d \in Nat \ {0} : d = extentsPerDirEntry
    BY Sizes
  <1>4. PICK b \in Nat \ {0} : b = BlkEX
    BY Sizes
  <1>5. PICK D \in Nat : D = d * k
    OBVIOUS
  <1>6. d * (k + 1) = D + d
    BY <1>5
  <1>7. RestAfter(n, k) = IF X <= D THEN Nothing
                          ELSE [records |-> R - b * D, extents |-> X - D, used |-> D]
    BY <1>1, <1>2, <1>3, <1>4, <1>5 DEF RestAfter
  <1>8. RestAfter(n, k + 1) = IF X <= D + d THEN Nothing
                              ELSE [records |-> R - b * (D + d), extents |-> X - (D + d), used |-> D + d]
    BY <1>1, <1>2, <1>3, <1>4, <1>6 DEF RestAfter
  <1>9. X <= D <=> R <= b * D
    <2>1. D \in Int
      OBVIOUS
    <2>2. Extents(n) <= D <=> Records(n) <= BlkEX * D
      BY <2>1, FileSizes, Zenon
    <2> QED
      BY <1>1, <1>2, <1>4, <2>2
  <1>10. b * D \in Nat /\ b * (D + d) = b * D + b * d /\ b * d \in Nat
    OBVIOUS
  <1>11. Counters(n) = RestAfter(n, 0)
    <2>1. Records(n) % RecordSpan = Records(n)
      <3>1. R % RecordSpan = R
        <4>1. R = RecordSpan * 0 + R /\ R \in 0..(RecordSpan - 1)
          BY <1>1, Sizes
        <4> QED
          BY <4>1, Sizes, DivisionUnique
      <3> QED
        BY <1>1, <3>1
    <2>2. Counters(n) = [records |-> Records(n), extents |-> Extents(n), used |-> 0]
      BY <2>1 DEF Counters, Records, Extents
    <2>3. X <= 0 => R = 0 /\ X = 0
      <3>2. 0 \in Int
        OBVIOUS
      <3>3. Extents(n) <= 0 <=> Records(n) <= BlkEX * 0
        BY <3>2, FileSizes, Zenon
      <3>1. X <= 0 => R <= b * 0
        BY <1>1, <1>2, <1>4, <3>3
      <3> QED
        BY <3>1
    <2>4. extentsPerDirEntry * 0 = 0 /\ BlkEX * 0 = 0
      BY Sizes
    <2>5. RestAfter(n, 0) = IF X <= 0 THEN Nothing
                            ELSE [records |-> R - 0, extents |-> X - 0, used |-> 0]
      BY <1>1, <1>2, <2>4 DEF RestAfter
    <2> QED
      BY <1>1, <1>2, <2>2, <2>3, <2>5 DEF Nothing
  <1>12. CountersRight(RestAfter(n, k))
    <2>1. CASE X <= D
      BY <1>7, <2>1, NothingRight
    <2>2. CASE ~(X <= D)
      <3>1. R - b * D \in Nat /\ R - b * D <= RecordSpan - 1 /\ RecordSpan \in Nat
        BY <1>1, <1>9, <1>10, <2>2, Sizes
      <3>2. CeilDiv(R, b) = X
        BY <1>1, <1>2, <1>4 DEF Extents
      <3>5. D \in Int
        OBVIOUS
      <3>6. CeilDiv(R - b * D, b) = CeilDiv(R, b) - D
        BY <3>1, <3>5, CeilDivLess, Zenon
      <3>3. CeilDiv(R - b * D, b) = X - D
        BY <3>2, <3>6
      <3>4. RestAfter(n, k) = [records |-> R - b * D, extents |-> X - D, used |-> D]
        BY <1>7, <2>2
      <3> QED
        BY <1>4, <2>2, <3>1, <3>3, <3>4 DEF CountersRight
    <2> QED
      BY <2>1, <2>2
  <1>13. Rest(RestAfter(n, k)) = RestAfter(n, k + 1)
    <2>1. CASE X <= D
      <3>1. RestAfter(n, k) = Nothing /\ RestAfter(n, k + 1) = Nothing
        BY <1>7, <1>8, <2>1
      <3> QED
        BY <3>1, Sizes DEF Rest, Nothing
    <2>2. CASE ~(X <= D)
      <3>1. RestAfter(n, k) = [records |-> R - b * D, extents |-> X - D, used |-> D]
        BY <1>7, <2>2
      <3>2. Rest(RestAfter(n, k)) = IF X - D <= d THEN Nothing
                ELSE [records |-> R - b * D - b * d, extents |-> X - D - d, used |-> D + d]
        BY <1>3, <1>4, <3>1 DEF Rest
      <3>3. /\ X - D <= d <=> X <= D + d
            /\ R - b * D - b * d = R - b * (D + d)
            /\ X - D - d = X - (D + d)
        BY <1>10
      <3> QED
        BY <1>8, <3>2, <3>3
    <2> QED
      BY <2>1, <2>2
  <1>14. RestAfter(n, k).records = 0 <=> X <= D
    BY <1>7, <1>9, <1>10 DEF Nothing
  <1> QED
    BY <1>2, <1>3, <1>5, <1>11, <1>12, <1>13, <1>14

\* The entry made of the counters after k entries is the one CP/M has next.
LEMMA EntryOfFile ==
    ASSUME NEW n \in Nat, Records(n) < RecordSpan, NEW k \in Nat,
           k < Len(CpmEntries(n)), NEW u \in User
    PROVE  LET e == DirEntry(RestAfter(n, k), u)
           IN  [extent |-> EntryExtent(e), rc |-> e.rc] = CpmEntries(n)[k + 1]
  <1>1. PICK R \in Nat : R = Records(n)
    BY FileSizes
  <1>2. PICK X \in Nat : X = Extents(n)
    BY FileSizes
  <1>3. PICK d \in Nat \ {0} : d = extentsPerDirEntry
    BY Sizes
  <1>4. PICK b \in Nat \ {0} : b = BlkEX
    BY Sizes
  <1>5. PICK D \in Nat : D = d * k
    OBVIOUS
  <1>6. d * (k + 1) = D + d
    BY <1>5
  <1>7. PICK count \in Nat \ {0} : count = Len(CpmEntries(n))
    BY FileSizes
  <1>8. RestAfter(n, k) = IF X <= D THEN Nothing
                          ELSE [records |-> R - b * D, extents |-> X - D, used |-> D]
    BY <1>1, <1>2, <1>3, <1>4, <1>5 DEF RestAfter
  <1>9. k + 1 < count <=> ~(X <= D + d)
    <2>1. k + 1 \in Nat \ {0}
      OBVIOUS
    <2>2. count <= k + 1 <=> X <= d * (k + 1)
      BY <1>2, <1>3, <1>7, <2>1, FileSizes
    <2> QED
      BY <1>6, <2>2
  <1>10. X <= D => k = 0 /\ D = 0
    <2>1. k # 0 => ~(X <= d * k)
      <3>1. k # 0 => ~(count <= k) /\ k \in Nat \ {0}
        BY <1>7
      <3>2. k \in Nat \ {0} => (count <= k <=> X <= d * k)
        BY <1>2, <1>3, <1>7, FileSizes
      <3> QED
        BY <3>1, <3>2
    <2>2. k = 0 => D = 0
      BY <1>5
    <2> QED
      BY <1>5, <2>1, <2>2
  <1>11. k + 1 \in 1..count
    BY <1>7
  <1>12. CpmEntries(n)[k + 1] = IF k + 1 < count THEN [extent |-> D + d - 1, rc |-> b]
                                ELSE IF X = 0 THEN [extent |-> 0, rc |-> 0]
                                ELSE [extent |-> X - 1, rc |-> R - b * (X - 1)]
    <2>1. k + 1 \in 1..Len(CpmEntries(n))
      BY <1>7, <1>11
    <2>2. CpmEntries(n)[k + 1] =
            IF k + 1 < Len(CpmEntries(n))
              THEN [extent |-> extentsPerDirEntry * (k + 1) - 1, rc |-> BlkEX]
            ELSE IF Extents(n) = 0 THEN [extent |-> 0, rc |-> 0]
            ELSE [extent |-> Extents(n) - 1, rc |-> Records(n) - BlkEX * (Extents(n) - 1)]
      BY <2>1, FileSizes, Zenon
    <2>3. extentsPerDirEntry * (k + 1) - 1 = D + d - 1
      BY <1>3, <1>6
    <2>4. Records(n) - BlkEX * (Extents(n) - 1) = R - b * (X - 1)
      BY <1>1, <1>2, <1>4
    <2> QED
      BY <1>2, <1>4, <1>7, <2>2, <2>3, <2>4, Zenon
  <1> DEFINE r == RestAfter(n, k)
             e == DirEntry(r, u)
  <1>13. CountersRight(r)
    BY RestOfFile
  <1>14. /\ EntryExtent(e) = IF r.extents = 0 THEN 0
                             ELSE IF r.extents <= d THEN r.extents - 1 + r.used ELSE d - 1 + r.used
         /\ e.rc = IF r.extents = 0 THEN 0
                   ELSE IF r.extents <= d THEN r.records - b * (r.extents - 1) ELSE b
    BY <1>3, <1>4, <1>13, EntryRight
  <1> HIDE DEF e, r
  <1>15. CASE X <= D
    <2>1. r.extents = 0 /\ X = 0 /\ ~(k + 1 < count)
      BY <1>8, <1>9, <1>10, <1>15 DEF r, Nothing
    <2> QED
      BY <1>12, <1>14, <2>1 DEF e, r
  <1>16. CASE ~(X <= D)
    <2>1. r.extents = X - D /\ r.records = R - b * D /\ r.used = D /\ X # 0 /\ r.extents # 0
      BY <1>8, <1>16 DEF r
    <2>2. CASE X <= D + d
      <3>1. R - b * D - b * (X - D - 1) = R - b * (X - 1)
        <4>1. b * (X - D - 1) = b * (X - 1) - b * D /\ b * (X - 1) \in Int /\ b * D \in Int
          OBVIOUS
        <4> QED
          BY <4>1
      <3>2. EntryExtent(e) = X - 1 /\ e.rc = R - b * (X - 1)
        BY <1>14, <2>1, <2>2, <3>1
      <3> QED
        BY <1>9, <1>12, <2>1, <2>2, <3>2 DEF e, r
    <2>3. CASE ~(X <= D + d)
      <3>1. EntryExtent(e) = D + d - 1 /\ e.rc = b
        BY <1>14, <2>1, <2>3
      <3> QED
        BY <1>9, <1>12, <2>3, <3>1 DEF e, r
    <2> QED
      BY <2>2, <2>3
  <1> QED
    BY <1>15, <1>16

-----------------------------------------------------------------------------
(* The invariant: types, and what a delete relies on.                      *)

\* The counters of the search are those of a file whose first entry was returned.
CountersInv ==
    CountersRight(rest) /\ (rest.records > 0 => rest.used >= extentsPerDirEntry)

Heard(h) == h \in Seq(Id \X Entry)

\* A search that is on returned the file found last, and the files it began with
\* are there but for those the host removed.
ViewInv ==
    /\ Heard(heard) /\ stable \subseteq Id /\ gone \in Nat /\ come \in Nat
    /\ phase \in {"none", "on", "over"}
    /\ phase = "on" => Len(heard) > 0 /\ heard[Len(heard)][1] = foundId
    /\ phase # "none" => stable \subseteq In(files)

\* A match in another user area, which no remove of the delete takes away.
Elsewhere == \E id \in In(files) : Matching(id) /\ id[1] # userCode

\* What is found in a delete matches, and what is gone did, unless the delete has
\* come to a match that stays.
DeleteInv == ~Idle =>
    /\ phase = "none" /\ Matching(foundId) /\ (allUsers => deleting = Name)
    /\ gone = 0 => foundId \in In(files)
    /\ gone = 0 /\ come = 0 =>
          /\ In(files) \subseteq stable
          /\ Elsewhere \/ \A id \in stable \ In(files) : Matching(id)

SearchInv == TypeOK /\ CountersInv /\ ViewInv /\ DeleteInv

\* Host files.
Files(fs) == fs \in [Id -> {-1} \cup Length]

LEMMA FilesTyped ==
    ASSUME NEW fs, Files(fs), NEW id \in Id
    PROVE  /\ fs[id] \in Int /\ (fs[id] >= 0 => fs[id] \in Nat)
           /\ id \in In(fs) <=> fs[id] >= 0
           /\ Files([fs EXCEPT ![id] = -1]) /\ In([fs EXCEPT ![id] = -1]) = In(fs) \ {id}
           /\ \A n \in Length : /\ Files([fs EXCEPT ![id] = n])
                                /\ In([fs EXCEPT ![id] = n]) = In(fs) \cup {id}
  <1>1. Length \subseteq Nat
    BY SearchAssumption, Zenon
  <1>2. fs[id] \in Int /\ (fs[id] >= 0 => fs[id] \in Nat)
    <2>1. fs[id] = -1 \/ fs[id] \in Length
      BY DEF Files
    <2>2. fs[id] \in Length => fs[id] \in Nat
      BY <1>1
    <2> QED
      BY <2>1, <2>2
  <1>3. ASSUME NEW n \in {-1} \cup Length
        PROVE  /\ Files([fs EXCEPT ![id] = n])
               /\ \A x \in Id : [fs EXCEPT ![id] = n][x] = IF x = id THEN n ELSE fs[x]
    BY DEF Files
  <1>4. In([fs EXCEPT ![id] = -1]) = In(fs) \ {id}
    <2>1. \A x \in Id : [fs EXCEPT ![id] = -1][x] = IF x = id THEN -1 ELSE fs[x]
      BY <1>3
    <2> QED
      BY <2>1 DEF In
  <1>5. ASSUME NEW n \in Length
        PROVE  In([fs EXCEPT ![id] = n]) = In(fs) \cup {id}
    <2>1. \A x \in Id : [fs EXCEPT ![id] = n][x] = IF x = id THEN n ELSE fs[x]
      BY <1>3
    <2>2. n >= 0
      BY <1>1
    <2> QED
      BY <2>1, <2>2 DEF In
  <1> QED
    BY <1>2, <1>3, <1>4, <1>5 DEF In

LEMMA IdParts ==
    ASSUME NEW id \in Id
    PROVE  id[1] \in User /\ id[2] \in Name /\ id = <<id[1], id[2]>>
  BY DEF Id

\* What _findnext leaves, found or not.
LEMMA FindRight ==
    ASSUME TypeOK, NEW pos \in Nat, NEW none, FindFile(pos, none), allUsers' \in BOOLEAN
    PROVE  LET list == Listing(files, allUsers', findUser')
               r == Counters(files[foundId'])
           IN  /\ hl' \in {0, 255} /\ dirPos' \in Nat /\ dirPos' >= pos
               /\ hl' = 0 =>
                     /\ foundId' \in list /\ foundId' \in Id /\ files[foundId'] \in Nat
                     /\ Listed(foundId', pattern')
                     /\ dirPos' = Place(list, foundId') /\ dirPos' > pos
                     /\ rest' = Rest(r)
                     /\ entry' = DirEntry(r, IF allUsers' THEN foundId'[1] ELSE userCode)
               /\ hl' = 255 => rest' = none /\ foundId' = foundId /\ entry' = entry
               /\ \A x \in list : Listed(x, pattern') /\ Place(list, x) > pos
                                     => hl' = 0 /\ Place(list, x) >= dirPos'
  <1> DEFINE scan == Scan(files, pos, pattern', allUsers', findUser')
             list == Listing(files, allUsers', findUser')
  <1>1. /\ scan.hit \in BOOLEAN /\ scan.pos \in Nat /\ scan.pos >= pos
        /\ scan.hit => /\ scan.id \in list /\ Listed(scan.id, pattern')
                       /\ scan.pos = Place(list, scan.id) /\ scan.pos > pos
        /\ \A x \in list : Listed(x, pattern') /\ Place(list, x) > pos
                              => scan.hit /\ Place(list, x) >= scan.pos
    BY ScanRight
  <1>2. /\ dirPos' = scan.pos
        /\ scan.hit => LET r == Counters(files[scan.id])
                       IN  /\ hl' = 0 /\ foundId' = scan.id /\ rest' = Rest(r)
                           /\ entry' = DirEntry(r, IF allUsers' THEN scan.id[1] ELSE userCode)
        /\ ~scan.hit => hl' = 255 /\ rest' = none /\ foundId' = foundId /\ entry' = entry
    BY Zenon DEF FindFile
  <1>3. \A x \in list : x \in Id /\ files[x] \in Nat
    BY FilesTyped DEF Listing, In, TypeOK, Files
  <1> HIDE DEF scan, list
  <1>4. hl' = 0 <=> scan.hit
    BY <1>1, <1>2
  <1> QED
    BY <1>1, <1>2, <1>3, <1>4 DEF list

\* What a find without an entry leaves.
LEMMA FindOnlyRight ==
    ASSUME TypeOK, NEW fs, NEW p, NEW all \in BOOLEAN, NEW exts, FindOnly(fs, p, all, exts)
    PROVE  LET q   == IF all THEN Name ELSE p
               hit == Scan(fs, 0, q, all, userCode).hit
           IN  /\ hit \in BOOLEAN /\ dirPos' \in Nat /\ rest' = Nothing /\ foundId' \in Id
               /\ findUser' = userCode /\ pattern' = q /\ allUsers' = all /\ allExtents' = exts
               /\ hit => /\ foundId' \in In(fs) /\ Listed(foundId', q)
                         /\ all \/ foundId'[1] = userCode
               /\ ~hit => foundId' = foundId
               /\ ~hit => \A x \in In(fs) : ~(Listed(x, q) /\ (all \/ x[1] = userCode))
  <1> DEFINE q    == IF all THEN Name ELSE p
             scan == Scan(fs, 0, q, all, userCode)
             list == Listing(fs, all, userCode)
  <1>0. 0 \in Nat
    OBVIOUS
  <1>1. /\ findUser' = userCode /\ pattern' = q /\ allUsers' = all /\ allExtents' = exts
    BY DEF FindOnly
  <1>2. /\ dirPos' = scan.pos /\ rest' = Nothing
        /\ foundId' = IF scan.hit THEN scan.id ELSE foundId
    BY <1>1, Zenon DEF FindOnly
  <1> HIDE DEF q
  <1>3. /\ scan.hit \in BOOLEAN /\ scan.pos \in Nat
        /\ scan.hit => scan.id \in list /\ Listed(scan.id, q)
        /\ \A x \in list : Listed(x, q) /\ Place(list, x) > 0 => scan.hit
    BY <1>0, ScanRight, Zenon
  <1>4. \A x : x \in list <=> x \in In(fs) /\ (all \/ x[1] = userCode)
    BY DEF Listing
  <1>5. \A x \in list : x \in Id /\ Place(list, x) > 0
    <2>1. list \in SUBSET Id
      BY ListingTyped
    <2> HIDE DEF list
    <2>2. \A x \in list : x \in Id /\ Place(list, x) \in Nat \ {0}
      BY <2>1, PlaceOrder
    <2> QED
      BY <2>2
  <1>6. foundId \in Id
    BY DEF TypeOK
  <1> HIDE DEF scan, list
  <1> QED
    BY <1>1, <1>2, <1>3, <1>4, <1>5, <1>6 DEF scan, q

LEMMA FoundTyped ==
    ASSUME TypeOK, NEW pos \in Nat, NEW none, FindFile(pos, none), allUsers' \in BOOLEAN,
           CountersRight(none), none.records > 0 => none.used >= extentsPerDirEntry
    PROVE  /\ dirPos' \in Nat /\ foundId' \in Id /\ entry' \in Entry /\ hl' \in {0, 255}
           /\ CountersInv'
           /\ hl' = 0 => EntryExtent(entry') < extentsPerDirEntry
  <1>1. dirPos' \in Nat /\ hl' \in {0, 255}
    BY FindRight
  <1>2. CASE hl' = 0
    <2> DEFINE r == Counters(files[foundId'])
               u == IF allUsers' THEN foundId'[1] ELSE userCode
    <2>1. /\ foundId' \in Id /\ files[foundId'] \in Nat /\ rest' = Rest(r)
          /\ entry' = DirEntry(r, u)
      BY <1>2, FindRight
    <2>2. CountersRight(r) /\ r.used = 0
      BY <2>1, CountersOfFile, Zenon
    <2>3. u \in User
      BY <2>1, IdParts DEF TypeOK
    <2> HIDE DEF r, u
    <2>4. entry' \in Entry
      BY <2>1, <2>2, <2>3, EntryRight
    <2>5. EntryExtent(entry') < extentsPerDirEntry
      <3>1. EntryExtent(entry') = IF r.extents = 0 THEN 0
                  ELSE IF r.extents <= extentsPerDirEntry THEN r.extents - 1 + r.used
                  ELSE extentsPerDirEntry - 1 + r.used
        BY <2>1, <2>2, <2>3, EntryRight
      <3>2. r.extents \in Nat
        BY <2>2 DEF CountersRight
      <3> QED
        BY <2>2, <3>1, <3>2, Sizes
    <2>6. CountersInv'
      BY <2>1, <2>2, RestRight DEF CountersInv
    <2> QED
      BY <1>1, <2>1, <2>4, <2>5, <2>6
  <1>3. CASE hl' = 255
    <2>1. rest' = none /\ foundId' = foundId /\ entry' = entry
      BY <1>3, FindRight
    <2> QED
      BY <1>1, <1>3, <2>1 DEF TypeOK, CountersInv, Entry
  <1> QED
    BY <1>1, <1>2, <1>3

LEMMA HearTyped ==
    ASSUME NEW old, Heard(old), foundId' \in Id, entry' \in Entry, hl' \in {0, 255}, Hear(old)
    PROVE  /\ Heard(heard') /\ phase' \in {"on", "over"}
           /\ hl' = 0 => /\ phase' = "on" /\ heard' = Append(old, <<foundId', entry'>>)
                         /\ Len(heard') > 0 /\ heard'[Len(heard')][1] = foundId'
           /\ hl' = 255 => phase' = "over" /\ heard' = old
  <1>1. CASE hl' = 0
    <2>1. PICK x \in Id \X Entry : x = <<foundId', entry'>>
      OBVIOUS
    <2>2. heard' = Append(old, x) /\ phase' = "on"
      BY <1>1, <2>1 DEF Hear
    <2>3. Heard(heard') /\ Len(heard') = Len(old) + 1 /\ heard'[Len(heard')] = x /\ Len(old) \in Nat
      BY <2>2 DEF Heard
    <2> QED
      BY <1>1, <2>1, <2>2, <2>3
  <1>2. CASE hl' = 255
    BY <1>2 DEF Hear
  <1> QED
    BY <1>1, <1>2

Typed == TypeOK /\ CountersInv /\ ViewInv

\* The calls of a search.
LEMMA SearchTyped ==
    ASSUME Typed,
           SearchNext \/ \E p \in Pattern, all, exts \in BOOLEAN : SearchFirst(p, all, exts)
    PROVE  Typed'
  <1>1. CASE SearchNext
    <2>1. /\ allUsers' = allUsers /\ findUser' = findUser /\ pattern' = pattern
          /\ allExtents' = allExtents
      BY <1>1 DEF SearchNext, placeVars
    <2>2. /\ dirPos' \in Nat /\ foundId' \in Id /\ entry' \in Entry /\ hl' \in {0, 255}
          /\ CountersInv'
      <3>1. CASE NextFile
        <4>1. FindFile(dirPos, rest)
          BY <3>1 DEF NextFile
        <4>2. dirPos \in Nat /\ allUsers' \in BOOLEAN
          BY <2>1 DEF Typed, TypeOK
        <4>3. CountersRight(rest) /\ (rest.records > 0 => rest.used >= extentsPerDirEntry) /\ TypeOK
          BY DEF Typed, CountersInv
        <4> QED
          BY <4>1, <4>2, <4>3, FoundTyped
      <3>2. CASE NextExtent
        <4>1. /\ dirPos' = dirPos /\ foundId' = foundId /\ hl' = 0 /\ rest' = Rest(rest)
              /\ entry' = DirEntry(rest, IF allUsers THEN foundId[1] ELSE userCode)
          BY <3>2 DEF NextExtent
        <4>2. (IF allUsers THEN foundId[1] ELSE userCode) \in User
          BY IdParts DEF Typed, TypeOK
        <4>3. CountersRight(rest)
          BY DEF Typed, CountersInv
        <4>4. entry' \in Entry
          BY <4>1, <4>2, <4>3, EntryRight
        <4>5. CountersInv'
          BY <4>1, <4>3, RestRight DEF CountersInv
        <4> QED
          BY <4>1, <4>4, <4>5 DEF Typed, TypeOK
      <3> QED
        BY <1>1, <3>1, <3>2 DEF SearchNext
    <2>3. TypeOK'
      BY <1>1, <2>1, <2>2 DEF Typed, TypeOK, SearchNext, deleteVars, Entry, CountersInv, CountersRight
    <2>4. ViewInv'
      <3>1. stable' = stable /\ gone' = gone /\ come' = come /\ files' = files
        BY <1>1 DEF SearchNext
      <3>2. CASE phase = "on"
        <4>1. Hear(heard) /\ Heard(heard)
          BY <1>1, <3>2 DEF SearchNext, Typed, ViewInv
        <4>2. /\ Heard(heard') /\ phase' \in {"on", "over"}
              /\ phase' = "on" => Len(heard') > 0 /\ heard'[Len(heard')][1] = foundId'
          BY <2>2, <4>1, HearTyped
        <4> QED
          BY <3>1, <3>2, <4>2 DEF Typed, ViewInv
      <3>3. CASE phase # "on"
        <4>1. phase' = phase /\ heard' = heard
          BY <1>1, <3>3 DEF SearchNext
        <4> QED
          BY <3>1, <3>3, <4>1 DEF Typed, ViewInv
      <3> QED
        BY <3>2, <3>3
    <2> QED
      BY <2>2, <2>3, <2>4 DEF Typed
  <1>2. ASSUME NEW p \in Pattern, NEW all \in BOOLEAN, NEW exts \in BOOLEAN, SearchFirst(p, all, exts)
        PROVE  Typed'
    <2>1. /\ allUsers' = all /\ findUser' = userCode /\ allExtents' = exts
          /\ pattern' = IF all THEN Name ELSE p
          /\ FindFile(0, Nothing) /\ Hear(<<>>) /\ stable' = In(files) /\ gone' = 0 /\ come' = 0
          /\ files' = files /\ userCode' = userCode /\ deleting' = deleting /\ deleted' = deleted
          /\ locked' = locked
      BY <1>2 DEF SearchFirst, deleteVars
    <2>2. p \subseteq Name
      BY SearchAssumption
    <2>3. /\ dirPos' \in Nat /\ foundId' \in Id /\ entry' \in Entry /\ hl' \in {0, 255}
          /\ CountersInv'
      <3>1. 0 \in Nat /\ CountersRight(Nothing) /\ (Nothing.records > 0 => Nothing.used >= extentsPerDirEntry)
        BY NothingRight
      <3> QED
        BY <2>1, <3>1, FoundTyped DEF Typed
    <2>4. TypeOK'
      BY <2>1, <2>2, <2>3 DEF Typed, TypeOK, Entry, CountersInv, CountersRight
    <2>5. Heard(<<>>)
      BY DEF Heard
    <2>6. /\ Heard(heard') /\ phase' \in {"on", "over"}
          /\ phase' = "on" => Len(heard') > 0 /\ heard'[Len(heard')][1] = foundId'
      BY <2>1, <2>3, <2>5, HearTyped
    <2>7. ViewInv'
      BY <2>1, <2>6 DEF ViewInv, In
    <2> QED
      BY <2>3, <2>4, <2>7 DEF Typed
  <1> QED
    BY <1>1, <1>2

\* The calls that search on the way.
LEMMA FindOnlyTyped ==
    ASSUME Typed, DeleteInv,
           \/ \E p \in Pattern, all, exts \in BOOLEAN : DeleteFirst(p, all, exts)
           \/ DeleteNext
           \/ ResetDisks
    PROVE  Typed'
  <1>1. Heard(<<>>) /\ In(files) \in SUBSET Id
    BY DEF Heard, In
  <1>2. ASSUME NEW p \in Pattern, NEW all \in BOOLEAN, NEW exts \in BOOLEAN,
               DeleteFirst(p, all, exts)
        PROVE  Typed'
    <2>1. FindOnly(files, p, all, exts) /\ p \subseteq Name
      BY <1>2, SearchAssumption DEF DeleteFirst
    <2>2. /\ dirPos' \in Nat /\ rest' = Nothing /\ foundId' \in Id /\ findUser' = userCode
          /\ pattern' = IF all THEN Name ELSE p
          /\ allUsers' = all /\ allExtents' = exts
      BY <2>1, FindOnlyRight DEF Typed
    <2>3. pattern' \subseteq Name
      BY <2>1, <2>2
    <2>4. /\ files' = files /\ locked' = locked /\ userCode' = userCode /\ entry' = entry
          /\ hl' \in {0, 255} /\ deleting' \subseteq Name /\ deleted' \in {0, 255}
      BY <1>2, <2>3 DEF DeleteFirst, Typed, TypeOK, deleteVars
    <2>5. /\ phase' = "none" /\ heard' = <<>> /\ stable' = In(files) /\ gone' = 0 /\ come' = 0
      BY <1>2 DEF DeleteFirst
    <2>6. CountersInv'
      BY <2>2, NothingRight DEF CountersInv
    <2>7. TypeOK'
      BY <2>2, <2>3, <2>4, <2>6 DEF Typed, TypeOK, CountersInv, CountersRight
    <2>8. ViewInv'
      BY <1>1, <2>5 DEF Typed, ViewInv
    <2> QED
      BY <2>6, <2>7, <2>8 DEF Typed
  <1>3. CASE ResetDisks
    <2>1. FindOnly(files, SubName, FALSE, FALSE) /\ SubName \subseteq Name
      BY <1>3, SearchAssumption DEF ResetDisks
    <2>2. /\ dirPos' \in Nat /\ rest' = Nothing /\ foundId' \in Id /\ findUser' = userCode
          /\ pattern' = SubName /\ allUsers' = FALSE /\ allExtents' = FALSE
      BY <2>1, FindOnlyRight DEF Typed
    <2>3. /\ files' = files /\ locked' = locked /\ userCode' = userCode /\ entry' = entry
          /\ hl' \in {0, 255} /\ deleting' = deleting /\ deleted' = deleted
      BY <1>3 DEF ResetDisks, deleteVars
    <2>4. /\ phase' = "none" /\ heard' = <<>> /\ stable' = stable /\ gone' = gone /\ come' = come
      BY <1>3 DEF ResetDisks
    <2>5. CountersInv'
      BY <2>2, NothingRight DEF CountersInv
    <2>6. TypeOK'
      BY <2>1, <2>2, <2>3, <2>5 DEF Typed, TypeOK, CountersInv, CountersRight
    <2>7. ViewInv'
      BY <1>1, <2>4 DEF Typed, ViewInv
    <2> QED
      BY <2>5, <2>6, <2>7 DEF Typed
  <1>4. CASE DeleteNext
    <2>1. /\ ~Idle /\ phase = "none" /\ (allUsers => deleting = Name)
          /\ FindOnly(files', deleting, allUsers, allExtents)
      BY <1>4 DEF DeleteNext, FindAgain, DeleteInv
    <2>2. allUsers \in BOOLEAN /\ allExtents \in BOOLEAN /\ deleting \subseteq Name
      BY DEF Typed, TypeOK
    <2>3. /\ dirPos' \in Nat /\ rest' = Nothing /\ foundId' \in Id /\ findUser' = userCode
          /\ pattern' = deleting /\ allUsers' = allUsers /\ allExtents' = allExtents
      BY <2>1, <2>2, FindOnlyRight DEF Typed
    <2>4. deleting' \subseteq Name
      BY <1>4, <2>2 DEF DeleteNext, FindAgain
    <2>5. Victim \in Id
      BY IdParts DEF Victim, Typed, TypeOK, Id
    <2>6. Files(files')
      BY <1>4, <2>5, FilesTyped DEF DeleteNext, Typed, TypeOK, Files
    <2>7. deleted' \in {0, 255} /\ hl' \in {0, 255}
      BY <1>4 DEF DeleteNext, Typed, TypeOK
    <2>8. /\ userCode' = userCode /\ entry' = entry /\ phase' = phase /\ heard' = heard
          /\ stable' = stable /\ gone' = gone /\ come' = come /\ locked' = locked
      BY <1>4 DEF DeleteNext, viewVars
    <2>9. CountersInv'
      BY <2>3, NothingRight DEF CountersInv
    <2>10. TypeOK'
      BY <2>2, <2>3, <2>4, <2>6, <2>7, <2>8, <2>9
      DEF Typed, TypeOK, CountersInv, CountersRight, Files
    <2>11. ViewInv'
      BY <2>1, <2>8 DEF Typed, ViewInv
    <2> QED
      BY <2>9, <2>10, <2>11 DEF Typed
  <1> QED
    BY <1>2, <1>3, <1>4

\* Other calls, and the host.
LEMMA OtherTyped ==
    ASSUME Typed,
           \/ UNCHANGED vars \/ OtherCall
           \/ \E u \in User : SetUser(u)
           \/ \E id \in Id : HostRemove(id) \/ HostLock(id) \/ \E n \in Length : HostAdd(id, n)
    PROVE  Typed'
  <1>1. CASE UNCHANGED vars
    BY <1>1 DEF vars, placeVars, deleteVars, viewVars, Typed, TypeOK, CountersInv, ViewInv, In
  <1>2. CASE OtherCall
    <2>1. Heard(heard')
      BY <1>2 DEF OtherCall, Typed, ViewInv, Heard
    <2>2. /\ (phase' = phase /\ heard' = heard) \/ phase' = "none"
      BY <1>2 DEF OtherCall
    <2> QED
      BY <1>2, <2>1, <2>2
      DEF OtherCall, deleteVars, Typed, TypeOK, CountersInv, ViewInv, In
  <1>3. ASSUME NEW u \in User, SetUser(u)
        PROVE  Typed'
    BY <1>3 DEF SetUser, placeVars, deleteVars, viewVars, Typed, TypeOK, CountersInv, ViewInv, In
  <1>4. ASSUME NEW id \in Id, HostRemove(id)
        PROVE  Typed'
    <2>0. files' = [files EXCEPT ![id] = -1] /\ Files(files)
      BY <1>4 DEF HostRemove, Typed, TypeOK, Files
    <2>1. Files(files') /\ In(files') = In(files) \ {id}
      BY <2>0, FilesTyped
    <2>2. /\ gone' = gone + 1 /\ stable' = stable \ {id}
          /\ UNCHANGED <<locked, userCode, findUser, pattern, allUsers, allExtents, dirPos, foundId,
                         rest, entry, hl, deleting, deleted, phase, heard, come>>
      BY <1>4 DEF HostRemove, placeVars, deleteVars
    <2>3. TypeOK' /\ CountersInv'
      BY <2>1, <2>2 DEF Typed, TypeOK, CountersInv, Files
    <2>4. ViewInv'
      BY <2>1, <2>2 DEF Typed, ViewInv
    <2> QED
      BY <2>3, <2>4 DEF Typed
  <1>5. ASSUME NEW id \in Id, NEW n \in Length, HostAdd(id, n)
        PROVE  Typed'
    <2>0. files' = [files EXCEPT ![id] = n] /\ Files(files)
      BY <1>5 DEF HostAdd, Typed, TypeOK, Files
    <2>1. Files(files') /\ In(files') = In(files) \cup {id}
      BY <2>0, FilesTyped
    <2>2. /\ come' = come + 1
          /\ UNCHANGED <<locked, userCode, findUser, pattern, allUsers, allExtents, dirPos, foundId,
                         rest, entry, hl, deleting, deleted, phase, heard, stable, gone>>
      BY <1>5 DEF HostAdd, placeVars, deleteVars
    <2>3. TypeOK' /\ CountersInv'
      BY <2>1, <2>2 DEF Typed, TypeOK, CountersInv, Files
    <2>4. ViewInv'
      BY <2>1, <2>2 DEF Typed, ViewInv
    <2> QED
      BY <2>3, <2>4 DEF Typed
  <1>6. ASSUME NEW id \in Id, HostLock(id)
        PROVE  Typed'
    <2>1. /\ locked' \subseteq Id
          /\ UNCHANGED <<files, userCode, findUser, pattern, allUsers, allExtents, dirPos, foundId,
                         rest, entry, hl, deleting, deleted, phase, heard, stable, gone, come>>
      BY <1>6 DEF HostLock, placeVars, deleteVars, viewVars, Typed, TypeOK
    <2> QED
      BY <2>1 DEF Typed, TypeOK, CountersInv, ViewInv, In
  <1> QED
    BY <1>1, <1>2, <1>3, <1>4, <1>5, <1>6

\* What an iteration of delete removes: what it found, if that lies in its user
\* area and the host does not refuse; else a file of that name that does, or none.
LEMMA DeleteNextRight ==
    ASSUME Typed, DeleteInv, DeleteNext
    PROVE  /\ In(files') = IF Removes THEN In(files) \ {Victim} ELSE In(files)
           /\ Victim \in Id /\ Victim[1] = userCode
           /\ foundId[1] = userCode => Victim = foundId
           /\ ~Idle' => /\ deleting' = deleting /\ foundId' \in In(files')
                        /\ Listed(foundId', deleting) /\ (allUsers \/ foundId'[1] = userCode)
           /\ Idle' => \A x \in In(files') : ~Matching(x)
           /\ UNCHANGED <<allUsers, userCode, phase, stable, gone, come>>
  <1> DEFINE hit == Scan(files', 0, deleting, allUsers, userCode).hit
  <1>1. /\ ~Idle /\ FindOnly(files', deleting, allUsers, allExtents)
        /\ deleting' = IF hit THEN deleting ELSE {}
        /\ files' = IF Removes THEN [files EXCEPT ![Victim] = -1] ELSE files
        /\ UNCHANGED <<userCode, phase, stable, gone, come>>
    BY DEF DeleteNext, FindAgain, viewVars
  <1>2. foundId \in Id /\ allUsers \in BOOLEAN /\ (allUsers => deleting = Name)
    BY <1>1 DEF DeleteInv, Typed, TypeOK
  <1>3. /\ Victim \in Id /\ Victim[1] = userCode
        /\ foundId[1] = userCode => Victim = foundId
    BY <1>2, IdParts DEF Victim, Typed, TypeOK, Id
  <1>4. In(files') = IF Removes THEN In(files) \ {Victim} ELSE In(files)
    BY <1>1, <1>3, FilesTyped DEF Typed, TypeOK, Files
  <1>5. (IF allUsers THEN Name ELSE deleting) = deleting
    BY <1>2
  <1>6. /\ hit \in BOOLEAN /\ allUsers' = allUsers
        /\ hit => /\ foundId' \in In(files') /\ Listed(foundId', deleting)
                  /\ allUsers \/ foundId'[1] = userCode
        /\ ~hit => \A x \in In(files') : ~(Listed(x, deleting) /\ (allUsers \/ x[1] = userCode))
    <2>1. TypeOK
      BY DEF Typed
    <2> QED
      BY <1>1, <1>2, <1>5, <2>1, FindOnlyRight
  <1> HIDE DEF hit
  <1> QED
    BY <1>1, <1>3, <1>4, <1>6 DEF Idle, Matching

\* Another user area is out of the removes' reach, and what they take there is matched.
LEMMA DeleteNextKeeps ==
    ASSUME Typed, DeleteInv, DeleteNext, ~Idle', gone = 0, come = 0
    PROVE  /\ In(files') \subseteq stable
           /\ Elsewhere' \/ \A id \in stable \ In(files') : Matching(id)'
  <1>1. /\ In(files') = IF Removes THEN In(files) \ {Victim} ELSE In(files)
        /\ Victim[1] = userCode /\ (foundId[1] = userCode => Victim = foundId)
        /\ deleting' = deleting /\ UNCHANGED <<allUsers, userCode>>
    BY DeleteNextRight
  <1>2. /\ foundId \in In(files) /\ Matching(foundId) /\ In(files) \subseteq stable
        /\ Elsewhere \/ \A id \in stable \ In(files) : Matching(id)
    BY DEF DeleteInv, DeleteNext
  <1>3. \A id : Matching(id)' <=> Matching(id)
    BY <1>1 DEF Matching, Listed
  <1>4. CASE Elsewhere \/ foundId[1] # userCode
    <2>1. PICK id \in In(files) : Matching(id) /\ id[1] # userCode
      BY <1>2, <1>4 DEF Elsewhere
    <2>2. id \in In(files')
      BY <1>1, <2>1
    <2>3. Elsewhere'
      BY <1>1, <1>3, <2>1, <2>2 DEF Elsewhere
    <2> QED
      BY <1>1, <1>2, <2>3
  <1>5. CASE ~Elsewhere /\ foundId[1] = userCode
    BY <1>1, <1>2, <1>3, <1>5
  <1> QED
    BY <1>4, <1>5

LEMMA DeleteStep ==
    ASSUME Typed, DeleteInv, [Next]_vars
    PROVE  DeleteInv'
  <1>1. CASE Idle'
    BY <1>1 DEF DeleteInv, Idle
  <1>2. CASE DeleteNext /\ ~Idle'
    <2>1. /\ phase = "none" /\ (allUsers => deleting = Name)
      BY <1>2 DEF DeleteNext, DeleteInv
    <2>2. /\ deleting' = deleting /\ foundId' \in In(files')
          /\ Listed(foundId', deleting) /\ (allUsers \/ foundId'[1] = userCode)
          /\ UNCHANGED <<allUsers, userCode, phase, stable, gone, come>>
      BY <1>2, DeleteNextRight
    <2>3. Matching(foundId)'
      BY <2>2 DEF Matching, Listed
    <2>4. gone' = 0 /\ come' = 0 =>
             /\ In(files') \subseteq stable'
             /\ Elsewhere' \/ \A id \in stable' \ In(files') : Matching(id)'
      BY <1>2, <2>2, DeleteNextKeeps
    <2> QED
      BY <2>1, <2>2, <2>3, <2>4 DEF DeleteInv, In
  <1>3. ASSUME NEW p \in Pattern, NEW all \in BOOLEAN, NEW exts \in BOOLEAN,
               DeleteFirst(p, all, exts), ~Idle'
        PROVE  DeleteInv'
    <2> DEFINE q   == IF all THEN Name ELSE p
               hit == Scan(files, 0, q, all, userCode).hit
    <2>1. FindOnly(files, p, all, exts) /\ Idle /\ files' = files /\ userCode' = userCode
          /\ phase' = "none" /\ stable' = In(files)
      BY <1>3 DEF DeleteFirst
    <2>2. /\ hit \in BOOLEAN /\ pattern' = q /\ allUsers' = all
          /\ hit => /\ foundId' \in In(files) /\ Listed(foundId', q)
                    /\ all \/ foundId'[1] = userCode
      BY <2>1, FindOnlyRight DEF Typed
    <2>3. deleting' = IF hit THEN q ELSE {}
      BY <1>3, <2>2 DEF DeleteFirst, deleteVars, Idle
    <2>4. hit
      BY <1>3, <2>2, <2>3 DEF Idle
    <2>5. In(files') = In(files)
      BY <2>1
    <2> HIDE DEF hit
    <2>6. Matching(foundId)'
      BY <2>1, <2>2, <2>3, <2>4 DEF Matching, Listed
    <2>7. allUsers' => deleting' = Name
      BY <2>2, <2>3, <2>4
    <2> HIDE DEF q
    <2> QED
      BY <2>1, <2>2, <2>4, <2>5, <2>6, <2>7 DEF DeleteInv, In
  <1>4. ASSUME NEW id \in Id, HostRemove(id)
        PROVE  DeleteInv'
    <2>1. /\ gone' = gone + 1 /\ gone \in Nat
          /\ UNCHANGED <<userCode, allUsers, foundId, deleting, phase>>
      BY <1>4 DEF HostRemove, placeVars, deleteVars, Typed, ViewInv
    <2> QED
      BY <2>1 DEF DeleteInv, Idle, Matching, Listed
  <1>5. ASSUME NEW id \in Id, NEW n \in Length, HostAdd(id, n)
        PROVE  DeleteInv'
    <2>1. /\ come' = come + 1 /\ come \in Nat
          /\ UNCHANGED <<userCode, allUsers, foundId, deleting, phase, gone>>
      BY <1>5 DEF HostAdd, placeVars, deleteVars, Typed, ViewInv
    <2>2. files' = [files EXCEPT ![id] = n] /\ Files(files)
      BY <1>5 DEF HostAdd, Typed, TypeOK, Files
    <2>3. In(files') = In(files) \cup {id}
      BY <2>2, FilesTyped
    <2> QED
      BY <2>1, <2>3 DEF DeleteInv, Idle, Matching, Listed, In
  <1>6. ASSUME UNCHANGED vars \/ \E id \in Id : HostLock(id)
        PROVE  DeleteInv'
    <2>1. UNCHANGED <<files, userCode, allUsers, foundId, deleting, phase, stable, gone, come>>
      BY <1>6 DEF vars, HostLock, placeVars, deleteVars, viewVars
    <2> QED
      BY <2>1 DEF DeleteInv, Idle, Matching, Listed, In, Elsewhere
  <1>7. CASE SearchNext \/ ResetDisks \/ OtherCall
    BY <1>1, <1>7 DEF SearchNext, ResetDisks, OtherCall, deleteVars, Idle
  <1>8. ASSUME NEW p \in Pattern, NEW all \in BOOLEAN, NEW exts \in BOOLEAN, SearchFirst(p, all, exts)
        PROVE  DeleteInv'
    BY <1>1, <1>8 DEF SearchFirst, deleteVars, Idle
  <1>9. ASSUME NEW u \in User, SetUser(u)
        PROVE  DeleteInv'
    BY <1>1, <1>9 DEF SetUser, deleteVars, Idle
  <1> QED
    BY <1>1, <1>2, <1>3, <1>4, <1>5, <1>6, <1>7, <1>8, <1>9 DEF Next

LEMMA InitSearch == Init => SearchInv
  <1> SUFFICES ASSUME Init PROVE SearchInv
    OBVIOUS
  <1>1. TypeOK
    <2>1. NoEntry \in Entry /\ Nothing \in [records : 0..(RecordSpan - 1), extents : Nat, used : Nat]
      BY Sizes, SearchAssumption, NothingRight DEF NoEntry, Entry, CountersRight
    <2> QED
      BY <2>1, SearchAssumption DEF Init, TypeOK, Entry
  <1>2. CountersInv
    BY NothingRight DEF Init, CountersInv
  <1>3. ViewInv /\ DeleteInv
    BY DEF Init, ViewInv, Heard, DeleteInv, Idle
  <1> QED
    BY <1>1, <1>2, <1>3 DEF SearchInv

LEMMA SearchStep ==
    ASSUME SearchInv, [Next]_vars
    PROVE  SearchInv'
  <1>1. Typed /\ DeleteInv
    BY DEF SearchInv, Typed
  <1>2. Typed'
    BY <1>1, SearchTyped, FindOnlyTyped, OtherTyped DEF Next
  <1> QED
    BY <1>1, <1>2, DeleteStep DEF SearchInv, Typed

LEMMA SearchAlways == Spec => []SearchInv
  BY InitSearch, SearchStep, PTL DEF Spec

\* Type invariant: extent and record numbers fit their bytes in every directory
\* entry, of files of any length.
THEOREM TypeCorrect == Spec => []TypeOK
  <1>1. SearchInv => TypeOK
    BY DEF SearchInv
  <1> QED
    BY <1>1, SearchAlways, PTL

\* A delete returns only when no file is there that matches, also when the host acts
\* or refuses to remove one; if files neither come nor go otherwise, it has removed
\* every file that matched, and no other, and reports success (_DeleteFile).
THEOREM DeletesExactly == Spec => DeleteExact
  <1>1. ASSUME SearchInv, [Next]_vars
        PROVE  [~Idle /\ Idle' =>
                   /\ \A id \in In(files') : ~Matching(id)
                   /\ gone = 0 /\ come = 0 =>
                         /\ In(files') = {id \in stable : ~Matching(id)}
                         /\ hl' = 0]_vars
    <2> SUFFICES ASSUME Next, ~Idle, Idle'
                 PROVE  /\ \A id \in In(files') : ~Matching(id)
                        /\ gone = 0 /\ come = 0 =>
                              /\ In(files') = {id \in stable : ~Matching(id)}
                              /\ hl' = 0
      BY <1>1
    <2>1. DeleteNext
      BY DEF Next, SearchFirst, SearchNext, DeleteFirst, ResetDisks, OtherCall, SetUser,
             HostRemove, HostAdd, HostLock, deleteVars, Idle
    <2>2. Typed /\ DeleteInv
      BY <1>1 DEF SearchInv, Typed
    <2>3. /\ In(files') = IF Removes THEN In(files) \ {Victim} ELSE In(files)
          /\ Victim[1] = userCode /\ (foundId[1] = userCode => Victim = foundId)
          /\ \A x \in In(files') : ~Matching(x)
      BY <2>1, <2>2, DeleteNextRight
    <2>4. SUFFICES ASSUME gone = 0, come = 0
                   PROVE  In(files') = {id \in stable : ~Matching(id)} /\ hl' = 0
      BY <2>3
    <2>5. /\ foundId \in In(files) /\ Matching(foundId) /\ In(files) \subseteq stable
          /\ Elsewhere \/ \A id \in stable \ In(files) : Matching(id)
      BY <2>2, <2>4 DEF DeleteInv
    <2>6. ~Elsewhere /\ foundId[1] = userCode /\ Removes
      BY <2>3, <2>5 DEF Elsewhere
    <2>7. hl' = 0
      BY <2>1, <2>6 DEF DeleteNext
    <2> QED
      BY <2>3, <2>5, <2>6, <2>7
  <1> QED
    BY <1>1, SearchAlways, PTL DEF Spec, DeleteExact

-----------------------------------------------------------------------------
(* What a search misses.                                                   *)

LEMMA SmallerSet ==
    ASSUME NEW T \in SUBSET Id, NEW S \in SUBSET T
    PROVE  /\ Cardinality(S) \in Nat /\ Cardinality(T) \in Nat
           /\ Cardinality(S) <= Cardinality(T)
  BY IdFinite, FS_Subset

\* The listing the search is in, as the host changes it.
List == Listing(files, allUsers, findUser)

LEMMA ListRemove ==
    ASSUME Typed, NEW id \in Id, HostRemove(id)
    PROVE  List' = List \ {id}
  <1>1. files' = [files EXCEPT ![id] = -1] /\ Files(files)
    BY DEF HostRemove, Typed, TypeOK, Files
  <1>2. In(files') = In(files) \ {id}
    BY <1>1, FilesTyped
  <1> QED
    BY <1>2 DEF HostRemove, List, Listing, placeVars

LEMMA ListAdd ==
    ASSUME Typed, NEW id \in Id, NEW n \in Length, HostAdd(id, n)
    PROVE  /\ List = List' \ {id} /\ In(files') = In(files) \cup {id} /\ id \notin In(files)
  <1>1. files' = [files EXCEPT ![id] = n] /\ files[id] < 0 /\ Files(files)
    BY DEF HostAdd, Typed, TypeOK, Files
  <1>2. In(files') = In(files) \cup {id}
    BY <1>1, FilesTyped
  <1>3. id \notin In(files)
    <2>1. files[id] \in Int /\ (id \in In(files) <=> files[id] >= 0)
      BY <1>1, FilesTyped, Zenon
    <2> QED
      BY <1>1, <2>1
  <1> QED
    BY <1>2, <1>3 DEF HostAdd, List, Listing, placeVars

LEMMA ListTyped == List \in SUBSET Id
  BY ListingTyped DEF List

IdsOf(h) == {h[i][1] : i \in DOMAIN h}

LEMMA IdsOfAppend ==
    ASSUME NEW h, Heard(h), NEW id \in Id, NEW e \in Entry
    PROVE  /\ IdsOf(h) \in SUBSET Id /\ IdsOf(<<>>) = {}
           /\ IdsOf(Append(h, <<id, e>>)) = IdsOf(h) \cup {id}
  <1>1. PICK x \in Id \X Entry : x = <<id, e>>
    OBVIOUS
  <1>2. Len(h) \in Nat /\ DOMAIN h = 1..Len(h) /\ \A i \in 1..Len(h) : h[i][1] \in Id
    BY DEF Heard
  <1>3. /\ DOMAIN Append(h, x) = 1..(Len(h) + 1)
        /\ \A i \in 1..Len(h) : Append(h, x)[i] = h[i]
        /\ Append(h, x)[Len(h) + 1] = x
    BY DEF Heard
  <1>4. IdsOf(Append(h, x)) = IdsOf(h) \cup {x[1]}
    BY <1>2, <1>3 DEF IdsOf
  <1> QED
    BY <1>1, <1>2, <1>4 DEF IdsOf

\* The files that the search should have returned by now, and did not.
Unheard == Wanted \ HeardIds
Missed  == {id \in Unheard : Place(List, id) <= dirPos}

MissInv ==
    /\ phase = "on" => Cardinality(Missed) <= gone
    /\ phase = "over" => Cardinality(Unheard) <= gone

\* A step that misses no more.
LEMMA MissesNoMore ==
    ASSUME Typed, Typed', MissInv, gone' = gone,
           phase' = "on" => phase = "on" /\ Missed' \subseteq Missed,
           phase' = "over" => \/ phase = "over" /\ Unheard' \subseteq Unheard
                              \/ phase = "on" /\ Unheard' \subseteq Missed
    PROVE  MissInv'
  <1>1. Unheard \in SUBSET Id /\ Missed \in SUBSET Id /\ gone \in Nat
    BY DEF Typed, ViewInv, Unheard, Missed, Wanted
  <1>2. Missed' \subseteq Missed => Cardinality(Missed') <= Cardinality(Missed)
    BY <1>1, SmallerSet
  <1>3. Unheard' \subseteq Unheard => Cardinality(Unheard') <= Cardinality(Unheard)
    BY <1>1, SmallerSet
  <1>4. Unheard' \subseteq Missed => Cardinality(Unheard') <= Cardinality(Missed)
    BY <1>1, SmallerSet
  <1>5. \A S \in SUBSET Id : Cardinality(S) \in Nat
    BY IdFinite
  <1>6. Unheard' \in SUBSET Id /\ Missed' \in SUBSET Id
    BY DEF Typed, ViewInv, Unheard, Missed, Wanted
  <1>7. /\ Cardinality(Unheard) \in Nat /\ Cardinality(Missed) \in Nat
        /\ Cardinality(Unheard') \in Nat /\ Cardinality(Missed') \in Nat
    BY <1>1, <1>5, <1>6
  <1> QED
    BY <1>1, <1>2, <1>3, <1>4, <1>7 DEF MissInv

\* What a look through the listing from entry pos on can have missed.
LEMMA FindMisses ==
    ASSUME Typed, Typed', NEW pos \in Nat, NEW none, FindFile(pos, none), files' = files,
           NEW old, Heard(old), Hear(old)
    PROVE  /\ phase' \in {"on", "over"} /\ Unheard' \subseteq Wanted' \ IdsOf(old)
           /\ phase' = "on" => \A x \in Missed' : Place(List', x) <= pos
           /\ phase' = "over" => \A x \in Unheard' : Place(List', x) <= pos
  <1> DEFINE list == Listing(files, allUsers', findUser')
  <1>1. list = List' /\ list \in SUBSET Id
    BY ListingTyped DEF List
  <1>2. allUsers' \in BOOLEAN /\ foundId' \in Id /\ entry' \in Entry /\ hl' \in {0, 255}
    BY DEF Typed, TypeOK, Entry
  <1>3. /\ phase' \in {"on", "over"}
        /\ hl' = 0 => phase' = "on" /\ heard' = Append(old, <<foundId', entry'>>)
        /\ hl' = 255 => phase' = "over" /\ heard' = old
    BY <1>2, HearTyped
  <1>4. HeardIds' = IdsOf(heard')
    BY DEF HeardIds, IdsOf
  <1>5. HeardIds' = IF hl' = 0 THEN IdsOf(old) \cup {foundId'} ELSE IdsOf(old)
    <2>1. IdsOf(Append(old, <<foundId', entry'>>)) = IdsOf(old) \cup {foundId'}
      BY <1>2, IdsOfAppend, Zenon
    <2> QED
      BY <1>2, <1>3, <1>4, <2>1
  <1>6. Unheard' \subseteq Wanted' \ IdsOf(old)
    BY <1>5 DEF Unheard
  <1>7. /\ hl' = 0 => foundId' \in list /\ dirPos' = Place(list, foundId')
        /\ \A x \in list : Listed(x, pattern') /\ Place(list, x) > pos
                              => hl' = 0 /\ Place(list, x) >= dirPos'
    BY <1>2, FindRight DEF Typed
  <1>8. \A x \in Unheard' : x \in list /\ Listed(x, pattern')
    BY <1>1, <1>3 DEF Typed, ViewInv, Unheard, Wanted, List, Listing
  <1>9. \A x \in list : Place(list, x) \in Nat
    BY <1>1, PlaceOrder
  <1>10. dirPos' \in Nat
    BY DEF Typed, TypeOK
  <1> HIDE DEF list
  <1>11. ASSUME phase' = "on", NEW x \in Missed'
         PROVE  Place(list, x) <= pos
    <2>1. x \in Unheard' /\ Place(list, x) <= dirPos'
      BY <1>1, <1>11 DEF Missed
    <2>2. x # foundId' /\ hl' = 0
      BY <1>2, <1>3, <1>5, <1>11, <2>1 DEF Unheard
    <2>3. ~(Place(list, x) > pos)
      <3> SUFFICES ASSUME Place(list, x) > pos PROVE FALSE
        OBVIOUS
      <3>1. Place(list, x) >= dirPos' /\ x \in list
        BY <1>7, <1>8, <2>1
      <3>2. Place(list, x) = Place(list, foundId')
        BY <1>7, <1>9, <1>10, <2>1, <2>2, <3>1
      <3>3. x = foundId'
        BY <1>1, <1>2, <1>7, <2>2, <3>1, <3>2, PlaceOrder
      <3> QED
        BY <2>2, <3>3
    <2> QED
      BY <1>8, <1>9, <2>1, <2>3
  <1>12. ASSUME phase' = "over", NEW x \in Unheard'
         PROVE  Place(list, x) <= pos
    BY <1>2, <1>3, <1>7, <1>8, <1>9, <1>12
  <1> QED
    BY <1>1, <1>3, <1>6, <1>11, <1>12

LEMMA MissSearch ==
    ASSUME Typed, Typed', MissInv,
           SearchNext \/ \E p \in Pattern, all, exts \in BOOLEAN : SearchFirst(p, all, exts)
    PROVE  MissInv'
  <1>1. CASE SearchNext
    <2>1. /\ UNCHANGED <<files, stable, gone, findUser, pattern, allUsers, allExtents>>
          /\ Wanted' = Wanted /\ List' = List
      BY <1>1 DEF SearchNext, placeVars, Wanted, List
    <2>2. HeardIds = IdsOf(heard) /\ Heard(heard) /\ dirPos \in Nat
      BY DEF Typed, ViewInv, TypeOK, HeardIds, IdsOf
    <2>3. CASE phase = "on"
      <3>1. Hear(heard)
        BY <1>1, <2>3 DEF SearchNext
      <3>2. CASE NextExtent
        <4>1. hl' = 0 /\ dirPos' = dirPos /\ foundId' = foundId
          BY <3>2 DEF NextExtent
        <4>2. phase' = "on" /\ heard' = Append(heard, <<foundId', entry'>>)
          BY <3>1, <4>1 DEF Hear
        <4>3. HeardIds' = IdsOf(heard') /\ foundId' \in Id /\ entry' \in Entry
          BY DEF HeardIds, IdsOf, Typed, TypeOK, Entry
        <4>4. HeardIds' = HeardIds \cup {foundId'}
          BY <2>2, <4>2, <4>3, IdsOfAppend
        <4>5. Missed' \subseteq Missed
          BY <2>1, <4>1, <4>4 DEF Missed, Unheard
        <4> QED
          BY <2>1, <2>3, <4>2, <4>5, MissesNoMore
      <3>3. CASE NextFile
        <4>1. FindFile(dirPos, rest)
          BY <3>3 DEF NextFile
        <4>2. /\ phase' \in {"on", "over"} /\ Unheard' \subseteq Wanted' \ IdsOf(heard)
              /\ phase' = "on" => \A x \in Missed' : Place(List', x) <= dirPos
              /\ phase' = "over" => \A x \in Unheard' : Place(List', x) <= dirPos
          BY <2>1, <2>2, <3>1, <4>1, FindMisses
        <4>3. Unheard' \subseteq Unheard
          BY <2>1, <2>2, <4>2 DEF Unheard
        <4>4. Missed' \subseteq Unheard'
          BY DEF Missed
        <4>5. phase' = "on" => Missed' \subseteq Missed
          BY <2>1, <4>2, <4>3, <4>4 DEF Missed
        <4>6. phase' = "over" => Unheard' \subseteq Missed
          BY <2>1, <4>2, <4>3 DEF Missed
        <4> QED
          BY <2>1, <2>3, <4>2, <4>5, <4>6, MissesNoMore
      <3> QED
        BY <1>1, <3>2, <3>3 DEF SearchNext
    <2>4. CASE phase # "on"
      <3>1. phase' = phase /\ heard' = heard
        BY <1>1, <2>4 DEF SearchNext
      <3>2. Unheard' = Unheard
        BY <2>1, <3>1 DEF Unheard, HeardIds
      <3> QED
        BY <2>1, <2>4, <3>1, <3>2 DEF MissInv
    <2> QED
      BY <2>3, <2>4
  <1>2. ASSUME NEW p \in Pattern, NEW all \in BOOLEAN, NEW exts \in BOOLEAN, SearchFirst(p, all, exts)
        PROVE  MissInv'
    <2>1. FindFile(0, Nothing) /\ Hear(<<>>) /\ files' = files /\ gone' = 0
      BY <1>2 DEF SearchFirst
    <2>2. Heard(<<>>) /\ 0 \in Nat
      BY DEF Heard
    <2>3. /\ phase' = "on" => \A x \in Missed' : Place(List', x) <= 0
          /\ phase' = "over" => \A x \in Unheard' : Place(List', x) <= 0
      BY <2>1, <2>2, FindMisses
    <2>4. List' \in SUBSET Id /\ Missed' \in SUBSET Id /\ Unheard' \in SUBSET Id
      BY ListingTyped DEF List, Typed, ViewInv, Unheard, Missed, Wanted
    <2>5. \A x \in Id : Place(List', x) \in Nat \ {0}
      <3>1. PICK list \in SUBSET Id : list = List'
        BY <2>4
      <3> QED
        BY <3>1, PlaceOrder
    <2>6. /\ phase' = "on" => Missed' = {}
          /\ phase' = "over" => Unheard' = {}
      BY <2>3, <2>4, <2>5
    <2> QED
      BY <2>1, <2>6, FS_EmptySet DEF MissInv
  <1> QED
    BY <1>1, <1>2

\* A file added can only move others on; a file removed moves them back, and the
\* search steps over at most one.
LEMMA MissHost ==
    ASSUME Typed, Typed', MissInv,
           \E id \in Id : HostRemove(id) \/ \E n \in Length : HostAdd(id, n)
    PROVE  MissInv'
  <1>1. ASSUME NEW id \in Id, NEW n \in Length, HostAdd(id, n)
        PROVE  MissInv'
    <2>1. /\ UNCHANGED <<findUser, pattern, allUsers, dirPos, phase, heard, stable, gone>>
      BY <1>1 DEF HostAdd, placeVars
    <2>2. Unheard' = Unheard
      BY <2>1 DEF Unheard, Wanted, HeardIds
    <2>3. PICK list \in SUBSET Id : list = List' /\ List = list \ {id}
      BY <1>1, ListAdd, ListingTyped DEF List
    <2>4. \A x \in Id : /\ Place(list \ {id}, x) <= Place(list, x)
                        /\ Place(list, x) \in Nat /\ Place(list \ {id}, x) \in Nat
      BY PlaceShift, PlaceOrder
    <2>5. dirPos \in Nat /\ Unheard \in SUBSET Id
      BY DEF Typed, TypeOK, ViewInv, Unheard, Wanted
    <2>6. Missed' \subseteq Missed
      <3>1. Missed' = {x \in Unheard : Place(list, x) <= dirPos}
        BY <2>1, <2>2, <2>3 DEF Missed
      <3>2. Missed = {x \in Unheard : Place(list \ {id}, x) <= dirPos}
        BY <2>3 DEF Missed
      <3> QED
        BY <2>4, <2>5, <3>1, <3>2
    <2> QED
      BY <2>1, <2>2, <2>6, MissesNoMore
  <1>2. ASSUME NEW id \in Id, HostRemove(id)
        PROVE  MissInv'
    <2>1. /\ UNCHANGED <<findUser, pattern, allUsers, dirPos, phase, heard>>
          /\ stable' = stable \ {id} /\ gone' = gone + 1 /\ gone \in Nat /\ dirPos \in Nat
      BY <1>2 DEF HostRemove, placeVars, Typed, ViewInv, TypeOK
    <2>2. Unheard' \subseteq Unheard
      BY <2>1 DEF Unheard, Wanted, HeardIds
    <2>3. Unheard \in SUBSET Id /\ (phase # "none" => Unheard \in SUBSET List)
      BY DEF Typed, ViewInv, Unheard, Wanted, List, Listing
    <2>4. PICK list \in SUBSET Id : list = List /\ List' = list \ {id}
      BY <1>2, ListRemove, ListTyped
    <2>5. \A x \in Id : /\ Place(list \ {id}, x) <= Place(list, x)
                        /\ Place(list, x) <= Place(list \ {id}, x) + 1
                        /\ Place(list, x) \in Nat /\ Place(list \ {id}, x) \in Nat
      BY PlaceShift, PlaceOrder
    <2>6. Missed = {x \in Unheard : Place(list, x) <= dirPos}
          /\ Missed' = {x \in Unheard' : Place(list \ {id}, x) <= dirPos}
      BY <2>1, <2>4 DEF Missed
    <2>7. ASSUME phase = "on", NEW x \in Missed' \ Missed, NEW y \in Missed' \ Missed
          PROVE  x = y
      <3>1. x \in list /\ y \in list /\ x \in Id /\ y \in Id
        BY <2>2, <2>3, <2>4, <2>6, <2>7
      <3>2. Place(list, x) = dirPos + 1 /\ Place(list, y) = dirPos + 1
        BY <2>1, <2>2, <2>5, <2>6, <3>1
      <3> QED
        BY <3>1, <3>2, PlaceOrder
    <2>8. Missed \in SUBSET Id /\ Missed' \in SUBSET Id
      BY <2>2, <2>3, <2>6
    <2>9. /\ IsFiniteSet(Missed) /\ IsFiniteSet(Missed') /\ Cardinality(Missed) \in Nat
          /\ Cardinality(Missed') \in Nat
      BY <2>8, IdFinite
    <2>10. phase = "on" => Cardinality(Missed') <= Cardinality(Missed) + 1
      BY <2>7, <2>9, OneMore
    <2>11. /\ Cardinality(Unheard') <= Cardinality(Unheard)
           /\ Cardinality(Unheard) \in Nat /\ Cardinality(Unheard') \in Nat
      BY <2>2, <2>3, SmallerSet
    <2> QED
      BY <2>1, <2>9, <2>10, <2>11 DEF MissInv
  <1> QED
    BY <1>1, <1>2

LEMMA MissStep ==
    ASSUME Typed, Typed', DeleteInv, MissInv, [Next]_vars
    PROVE  MissInv'
  <1>1. CASE phase' = "none"
    BY <1>1 DEF MissInv
  <1>2. CASE /\ UNCHANGED <<files, findUser, pattern, allUsers, dirPos, stable, gone>>
             /\ phase' = phase /\ heard' = heard
    <2>1. Unheard' = Unheard /\ Missed' = Missed
      BY <1>2 DEF Unheard, Missed, Wanted, HeardIds, List
    <2> QED
      BY <1>2, <2>1 DEF MissInv
  <1>3. ASSUME UNCHANGED vars \/ \E id \in Id : HostLock(id)
        PROVE  MissInv'
    BY <1>2, <1>3 DEF vars, HostLock, placeVars, viewVars
  <1>4. ASSUME NEW u \in User, SetUser(u)
        PROVE  MissInv'
    BY <1>2, <1>4 DEF SetUser, placeVars, viewVars
  <1>5. CASE OtherCall
    <2>1. CASE allUsers \/ findUser = userCode
      <3>1. /\ phase' = phase /\ UNCHANGED <<files, pattern, allUsers, dirPos, stable, gone>>
            /\ allUsers \/ findUser' = findUser
        BY <1>5, <2>1 DEF OtherCall
      <3>2. heard' = heard \/ phase' = "none"
        BY <1>5 DEF OtherCall
      <3>3. Wanted' = Wanted /\ List' = List
        BY <3>1 DEF Wanted, List, Listing
      <3>4. CASE heard' = heard
        <4>1. Unheard' = Unheard /\ Missed' = Missed
          BY <3>1, <3>3, <3>4 DEF Unheard, Missed, HeardIds
        <4> QED
          BY <3>1, <4>1 DEF MissInv
      <3> QED
        BY <1>1, <3>2, <3>4
    <2>2. CASE ~(allUsers \/ findUser = userCode)
      BY <1>1, <1>5, <2>2 DEF OtherCall
    <2> QED
      BY <2>1, <2>2
  <1>6. CASE DeleteNext
    BY <1>1, <1>6 DEF DeleteNext, DeleteInv, viewVars
  <1>7. CASE ResetDisks \/ \E p \in Pattern, all, exts \in BOOLEAN : DeleteFirst(p, all, exts)
    BY <1>1, <1>7 DEF ResetDisks, DeleteFirst
  <1> QED
    BY <1>3, <1>4, <1>5, <1>6, <1>7, MissSearch, MissHost DEF Next

\* A search misses no more files than the host removed meanwhile, however the calls
\* and the host's changes interleave (_findnext).
THEOREM MissesAreBounded == Spec => []MissesBounded
  <1>1. Init => SearchInv /\ MissInv
    BY InitSearch DEF Init, MissInv
  <1>2. SearchInv /\ MissInv /\ [Next]_vars => (SearchInv /\ MissInv)'
    <2> SUFFICES ASSUME SearchInv, MissInv, [Next]_vars PROVE (SearchInv /\ MissInv)'
      OBVIOUS
    <2>1. SearchInv'
      BY SearchStep
    <2>2. Typed /\ DeleteInv
      BY DEF SearchInv, Typed
    <2>3. Typed'
      BY <2>1 DEF SearchInv, Typed
    <2> QED
      BY <2>1, <2>2, <2>3, MissStep
  <1>3. MissInv => MissesBounded
    BY DEF MissInv, MissesBounded, Unheard
  <1> QED
    BY <1>1, <1>2, <1>3, PTL DEF Spec

-----------------------------------------------------------------------------
(* What a search returns twice.                                            *)

FirstsOf(h) == {i \in DOMAIN h : EntryExtent(h[i][2]) < extentsPerDirEntry}

LEMMA FirstsOfAppend ==
    ASSUME NEW h, Heard(h), NEW id \in Id, NEW e \in Entry
    PROVE  /\ Cardinality(FirstsOf(h)) \in Nat /\ Cardinality(FirstsOf(<<>>)) = 0
           /\ Cardinality(FirstsOf(Append(h, <<id, e>>))) =
                 Cardinality(FirstsOf(h)) + (IF EntryExtent(e) < extentsPerDirEntry THEN 1 ELSE 0)
  <1>1. PICK x \in Id \X Entry : x = <<id, e>>
    OBVIOUS
  <1>2. PICK n \in Nat : n = Len(h) /\ DOMAIN h = 1..n
    BY DEF Heard
  <1>3. /\ DOMAIN Append(h, x) = 1..(n + 1)
        /\ \A i \in 1..n : Append(h, x)[i] = h[i]
        /\ Append(h, x)[n + 1] = x
    BY <1>2 DEF Heard
  <1>4. /\ FirstsOf(h) \in SUBSET (1..n) /\ n + 1 \notin FirstsOf(h)
        /\ FirstsOf(Append(h, x)) = IF EntryExtent(x[2]) < extentsPerDirEntry
                                      THEN FirstsOf(h) \cup {n + 1} ELSE FirstsOf(h)
    BY <1>2, <1>3 DEF FirstsOf
  <1>5. IsFiniteSet(1..n)
    BY FS_Interval
  <1>6. IsFiniteSet(FirstsOf(h)) /\ Cardinality(FirstsOf(h)) \in Nat
    BY <1>4, <1>5, FS_Subset, FS_CardinalityType
  <1>7. Cardinality(FirstsOf(h) \cup {n + 1}) = Cardinality(FirstsOf(h)) + 1
    BY <1>4, <1>6, FS_AddElement
  <1>8. FirstsOf(<<>>) = {}
    BY DEF FirstsOf
  <1>9. x[2] = e
    BY <1>1
  <1>10. Cardinality(FirstsOf(<<>>)) = 0
    BY <1>8, FS_EmptySet, Zenon
  <1>11. Cardinality(FirstsOf(Append(h, x))) =
            Cardinality(FirstsOf(h)) + (IF EntryExtent(e) < extentsPerDirEntry THEN 1 ELSE 0)
    BY <1>4, <1>6, <1>7, <1>9
  <1> QED
    BY <1>1, <1>6, <1>10, <1>11, Zenon

\* What hearing a result changes.
LEMMA HearRight ==
    ASSUME Typed', NEW old, Heard(old), Hear(old)
    PROVE  /\ hl' \in {0, 255}
           /\ hl' = 0 =>
                 /\ phase' = "on" /\ heard' = Append(old, <<foundId', entry'>>)
                 /\ HeardIds' = IdsOf(old) \cup {foundId'}
                 /\ Cardinality(FirstEntries') = Cardinality(FirstsOf(old))
                       + (IF EntryExtent(entry') < extentsPerDirEntry THEN 1 ELSE 0)
           /\ hl' = 255 => phase' = "over" /\ heard' = old /\ HeardIds' = IdsOf(old)
                           /\ FirstEntries' = FirstsOf(old)
  <1>1. foundId' \in Id /\ entry' \in Entry /\ hl' \in {0, 255}
    BY DEF Typed, TypeOK, Entry
  <1>2. HeardIds' = IdsOf(heard') /\ FirstEntries' = FirstsOf(heard')
    BY DEF HeardIds, IdsOf, FirstEntries, FirstsOf
  <1>3. /\ hl' = 0 => phase' = "on" /\ heard' = Append(old, <<foundId', entry'>>)
        /\ hl' = 255 => phase' = "over" /\ heard' = old
    BY <1>1, HearTyped
  <1>4. IdsOf(Append(old, <<foundId', entry'>>)) = IdsOf(old) \cup {foundId'}
    BY <1>1, IdsOfAppend, Zenon
  <1>5. Cardinality(FirstsOf(Append(old, <<foundId', entry'>>))) = Cardinality(FirstsOf(old))
           + (IF EntryExtent(entry') < extentsPerDirEntry THEN 1 ELSE 0)
    BY <1>1, FirstsOfAppend, Zenon
  <1> QED
    BY <1>1, <1>2, <1>3, <1>4, <1>5, Zenon

\* Files returned that the search has yet to come to, as the host moved them.
Ahead == {id \in HeardIds \cap List : Place(List, id) > dirPos}

RepeatInv ==
    /\ phase = "on" =>
          /\ Cardinality(FirstEntries) - Cardinality(HeardIds) + Cardinality(Ahead) <= come
          /\ come = 0 => Ahead = {}
    /\ phase = "over" => Cardinality(FirstEntries) - Cardinality(HeardIds) <= come

LEMMA HeardTyped ==
    ASSUME Typed
    PROVE  /\ HeardIds = IdsOf(heard) /\ FirstEntries = FirstsOf(heard) /\ Heard(heard)
           /\ HeardIds \in SUBSET Id /\ Ahead \in SUBSET Id /\ dirPos \in Nat /\ come \in Nat
           /\ Cardinality(HeardIds) \in Nat /\ Cardinality(Ahead) \in Nat
           /\ Cardinality(FirstEntries) \in Nat
  <1>1. Heard(heard) /\ dirPos \in Nat /\ come \in Nat
    BY DEF Typed, ViewInv, TypeOK
  <1>2. HeardIds = IdsOf(heard) /\ FirstEntries = FirstsOf(heard)
    BY DEF HeardIds, IdsOf, FirstEntries, FirstsOf
  <1>3. HeardIds \in SUBSET Id
    BY <1>1 DEF Heard, HeardIds
  <1>4. Ahead \in SUBSET Id
    BY <1>3 DEF Ahead
  <1>5. PICK e \in Entry, id \in Id : TRUE
    BY DEF Typed, TypeOK, Entry
  <1>6. Cardinality(FirstsOf(heard)) \in Nat
    BY <1>1, <1>5, FirstsOfAppend
  <1> QED
    BY <1>1, <1>2, <1>3, <1>4, <1>6, IdFinite

\* A later entry of a file is not its first.
LEMMA NextExtentRight ==
    ASSUME Typed, NextExtent
    PROVE  /\ hl' = 0 /\ dirPos' = dirPos /\ foundId' = foundId /\ rest' = Rest(rest)
           /\ entry' = DirEntry(rest, IF allUsers THEN foundId[1] ELSE userCode)
           /\ ~(EntryExtent(entry') < extentsPerDirEntry)
  <1> DEFINE u == IF allUsers THEN foundId[1] ELSE userCode
  <1>1. /\ hl' = 0 /\ dirPos' = dirPos /\ foundId' = foundId /\ rest' = Rest(rest)
        /\ entry' = DirEntry(rest, u) /\ rest.records > 0
    BY DEF NextExtent
  <1>2. u \in User
    BY IdParts DEF Typed, TypeOK
  <1> HIDE DEF u
  <1>3. /\ CountersRight(rest) /\ rest.used >= extentsPerDirEntry
        /\ rest.records \in Nat /\ rest.extents \in Nat /\ rest.used \in Nat
        /\ rest.extents = CeilDiv(rest.records, BlkEX)
    BY <1>1 DEF Typed, CountersInv, CountersRight
  <1>4. rest.extents # 0
    <2>1. 0 \in Int /\ BlkEX \in Nat \ {0}
      BY Sizes
    <2>2. CeilDiv(rest.records, BlkEX) <= 0 <=> rest.records <= BlkEX * 0
      BY <1>3, <2>1, CeilDivBounds, Zenon
    <2>3. BlkEX * 0 = 0
      BY <2>1
    <2> QED
      BY <1>1, <1>3, <2>2, <2>3
  <1>5. EntryExtent(DirEntry(rest, u)) =
                  IF rest.extents = 0 THEN 0
                  ELSE IF rest.extents <= extentsPerDirEntry THEN rest.extents - 1 + rest.used
                  ELSE extentsPerDirEntry - 1 + rest.used
    BY <1>2, <1>3, EntryRight
  <1>6. ~(EntryExtent(entry') < extentsPerDirEntry)
    BY <1>1, <1>3, <1>4, <1>5, Sizes
  <1> QED
    BY <1>1, <1>6 DEF u

\* A look on, from entry pos, by a search that had heard old.
LEMMA FindAhead ==
    ASSUME Typed, Typed', NEW pos \in Nat, NEW none, FindFile(pos, none), files' = files,
           CountersRight(none), none.records > 0 => none.used >= extentsPerDirEntry,
           NEW old, Heard(old), Hear(old)
    PROVE  LET before == {id \in IdsOf(old) \cap List' : Place(List', id) > pos}
           IN  /\ before \in SUBSET Id
               /\ hl' = 0 => /\ Cardinality(FirstEntries') = Cardinality(FirstsOf(old)) + 1
                             /\ foundId' \in IdsOf(old) => foundId' \in before
                             /\ Ahead' \subseteq before \ {foundId'}
  <1> DEFINE list == Listing(files, allUsers', findUser')
             before == {id \in IdsOf(old) \cap list : Place(list, id) > pos}
  <1>1. list = List' /\ list \in SUBSET Id
    BY ListingTyped DEF List
  <1>2. allUsers' \in BOOLEAN
    BY DEF Typed, TypeOK
  <1>3. before \in SUBSET Id
    BY <1>1
  <1>4. hl' = 0 => EntryExtent(entry') < extentsPerDirEntry
    BY <1>2, FoundTyped DEF Typed
  <1>5. hl' = 0 => foundId' \in list /\ dirPos' = Place(list, foundId') /\ dirPos' > pos
    BY <1>2, FindRight DEF Typed
  <1>6. hl' = 0 => /\ Cardinality(FirstEntries') = Cardinality(FirstsOf(old)) + 1
                   /\ HeardIds' = IdsOf(old) \cup {foundId'}
    BY <1>4, HearRight
  <1>7. \A x \in list : Place(list, x) \in Nat
    BY <1>1, PlaceOrder
  <1>8. Ahead' = {id \in HeardIds' \cap list : Place(list, id) > dirPos'}
    BY <1>1 DEF Ahead
  <1> HIDE DEF list
  <1>9. hl' = 0 => Ahead' \subseteq before \ {foundId'}
    BY <1>5, <1>6, <1>7, <1>8
  <1> QED
    BY <1>1, <1>3, <1>5, <1>6, <1>9

LEMMA RepeatSearch ==
    ASSUME Typed, Typed', RepeatInv,
           SearchNext \/ \E p \in Pattern, all, exts \in BOOLEAN : SearchFirst(p, all, exts)
    PROVE  RepeatInv'
  <1>0. /\ Cardinality(HeardIds') \in Nat /\ Cardinality(Ahead') \in Nat
        /\ Cardinality(FirstEntries') \in Nat /\ HeardIds' \in SUBSET Id /\ Ahead' \in SUBSET Id
    <2>1. (Typed => /\ Cardinality(HeardIds) \in Nat /\ Cardinality(Ahead) \in Nat
                    /\ Cardinality(FirstEntries) \in Nat /\ HeardIds \in SUBSET Id
                    /\ Ahead \in SUBSET Id)'
      BY HeardTyped, PTL
    <2> QED
      BY <2>1
  <1>1. CASE SearchNext
    <2>1. /\ UNCHANGED <<files, come, findUser, pattern, allUsers, allExtents>>
          /\ List' = List
      BY <1>1 DEF SearchNext, placeVars, List
    <2>2. /\ HeardIds = IdsOf(heard) /\ FirstEntries = FirstsOf(heard) /\ Heard(heard)
          /\ HeardIds \in SUBSET Id /\ Ahead \in SUBSET Id /\ dirPos \in Nat /\ come \in Nat
          /\ Cardinality(HeardIds) \in Nat /\ Cardinality(Ahead) \in Nat
          /\ Cardinality(FirstEntries) \in Nat
      BY HeardTyped
    <2>3. CASE phase # "on"
      <3>1. phase' = phase /\ heard' = heard
        BY <1>1, <2>3 DEF SearchNext
      <3>2. HeardIds' = HeardIds /\ FirstEntries' = FirstEntries
        BY <3>1 DEF HeardIds, FirstEntries
      <3> QED
        BY <2>1, <2>3, <3>1, <3>2 DEF RepeatInv
    <2>4. CASE phase = "on"
      <3>1. Hear(heard)
        BY <1>1, <2>4 DEF SearchNext
      <3>2. /\ Cardinality(FirstEntries) - Cardinality(HeardIds) + Cardinality(Ahead) <= come
            /\ come = 0 => Ahead = {}
        BY <2>4 DEF RepeatInv
      <3>3. CASE NextExtent
        <4>1. /\ hl' = 0 /\ dirPos' = dirPos /\ foundId' = foundId
              /\ ~(EntryExtent(entry') < extentsPerDirEntry)
          BY <3>3, NextExtentRight
        <4>2. foundId \in HeardIds
          BY <2>2, <2>4 DEF Typed, ViewInv, HeardIds, Heard
        <4>3. /\ HeardIds' = HeardIds
              /\ Cardinality(FirstEntries') = Cardinality(FirstEntries) + 0 /\ phase' = "on"
          BY <2>2, <3>1, <4>1, <4>2, HearRight
        <4>4. Ahead' = Ahead
          BY <2>1, <4>1, <4>3 DEF Ahead
        <4> QED
          BY <2>1, <2>2, <3>2, <4>3, <4>4 DEF RepeatInv
      <3>4. CASE NextFile
        <4>1. FindFile(dirPos, rest)
          BY <3>4 DEF NextFile
        <4>2. /\ hl' \in {0, 255}
              /\ hl' = 0 => phase' = "on" /\ HeardIds' = HeardIds \cup {foundId'}
              /\ hl' = 255 => phase' = "over" /\ HeardIds' = HeardIds
                              /\ FirstEntries' = FirstEntries
          BY <2>2, <3>1, HearRight
        <4>3. CountersRight(rest) /\ (rest.records > 0 => rest.used >= extentsPerDirEntry)
          BY DEF Typed, CountersInv
        <4>4. Ahead = {id \in IdsOf(heard) \cap List' : Place(List', id) > dirPos}
          BY <2>1, <2>2 DEF Ahead
        <4>5. hl' = 0 => /\ Cardinality(FirstEntries') = Cardinality(FirstEntries) + 1
                         /\ foundId' \in HeardIds => foundId' \in Ahead
                         /\ Ahead' \subseteq Ahead \ {foundId'}
          BY <2>1, <2>2, <3>1, <4>1, <4>3, <4>4, FindAhead
        <4>6. CASE hl' = 255
          BY <2>1, <2>2, <3>2, <4>2, <4>6 DEF RepeatInv
        <4>7. CASE hl' = 0 /\ foundId' \in HeardIds
          <5>1. HeardIds' = HeardIds
            BY <4>2, <4>7
          <5>2. Cardinality(Ahead \ {foundId'}) = Cardinality(Ahead) - 1
            BY <2>2, <4>5, <4>7, IdFinite, FS_RemoveElement
          <5>3. Cardinality(Ahead') <= Cardinality(Ahead \ {foundId'})
            <6>1. Ahead \ {foundId'} \in SUBSET Id
              BY <2>2
            <6> QED
              BY <4>5, <4>7, <6>1, SmallerSet
          <5> QED
            BY <1>0, <2>1, <2>2, <3>2, <4>2, <4>5, <4>7, <5>1, <5>2, <5>3 DEF RepeatInv
        <4>8. CASE hl' = 0 /\ foundId' \notin HeardIds
          <5>1. Cardinality(HeardIds') = Cardinality(HeardIds) + 1
            BY <2>2, <4>2, <4>8, IdFinite, FS_AddElement
          <5>2. Cardinality(Ahead') <= Cardinality(Ahead)
            BY <2>2, <4>5, <4>8, SmallerSet
          <5> QED
            BY <1>0, <2>1, <2>2, <3>2, <4>2, <4>5, <4>8, <5>1, <5>2 DEF RepeatInv
        <4> QED
          BY <4>2, <4>6, <4>7, <4>8
      <3> QED
        BY <1>1, <3>3, <3>4 DEF SearchNext
    <2> QED
      BY <2>3, <2>4
  <1>2. ASSUME NEW p \in Pattern, NEW all \in BOOLEAN, NEW exts \in BOOLEAN, SearchFirst(p, all, exts)
        PROVE  RepeatInv'
    <2>1. FindFile(0, Nothing) /\ Hear(<<>>) /\ files' = files /\ come' = 0
      BY <1>2 DEF SearchFirst
    <2>2. /\ Heard(<<>>) /\ 0 \in Nat /\ CountersRight(Nothing)
          /\ (Nothing.records > 0 => Nothing.used >= extentsPerDirEntry)
      BY NothingRight DEF Heard
    <2>3. IdsOf(<<>>) = {} /\ FirstsOf(<<>>) = {}
      BY DEF IdsOf, FirstsOf
    <2>4. /\ hl' \in {0, 255}
          /\ hl' = 0 => phase' = "on" /\ HeardIds' = {foundId'}
          /\ hl' = 255 => phase' = "over" /\ HeardIds' = {} /\ FirstEntries' = {}
      BY <2>1, <2>2, <2>3, HearRight
    <2>5. hl' = 0 => /\ Cardinality(FirstEntries') = Cardinality(FirstsOf(<<>>)) + 1
                     /\ Ahead' \subseteq IdsOf(<<>>)
      BY <2>1, <2>2, FindAhead
    <2>6. Cardinality({foundId'}) = 1 /\ Cardinality({}) = 0
      BY FS_EmptySet, FS_Singleton, Zenon
    <2>7. Cardinality(FirstsOf(<<>>)) = 0
      BY <2>3, <2>6, Zenon
    <2>8. hl' = 0 => /\ Ahead' = {} /\ Cardinality(Ahead') = 0
                     /\ Cardinality(FirstEntries') = 1 /\ Cardinality(HeardIds') = 1
      <3>1. hl' = 0 => Ahead' = {} /\ HeardIds' = {foundId'}
        BY <2>3, <2>4, <2>5
      <3>2. hl' = 0 => Cardinality(FirstEntries') = 1
        BY <2>5, <2>7
      <3> QED
        BY <2>6, <3>1, <3>2, Zenon
    <2>9. hl' = 255 => Cardinality(FirstEntries') = 0 /\ Cardinality(HeardIds') = 0
      BY <2>4, <2>6, Zenon
    <2>10. hl' = 0 => phase' = "on"
      BY <2>4
    <2>11. hl' = 255 => phase' = "over"
      BY <2>4
    <2> QED
      BY <2>1, <2>4, <2>8, <2>9, <2>10, <2>11 DEF RepeatInv
  <1> QED
    BY <1>1, <1>2

\* A file added puts at most one of those returned in front of the search again.
LEMMA RepeatHost ==
    ASSUME Typed, Typed', RepeatInv,
           \E id \in Id : HostRemove(id) \/ \E n \in Length : HostAdd(id, n)
    PROVE  RepeatInv'
  <1>0. /\ HeardIds \in SUBSET Id /\ Ahead \in SUBSET Id /\ dirPos \in Nat /\ come \in Nat
        /\ Cardinality(HeardIds) \in Nat /\ Cardinality(Ahead) \in Nat
        /\ Cardinality(FirstEntries) \in Nat
    BY HeardTyped
  <1>1. ASSUME NEW id \in Id, NEW n \in Length, HostAdd(id, n)
        PROVE  RepeatInv'
    <2>1. UNCHANGED <<findUser, allUsers, dirPos, phase, heard>> /\ come' = come + 1
      BY <1>1 DEF HostAdd, placeVars
    <2>2. HeardIds' = HeardIds /\ FirstEntries' = FirstEntries
      BY <2>1 DEF HeardIds, FirstEntries
    <2>3. PICK list \in SUBSET Id : list = List' /\ List = list \ {id}
      BY <1>1, ListAdd, ListingTyped DEF List
    <2>4. \A x \in Id : /\ Place(list \ {id}, x) <= Place(list, x)
                        /\ Place(list, x) <= Place(list \ {id}, x) + 1
                        /\ ~Before(id, x) => Place(list, x) = Place(list \ {id}, x)
                        /\ Place(list, x) \in Nat /\ Place(list \ {id}, x) \in Nat
      BY PlaceShift, PlaceOrder
    <2>5. /\ Ahead' = {x \in HeardIds \cap list : Place(list, x) > dirPos}
          /\ Ahead = {x \in HeardIds \cap (list \ {id}) : Place(list \ {id}, x) > dirPos}
      BY <2>1, <2>2, <2>3 DEF Ahead
    <2>6. ASSUME NEW x \in Ahead' \ Ahead, x # id
          PROVE  x \in list \ {id} /\ Place(list, x) = dirPos + 1 /\ Before(id, x)
      BY <1>0, <2>4, <2>5, <2>6
    <2>7. ASSUME NEW x \in Ahead' \ Ahead, x # id, id \in Ahead'
          PROVE  FALSE
      <3>1. id \in list /\ Place(list, id) > dirPos /\ x \in Id
        BY <2>5, <2>7
      <3>2. Place(list, id) < Place(list, x)
        BY <2>6, <2>7, <3>1, PlaceOrder
      <3> QED
        BY <1>0, <2>4, <2>6, <2>7, <3>1, <3>2
    <2>8. ASSUME NEW x \in Ahead' \ Ahead, NEW y \in Ahead' \ Ahead
          PROVE  x = y
      <3>1. CASE x # id /\ y # id
        <4>1. x \in list /\ y \in list /\ Place(list, x) = Place(list, y) /\ x \in Id /\ y \in Id
          BY <2>6, <3>1
        <4> QED
          BY <4>1, PlaceOrder
      <3> QED
        BY <2>7, <3>1
    <2>9. Ahead' \in SUBSET Id
      BY <2>5
    <2>10. /\ IsFiniteSet(Ahead) /\ IsFiniteSet(Ahead') /\ Cardinality(Ahead') \in Nat
      BY <1>0, <2>9, IdFinite
    <2>11. Cardinality(Ahead') <= Cardinality(Ahead) + 1
      BY <2>8, <2>10, OneMore
    <2> QED
      BY <1>0, <2>1, <2>2, <2>10, <2>11 DEF RepeatInv
  <1>2. ASSUME NEW id \in Id, HostRemove(id)
        PROVE  RepeatInv'
    <2>1. UNCHANGED <<findUser, allUsers, dirPos, phase, heard, come>>
      BY <1>2 DEF HostRemove, placeVars
    <2>2. HeardIds' = HeardIds /\ FirstEntries' = FirstEntries
      BY <2>1 DEF HeardIds, FirstEntries
    <2>3. PICK list \in SUBSET Id : list = List /\ List' = list \ {id}
      BY <1>2, ListRemove, ListTyped
    <2>4. \A x \in Id : /\ Place(list \ {id}, x) <= Place(list, x)
                        /\ Place(list, x) \in Nat /\ Place(list \ {id}, x) \in Nat
      BY PlaceShift, PlaceOrder
    <2>5. Ahead' \subseteq Ahead
      <3>1. /\ Ahead = {x \in HeardIds \cap list : Place(list, x) > dirPos}
            /\ Ahead' = {x \in HeardIds \cap (list \ {id}) : Place(list \ {id}, x) > dirPos}
        BY <2>1, <2>2, <2>3 DEF Ahead
      <3> QED
        BY <1>0, <2>4, <3>1
    <2>6. Cardinality(Ahead') <= Cardinality(Ahead) /\ Cardinality(Ahead') \in Nat
      BY <1>0, <2>5, SmallerSet
    <2> QED
      BY <1>0, <2>1, <2>2, <2>5, <2>6 DEF RepeatInv
  <1> QED
    BY <1>1, <1>2

LEMMA RepeatStep ==
    ASSUME Typed, Typed', DeleteInv, RepeatInv, [Next]_vars
    PROVE  RepeatInv'
  <1>1. CASE phase' = "none"
    BY <1>1 DEF RepeatInv
  <1>2. CASE /\ UNCHANGED <<dirPos, come>> /\ List' = List
             /\ phase' = phase /\ heard' = heard
    <2>1. HeardIds' = HeardIds /\ FirstEntries' = FirstEntries
      BY <1>2 DEF HeardIds, FirstEntries
    <2>2. Ahead' = Ahead
      BY <1>2, <2>1 DEF Ahead
    <2> QED
      BY <1>2, <2>1, <2>2 DEF RepeatInv
  <1>3. ASSUME UNCHANGED vars \/ \E id \in Id : HostLock(id)
        PROVE  RepeatInv'
    BY <1>2, <1>3 DEF vars, HostLock, placeVars, viewVars, List
  <1>4. ASSUME NEW u \in User, SetUser(u)
        PROVE  RepeatInv'
    BY <1>2, <1>4 DEF SetUser, placeVars, viewVars, List
  <1>5. CASE OtherCall
    <2>1. CASE (allUsers \/ findUser = userCode) /\ phase # "none"
      BY <1>2, <1>5, <2>1 DEF OtherCall, List, Listing
    <2>2. CASE ~((allUsers \/ findUser = userCode) /\ phase # "none")
      BY <1>1, <1>5, <2>2 DEF OtherCall
    <2> QED
      BY <2>1, <2>2
  <1>6. CASE DeleteNext
    BY <1>1, <1>6 DEF DeleteNext, DeleteInv, viewVars
  <1>7. CASE ResetDisks \/ \E p \in Pattern, all, exts \in BOOLEAN : DeleteFirst(p, all, exts)
    BY <1>1, <1>7 DEF ResetDisks, DeleteFirst
  <1> QED
    BY <1>3, <1>4, <1>5, <1>6, <1>7, RepeatSearch, RepeatHost DEF Next

\* A search returns no file twice, but for one repeat for each file the host added
\* (_findnext).
THEOREM RepeatsAreBounded == Spec => []RepeatsBounded
  <1>1. Init => SearchInv /\ RepeatInv
    BY InitSearch DEF Init, RepeatInv
  <1>2. SearchInv /\ RepeatInv /\ [Next]_vars => (SearchInv /\ RepeatInv)'
    <2> SUFFICES ASSUME SearchInv, RepeatInv, [Next]_vars PROVE (SearchInv /\ RepeatInv)'
      OBVIOUS
    <2>1. SearchInv'
      BY SearchStep
    <2>2. Typed /\ DeleteInv
      BY DEF SearchInv, Typed
    <2>3. Typed'
      BY <2>1 DEF SearchInv, Typed
    <2> QED
      BY <2>1, <2>2, <2>3, RepeatStep
  <1>3. SearchInv /\ RepeatInv => RepeatsBounded
    <2> SUFFICES ASSUME SearchInv, RepeatInv, phase # "none"
                 PROVE  Cardinality(FirstEntries) - Cardinality(HeardIds) <= come
      BY DEF RepeatsBounded
    <2>1. Typed /\ phase \in {"on", "over"}
      BY DEF SearchInv, Typed, ViewInv
    <2>2. /\ Cardinality(HeardIds) \in Nat /\ Cardinality(Ahead) \in Nat /\ come \in Nat
          /\ Cardinality(FirstEntries) \in Nat
      BY <2>1, HeardTyped
    <2> QED
      BY <2>1, <2>2 DEF RepeatInv
  <1> QED
    BY <1>1, <1>2, <1>3, PTL DEF Spec

-----------------------------------------------------------------------------
(* The entries a search returns.                                           *)

LEMMA CountsOfAppend ==
    ASSUME NEW h, Heard(h), NEW id \in Id, NEW e \in Entry
    PROVE  LET more == Append(h, <<id, e>>)
           IN  /\ \A x : EntriesOf(h, x) \in Nat /\ (x \notin IdsOf(h) => EntriesOf(h, x) = 0)
               /\ \A x : EntriesOf(more, x) = EntriesOf(h, x) + (IF x = id THEN 1 ELSE 0)
               /\ \A i \in DOMAIN h : more[i] = h[i] /\ Nth(more, i) = Nth(h, i)
               /\ DOMAIN more = DOMAIN h \cup {Len(h) + 1}
               /\ more[Len(h) + 1] = <<id, e>> /\ Nth(more, Len(h) + 1) = EntriesOf(h, id) + 1
  <1> DEFINE At(g, x) == {i \in DOMAIN g : g[i][1] = x}
  <1>1. PICK p \in Id \X Entry : p = <<id, e>>
    OBVIOUS
  <1>2. PICK n \in Nat : n = Len(h) /\ DOMAIN h = 1..n
    BY DEF Heard
  <1>3. PICK more : more = Append(h, p)
    OBVIOUS
  <1>4. /\ DOMAIN more = 1..(n + 1) /\ \A i \in 1..n : more[i] = h[i]
        /\ more[n + 1] = p
    BY <1>2, <1>3 DEF Heard
  <1>5. p[1] = id
    BY <1>1
  <1>6. IsFiniteSet(1..n)
    BY FS_Interval
  <1>7. \A x : IsFiniteSet(At(h, x)) /\ Cardinality(At(h, x)) \in Nat
    <2> TAKE x
    <2>1. At(h, x) \in SUBSET (1..n)
      BY <1>2
    <2> HIDE DEF At
    <2> QED
      BY <1>6, <2>1, FS_Subset, FS_CardinalityType
  <1>8. \A x : EntriesOf(h, x) = Cardinality(At(h, x)) /\ EntriesOf(more, x) = Cardinality(At(more, x))
    BY Zenon DEF EntriesOf
  <1>9. \A x : x \notin IdsOf(h) => At(h, x) = {}
    BY DEF IdsOf
  <1>10. \A x : At(more, x) = IF x = id THEN At(h, x) \cup {n + 1} ELSE At(h, x)
    <2> TAKE x
    <2>1. \A i \in 1..n : i \in At(more, x) <=> i \in At(h, x)
      BY <1>2, <1>4
    <2>2. n + 1 \in At(more, x) <=> x = id
      BY <1>4, <1>5
    <2>3. At(more, x) \subseteq 1..(n + 1) /\ At(h, x) \subseteq 1..n
      BY <1>2, <1>4
    <2> HIDE DEF At
    <2> QED
      BY <2>1, <2>2, <2>3
  <1>11. \A x : n + 1 \notin At(h, x)
    BY <1>2
  <1>12. \A i \in 1..n : Nth(more, i) = Nth(h, i)
    <2> TAKE i \in 1..n
    <2>1. {j \in 1..i : more[j][1] = more[i][1]} = {j \in 1..i : h[j][1] = h[i][1]}
      BY <1>4
    <2> QED
      BY <2>1 DEF Nth
  <1>13. Nth(more, n + 1) = Cardinality(At(more, id))
    <2>1. {j \in 1..(n + 1) : more[j][1] = more[n + 1][1]} = At(more, id)
      BY <1>4, <1>5
    <2> HIDE DEF At
    <2> QED
      BY <2>1, Zenon DEF Nth
  <1> HIDE DEF At
  <1>14. \A x : Cardinality(At(more, x)) = Cardinality(At(h, x)) + (IF x = id THEN 1 ELSE 0)
    <2> TAKE x
    <2>1. Cardinality(At(h, x) \cup {n + 1}) = Cardinality(At(h, x)) + 1
      BY <1>7, <1>11, FS_AddElement
    <2>2. CASE x = id
      BY <1>10, <2>1, <2>2
    <2>3. CASE x # id
      <3>1. At(more, x) = At(h, x) /\ Cardinality(At(h, x)) \in Nat
        BY <1>7, <1>10, <2>3
      <3> QED
        BY <2>3, <3>1
    <2> QED
      BY <2>2, <2>3
  <1>15. \A x : EntriesOf(h, x) \in Nat /\ (x \notin IdsOf(h) => EntriesOf(h, x) = 0)
    BY <1>7, <1>8, <1>9, FS_EmptySet, Zenon
  <1>16. \A x : EntriesOf(more, x) = EntriesOf(h, x) + (IF x = id THEN 1 ELSE 0)
    BY <1>8, <1>14, Zenon
  <1>17. Nth(more, n + 1) = EntriesOf(h, id) + 1
    BY <1>8, <1>13, <1>14
  <1>18. DOMAIN more = DOMAIN h \cup {Len(h) + 1}
    BY <1>2, <1>4
  <1>19. \A i \in DOMAIN h : more[i] = h[i] /\ Nth(more, i) = Nth(h, i)
    BY <1>2, <1>4, <1>12
  <1> QED
    BY <1>1, <1>2, <1>3, <1>4, <1>15, <1>16, <1>17, <1>18, <1>19, Zenon

\* A file that fileRecords can count.
Counted(fs, id) == Records(fs[id]) < RecordSpan

\* Entry i of h is right, and h has all the entries of file id.
EntryOk(fs, h, i, all) ==
    LET id == h[i][1]
        e  == h[i][2]
    IN  /\ all => e.user = id[1]
        /\ Counted(fs, id) =>
              /\ Nth(h, i) \in DOMAIN CpmEntries(fs[id])
              /\ [extent |-> EntryExtent(e), rc |-> e.rc] = CpmEntries(fs[id])[Nth(h, i)]
Whole(fs, h, id, exts) ==
    Counted(fs, id) => EntriesOf(h, id) = IF exts THEN Len(CpmEntries(fs[id])) ELSE 1

\* As long as the host does nothing, every entry returned is right; all files but
\* the last are whole, and the counters hold what is left of that one.
EntryInv == phase # "none" /\ gone = 0 /\ come = 0 =>
    /\ HeardIds \subseteq In(files)
    /\ \A i \in DOMAIN heard : EntryOk(files, heard, i, allUsers)
    /\ \A id \in HeardIds : phase = "over" \/ id # foundId => Whole(files, heard, id, allExtents)
    /\ phase = "on" /\ Counted(files, foundId) =>
          /\ EntriesOf(heard, foundId) \in 1..Len(CpmEntries(files[foundId]))
          /\ IF allExtents
               THEN rest = RestAfter(files[foundId], EntriesOf(heard, foundId))
               ELSE EntriesOf(heard, foundId) = 1

\* Hearing an entry that is made of the right counters.
LEMMA EntryHear ==
    ASSUME Typed, Typed', files' = files, phase' = "on", NEW old, Heard(old),
           heard' = Append(old, <<foundId', entry'>>), HeardIds' = IdsOf(old) \cup {foundId'},
           IdsOf(old) \subseteq In(files), foundId' \in In(files),
           \A i \in DOMAIN old : EntryOk(files, old, i, allUsers'),
           \A id \in IdsOf(old) \ {foundId'} : Whole(files, old, id, allExtents'),
           NEW r, CountersRight(r), NEW u \in User, allUsers' => u = foundId'[1],
           entry' = DirEntry(r, u), rest' = Rest(r),
           Counted(files, foundId') =>
              /\ r = RestAfter(files[foundId'], EntriesOf(old, foundId'))
              /\ EntriesOf(old, foundId') < Len(CpmEntries(files[foundId']))
              /\ allExtents' \/ EntriesOf(old, foundId') = 0
    PROVE  EntryInv'
  <1>1. PICK id \in Id : id = foundId'
    BY DEF Typed, TypeOK
  <1>2. PICK e \in Entry : e = entry'
    BY DEF Typed, TypeOK, Entry
  <1>3. PICK h : h = Append(old, <<id, e>>) /\ h = heard'
    BY <1>1, <1>2
  <1>4. PICK k \in Nat : k = EntriesOf(old, id)
    BY <1>1, <1>2, CountsOfAppend, Zenon
  <1>5. /\ \A x : EntriesOf(h, x) = EntriesOf(old, x) + (IF x = id THEN 1 ELSE 0)
        /\ \A x : EntriesOf(old, x) \in Nat
        /\ \A i \in DOMAIN old : h[i] = old[i] /\ Nth(h, i) = Nth(old, i)
        /\ DOMAIN h = DOMAIN old \cup {Len(old) + 1}
        /\ h[Len(old) + 1] = <<id, e>> /\ Nth(h, Len(old) + 1) = k + 1
    <2>1. /\ \A x : EntriesOf(h, x) = EntriesOf(old, x) + (IF x = id THEN 1 ELSE 0)
          /\ \A x : EntriesOf(old, x) \in Nat
          /\ \A i \in DOMAIN old : h[i] = old[i] /\ Nth(h, i) = Nth(old, i)
          /\ DOMAIN h = DOMAIN old \cup {Len(old) + 1}
          /\ h[Len(old) + 1] = <<id, e>> /\ Nth(h, Len(old) + 1) = EntriesOf(old, id) + 1
      <3>1. LET more == Append(old, <<id, e>>)
            IN  /\ \A x : EntriesOf(old, x) \in Nat /\ (x \notin IdsOf(old) => EntriesOf(old, x) = 0)
                /\ \A x : EntriesOf(more, x) = EntriesOf(old, x) + (IF x = id THEN 1 ELSE 0)
                /\ \A i \in DOMAIN old : more[i] = old[i] /\ Nth(more, i) = Nth(old, i)
                /\ DOMAIN more = DOMAIN old \cup {Len(old) + 1}
                /\ more[Len(old) + 1] = <<id, e>> /\ Nth(more, Len(old) + 1) = EntriesOf(old, id) + 1
        BY CountsOfAppend, Zenon
      <3> QED
        BY <1>3, <3>1, Zenon
    <2> QED
      BY <1>4, <2>1, Zenon
  <1>6. files[id] \in Nat
    <2>1. id \in In(files) /\ Files(files)
      BY <1>1 DEF Typed, TypeOK, Files
    <2> QED
      BY <2>1, FilesTyped
  <1>7. EntriesOf(h, id) = k + 1
    BY <1>4, <1>5
  <1>8. Counted(files, id) =>
           /\ r = RestAfter(files[id], k) /\ k < Len(CpmEntries(files[id])) /\ (allExtents' \/ k = 0)
    BY <1>1, <1>4
  <1>9. ASSUME Counted(files, id)
        PROVE  /\ k + 1 \in 1..Len(CpmEntries(files[id]))
               /\ k + 1 \in DOMAIN CpmEntries(files[id])
               /\ [extent |-> EntryExtent(e), rc |-> e.rc] = CpmEntries(files[id])[k + 1]
               /\ rest' = RestAfter(files[id], k + 1)
    <2>1. Records(files[id]) < RecordSpan
      BY <1>9 DEF Counted
    <2>2. /\ DOMAIN CpmEntries(files[id]) = 1..Len(CpmEntries(files[id]))
          /\ Len(CpmEntries(files[id])) \in Nat
      BY <1>6, FileSizes
    <2>3. k + 1 \in 1..Len(CpmEntries(files[id]))
      BY <1>8, <1>9, <2>2
    <2>4. Rest(RestAfter(files[id], k)) = RestAfter(files[id], k + 1)
      BY <1>6, <2>1, RestOfFile
    <2>5. k < Len(CpmEntries(files[id])) /\ e = DirEntry(RestAfter(files[id], k), u)
      BY <1>2, <1>8, <1>9
    <2>6. [extent |-> EntryExtent(e), rc |-> e.rc] = CpmEntries(files[id])[k + 1]
      BY <1>6, <2>1, <2>5, EntryOfFile, Zenon
    <2> QED
      BY <1>8, <1>9, <2>2, <2>3, <2>4, <2>6
  <1>10. ASSUME NEW i \in DOMAIN h
         PROVE  EntryOk(files, h, i, allUsers')
    <2>1. CASE i \in DOMAIN old
      <3>1. EntryOk(files, old, i, allUsers') /\ h[i] = old[i] /\ Nth(h, i) = Nth(old, i)
        BY <1>5, <2>1
      <3> QED
        BY <3>1 DEF EntryOk
    <2>2. CASE i = Len(old) + 1
      <3>1. h[i][1] = id /\ h[i][2] = e /\ Nth(h, i) = k + 1
        BY <1>5, <2>2
      <3>2. e.user = u
        BY <1>2, EntryRight
      <3>3. allUsers' => e.user = id[1]
        BY <1>1, <3>2
      <3> QED
        BY <1>9, <3>1, <3>3 DEF EntryOk
    <2> QED
      BY <1>5, <2>1, <2>2
  <1>11. ASSUME NEW x \in HeardIds', x # id
         PROVE  Whole(files, h, x, allExtents')
    <2>1. x \in IdsOf(old) \ {foundId'}
      BY <1>1, <1>11
    <2>2. Whole(files, old, x, allExtents')
      BY <2>1
    <2>3. EntriesOf(h, x) = EntriesOf(old, x)
      BY <1>5, <1>11
    <2> QED
      BY <2>2, <2>3 DEF Whole
  <1>12. HeardIds' \subseteq In(files)
    OBVIOUS
  <1>13. Counted(files, id) => k + 1 = 1 \/ allExtents'
    BY <1>8
  <1> QED
    BY <1>1, <1>3, <1>7, <1>9, <1>10, <1>11, <1>12, <1>13 DEF EntryInv

\* Hearing the first entry of the next file, or that there is none.
LEMMA EntryFind ==
    ASSUME Typed, Typed', files' = files, userCode' = userCode,
           NEW pos \in Nat, NEW none, FindFile(pos, none),
           NEW old, Heard(old), Hear(old), IdsOf(old) \subseteq In(files),
           hl' = 0 => foundId' \notin IdsOf(old),
           \A i \in DOMAIN old : EntryOk(files, old, i, allUsers'),
           \A id \in IdsOf(old) : Whole(files, old, id, allExtents')
    PROVE  EntryInv'
  <1>1. /\ hl' \in {0, 255}
        /\ hl' = 0 => /\ phase' = "on" /\ heard' = Append(old, <<foundId', entry'>>)
                      /\ HeardIds' = IdsOf(old) \cup {foundId'}
        /\ hl' = 255 => phase' = "over" /\ heard' = old /\ HeardIds' = IdsOf(old)
    BY HearRight
  <1>2. CASE hl' = 255
    BY <1>1, <1>2 DEF EntryInv
  <1>3. CASE hl' = 0
    <2> DEFINE n == files[foundId']
               u == IF allUsers' THEN foundId'[1] ELSE userCode
    <2>1. allUsers' \in BOOLEAN
      BY DEF Typed, TypeOK
    <2>2. /\ foundId' \in Listing(files, allUsers', findUser') /\ foundId' \in Id /\ n \in Nat
          /\ rest' = Rest(Counters(n)) /\ entry' = DirEntry(Counters(n), u)
      BY <1>3, <2>1, FindRight DEF Typed
    <2>3. foundId' \in In(files)
      BY <2>2 DEF Listing
    <2>4. u \in User /\ (allUsers' => u = foundId'[1])
      BY <2>2, IdParts DEF Typed, TypeOK
    <2>5. CountersRight(Counters(n))
      BY <2>2, CountersOfFile
    <2>6. PICK e \in Entry : TRUE
      BY DEF Typed, TypeOK, Entry
    <2>7. EntriesOf(old, foundId') = 0
      <3>1. foundId' \notin IdsOf(old)
        BY <1>3
      <3> QED
        BY <2>2, <2>6, <3>1, CountsOfAppend, Zenon
    <2>8. Counted(files, foundId') =>
             Counters(n) = RestAfter(n, 0) /\ 0 < Len(CpmEntries(n))
      <3>1. Len(CpmEntries(n)) \in Nat \ {0}
        BY <2>2, FileSizes, Zenon
      <3>2. Counted(files, foundId') => Counters(n) = RestAfter(n, 0)
        <4>1. Counted(files, foundId') => Records(n) < RecordSpan
          BY DEF Counted
        <4>2. 0 \in Nat
          OBVIOUS
        <4> QED
          BY <2>2, <4>1, <4>2, RestOfFile, Zenon
      <3> QED
        BY <3>1, <3>2
    <2>9. \A id \in IdsOf(old) \ {foundId'} : Whole(files, old, id, allExtents')
      OBVIOUS
    <2>10. PICK r : r = Counters(n)
      OBVIOUS
    <2> HIDE DEF u
    <2>11. /\ CountersRight(r) /\ entry' = DirEntry(r, u) /\ rest' = Rest(r)
           /\ Counted(files, foundId') =>
                 /\ r = RestAfter(files[foundId'], EntriesOf(old, foundId'))
                 /\ EntriesOf(old, foundId') < Len(CpmEntries(files[foundId']))
                 /\ allExtents' \/ EntriesOf(old, foundId') = 0
      BY <2>2, <2>5, <2>7, <2>8, <2>10, Zenon
    <2>12. /\ phase' = "on" /\ heard' = Append(old, <<foundId', entry'>>)
           /\ HeardIds' = IdsOf(old) \cup {foundId'}
      BY <1>1, <1>3
    <2> QED
      BY <2>3, <2>4, <2>9, <2>11, <2>12, EntryHear
  <1> QED
    BY <1>1, <1>2, <1>3

LEMMA EntrySearch ==
    ASSUME Typed, Typed', RepeatInv, EntryInv,
           SearchNext \/ \E p \in Pattern, all, exts \in BOOLEAN : SearchFirst(p, all, exts)
    PROVE  EntryInv'
  <1>1. CASE SearchNext
    <2> SUFFICES ASSUME phase' # "none", gone' = 0, come' = 0
                 PROVE  EntryInv'
      BY DEF EntryInv
    <2>1. /\ UNCHANGED <<files, userCode, gone, come, findUser, pattern, allUsers, allExtents>>
          /\ List' = List
      BY <1>1 DEF SearchNext, placeVars, List
    <2>2. CASE phase # "on"
      <3>1. phase' = phase /\ heard' = heard
        BY <1>1, <2>2 DEF SearchNext
      <3>2. HeardIds' = HeardIds /\ phase = "over"
        BY <2>2, <3>1 DEF HeardIds, Typed, ViewInv
      <3> QED
        BY <2>1, <3>1, <3>2 DEF EntryInv
    <2>3. CASE phase = "on"
      <3>1. Hear(heard) /\ gone = 0 /\ come = 0
        BY <1>1, <2>1, <2>3 DEF SearchNext
      <3>2. HeardIds = IdsOf(heard) /\ Heard(heard) /\ dirPos \in Nat
        BY HeardTyped
      <3>3. /\ IdsOf(heard) \subseteq In(files)
            /\ \A i \in DOMAIN heard : EntryOk(files, heard, i, allUsers')
            /\ \A id \in IdsOf(heard) \ {foundId} : Whole(files, heard, id, allExtents')
        BY <2>1, <2>3, <3>1, <3>2 DEF EntryInv
      <3>4. Counted(files, foundId) =>
              /\ EntriesOf(heard, foundId) \in 1..Len(CpmEntries(files[foundId]))
              /\ IF allExtents
                   THEN rest = RestAfter(files[foundId], EntriesOf(heard, foundId))
                   ELSE EntriesOf(heard, foundId) = 1
        BY <2>3, <3>1 DEF EntryInv
      <3>5. foundId \in HeardIds /\ foundId \in In(files) /\ foundId \in Id
        BY <2>3, <3>2, <3>3 DEF Typed, TypeOK, ViewInv, HeardIds, Heard
      <3>6. files[foundId] \in Nat
        <4>1. Files(files)
          BY DEF Typed, TypeOK, Files
        <4> QED
          BY <3>5, <4>1, FilesTyped
      <3>7. PICK k : k = EntriesOf(heard, foundId)
        OBVIOUS
      <3>8. PICK n \in Nat : n = files[foundId]
        BY <3>6
      <3>9. PICK count \in Nat \ {0} : /\ count = Len(CpmEntries(n))
                                       /\ \A j \in Nat \ {0} : count <= j <=> Extents(n) <= extentsPerDirEntry * j
        BY <3>8, FileSizes, Zenon
      <3>10. ASSUME allExtents, Counted(files, foundId)
             PROVE  /\ k \in 1..count /\ rest = RestAfter(n, k)
                    /\ rest.records = 0 => k = count
                    /\ rest.records # 0 => k < count
        <4>1. k \in 1..count /\ rest = RestAfter(n, k)
          BY <3>4, <3>7, <3>8, <3>9, <3>10
        <4>2. k \in Nat /\ k \in Nat \ {0} /\ Records(n) < RecordSpan
          BY <3>8, <3>10, <4>1 DEF Counted
        <4>3. RestAfter(n, k).records = 0 <=> Extents(n) <= extentsPerDirEntry * k
          BY <4>2, RestOfFile, Zenon
        <4>4. count <= k <=> Extents(n) <= extentsPerDirEntry * k
          BY <3>9, <4>2
        <4> QED
          BY <4>1, <4>3, <4>4
      <3>11. CASE NextExtent
        <4> DEFINE u == IF allUsers THEN foundId[1] ELSE userCode
        <4>1. /\ hl' = 0 /\ foundId' = foundId /\ rest' = Rest(rest) /\ entry' = DirEntry(rest, u)
          BY <3>11, NextExtentRight
        <4>2. allExtents /\ rest.records > 0
          BY <3>11 DEF NextExtent
        <4>3. /\ phase' = "on" /\ heard' = Append(heard, <<foundId', entry'>>)
              /\ HeardIds' = IdsOf(heard) \cup {foundId'}
          BY <3>1, <3>2, <4>1, HearRight
        <4>4. u \in User /\ (allUsers' => u = foundId'[1])
          BY <2>1, <3>5, <4>1, IdParts DEF Typed, TypeOK
        <4> HIDE DEF u
        <4>5. CountersRight(rest)
          BY DEF Typed, CountersInv
        <4>6. Counted(files, foundId) => rest = RestAfter(n, k) /\ k < count
          BY <3>10, <4>2
        <4>7. Counted(files, foundId') =>
                 /\ rest = RestAfter(files[foundId'], EntriesOf(heard, foundId'))
                 /\ EntriesOf(heard, foundId') < Len(CpmEntries(files[foundId']))
                 /\ allExtents' \/ EntriesOf(heard, foundId') = 0
          BY <2>1, <3>7, <3>8, <3>9, <4>1, <4>2, <4>6
        <4>8. \A id \in IdsOf(heard) \ {foundId'} : Whole(files, heard, id, allExtents')
          BY <3>3, <4>1
        <4>9. foundId' \in In(files) /\ files' = files /\ IdsOf(heard) \subseteq In(files)
          BY <2>1, <3>3, <3>5, <4>1
        <4>10. \A i \in DOMAIN heard : EntryOk(files, heard, i, allUsers')
          BY <3>3
        <4> QED
          BY <3>2, <4>1, <4>3, <4>4, <4>5, <4>7, <4>8, <4>9, <4>10, EntryHear
      <3>12. CASE NextFile
        <4>1. FindFile(dirPos, rest) /\ ~(allExtents /\ rest.records > 0)
          BY <3>12 DEF NextFile
        <4>2. /\ CountersRight(rest) /\ (rest.records > 0 => rest.used >= extentsPerDirEntry)
              /\ rest.records \in Nat
          BY DEF Typed, CountersInv, CountersRight
        <4>3. Ahead = {}
          BY <2>3, <3>1 DEF RepeatInv
        <4>4. Ahead = {id \in IdsOf(heard) \cap List' : Place(List', id) > dirPos}
          BY <2>1, <3>2 DEF Ahead
        <4>5. hl' = 0 => foundId' \notin IdsOf(heard)
          BY <2>1, <3>1, <3>2, <4>1, <4>2, <4>3, <4>4, FindAhead
        <4>6. Whole(files, heard, foundId, allExtents')
          <5>1. allExtents => rest.records = 0
            BY <4>1, <4>2
          <5>2. allExtents /\ Counted(files, foundId) => k = count
            BY <3>10, <5>1
          <5>3. ~allExtents /\ Counted(files, foundId) => k = 1
            BY <3>4, <3>7
          <5> QED
            BY <2>1, <3>7, <3>8, <3>9, <5>2, <5>3 DEF Whole
        <4>7. \A id \in IdsOf(heard) : Whole(files, heard, id, allExtents')
          BY <3>3, <4>6
        <4> QED
          BY <2>1, <3>1, <3>2, <3>3, <4>1, <4>5, <4>7, EntryFind
      <3> QED
        BY <1>1, <3>11, <3>12 DEF SearchNext
    <2> QED
      BY <2>2, <2>3
  <1>2. ASSUME NEW p \in Pattern, NEW all \in BOOLEAN, NEW exts \in BOOLEAN, SearchFirst(p, all, exts)
        PROVE  EntryInv'
    <2>1. FindFile(0, Nothing) /\ Hear(<<>>) /\ files' = files /\ userCode' = userCode
      BY <1>2 DEF SearchFirst
    <2>2. Heard(<<>>) /\ 0 \in Nat /\ DOMAIN <<>> = {}
      BY DEF Heard
    <2>3. IdsOf(<<>>) = {}
      BY DEF IdsOf
    <2> QED
      BY <2>1, <2>2, <2>3, EntryFind
  <1> QED
    BY <1>1, <1>2

LEMMA EntryStep ==
    ASSUME Typed, Typed', DeleteInv, RepeatInv, EntryInv, [Next]_vars
    PROVE  EntryInv'
  <1>1. CASE phase' = "none" \/ gone' # 0 \/ come' # 0
    BY <1>1 DEF EntryInv
  <1>2. CASE /\ UNCHANGED <<files, allUsers, allExtents, foundId, rest, phase, heard, gone, come>>
    <2>1. HeardIds' = HeardIds
      BY <1>2 DEF HeardIds
    <2> QED
      BY <1>2, <2>1 DEF EntryInv
  <1>3. ASSUME UNCHANGED vars \/ \E id \in Id : HostLock(id)
        PROVE  EntryInv'
    BY <1>2, <1>3 DEF vars, HostLock, placeVars, viewVars
  <1>4. ASSUME NEW u \in User, SetUser(u)
        PROVE  EntryInv'
    BY <1>2, <1>4 DEF SetUser, placeVars, viewVars
  <1>5. CASE OtherCall
    BY <1>1, <1>2, <1>5 DEF OtherCall
  <1>6. CASE DeleteNext
    BY <1>1, <1>6 DEF DeleteNext, DeleteInv, viewVars
  <1>7. CASE ResetDisks \/ \E p \in Pattern, all, exts \in BOOLEAN : DeleteFirst(p, all, exts)
    BY <1>1, <1>7 DEF ResetDisks, DeleteFirst
  <1>8. ASSUME NEW id \in Id, HostRemove(id) \/ \E n \in Length : HostAdd(id, n)
        PROVE  EntryInv'
    <2>1. gone \in Nat /\ come \in Nat
      BY DEF Typed, ViewInv
    <2>2. gone' = gone + 1 \/ come' = come + 1
      BY <1>8 DEF HostRemove, HostAdd
    <2> QED
      BY <1>1, <2>1, <2>2
  <1> QED
    BY <1>3, <1>4, <1>5, <1>6, <1>7, <1>8, EntrySearch DEF Next

\* The entries returned are those CP/M has, of files of any length that fileRecords
\* can count: the first one, or all in order if all extents were asked for
\* (_mockupDirEntry).
THEOREM EntriesAreRight == Spec => []EntriesRight
  <1>1. Init => SearchInv /\ RepeatInv /\ EntryInv
    BY InitSearch DEF Init, RepeatInv, EntryInv
  <1>2. SearchInv /\ RepeatInv /\ EntryInv /\ [Next]_vars => (SearchInv /\ RepeatInv /\ EntryInv)'
    <2> SUFFICES ASSUME SearchInv, RepeatInv, EntryInv, [Next]_vars
                 PROVE  (SearchInv /\ RepeatInv /\ EntryInv)'
      OBVIOUS
    <2>1. SearchInv'
      BY SearchStep
    <2>2. Typed /\ DeleteInv
      BY DEF SearchInv, Typed
    <2>3. Typed'
      BY <2>1 DEF SearchInv, Typed
    <2> QED
      BY <2>1, <2>2, <2>3, RepeatStep, EntryStep
  <1>3. SearchInv /\ EntryInv => EntriesRight
    <2> SUFFICES ASSUME SearchInv, EntryInv, phase # "none", gone = 0, come = 0,
                        NEW i \in DOMAIN heard
                 PROVE  LET id    == heard[i][1]
                            e     == heard[i][2]
                            right == CpmEntries(files[id])
                        IN  /\ allUsers => e.user = id[1]
                            /\ CeilDiv(files[id], BlkSZ) < RecordSpan =>
                                  /\ Nth(heard, i) \in DOMAIN right
                                  /\ [extent |-> EntryExtent(e), rc |-> e.rc] = right[Nth(heard, i)]
                                  /\ IF allExtents
                                       THEN phase = "over" \/ Last(heard)[1] # id =>
                                                EntriesOf(heard, id) = Len(right)
                                       ELSE EntriesOf(heard, id) = 1
      BY DEF EntriesRight
    <2>1. PICK id : id = heard[i][1]
      OBVIOUS
    <2>2. Counted(files, id) <=> CeilDiv(files[id], BlkSZ) < RecordSpan
      BY DEF Counted, Records
    <2>3. EntryOk(files, heard, i, allUsers)
      BY DEF EntryInv
    <2>4. id \in HeardIds
      BY <2>1 DEF HeardIds
    <2>5. phase = "over" \/ id # foundId => Whole(files, heard, id, allExtents)
      BY <2>4 DEF EntryInv
    <2>6. phase \in {"on", "over"} /\ (phase = "on" => Last(heard)[1] = foundId)
      BY DEF SearchInv, ViewInv, Last
    <2>7. Counted(files, id) => IF allExtents
                                  THEN phase = "over" \/ Last(heard)[1] # id =>
                                           EntriesOf(heard, id) = Len(CpmEntries(files[id]))
                                  ELSE EntriesOf(heard, id) = 1
      <3>1. CASE phase = "over" \/ id # foundId
        BY <2>5, <3>1 DEF Whole
      <3>2. CASE phase = "on" /\ id = foundId
        <4>1. Counted(files, foundId) /\ ~allExtents => EntriesOf(heard, foundId) = 1
          BY <3>2 DEF EntryInv
        <4> QED
          BY <2>6, <3>2, <4>1
      <3> QED
        BY <2>6, <3>1, <3>2
    <2> QED
      BY <2>1, <2>2, <2>3, <2>7 DEF EntryOk
  <1> QED
    BY <1>1, <1>2, <1>3, PTL DEF Spec
=============================================================================
