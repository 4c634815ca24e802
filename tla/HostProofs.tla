------------------------------ MODULE HostProofs ------------------------------
(***************************************************************************)
(* The three hosts keep the same files, what a write reports is what it    *)
(* did, and a search returns the files it asks for, short of what Windows  *)
(* leaves out, for every number of drives, user areas and names, every     *)
(* size of a record and every room there is left.                          *)
(***************************************************************************)
EXTENDS HostSearch, SequenceTheorems, FiniteSetTheorems, WellFoundedInduction, TLAPS

-----------------------------------------------------------------------------
(* Bytes.                                                                  *)

\* A function on 1..n is a sequence of that length.
LEMMA FunctionSeq ==
  ASSUME NEW S, NEW n \in Nat, NEW f \in [1..n -> S]
  PROVE  f \in Seq(S) /\ Len(f) = n
  OBVIOUS

LEMMA SeqFunction ==
  ASSUME NEW S, NEW s \in Seq(S)
  PROVE  /\ Len(s) \in Nat /\ DOMAIN s = 1..Len(s)
         /\ s \in [1..Len(s) -> S]
         /\ \A i \in 1..Len(s) : s[i] \in S
  OBVIOUS

LEMMA ZerosSeq ==
  ASSUME NEW n \in Nat
  PROVE  /\ Zeros(n) \in Seq(Byte) /\ Len(Zeros(n)) = n
         /\ \A i \in 1..n : Zeros(n)[i] = "zero"
  <1>1. Zeros(n) \in [1..n -> Byte]
    BY DEF Zeros, Byte
  <1> QED
    BY <1>1, FunctionSeq DEF Zeros

\* A record written at pos, and a gap of zeros before it if there is one.
LEMMA OverlaySeq ==
  ASSUME NEW s \in Seq(Byte), NEW pos \in Nat, NEW b \in [1..BlkSZ -> Byte]
  PROVE  LET n == IF Len(s) > pos + BlkSZ THEN Len(s) ELSE pos + BlkSZ
         IN  /\ Overlay(s, pos, b) \in Seq(Byte) /\ Len(Overlay(s, pos, b)) = n
             /\ DOMAIN Overlay(s, pos, b) = 1..n
             /\ \A i \in 1..n : Overlay(s, pos, b)[i] =
                   IF pos < i /\ i <= pos + BlkSZ THEN b[i - pos]
                   ELSE IF i <= Len(s) THEN s[i] ELSE "zero"
  <1> DEFINE n == IF Len(s) > pos + BlkSZ THEN Len(s) ELSE pos + BlkSZ
  <1>1. n \in Nat /\ pos + BlkSZ \in Nat /\ BlkSZ \in Nat
    BY HostAssumption, SeqFunction
  <1>2. DOMAIN s \cup 1..(pos + BlkSZ) = 1..n
    BY <1>1, SeqFunction
  <1>3. Overlay(s, pos, b) = [i \in 1..n |->
           IF pos < i /\ i <= pos + BlkSZ THEN b[i - pos]
           ELSE IF i <= Len(s) THEN s[i] ELSE "zero"]
    BY <1>2 DEF Overlay
  <1>4. \A i \in 1..n : pos < i /\ i <= pos + BlkSZ => b[i - pos] \in Byte
    BY <1>1
  <1>5. \A i \in 1..n : i <= Len(s) => s[i] \in Byte
    BY <1>1, SeqFunction
  <1>6. Overlay(s, pos, b) \in [1..n -> Byte]
    BY <1>3, <1>4, <1>5 DEF Byte
  <1> QED
    BY <1>1, <1>3, <1>6, FunctionSeq

\* What the bound of the loop of _sys_extendfile is on turn i.
LEMMA BoundOnTurn ==
  ASSUME NEW size \in Nat, NEW pos \in Nat, size < pos, pos < Width,
         NEW i \in 0..(pos - size)
  PROVE  i < ((size + i) - pos) % Width <=> i < pos - size
  <1>1. Width \in Nat \ {0}
    BY HostAssumption
  <1>2. CASE i = pos - size
    <2>1. (size + i) - pos = 0
      BY <1>2
    <2>2. 0 % Width = 0
      BY <1>1
    <2> QED
      BY <1>2, <2>1, <2>2
  <1>3. CASE i < pos - size
    <2> DEFINE x == (size + i) - pos
    <2>1. x \in Int /\ x < 0 /\ 0 <= Width + x /\ Width + x < Width
      BY <1>1, <1>3
    <2> HIDE DEF x
    <2>2. x % Width = Width + x
      BY <1>1, <2>1
    <2>3. i < Width + x
      BY <1>1, <1>3 DEF x
    <2> QED
      BY <1>3, <2>2, <2>3 DEF x
  <1> QED
    BY <1>2, <1>3

\* The loop of _sys_extendfile stops where the file ends at pos.
LEMMA TurnsRight ==
  ASSUME NEW size \in Nat, NEW pos \in Nat, size < pos, pos < Width
  PROVE  Turns(size, pos) = pos - size
  <1> DEFINE goesOn == [i \in 0..Width |-> i < ((size + i) - pos) % Width]
             last == pos - size
  <1>1. /\ Width \in Nat /\ last \in Nat /\ last \in 0..Width /\ last \in 0..last
        /\ 0..last \subseteq 0..Width /\ 0..(last - 1) \subseteq 0..last
        /\ ~(last < last) /\ \A j \in 0..(last - 1) : j < last
    BY HostAssumption
  <1>2. \A i \in 0..Width : goesOn[i] <=> i < ((size + i) - pos) % Width
    BY Zenon
  <1>3. DOMAIN goesOn = 0..Width
    OBVIOUS
  <1> HIDE DEF goesOn
  <1>4. \A i \in 0..last : goesOn[i] <=> i < last
    <2> TAKE i \in 0..last
    <2>1. i < ((size + i) - pos) % Width <=> i < last
      BY BoundOnTurn
    <2> QED
      BY <1>1, <1>2, <2>1, Zenon
  <1> HIDE DEF last
  <1>5. ~goesOn[last] /\ \A j \in 0..(last - 1) : goesOn[j]
    BY <1>1, <1>4, Zenon
  <1>6. ASSUME NEW i \in 0..Width, ~goesOn[i], \A j \in 0..(i - 1) : goesOn[j]
        PROVE  i = last
    <2>1. i \in Int /\ 0 <= i
      BY <1>1
    <2>2. i < last => i \in 0..(last - 1)
      BY <1>1, <2>1
    <2>3. i > last => last \in 0..(i - 1)
      BY <1>1, <2>1
    <2>4. ~(i < last)
      BY <1>5, <1>6, <2>2, Zenon
    <2>5. ~(i > last)
      BY <1>5, <1>6, <2>3, Zenon
    <2> QED
      BY <1>1, <2>1, <2>4, <2>5
  <1>7. FirstTurn(goesOn) = last
    BY <1>1, <1>3, <1>5, <1>6, Zenon DEF FirstTurn
  <1> QED
    BY <1>7 DEF Turns, goesOn, last

\* Of two numbers.
LEMMA MinOfTwo ==
  ASSUME NEW a \in Int, NEW b \in Int
  PROVE  Min({a, b}) = IF a <= b THEN a ELSE b
  <1> DEFINE m == IF a <= b THEN a ELSE b
  <1>1. m \in {a, b} /\ \A y \in {a, b} : m <= y
    OBVIOUS
  <1>2. \A x \in {a, b} : (\A y \in {a, b} : x <= y) => x = m
    OBVIOUS
  <1> HIDE DEF m
  <1>3. Min({a, b}) = m
    BY <1>1, <1>2 DEF Min
  <1> QED
    BY <1>3 DEF m

\* _sys_extendfile adds zeros up to pos, as far as there is room.
LEMMA ExtendedSeq ==
  ASSUME NEW s \in Seq(Byte), NEW pos \in Nat, pos < Width, NEW room \in Nat
  PROVE  LET n == IF pos <= Len(s) THEN Len(s)
                  ELSE IF pos <= Len(s) + room THEN pos ELSE Len(s) + room
         IN  /\ Extended(s, pos, room) \in Seq(Byte)
             /\ Len(Extended(s, pos, room)) = n
             /\ Grown(s, Extended(s, pos, room))
  <1>1. Len(s) \in Nat
    BY SeqFunction
  <1>2. CASE pos <= Len(s)
    <2>1. Extended(s, pos, room) = s
      BY <1>1, <1>2 DEF Extended
    <2> QED
      BY <1>1, <1>2, <2>1 DEF Grown
  <1>3. CASE Len(s) < pos
    <2> DEFINE k == IF pos - Len(s) <= room THEN pos - Len(s) ELSE room
    <2>1. k \in Nat
      BY <1>1, <1>3
    <2>2. Turns(Len(s), pos) = pos - Len(s)
      BY <1>1, <1>3, TurnsRight
    <2>3. Min({pos - Len(s), room}) = k
      BY <1>1, MinOfTwo
    <2>4. Extended(s, pos, room) = s \o Zeros(k)
      BY <1>1, <1>3, <2>2, <2>3 DEF Extended
    <2>5. /\ Zeros(k) \in Seq(Byte) /\ Len(Zeros(k)) = k
          /\ \A i \in 1..k : Zeros(k)[i] = "zero"
      BY <2>1, ZerosSeq
    <2> DEFINE z == Zeros(k)
    <2> HIDE DEF z
    <2>6. /\ s \o z \in Seq(Byte) /\ Len(s \o z) = Len(s) + k
          /\ \A i \in 1..(Len(s) + k) : (s \o z)[i] = IF i <= Len(s) THEN s[i] ELSE z[i - Len(s)]
      BY <2>5, ConcatProperties DEF z
    <2>7. Grown(s, s \o z)
      BY <1>1, <2>1, <2>5, <2>6 DEF Grown, z
    <2> QED
      BY <1>1, <1>3, <2>4, <2>6, <2>7 DEF z
  <1> QED
    BY <1>1, <1>2, <1>3

\* It makes no difference to the record written there whether the gap before it
\* was filled first.
LEMMA OverlayGrown ==
  ASSUME NEW s \in Seq(Byte), NEW t \in Seq(Byte), NEW pos \in Nat,
         NEW b \in [1..BlkSZ -> Byte], Grown(s, t),
         Len(t) <= pos + BlkSZ \/ t = s
  PROVE  Overlay(t, pos, b) = Overlay(s, pos, b)
  <1>1. CASE t = s
    BY <1>1
  <1>2. CASE Len(t) <= pos + BlkSZ
    <2> DEFINE n == pos + BlkSZ
               o(u, i) == IF pos < i /\ i <= n THEN b[i - pos]
                          ELSE IF i <= Len(u) THEN u[i] ELSE "zero"
    <2>1. n \in Nat /\ Len(s) \in Nat /\ Len(t) \in Nat /\ Len(s) <= Len(t)
      BY HostAssumption, SeqFunction DEF Grown
    <2>2. DOMAIN s \cup 1..n = 1..n /\ DOMAIN t \cup 1..n = 1..n
      BY <1>2, <2>1, SeqFunction
    <2>3. Overlay(s, pos, b) = [i \in 1..n |-> o(s, i)] /\ Overlay(t, pos, b) = [i \in 1..n |-> o(t, i)]
      BY <2>2 DEF Overlay
    <2>4. \A i \in 1..n : o(s, i) = o(t, i)
      BY <2>1 DEF Grown
    <2> QED
      BY <2>3, <2>4
  <1> QED
    BY <1>1, <1>2

-----------------------------------------------------------------------------
(* What the calls do on one host.                                          *)

TypedFiles(fs) == \A p \in DOMAIN fs : fs[p] \in Seq(Byte)
TypedBuffer(b) == b \in [1..BlkSZ -> Byte]
Typed(h) == TypedFiles(files[h]) /\ TypedBuffer(buffer[h])
TypedOutcome(out) == TypedFiles(out.files) /\ TypedBuffer(out.buffer)

LEMMA OutcomeParts ==
  ASSUME NEW fs, NEW b, NEW r
  PROVE  /\ Outcome(fs, b, r).files = fs /\ Outcome(fs, b, r).buffer = b
         /\ Outcome(fs, b, r).result = r
  BY DEF Outcome

LEMMA AnswerTyped ==
  ASSUME NEW h \in Host, Typed(h), NEW r
  PROVE  TypedOutcome(Answer(h, r))
  BY OutcomeParts DEF Typed, TypedOutcome, Answer

LEMMA ExceptTyped ==
  ASSUME NEW fs, TypedFiles(fs), NEW p, NEW s \in Seq(Byte)
  PROVE  TypedFiles([fs EXCEPT ![p] = s])
  BY DEF TypedFiles

\* The files with a record in its place, and with zeros up to it.
Stored(h, p, pos) == [files[h] EXCEPT ![p] = Overlay(files[h][p], pos, buffer[h])]
Filled(h, p, pos, room) == [files[h] EXCEPT ![p] = Extended(files[h][p], pos, room)]

\* A write on the card stores its record if it fits and says so, and if not it
\* fails, with zeros behind the file.
LEMMA WriteCardOutcome ==
  ASSUME NEW h \in Host, Typed(h), NEW p, There(h, p),
         NEW pos \in Nat, pos < Width, NEW room \in Nat
  PROVE  /\ WriteCard(h, p, pos, room).buffer = buffer[h]
         /\ Fits(files[h][p], pos, room) =>
               /\ WriteCard(h, p, pos, room).result = 0
               /\ WriteCard(h, p, pos, room).files = Stored(h, p, pos)
         /\ ~Fits(files[h][p], pos, room) =>
               /\ WriteCard(h, p, pos, room).result # 0
               /\ WriteCard(h, p, pos, room).files = Filled(h, p, pos, room)
  <1> DEFINE s == files[h][p]
             e == Extended(s, pos, room)
             left == room - (Len(e) - Len(s))
             longer == [files[h] EXCEPT ![p] = e]
             out == WriteCard(h, p, pos, room)
  <1>1. s \in Seq(Byte) /\ Len(s) \in Nat /\ BlkSZ \in Nat \ {0}
    BY SeqFunction, HostAssumption DEF Typed, TypedFiles, There
  <1>2. /\ e \in Seq(Byte) /\ Grown(s, e)
        /\ Len(e) = IF pos <= Len(s) THEN Len(s)
                    ELSE IF pos <= Len(s) + room THEN pos ELSE Len(s) + room
    BY <1>1, ExtendedSeq
  <1>3. pos <= Len(s) => e = s
    BY <1>1 DEF Extended
  <1>4. out = IF Len(e) < pos THEN Outcome(longer, buffer[h], 16)
              ELSE IF ~Fits(e, pos, left) THEN Outcome(longer, buffer[h], 255)
              ELSE Outcome([longer EXCEPT ![p] = Overlay(e, pos, buffer[h])], buffer[h], 0)
    <2>1. Len(longer[p]) - Len(files[h][p]) = Len(e) - Len(s)
      BY DEF There
    <2> QED
      BY <2>1 DEF WriteCard
  <1>5. Fits(s, pos, room) <=> ~(Len(e) < pos) /\ Fits(e, pos, left)
    BY <1>1, <1>2 DEF Fits
  <1>6. ~(Len(e) < pos) => Overlay(e, pos, buffer[h]) = Overlay(s, pos, buffer[h])
    <2>1. Len(e) <= pos + BlkSZ \/ e = s
      BY <1>1, <1>2, <1>3
    <2> QED
      BY <1>1, <1>2, <2>1, OverlayGrown DEF Typed, TypedBuffer
  <1>7. \A v : [longer EXCEPT ![p] = v] = [files[h] EXCEPT ![p] = v]
    OBVIOUS
  <1> HIDE DEF e, left, longer, out, s
  <1>8. CASE Fits(s, pos, room)
    <2>1. out = Outcome([files[h] EXCEPT ![p] = Overlay(s, pos, buffer[h])], buffer[h], 0)
      BY <1>4, <1>5, <1>6, <1>7, <1>8
    <2> QED
      BY <1>8, <2>1, OutcomeParts DEF out, s, Stored
  <1>9. CASE ~Fits(s, pos, room)
    <2>1. out = Outcome(longer, buffer[h], 16) \/ out = Outcome(longer, buffer[h], 255)
      BY <1>4, <1>5, <1>9
    <2>2. out.files = longer /\ out.buffer = buffer[h] /\ out.result # 0
      BY <2>1, OutcomeParts
    <2> QED
      BY <1>9, <2>2 DEF out, s, longer, e, Filled
  <1> QED
    BY <1>8, <1>9

\* The same of the other hosts; a write that does not fit may be stored or not.
LEMMA WriteStdioOutcome ==
  ASSUME NEW h \in Host, NEW p, There(h, p), NEW pos, NEW room, NEW kept \in BOOLEAN
  PROVE  /\ WriteStdio(h, p, pos, room, kept).buffer = buffer[h]
         /\ WriteStdio(h, p, pos, room, kept).result = 0
         /\ Fits(files[h][p], pos, room) \/ kept =>
               WriteStdio(h, p, pos, room, kept).files = Stored(h, p, pos)
         /\ ~(Fits(files[h][p], pos, room) \/ kept) =>
               WriteStdio(h, p, pos, room, kept).files = files[h]
  BY OutcomeParts DEF WriteStdio, Answer, Stored

\* On every host a write that fits stores its record.
LEMMA WriteThatFits ==
  ASSUME NEW h \in Host, Typed(h), NEW p, There(h, p), NEW rec \in Record,
         NEW room \in Nat, NEW kept \in BOOLEAN, Fits(files[h][p], rec * BlkSZ, room)
  PROVE  /\ WriteOn(h, p, rec * BlkSZ, room, kept).result = 0
         /\ WriteOn(h, p, rec * BlkSZ, room, kept).buffer = buffer[h]
         /\ WriteOn(h, p, rec * BlkSZ, room, kept).files = Stored(h, p, rec * BlkSZ)
  <1> DEFINE pos == rec * BlkSZ
  <1>1. pos \in Nat /\ pos < Width
    BY HostAssumption
  <1> HIDE DEF pos
  <1>2. Fits(files[h][p], pos, room)
    BY DEF pos
  <1>3. CASE h = "arduino"
    BY <1>1, <1>2, <1>3, WriteCardOutcome DEF WriteOn, pos
  <1>4. CASE h # "arduino"
    BY <1>2, <1>4, WriteStdioOutcome DEF WriteOn, pos
  <1> QED
    BY <1>3, <1>4

\* WritesTold of one host, file and write.
LEMMA WriteTold ==
  ASSUME NEW h \in Host, Typed(h), NEW p, There(h, p), NEW rec \in Record,
         NEW room \in Nat, NEW kept \in BOOLEAN
  PROVE  LET out == WriteOn(h, p, rec * BlkSZ, room, kept)
             s   == files[h][p]
             new == out.files[p]
             asAsked == new = Overlay(s, rec * BlkSZ, buffer[h])
         IN  IF out.result = 0 /\ (h = "arduino" \/ Fits(s, rec * BlkSZ, room))
             THEN asAsked ELSE Grown(s, new) \/ (h # "arduino" /\ asAsked)
  <1> DEFINE pos == rec * BlkSZ
             out == WriteOn(h, p, pos, room, kept)
             s   == files[h][p]
             o   == Overlay(s, pos, buffer[h])
             e   == Extended(s, pos, room)
  <1>1. pos \in Nat /\ pos < Width
    BY HostAssumption
  <1>2. s \in Seq(Byte) /\ Len(s) \in Nat
    BY SeqFunction DEF Typed, TypedFiles, There
  <1>3. Grown(s, s)
    BY <1>2 DEF Grown
  <1>4. Grown(s, e)
    BY <1>1, <1>2, ExtendedSeq
  <1>5. Stored(h, p, pos)[p] = o /\ Filled(h, p, pos, room)[p] = e
    BY DEF There, Stored, Filled
  <1> HIDE DEF o, e, pos
  <1>6. CASE h = "arduino"
    <2>1. out = WriteCard(h, p, pos, room)
      BY <1>6 DEF WriteOn
    <2>2. /\ Fits(s, pos, room) => out.result = 0 /\ out.files = Stored(h, p, pos)
          /\ ~Fits(s, pos, room) => out.result # 0 /\ out.files = Filled(h, p, pos, room)
      BY <1>1, <2>1, WriteCardOutcome
    <2> HIDE DEF out
    <2>3. /\ Fits(s, pos, room) => out.result = 0 /\ out.files[p] = o
          /\ ~Fits(s, pos, room) => out.result # 0 /\ out.files[p] = e
      BY <1>5, <2>2
    <2> QED
      BY <1>4, <1>6, <2>3 DEF out, o, pos
  <1>7. CASE h # "arduino"
    <2>1. out = WriteStdio(h, p, pos, room, kept)
      BY <1>7 DEF WriteOn
    <2>2. /\ out.result = 0
          /\ Fits(s, pos, room) \/ kept => out.files = Stored(h, p, pos)
          /\ ~(Fits(s, pos, room) \/ kept) => out.files = files[h]
      BY <2>1, WriteStdioOutcome
    <2> HIDE DEF out
    <2>3. /\ Fits(s, pos, room) \/ kept => out.files[p] = o
          /\ ~(Fits(s, pos, room) \/ kept) => out.files[p] = s
      BY <1>5, <2>2
    <2> QED
      BY <1>3, <1>7, <2>2, <2>3 DEF out, o, pos
  <1> QED
    BY <1>6, <1>7

\* The record a read fetches is one.
LEMMA FetchedTyped ==
  ASSUME NEW s \in Seq(Byte), NEW pos \in Nat
  PROVE  TypedBuffer(Fetched(s, pos))
  <1>1. \A i \in 1..BlkSZ : pos + i <= Len(s) => s[pos + i] \in Byte
    BY HostAssumption, SeqFunction
  <1> QED
    BY <1>1 DEF Fetched, TypedBuffer, Byte

LEMMA ReadTyped ==
  ASSUME NEW h \in Host, Typed(h), NEW p, NEW pos \in Nat
  PROVE  TypedOutcome(ReadSeqOn(h, p, pos)) /\ TypedOutcome(ReadRandOn(h, p, pos))
  <1>1. There(h, p) => TypedOutcome(ReadAt(h, p, pos))
    <2> SUFFICES ASSUME There(h, p) PROVE TypedOutcome(ReadAt(h, p, pos))
      OBVIOUS
    <2>1. TypedBuffer(Fetched(files[h][p], pos))
      BY FetchedTyped DEF Typed, TypedFiles, There
    <2>2. TypedOutcome(Outcome(files[h], Fetched(files[h][p], pos), 0))
      BY <2>1, OutcomeParts DEF TypedOutcome, Typed
    <2> QED
      BY <2>2, AnswerTyped DEF ReadAt
  <1> QED
    BY <1>1, AnswerTyped DEF ReadSeqOn, ReadRandOn

LEMMA NameTyped ==
  ASSUME NEW h \in Host, Typed(h), NEW p, NEW q
  PROVE  /\ TypedOutcome(OpenOn(h, p)) /\ TypedOutcome(SizeOn(h, p))
         /\ TypedOutcome(MakeOn(h, p)) /\ TypedOutcome(DeleteOn(h, p))
         /\ TypedOutcome(RenameOn(h, p, q))
  <1>1. \A fs, t : TypedFiles(fs) /\ t \in Seq(Byte) => TypedFiles(With(fs, p, t))
    BY DEF TypedFiles, With
  <1>2. TypedFiles(Without(files[h], p)) /\ <<>> \in Seq(Byte)
    BY DEF Typed, TypedFiles, Without
  <1>3. There(h, p) => TypedFiles(With(Without(files[h], p), q, files[h][p]))
    BY <1>2 DEF Typed, TypedFiles, There, With
  <1>4. \A fs : TypedFiles(fs) => TypedOutcome(Outcome(fs, buffer[h], 1))
    BY OutcomeParts DEF TypedOutcome, Typed
  <1> QED
    BY <1>1, <1>2, <1>3, <1>4, AnswerTyped DEF Typed, OpenOn, SizeOn, MakeOn, DeleteOn, RenameOn

LEMMA WriteTyped ==
  ASSUME NEW h \in Host, Typed(h), NEW p, NEW rec \in Record, NEW room \in Nat,
         NEW kept \in BOOLEAN
  PROVE  TypedOutcome(WriteOn(h, p, rec * BlkSZ, room, kept))
  <1> DEFINE pos == rec * BlkSZ
             s == files[h][p]
  <1>1. CASE ~There(h, p)
    BY <1>1, AnswerTyped DEF WriteOn, WriteCard, WriteStdio
  <1>2. CASE There(h, p)
    <2>1. pos \in Nat /\ pos < Width /\ s \in Seq(Byte)
      BY <1>2, HostAssumption DEF Typed, TypedFiles, There
    <2>2. Overlay(s, pos, buffer[h]) \in Seq(Byte) /\ Extended(s, pos, room) \in Seq(Byte)
      BY <2>1, OverlaySeq, ExtendedSeq DEF Typed, TypedBuffer
    <2> HIDE DEF pos, s
    <2>3. /\ TypedFiles(Stored(h, p, pos)) /\ TypedFiles(Filled(h, p, pos, room))
          /\ TypedFiles(files[h]) /\ TypedBuffer(buffer[h])
      BY <2>2, ExceptTyped DEF Typed, s, Stored, Filled
    <2>4. TypedOutcome(WriteCard(h, p, pos, room))
      BY <1>2, <2>1, <2>3, WriteCardOutcome DEF TypedOutcome, s
    <2>5. TypedOutcome(WriteStdio(h, p, pos, room, kept))
      BY <1>2, <2>3, WriteStdioOutcome DEF TypedOutcome, s
    <2> QED
      BY <2>4, <2>5 DEF WriteOn, pos
  <1> QED
    BY <1>1, <1>2

LEMMA CutTyped ==
  ASSUME NEW s \in Seq(Byte), NEW n \in Nat
  PROVE  Cut(s, n) \in Seq(Byte)
  <1>1. Len(s) \in Nat
    BY SeqFunction
  <1>2. CASE n <= Len(s)
    <2>1. \A i \in 1..n : s[i] \in Byte
      BY <1>1, <1>2, SeqFunction
    <2>2. SubSeq(s, 1, n) \in Seq(Byte)
      BY <2>1, SubSeqProperties
    <2> QED
      BY <1>2, <2>2 DEF Cut
  <1>3. CASE n > Len(s)
    <2>1. Zeros(n - Len(s)) \in Seq(Byte)
      BY <1>1, <1>3, ZerosSeq
    <2>2. s \o Zeros(n - Len(s)) \in Seq(Byte)
      BY <2>1, ConcatProperties
    <2> QED
      BY <1>1, <1>3, <2>2 DEF Cut
  <1> QED
    BY <1>1, <1>2, <1>3

LEMMA TruncateTyped ==
  ASSUME NEW h \in Host, Typed(h), NEW p, NEW n \in Nat
  PROVE  TypedOutcome(TruncateOn(h, p, n))
  <1>1. There(h, p) => TypedFiles([files[h] EXCEPT ![p] = Cut(@, n)])
    <2> SUFFICES ASSUME There(h, p) PROVE TypedFiles([files[h] EXCEPT ![p] = Cut(@, n)])
      OBVIOUS
    <2>1. Cut(files[h][p], n) \in Seq(Byte)
      BY CutTyped DEF Typed, TypedFiles, There
    <2> QED
      BY <2>1, ExceptTyped DEF Typed
  <1>2. \A fs : TypedFiles(fs) => TypedOutcome(Outcome(fs, buffer[h], 0))
    BY OutcomeParts DEF TypedOutcome, Typed
  <1> QED
    BY <1>1, <1>2 DEF TruncateOn, Typed

-----------------------------------------------------------------------------
(* The invariant: the hosts agree, on files that are bytes.                *)

HostInv ==
    /\ \A h \in Host : Typed(h)
    /\ agreed \in BOOLEAN
    /\ HostsAgree

\* Outcomes that are the same on all hosts, but for the reason of a refusal.
SameOutcomes(outs) ==
    /\ \A g, h \in Host : outs[g].files = outs[h].files /\ outs[g].buffer = outs[h].buffer
    /\ \/ \A g, h \in Host : outs[g].result = outs[h].result
       \/ \A h \in Host : outs[h].result \in Refusals

\* Calls whose outcomes have the types and are the same keep the invariant.
LEMMA AnsweredInv ==
  ASSUME HostInv, NEW STATE outs, Answered(outs), UNCHANGED folders,
         \A h \in Host : TypedOutcome(outs[h]),
         agreed' \in BOOLEAN, agreed' => agreed /\ SameOutcomes(outs)
  PROVE  HostInv'
  <1>1. /\ files' = [h \in Host |-> outs[h].files]
        /\ buffer' = [h \in Host |-> outs[h].buffer]
        /\ result' = [h \in Host |-> outs[h].result]
    BY DEF Answered
  <1>2. \A h \in Host : Typed(h)'
    BY <1>1 DEF Typed, TypedOutcome
  <1>3. ASSUME agreed' PROVE Same(files)' /\ Same(folders)' /\ Same(buffer)'
    BY <1>1, <1>3 DEF HostInv, HostsAgree, Same, SameOutcomes
  <1>4. ASSUME agreed' PROVE Same(result)' \/ \A h \in Host : result'[h] \in Refusals
    BY <1>1, <1>4 DEF Same, SameOutcomes
  <1> QED
    BY <1>2, <1>3, <1>4 DEF HostInv, HostsAgree

SameState == Same(files) /\ Same(folders) /\ Same(buffer)

\* Calls that name a file do the same where hosts have the same files and
\* folders, a rename only if the new name is free.
LEMMA NameSame ==
  ASSUME SameState, NEW g \in Host, NEW h \in Host, NEW p, NEW q
  PROVE  /\ OpenOn(g, p) = OpenOn(h, p) /\ SizeOn(g, p) = SizeOn(h, p)
         /\ MakeOn(g, p) = MakeOn(h, p) /\ DeleteOn(g, p) = DeleteOn(h, p)
         /\ (There(g, p) => ~There(g, q)) => RenameOn(g, p, q) = RenameOn(h, p, q)
  <1>1. files[g] = files[h] /\ folders[g] = folders[h] /\ buffer[g] = buffer[h]
    BY DEF SameState, Same
  <1> QED
    BY <1>1 DEF OpenOn, SizeOn, MakeOn, DeleteOn, RenameOn, Replaces, There, HasFolder, Answer

\* Reads get the same bytes, or are refused.
LEMMA ReadSame ==
  ASSUME SameState, NEW p, NEW pos \in Nat,
         NEW outs, \/ outs = [h \in Host |-> ReadSeqOn(h, p, pos)]
                   \/ outs = [h \in Host |-> ReadRandOn(h, p, pos)],
         \A h \in Host : Typed(h)
  PROVE  SameOutcomes(outs)
  <1>1. \A g, h \in Host : files[g] = files[h] /\ buffer[g] = buffer[h]
    BY DEF SameState, Same
  <1>2. \A g, h \in Host : There(g, p) <=> There(h, p)
    BY <1>1 DEF There
  <1>3. \A g, h \in Host : ReadAt(g, p, pos) = ReadAt(h, p, pos) /\ \A r : Answer(g, r) = Answer(h, r)
    BY <1>1 DEF ReadAt, Answer
  <1>4. \A t : SeekError(t, pos) \in Refusals
    BY DEF SeekError, Refusals
  <1>5. CASE \A h \in Host : ~There(h, p)
    <2>1. \A h \in Host : outs[h] = Answer(h, 16)
      BY <1>5 DEF ReadSeqOn, ReadRandOn
    <2> QED
      BY <1>3, <2>1 DEF SameOutcomes
  <1>6. CASE \A h \in Host : There(h, p) /\ ~SeekFails(h, p, pos)
    <2>1. \A h \in Host : outs[h] = ReadAt(h, p, pos)
      BY <1>6 DEF ReadSeqOn, ReadRandOn
    <2> QED
      BY <1>3, <2>1 DEF SameOutcomes
  <1>7. CASE \E h \in Host : There(h, p) /\ SeekFails(h, p, pos)
    <2>1. PICK c \in Host : There(c, p) /\ SeekFails(c, p, pos)
      BY <1>7
    <2>2. \A h \in Host : There(h, p) /\ pos > Len(files[h][p])
      BY <1>1, <1>2, <2>1 DEF SeekFails
    <2>3. \A h \in Host : Len(files[h][p]) \in Nat
      BY <2>2, SeqFunction DEF Typed, TypedFiles, There
    <2>4. \A h \in Host : ReadAt(h, p, pos) = Answer(h, 1)
      BY <2>2, <2>3 DEF ReadAt
    <2>5. \A h \in Host : \E r \in Refusals : outs[h] = Answer(h, r)
      BY <1>4, <2>2, <2>4 DEF ReadSeqOn, ReadRandOn, Refusals
    <2>6. \A h \in Host : /\ outs[h].files = files[h] /\ outs[h].buffer = buffer[h]
                          /\ outs[h].result \in Refusals
      BY <2>5, OutcomeParts DEF Answer
    <2> QED
      BY <1>1, <2>6 DEF SameOutcomes
  <1> QED
    BY <1>2, <1>5, <1>6, <1>7

\* Writes that fit store the same.
LEMMA WriteSame ==
  ASSUME SameState, NEW p, NEW rec \in Record, NEW room \in Nat, NEW kept \in BOOLEAN,
         \A h \in Host : Typed(h),
         \A h \in Host : There(h, p) => Fits(files[h][p], rec * BlkSZ, room)
  PROVE  SameOutcomes([h \in Host |-> WriteOn(h, p, rec * BlkSZ, room, kept)])
  <1> DEFINE pos == rec * BlkSZ
             outs == [h \in Host |-> WriteOn(h, p, pos, room, kept)]
  <1>1. \A g, h \in Host : files[g] = files[h] /\ buffer[g] = buffer[h]
    BY DEF SameState, Same
  <1>2. \A g, h \in Host : (There(g, p) <=> There(h, p)) /\ \A r : Answer(g, r) = Answer(h, r)
    BY <1>1 DEF There, Answer
  <1>3. pos \in Nat /\ pos < Width
    BY HostAssumption
  <1>4. CASE \A h \in Host : ~There(h, p)
    <2>1. \A h \in Host : outs[h] = Answer(h, 16)
      BY <1>4 DEF WriteOn, WriteCard, WriteStdio
    <2> QED
      BY <1>2, <2>1 DEF SameOutcomes
  <1>5. CASE \A h \in Host : There(h, p)
    <2>1. ASSUME NEW h \in Host
          PROVE  /\ outs[h].result = 0 /\ outs[h].buffer = buffer[h]
                 /\ outs[h].files = Stored(h, p, pos)
      BY <1>5, WriteThatFits
    <2> HIDE DEF outs, pos
    <2>2. ASSUME NEW g \in Host, NEW h \in Host
          PROVE  /\ outs[g].files = outs[h].files /\ outs[g].buffer = outs[h].buffer
                 /\ outs[g].result = outs[h].result
      <3>1. buffer[g] = buffer[h] /\ Stored(g, p, pos) = Stored(h, p, pos)
        BY <1>1 DEF Stored
      <3> QED
        BY <2>1, <3>1, Zenon
    <2>3. SameOutcomes(outs)
      BY <2>2 DEF SameOutcomes
    <2> QED
      BY <2>3 DEF outs, pos
  <1> QED
    BY <1>2, <1>4, <1>5

\* So do cuts that do not go beyond the end.
LEMMA TruncateSame ==
  ASSUME SameState, NEW p, NEW n \in Nat,
         \A h \in Host : There(h, p) => n <= Len(files[h][p])
  PROVE  SameOutcomes([h \in Host |-> TruncateOn(h, p, n)])
  <1>1. \A g, h \in Host : files[g] = files[h] /\ buffer[g] = buffer[h]
    BY DEF SameState, Same
  <1>2. \A g, h \in Host : TruncateOn(g, p, n) = TruncateOn(h, p, n)
    BY <1>1 DEF TruncateOn, There
  <1> QED
    BY <1>2 DEF SameOutcomes

-----------------------------------------------------------------------------
(* The actions.                                                            *)

LEMMA NameCallsInv ==
  ASSUME HostInv, NEW p,
         \/ OpenFile(p) \/ FileSize(p) \/ MakeFile(p) \/ DeleteFile(p)
         \/ \E n \in Name : RenameFile(p, n)
  PROVE  HostInv'
  <1>1. \A h \in Host : Typed(h)
    BY DEF HostInv
  <1>2. agreed => SameState
    BY DEF HostInv, HostsAgree, SameState
  <1>3. \A outs : (\A g, h \in Host : outs[g] = outs[h]) => SameOutcomes(outs)
    BY DEF SameOutcomes
  <1>4. CASE OpenFile(p)
    <2> DEFINE outs == [h \in Host |-> OpenOn(h, p)]
    <2>1. \A h \in Host : TypedOutcome(outs[h])
      BY <1>1, NameTyped
    <2>2. agreed => SameOutcomes(outs)
      BY <1>2, <1>3, NameSame
    <2>3. Answered(outs) /\ UNCHANGED <<folders, agreed>>
      BY <1>4 DEF OpenFile
    <2> HIDE DEF outs
    <2> QED
      BY <2>1, <2>2, <2>3, AnsweredInv DEF HostInv
  <1>5. CASE FileSize(p)
    <2> DEFINE outs == [h \in Host |-> SizeOn(h, p)]
    <2>1. \A h \in Host : TypedOutcome(outs[h])
      BY <1>1, NameTyped
    <2>2. agreed => SameOutcomes(outs)
      BY <1>2, <1>3, NameSame
    <2>3. Answered(outs) /\ UNCHANGED <<folders, agreed>>
      BY <1>5 DEF FileSize
    <2> HIDE DEF outs
    <2> QED
      BY <2>1, <2>2, <2>3, AnsweredInv DEF HostInv
  <1>6. CASE MakeFile(p)
    <2> DEFINE outs == [h \in Host |-> MakeOn(h, p)]
    <2>1. \A h \in Host : TypedOutcome(outs[h])
      BY <1>1, NameTyped
    <2>2. agreed => SameOutcomes(outs)
      BY <1>2, <1>3, NameSame
    <2>3. Answered(outs) /\ UNCHANGED <<folders, agreed>>
      BY <1>6 DEF MakeFile
    <2> HIDE DEF outs
    <2> QED
      BY <2>1, <2>2, <2>3, AnsweredInv DEF HostInv
  <1>7. CASE DeleteFile(p)
    <2> DEFINE outs == [h \in Host |-> DeleteOn(h, p)]
    <2>1. \A h \in Host : TypedOutcome(outs[h])
      BY <1>1, NameTyped
    <2>2. agreed => SameOutcomes(outs)
      BY <1>2, <1>3, NameSame
    <2>3. Answered(outs) /\ UNCHANGED <<folders, agreed>>
      BY <1>7 DEF DeleteFile
    <2> HIDE DEF outs
    <2> QED
      BY <2>1, <2>2, <2>3, AnsweredInv DEF HostInv
  <1>8. CASE \E n \in Name : RenameFile(p, n)
    <2>1. PICK n \in Name : RenameFile(p, n)
      BY <1>8
    <2> DEFINE q == <<p[1], p[2], n>>
               outs == [h \in Host |-> RenameOn(h, p, q)]
               free == \A h \in Host : There(h, p) => ~There(h, q)
    <2>2. \A h \in Host : TypedOutcome(outs[h])
      BY <1>1, NameTyped
    <2>3. agreed /\ free => SameOutcomes(outs)
      <3> HIDE DEF q
      <3> SUFFICES ASSUME agreed, free PROVE \A g, h \in Host : outs[g] = outs[h]
        BY <1>3
      <3> QED
        BY <1>2, NameSame
    <2>4. Answered(outs) /\ UNCHANGED folders /\ agreed' = (agreed /\ free)
      BY <2>1 DEF RenameFile
    <2> HIDE DEF outs, free
    <2>5. agreed' \in BOOLEAN /\ (agreed' => agreed /\ SameOutcomes(outs))
      BY <2>3, <2>4, Zenon
    <2> QED
      BY <2>2, <2>4, <2>5, AnsweredInv
  <1> QED
    BY <1>4, <1>5, <1>6, <1>7, <1>8

LEMMA DataCallsInv ==
  ASSUME HostInv, NEW p, NEW rec \in Record,
         \/ ReadSeq(p, rec) \/ ReadRand(p, rec) \/ Truncate(p, rec)
         \/ \E room \in Room, kept \in BOOLEAN : Write(p, rec, room, kept)
  PROVE  HostInv'
  <1>1. \A h \in Host : Typed(h)
    BY DEF HostInv
  <1>2. agreed => SameState
    BY DEF HostInv, HostsAgree, SameState
  <1> DEFINE pos == rec * BlkSZ
  <1>3. pos \in Nat
    BY HostAssumption
  <1>4. CASE ReadSeq(p, rec)
    <2> DEFINE outs == [h \in Host |-> ReadSeqOn(h, p, pos)]
    <2>1. Answered(outs) /\ UNCHANGED <<folders, agreed>>
      BY <1>4 DEF ReadSeq
    <2> HIDE DEF pos
    <2>2. \A h \in Host : TypedOutcome(outs[h])
      BY <1>1, <1>3, ReadTyped
    <2>3. agreed => SameOutcomes(outs)
      BY <1>1, <1>2, <1>3, ReadSame
    <2> HIDE DEF outs
    <2> QED
      BY <2>1, <2>2, <2>3, AnsweredInv DEF HostInv
  <1>5. CASE ReadRand(p, rec)
    <2> DEFINE outs == [h \in Host |-> ReadRandOn(h, p, pos)]
    <2>1. Answered(outs) /\ UNCHANGED <<folders, agreed>>
      BY <1>5 DEF ReadRand
    <2> HIDE DEF pos
    <2>2. \A h \in Host : TypedOutcome(outs[h])
      BY <1>1, <1>3, ReadTyped
    <2>3. agreed => SameOutcomes(outs)
      BY <1>1, <1>2, <1>3, ReadSame
    <2> HIDE DEF outs
    <2> QED
      BY <2>1, <2>2, <2>3, AnsweredInv DEF HostInv
  <1>6. CASE Truncate(p, rec)
    <2> DEFINE outs == [h \in Host |-> TruncateOn(h, p, pos)]
               inside == \A h \in Host : There(h, p) => pos <= Len(files[h][p])
    <2>1. Answered(outs) /\ UNCHANGED folders /\ agreed' = (agreed /\ inside)
      BY <1>6 DEF Truncate
    <2> HIDE DEF pos
    <2>2. \A h \in Host : TypedOutcome(outs[h])
      BY <1>1, <1>3, TruncateTyped
    <2>3. agreed /\ inside => SameOutcomes(outs)
      BY <1>2, <1>3, TruncateSame
    <2> HIDE DEF outs, inside
    <2>4. agreed' \in BOOLEAN /\ (agreed' => agreed /\ SameOutcomes(outs))
      BY <2>1, <2>3, Zenon
    <2> QED
      BY <2>1, <2>2, <2>4, AnsweredInv
  <1>7. CASE \E room \in Room, kept \in BOOLEAN : Write(p, rec, room, kept)
    <2>1. PICK room \in Room, kept \in BOOLEAN : Write(p, rec, room, kept)
      BY <1>7
    <2> DEFINE outs == [h \in Host |-> WriteOn(h, p, rec * BlkSZ, room, kept)]
               fit == \A h \in Host : There(h, p) => Fits(files[h][p], rec * BlkSZ, room)
    <2>2. Answered(outs) /\ UNCHANGED folders /\ agreed' = (agreed /\ fit)
      BY <2>1 DEF Write
    <2>3. room \in Nat
      BY HostAssumption
    <2>4. \A h \in Host : TypedOutcome(outs[h])
      BY <1>1, <2>3, WriteTyped
    <2>5. agreed /\ fit => SameOutcomes(outs)
      BY <1>1, <1>2, <2>3, WriteSame
    <2> HIDE DEF outs, fit
    <2>6. agreed' \in BOOLEAN /\ (agreed' => agreed /\ SameOutcomes(outs))
      BY <2>2, <2>5, Zenon
    <2> QED
      BY <2>2, <2>4, <2>6, AnsweredInv
  <1> QED
    BY <1>4, <1>5, <1>6, <1>7

\* Calls that name no file.
LEMMA OtherCallsInv ==
  ASSUME HostInv,
         \/ Fill \/ \E d \in Drive : SelectDisk(d) \/ MakeDisk(d)
         \/ \E d \in Drive, u \in User : MakeUserDir(d, u)
  PROVE  HostInv'
  <1>1. CASE Fill
    <2>1. TypedBuffer(Data)
      BY DEF TypedBuffer, Data, Byte
    <2>2. /\ UNCHANGED <<files, folders, agreed>>
          /\ buffer' = [h \in Host |-> Data] /\ result' = [h \in Host |-> 0]
      BY <1>1 DEF Fill
    <2>3. \A h \in Host : Typed(h)'
      BY <2>1, <2>2 DEF HostInv, Typed
    <2>4. Same(buffer)' /\ Same(result)'
      BY <2>2 DEF Same
    <2>5. Same(files)' = Same(files) /\ Same(folders)' = Same(folders)
      BY <2>2 DEF Same
    <2> QED
      BY <2>2, <2>3, <2>4, <2>5 DEF HostInv, HostsAgree
  <1>2. CASE \E d \in Drive : SelectDisk(d)
    <2>1. PICK d \in Drive : SelectDisk(d)
      BY <1>2
    <2>2. /\ UNCHANGED <<files, folders, buffer, agreed>>
          /\ result' = [h \in Host |-> IF <<d>> \in folders[h] THEN 1 ELSE 0]
      BY <2>1 DEF SelectDisk
    <2>3. \A h \in Host : Typed(h)'
      BY <2>2 DEF HostInv, Typed
    <2>4. Same(folders) => Same(result)'
      BY <2>2 DEF Same
    <2>5. /\ Same(files)' = Same(files) /\ Same(folders)' = Same(folders)
          /\ Same(buffer)' = Same(buffer)
      BY <2>2 DEF Same
    <2> QED
      BY <2>2, <2>3, <2>4, <2>5 DEF HostInv, HostsAgree
  <1>3. CASE \E d \in Drive : MakeDisk(d)
    <2>1. UNCHANGED <<files, buffer>> /\ agreed' = FALSE
      BY <1>3 DEF MakeDisk
    <2>2. \A h \in Host : Typed(h)'
      BY <2>1 DEF HostInv, Typed
    <2> QED
      BY <2>1, <2>2 DEF HostInv, HostsAgree
  <1>4. CASE \E d \in Drive, u \in User : MakeUserDir(d, u)
    <2>1. PICK d \in Drive, u \in User : MakeUserDir(d, u)
      BY <1>4
    <2>2. /\ UNCHANGED <<files, buffer, agreed>> /\ result' = [h \in Host |-> 0]
          /\ folders' = [h \in Host |-> IF <<d>> \in folders[h]
                                         THEN folders[h] \cup {<<d, u>>} ELSE folders[h]]
      BY <2>1 DEF MakeUserDir
    <2>3. \A h \in Host : Typed(h)'
      BY <2>2 DEF HostInv, Typed
    <2>4. Same(result)' /\ (Same(folders) => Same(folders)')
      BY <2>2 DEF Same
    <2>5. Same(files)' = Same(files) /\ Same(buffer)' = Same(buffer)
      BY <2>2 DEF Same
    <2> QED
      BY <2>2, <2>3, <2>4, <2>5 DEF HostInv, HostsAgree
  <1> QED
    BY <1>1, <1>2, <1>3, <1>4

LEMMA InitInv ==
  ASSUME Init
  PROVE  HostInv
  <1>0. PICK there, ds, areas : \E len \in [there -> InitLen] : InitWith(ds, areas, len)
    BY DEF Init
  <1>1. PICK len \in [there -> InitLen] :
           /\ files = [h \in Host |-> [p \in there |-> [i \in 1..len[p] |-> "data"]]]
           /\ Same(folders)
           /\ buffer = [h \in Host |-> Blank] /\ result = [h \in Host |-> 0]
           /\ agreed = TRUE
    <2>1. PICK len \in [there -> InitLen] : InitWith(ds, areas, len)
      BY <1>0
    <2>2. DOMAIN len = there
      OBVIOUS
    <2>3. Same(folders)
      BY <2>1 DEF InitWith, Same
    <2> QED
      BY <2>1, <2>2, <2>3 DEF InitWith
  <1>2. \A p \in there : [i \in 1..len[p] |-> "data"] \in Seq(Byte)
    <2> TAKE p \in there
    <2>1. len[p] \in Nat
      BY <1>1, HostAssumption
    <2> DEFINE n == len[p]
    <2> HIDE DEF n
    <2>2. [i \in 1..n |-> "data"] \in [1..n -> Byte]
      BY DEF Byte
    <2> QED
      BY <2>1, <2>2, FunctionSeq DEF n
  <1> DEFINE fs == [p \in there |-> [i \in 1..len[p] |-> "data"]]
  <1>3. TypedFiles(fs)
    BY <1>2 DEF TypedFiles
  <1>4. TypedBuffer(Blank)
    BY DEF TypedBuffer, Blank, Byte
  <1>5. files = [h \in Host |-> fs]
    BY <1>1
  <1> HIDE DEF fs
  <1>6. \A h \in Host : Typed(h)
    BY <1>1, <1>3, <1>4, <1>5 DEF Typed
  <1>7. Same(files) /\ Same(buffer) /\ Same(result)
    BY <1>1, <1>5 DEF Same
  <1> QED
    BY <1>1, <1>6, <1>7 DEF HostInv, HostsAgree

LEMMA StepInv ==
  ASSUME HostInv, [agreed /\ SearchCall]_allVars
  PROVE  HostInv'
  <1>1. CASE UNCHANGED vars
    <2>1. UNCHANGED <<files, folders, buffer, result, agreed>>
      BY <1>1 DEF vars
    <2> QED
      BY <2>1 DEF HostInv, Typed, HostsAgree, Same
  <1>2. CASE \E p \in Path : FileCall(p)
    <2>1. PICK p \in Path : CallOn(p)
      BY <1>2 DEF FileCall
    <2> QED
      BY <2>1, NameCallsInv, DataCallsInv DEF CallOn
  <1>3. CASE \E p \in Path : Delete(p)
    <2>1. PICK p \in Path : DeleteFile(p)
      BY <1>3 DEF Delete
    <2> QED
      BY <2>1, NameCallsInv
  <1>4. CASE OtherCall
    BY <1>4, OtherCallsInv DEF OtherCall
  <1>5. CASE \E d \in Drive, ns \in Pattern, all \in BOOLEAN : SearchFirst(d, ns, all)
    <2>1. UNCHANGED vars
      BY <1>5 DEF SearchFirst
    <2> QED
      BY <1>1, <2>1
  <1>6. CASE SearchNext
    <2>1. UNCHANGED vars
      BY <1>6 DEF SearchNext
    <2> QED
      BY <1>1, <2>1
  <1>7. CASE \E d \in Drive, u \in User : SetUser(d, u)
    <2>1. PICK d \in Drive, u \in User : MakeUserDir(d, u)
      BY <1>7 DEF SetUser
    <2> QED
      BY <2>1, OtherCallsInv
  <1>8. CASE UNCHANGED allVars
    BY <1>1, <1>8 DEF allVars
  <1> QED
    BY <1>1, <1>2, <1>3, <1>4, <1>5, <1>6, <1>7, <1>8 DEF SearchCall

LEMMA HostInvAlways == SearchSpec => []HostInv
  <1>1. SearchInit => HostInv
    BY InitInv DEF SearchInit
  <1>2. HostInv /\ [agreed /\ SearchCall]_allVars => HostInv'
    BY StepInv
  <1> QED
    BY <1>1, <1>2, PTL DEF SearchSpec

-----------------------------------------------------------------------------
(* The theorems.                                                           *)

\* HostsAgree: until a program meets one of the four cases named there, it sees
\* the same files, buffer and results whichever host RunCPM was built for.
THEOREM HostsAgreeAlways == SearchSpec => []HostsAgree
  <1>1. HostInv => HostsAgree
    BY DEF HostInv
  <1> QED
    BY <1>1, HostInvAlways, PTL

\* WritesTold: a write that reports success has stored its record, and one that
\* does not has kept the bytes there were, with any room left on the disk.
THEOREM WritesToldAlways == SearchSpec => []WritesTold
  <1>1. HostInv => WritesTold
    <2> SUFFICES ASSUME HostInv,
                        NEW h \in Host, NEW p \in DOMAIN files[h], NEW rec \in Record,
                        NEW room \in Room, NEW kept \in BOOLEAN
                 PROVE  LET out == WriteOn(h, p, rec * BlkSZ, room, kept)
                            s   == files[h][p]
                            new == out.files[p]
                            asAsked == new = Overlay(s, rec * BlkSZ, buffer[h])
                        IN  IF out.result = 0 /\ (h = "arduino" \/ Fits(s, rec * BlkSZ, room))
                            THEN asAsked ELSE Grown(s, new) \/ (h # "arduino" /\ asAsked)
      BY DEF WritesTold
    <2>1. Typed(h) /\ There(h, p) /\ room \in Nat
      BY HostAssumption DEF HostInv, There
    <2> QED
      BY <2>1, WriteTold
  <1> QED
    BY <1>1, HostInvAlways, PTL

-----------------------------------------------------------------------------
(* Lists of files.                                                         *)

\* List s goes through set t, each of its members once.
Enumerates(s, t) ==
    /\ s \in Seq(t)
    /\ \A p \in t : \E i \in 1..Len(s) : s[i] = p
    /\ \A i, j \in 1..Len(s) : s[i] = s[j] => i = j

\* Files of one drive are listed in a total order.
OneDriveOnly(t) == t \in SUBSET Path /\ \A p, q \in t : p[1] = q[1]

LEMMA PathFinite ==
    /\ IsFiniteSet(Path)
    /\ \A t \in SUBSET Path : IsFiniteSet(t) /\ Cardinality(t) \in Nat
  <1>1. IsFiniteSet(User \X Name)
    BY SearchAssumption, FS_Product
  <1>2. IsFiniteSet(Drive \X (User \X Name))
    BY <1>1, SearchAssumption, FS_Product
  <1> DEFINE flat == [x \in Drive \X (User \X Name) |-> <<x[1], x[2][1], x[2][2]>>]
  <1>3. flat \in Surjection(Drive \X (User \X Name), Path)
    <2>1. flat \in [Drive \X (User \X Name) -> Path]
      BY DEF Path
    <2>2. ASSUME NEW p \in Path
          PROVE  \E x \in Drive \X (User \X Name) : flat[x] = p
      <3>1. PICK d \in Drive, u \in User, n \in Name : p = <<d, u, n>>
        BY DEF Path
      <3>2. <<d, <<u, n>>>> \in Drive \X (User \X Name)
        OBVIOUS
      <3>3. flat[<<d, <<u, n>>>>] = p
        BY <3>1, <3>2
      <3> QED
        BY <3>2, <3>3
    <2> HIDE DEF flat
    <2> QED
      BY <2>1, <2>2 DEF Surjection
  <1>4. IsFiniteSet(Path)
    BY <1>2, <1>3, FS_Surjection
  <1> QED
    BY <1>4, FS_Subset, FS_CardinalityType

LEMMA PathParts ==
    ASSUME NEW p \in Path
    PROVE  /\ p = <<p[1], p[2], p[3]>> /\ p[1] \in Drive /\ p[2] \in User /\ p[3] \in Name
           /\ p[2] \in Nat /\ p[3] \in Nat
  <1>1. User \subseteq Nat /\ Name \subseteq Nat
    BY SearchAssumption, Zenon
  <1>2. PICK d \in Drive, u \in User, n \in Name : p = <<d, u, n>>
    BY DEF Path
  <1>3. p[1] = d /\ p[2] = u /\ p[3] = n
    BY <1>2
  <1>4. u \in Nat /\ n \in Nat
    BY <1>1, Zenon
  <1> QED
    BY <1>2, <1>3, <1>4, Zenon

LEMMA OrderTotal ==
    ASSUME NEW t, OneDriveOnly(t), NEW a \in t, NEW b \in t
    PROVE  /\ ~Order(a, a)
           /\ a # b => Order(a, b) \/ Order(b, a)
           /\ \A c \in t : Order(c, a) /\ Order(a, b) => Order(c, b)
  <1>1. \A x \in t : x = <<x[1], x[2], x[3]>> /\ x[2] \in Nat /\ x[3] \in Nat
    BY PathParts DEF OneDriveOnly
  <1>2. a # b => a[2] # b[2] \/ a[3] # b[3]
    BY <1>1 DEF OneDriveOnly
  <1> QED
    BY <1>1, <1>2 DEF Order

LEMMA RankRight ==
    ASSUME NEW t, OneDriveOnly(t)
    PROVE  /\ IsFiniteSet(t) /\ Cardinality(t) \in Nat
           /\ \A a \in t : Rank(t, a) \in 1..Cardinality(t)
           /\ \A a, b \in t : Rank(t, a) = Rank(t, b) => a = b
  <1> DEFINE Below(x) == {y \in t : Order(y, x)}
  <1>0. t \in SUBSET Path /\ IsFiniteSet(t) /\ Cardinality(t) \in Nat
    BY PathFinite DEF OneDriveOnly
  <1>1. \A x \in t : /\ Below(x) \in SUBSET t /\ IsFiniteSet(Below(x)) /\ Cardinality(Below(x)) \in Nat
                     /\ Rank(t, x) = Cardinality(Below(x)) + 1
    BY <1>0, PathFinite DEF Rank
  <1>2. ASSUME NEW x \in t
        PROVE  Rank(t, x) <= Cardinality(t)
    <2>1. Below(x) \cup {x} \in SUBSET t /\ x \notin Below(x)
      BY OrderTotal
    <2> HIDE DEF Below
    <2>2. Cardinality(Below(x) \cup {x}) = Cardinality(Below(x)) + 1
      BY <1>1, <2>1, FS_AddElement
    <2>3. Cardinality(Below(x) \cup {x}) <= Cardinality(t)
      BY <1>0, <2>1, FS_Subset
    <2> QED
      BY <1>1, <2>2, <2>3
  <1>3. ASSUME NEW x \in t, NEW y \in t, Order(x, y)
        PROVE  Rank(t, x) < Rank(t, y)
    <2>1. Below(x) \cup {x} \in SUBSET Below(y) /\ x \notin Below(x)
      BY <1>3, OrderTotal
    <2> HIDE DEF Below
    <2>2. Cardinality(Below(x) \cup {x}) = Cardinality(Below(x)) + 1
      BY <1>1, <2>1, FS_AddElement
    <2>3. Cardinality(Below(x) \cup {x}) <= Cardinality(Below(y))
      BY <1>1, <2>1, FS_Subset
    <2> QED
      BY <1>1, <2>2, <2>3
  <1> HIDE DEF Below
  <1>4. \A x \in t : Rank(t, x) \in 1..Cardinality(t)
    BY <1>0, <1>1, <1>2
  <1>5. ASSUME NEW x \in t, NEW y \in t, Rank(t, x) = Rank(t, y)
        PROVE  x = y
    <2>1. ~Order(x, y) /\ ~Order(y, x)
      BY <1>0, <1>3, <1>4, <1>5
    <2> QED
      BY <2>1, OrderTotal
  <1> QED
    BY <1>0, <1>4, <1>5

\* Ranks run from 1 to the number of files, so each place in the list is taken.
LEMMA InOrderRight ==
    ASSUME NEW t, OneDriveOnly(t)
    PROVE  Enumerates(InOrder(t), t) /\ Len(InOrder(t)) = Cardinality(t)
  <1> DEFINE n == Cardinality(t)
             rank == [p \in t |-> Rank(t, p)]
             list == InOrder(t)
  <1>1. /\ IsFiniteSet(t) /\ n \in Nat
        /\ \A a \in t : Rank(t, a) \in 1..n
        /\ \A a, b \in t : Rank(t, a) = Rank(t, b) => a = b
    BY RankRight
  <1> HIDE DEF n
  <1>2. ASSUME NEW i \in 1..n
        PROVE  \E p \in t : Rank(t, p) = i
    <2> SUFFICES ASSUME \A p \in t : Rank(t, p) # i PROVE FALSE
      OBVIOUS
    <2>1. IsFiniteSet((1..n) \ {i}) /\ Cardinality((1..n) \ {i}) = n - 1
      <3>1. IsFiniteSet(1..n) /\ Cardinality(1..n) = n
        BY <1>1, FS_Interval
      <3> QED
        BY <3>1, FS_RemoveElement
    <2>2. rank \in [t -> (1..n) \ {i}]
      BY <1>1
    <2>3. Cardinality((1..n) \ {i}) < Cardinality(t)
      BY <1>1, <2>1 DEF n
    <2> HIDE DEF rank
    <2>4. \E x, y \in t : x # y /\ rank[x] = rank[y]
      BY <1>1, <2>1, <2>2, <2>3, FS_PigeonHole
    <2> QED
      BY <1>1, <2>4 DEF rank
  <1>3. list = [i \in 1..n |-> CHOOSE p \in t : Rank(t, p) = i]
    BY DEF InOrder, n
  <1> HIDE DEF list
  <1>4. \A i \in 1..n : list[i] \in t /\ Rank(t, list[i]) = i
    BY <1>2, <1>3
  <1>5. list \in [1..n -> t]
    BY <1>3, <1>4
  <1>6. list \in Seq(t) /\ Len(list) = n
    BY <1>1, <1>5, FunctionSeq
  <1>7. \A p \in t : list[Rank(t, p)] = p
    BY <1>1, <1>4
  <1> QED
    BY <1>1, <1>4, <1>6, <1>7 DEF Enumerates, list, n

LEMMA ReverseRight ==
    ASSUME NEW s, NEW t, Enumerates(s, t)
    PROVE  Enumerates(Reverse(s), t)
  <1>1. PICK n \in Nat : n = Len(s) /\ s \in [1..n -> t]
    BY SeqFunction DEF Enumerates
  <1>2. PICK r : r = Reverse(s)
    OBVIOUS
  <1>3. r = [i \in 1..n |-> s[n - i + 1]]
    BY <1>1, <1>2 DEF Reverse
  <1>4. \A i \in 1..n : n - i + 1 \in 1..n /\ r[i] = s[n - i + 1] /\ r[n - i + 1] = s[i]
    <2> TAKE i \in 1..n
    <2>1. n - i + 1 \in 1..n /\ n - (n - i + 1) + 1 = i
      OBVIOUS
    <2> QED
      BY <1>3, <2>1
  <1>5. r \in [1..n -> t]
    BY <1>1, <1>3, <1>4
  <1>6. r \in Seq(t) /\ Len(r) = n
    BY <1>5, FunctionSeq
  <1>7. \A p \in t : \E i \in 1..n : r[i] = p
    BY <1>1, <1>4 DEF Enumerates
  <1>8. ASSUME NEW i \in 1..n, NEW j \in 1..n, r[i] = r[j]
        PROVE  i = j
    <2>0. \A a, b \in 1..n : s[a] = s[b] => a = b
      BY <1>1 DEF Enumerates
    <2>1. n - i + 1 = n - j + 1
      <3>1. n - i + 1 \in 1..n /\ n - j + 1 \in 1..n /\ s[n - i + 1] = s[n - j + 1]
        BY <1>4, <1>8
      <3> QED
        BY <2>0, <3>1, Zenon
    <2> QED
      BY <2>1
  <1> QED
    BY <1>2, <1>6, <1>7, <1>8 DEF Enumerates

\* A set of numbers has a least one.
LEMMA LeastNumber ==
    ASSUME NEW S \in SUBSET Nat, S # {}
    PROVE  \E n \in S : \A m \in S : n <= m
  <1> DEFINE Less == {ss \in Nat \X Nat : ss[1] < ss[2]}
  <1>1. OpToRel(<, Nat) = Less
    BY Zenon DEF OpToRel
  <1>2. IsWellFoundedOn(Less, Nat)
    BY <1>1, NatLessThanWellFounded, Zenon
  <1> HIDE DEF Less
  <1>3. PICK n \in S : \A m \in S : <<m, n>> \notin Less
    BY <1>2, WFMin
  <1>4. \A m \in Nat : m < n => <<m, n>> \in Less
    BY DEF Less
  <1>5. ASSUME NEW m \in S
        PROVE  n <= m
    <2>1. m \in Nat /\ n \in Nat
      OBVIOUS
    <2>2. ~(m < n)
      BY <1>3, <1>4, <2>1, Zenon
    <2> QED
      BY <2>1, <2>2
  <1> QED
    BY <1>5

\* What is among the first n entries of a list.
Among(list, n, s) == {list[i] : i \in {j \in 1..n : list[j] \in s}}

\* A search goes from one entry that matches to the next.
LEMMA NextInRight ==
    ASSUME NEW t, NEW list, Enumerates(list, t), NEW pos \in 0..Len(list), NEW s
    PROVE  LET i == NextIn(list, pos, s)
           IN  /\ Len(list) \in Nat
               /\ i = 0 => Among(list, pos, s) = t \cap s
               /\ i # 0 => /\ i \in 1..Len(list) /\ i > pos /\ list[i] \in t \cap s
                           /\ Among(list, i, s) = Among(list, pos, s) \cup {list[i]}
                           /\ list[i] \notin Among(list, pos, s)
               /\ Among(list, pos, s) \subseteq t \cap s
               /\ Among(list, 0, s) = {}
  <1> DEFINE hits == {i \in (pos + 1)..Len(list) : list[i] \in s}
  <1>1. PICK n \in Nat : n = Len(list) /\ \A i \in 1..n : list[i] \in t
    BY SeqFunction DEF Enumerates
  <1>2. NextIn(list, pos, s) = IF hits = {} THEN 0 ELSE Min(hits)
    BY DEF NextIn
  <1>3. Among(list, pos, s) \subseteq t \cap s /\ Among(list, 0, s) = {}
    BY <1>1 DEF Among
  <1>4. CASE hits = {}
    <2>1. Among(list, pos, s) = t \cap s
      <3>1. ASSUME NEW p \in t \cap s
            PROVE  p \in Among(list, pos, s)
        <4>1. PICK i \in 1..n : list[i] = p
          BY <1>1 DEF Enumerates
        <4>2. ~(i > pos)
          BY <1>1, <1>4, <4>1
        <4> QED
          BY <1>1, <4>1, <4>2 DEF Among
      <3> QED
        BY <1>3, <3>1
    <2> QED
      BY <1>1, <1>2, <1>3, <1>4, <2>1
  <1>5. CASE hits # {}
    <2>1. hits \in SUBSET Nat
      BY <1>1
    <2> HIDE DEF hits
    <2>2. PICK i \in hits : \A j \in hits : i <= j
      BY <1>5, <2>1, LeastNumber
    <2>3. Min(hits) = i
      <3>1. \A x \in hits : (\A j \in hits : x <= j) => x = i
        BY <2>1, <2>2
      <3> QED
        BY <2>2, <3>1 DEF Min
    <2>4. i \in 1..n /\ i > pos /\ list[i] \in s /\ list[i] \in t
      BY <1>1, <2>2 DEF hits
    <2>5. \A j \in 1..n : j > pos /\ list[j] \in s => j >= i
      BY <1>1, <2>2 DEF hits
    <2>6. Among(list, i, s) = Among(list, pos, s) \cup {list[i]}
      <3>1. {j \in 1..i : list[j] \in s} = {j \in 1..pos : list[j] \in s} \cup {i}
        BY <1>1, <2>4, <2>5
      <3> QED
        BY <3>1 DEF Among
    <2>7. list[i] \notin Among(list, pos, s)
      BY <1>1, <2>4 DEF Enumerates, Among
    <2> QED
      BY <1>1, <1>2, <1>3, <1>5, <2>3, <2>4, <2>6, <2>7
  <1> QED
    BY <1>4, <1>5

\* What is among the first n entries of a list, all of them.
Taken(list, n) == {list[i] : i \in 1..n}

LEMMA TakenRight ==
    ASSUME NEW t, NEW list, Enumerates(list, t)
    PROVE  /\ Len(list) \in Nat
           /\ \A n \in 0..Len(list) : Taken(list, n) \subseteq t
           /\ Taken(list, 0) = {} /\ Taken(list, Len(list)) = t
           /\ list = <<>> <=> t = {}
           /\ \A n \in 0..Len(list) : n < Len(list) =>
                 /\ list[n + 1] \in t /\ list[n + 1] \notin Taken(list, n)
                 /\ Taken(list, n + 1) = Taken(list, n) \cup {list[n + 1]}
  <1>1. PICK n \in Nat : n = Len(list) /\ \A i \in 1..n : list[i] \in t
    BY SeqFunction DEF Enumerates
  <1>2. \A i, j \in 1..n : list[i] = list[j] => i = j
    BY <1>1 DEF Enumerates
  <1>3. \A p \in t : \E i \in 1..n : list[i] = p
    BY <1>1 DEF Enumerates
  <1>4. Taken(list, 0) = {} /\ Taken(list, n) = t /\ \A m \in 0..n : Taken(list, m) \subseteq t
    BY <1>1, <1>3 DEF Taken
  <1>5. list = <<>> <=> t = {}
    <2>1. list = <<>> => n = 0
      BY <1>1
    <2>2. n = 0 => list = <<>>
      BY <1>1 DEF Enumerates
    <2>3. n = 0 <=> t = {}
      BY <1>1, <1>3
    <2> QED
      BY <2>1, <2>2, <2>3
  <1>6. ASSUME NEW m \in 0..n, m < n
        PROVE  /\ list[m + 1] \in t /\ list[m + 1] \notin Taken(list, m)
               /\ Taken(list, m + 1) = Taken(list, m) \cup {list[m + 1]}
    <2>1. m + 1 \in 1..n /\ 1..(m + 1) = (1..m) \cup {m + 1}
      BY <1>6
    <2>2. Taken(list, m + 1) = Taken(list, m) \cup {list[m + 1]}
      BY <2>1 DEF Taken
    <2>3. ASSUME NEW j \in 1..m
          PROVE  list[j] # list[m + 1]
      BY <1>2, <2>1
    <2> QED
      BY <1>1, <2>1, <2>2, <2>3 DEF Taken
  <1> QED
    BY <1>1, <1>4, <1>5, <1>6

-----------------------------------------------------------------------------
(* Where a search is, on each host, given the files and folders there are, *)
(* where it began, and the files it has returned so far.                   *)

Area(fs, d, us) == {p \in fs : p[1] = d /\ p[2] \in us}
Named(s, ns) == {p \in s : p[3] \in ns}

\* What the way each host goes reaches: on Windows, for all users, only the areas
\* from 0 on up to the first that is not there.
BeforeFirstGap(dirs, d) == {u \in User : \A v \in 0..u : <<d, v>> \in dirs}

AreasOf(h, dirs, b, all) ==
    IF all THEN (IF h = "windows" THEN BeforeFirstGap(dirs, b.drive) ELSE SearchUsers)
    ELSE IF h = "posix" THEN {b.user} \cap SearchUsers ELSE {b.user}

Reached(h, fs, dirs, b, all) == Named(Area(fs, b.drive, AreasOf(h, dirs, b, all)), b.names)

PosixAt(fs, at, t, all, b, seen) ==
    LET list == InOrder(Area(fs, b.drive, IF all THEN User ELSE {b.user}))
    IN  /\ at = [pos |-> at.pos, names |-> b.names] /\ at.pos \in 0..Len(list)
        /\ t.drive = b.drive /\ (all \/ t.user = b.user)
        /\ seen = Among(list, at.pos, {p \in Path : p[3] \in b.names /\ p[2] \in SearchUsers})

CardAt(fs, at, all, b, seen) ==
    LET list == Reverse(InOrder(Area(fs, b.drive, IF all THEN SearchUsers ELSE {b.user})))
    IN  /\ at = [list |-> list, pos |-> at.pos, names |-> b.names] /\ at.pos \in 0..Len(list)
        /\ seen = Among(list, at.pos, {p \in Path : p[3] \in b.names})

\* For all users the areas before the one of the filename have been gone through,
\* and all of them, and that one, are there.
WindowsAt(fs, dirs, at, t, all, b, seen) ==
    LET u    == IF all THEN t.user ELSE b.user
        list == InOrder(Named(Area(fs, b.drive, {u}), b.names))
    IN  /\ at = [dirPos |-> at.dirPos, handle |-> at.handle]
        /\ at.handle = [open |-> TRUE, list |-> list, pos |-> at.handle.pos]
        /\ at.handle.pos \in 0..Len(list)
        /\ seen = (IF all THEN Area(fs, b.drive, 0..(u - 1)) ELSE {}) \cup Taken(list, at.handle.pos)
        /\ all => /\ t = [drive |-> b.drive, user |-> u, names |-> b.names]
                  /\ u \in User /\ \A v \in 0..u : <<b.drive, v>> \in dirs

At(h, fs, dirs, at, t, all, b, seen) ==
    /\ h = "posix" => PosixAt(fs, at, t, all, b, seen)
    /\ h = "windows" => WindowsAt(fs, dirs, at, t, all, b, seen)
    /\ h = "arduino" => CardAt(fs, at, all, b, seen)

\* A file is in a folder, and a folder of a drive is that of a user area.
FoldersRight(fs, dirs) ==
    /\ fs \in SUBSET Path
    /\ \A p \in fs : <<p[1], p[2]>> \in dirs
    /\ \A d, v : <<d, v>> \in dirs => v \in User

\* A search begins on a drive that is there.
BeganRight(dirs, b, all) ==
    /\ b.drive \in Drive /\ b.user \in User /\ b.names \in SUBSET Name
    /\ <<b.drive>> \in dirs
    /\ all \in BOOLEAN /\ (all => b.names = Name)

\* A step finds a file it has not returned yet, or has returned all in reach.
StepRight(h, fs, dirs, step, all, b, seen) ==
    \/ step.hits = <<>> /\ seen = Reached(h, fs, dirs, b, all)
    \/ \E p \in Path, c \in User :
          /\ step.hits = <<<<p, c>>>> /\ p \notin seen
          /\ At(h, fs, dirs, step.place, step.target, all, b, seen \cup {p})
          /\ all => c = IF h = "windows" THEN 0 ELSE p[2]

-----------------------------------------------------------------------------
(* The steps of a search.                                                  *)

LEMMA AreaListed ==
    ASSUME NEW fs \in SUBSET Path, NEW d, NEW us, NEW ns
    PROVE  /\ Enumerates(InOrder(Area(fs, d, us)), Area(fs, d, us))
           /\ Enumerates(Reverse(InOrder(Area(fs, d, us))), Area(fs, d, us))
           /\ Enumerates(InOrder(Named(Area(fs, d, us), ns)), Named(Area(fs, d, us), ns))
  <1>1. OneDriveOnly(Area(fs, d, us)) /\ OneDriveOnly(Named(Area(fs, d, us), ns))
    BY DEF OneDriveOnly, Area, Named
  <1> QED
    BY <1>1, InOrderRight, ReverseRight, Zenon

Fs == DOMAIN files["posix"]
Dirs == folders["windows"]

LEMMA PosixStepRight ==
    ASSUME FoldersRight(Fs, Dirs), NEW b, NEW all, BeganRight(Dirs, b, all), NEW code \in User,
           NEW at, NEW t, NEW seen, PosixAt(Fs, at, t, all, b, seen)
    PROVE  StepRight("posix", Fs, Dirs, PosixStep(at, t, all, code), all, b, seen)
  <1> DEFINE area == Area(Fs, b.drive, IF all THEN User ELSE {b.user})
             s == {p \in Path : p[3] \in b.names /\ p[2] \in SearchUsers}
  <1>1. PICK list : list = InOrder(area)
    OBVIOUS
  <1>2. PICK i : i = NextIn(list, at.pos, s)
    OBVIOUS
  <1>3. /\ at = [pos |-> at.pos, names |-> b.names] /\ at.pos \in 0..Len(list)
        /\ t.drive = b.drive /\ (all \/ t.user = b.user)
        /\ seen = Among(list, at.pos, s)
    BY <1>1 DEF PosixAt
  <1>4. Listing(t.drive, IF all THEN User ELSE {t.user}) = list
    BY <1>1, <1>3 DEF Listing, InAreas, Area, Fs
  <1>5. {p \in Path : p[3] \in at.names /\ p[2] \in SearchUsers} = s
    BY <1>3
  <1>6. PosixStep(at, t, all, code) =
          IF i = 0 THEN Missed([at EXCEPT !.pos = Max({at.pos, Len(list)})], t)
          ELSE Found([at EXCEPT !.pos = i], t, list[i], IF all THEN list[i][2] ELSE code)
    BY <1>2, <1>4, <1>5 DEF PosixStep
  <1>7. Enumerates(list, area)
    BY <1>1, AreaListed DEF FoldersRight
  <1> HIDE DEF area, s
  <1>8. /\ i = 0 => seen = area \cap s
        /\ i # 0 => /\ i \in 1..Len(list) /\ list[i] \in area \cap s
                    /\ Among(list, i, s) = seen \cup {list[i]} /\ list[i] \notin seen
    BY <1>2, <1>3, <1>7, NextInRight
  <1>9. Len(list) \in Nat
    BY <1>7, SeqFunction DEF Enumerates
  <1>10. CASE i = 0
    <2>1. PosixStep(at, t, all, code).hits = <<>>
      BY <1>6, <1>10 DEF Missed
    <2>2. area \cap s = Reached("posix", Fs, Dirs, b, all)
      BY SearchAssumption DEF Reached, AreasOf, Named, Area, area, s, FoldersRight, BeganRight
    <2> QED
      BY <1>8, <1>10, <2>1, <2>2 DEF StepRight
  <1>11. CASE i # 0
    <2>1. PICK p : p = list[i]
      OBVIOUS
    <2>2. PICK c : c = IF all THEN p[2] ELSE code
      OBVIOUS
    <2>3. p \in Path /\ p \notin seen /\ p[2] \in User
      BY <1>8, <1>11, <2>1, PathParts DEF s
    <2>4. c \in User /\ (all => c = p[2])
      BY <2>2, <2>3
    <2>5. PICK step : step = PosixStep(at, t, all, code)
      OBVIOUS
    <2>6. step.hits = <<<<p, c>>>> /\ step.target = t /\ step.place = [at EXCEPT !.pos = i]
      BY <1>6, <1>11, <2>1, <2>2, <2>5 DEF Found
    <2>7. step.place = [pos |-> i, names |-> b.names]
      BY <1>3, <2>6
    <2>8. PosixAt(Fs, step.place, step.target, all, b, seen \cup {p})
      <3>1. i \in 0..Len(list) /\ seen \cup {p} = Among(list, i, s)
        BY <1>8, <1>9, <1>11, <2>1
      <3> QED
        BY <1>1, <1>3, <2>6, <2>7, <3>1 DEF PosixAt, area, s
    <2> QED
      BY <2>3, <2>4, <2>5, <2>6, <2>8 DEF StepRight, At
  <1> QED
    BY <1>10, <1>11

LEMMA CardStepRight ==
    ASSUME FoldersRight(Fs, Dirs), NEW b, NEW all, BeganRight(Dirs, b, all), NEW code \in User,
           NEW at, NEW t, NEW seen, CardAt(Fs, at, all, b, seen)
    PROVE  StepRight("arduino", Fs, Dirs, CardStep(at, t, all, code), all, b, seen)
  <1> DEFINE area == Area(Fs, b.drive, IF all THEN SearchUsers ELSE {b.user})
             s == {p \in Path : p[3] \in b.names}
  <1>1. PICK list : list = Reverse(InOrder(area))
    OBVIOUS
  <1>2. PICK i : i = NextIn(list, at.pos, s)
    OBVIOUS
  <1>3. /\ at = [list |-> list, pos |-> at.pos, names |-> b.names] /\ at.pos \in 0..Len(list)
        /\ seen = Among(list, at.pos, s)
    BY <1>1 DEF CardAt
  <1>4. at.list = list /\ {p \in Path : p[3] \in at.names} = s
    BY <1>3
  <1>6. CardStep(at, t, all, code) =
          IF i = 0 THEN Missed([at EXCEPT !.pos = Len(list)], t)
          ELSE Found([at EXCEPT !.pos = i], t, list[i], IF all THEN list[i][2] ELSE code)
    BY <1>2, <1>4 DEF CardStep
  <1>7. Enumerates(list, area)
    BY <1>1, AreaListed DEF FoldersRight
  <1> HIDE DEF area, s
  <1>8. /\ i = 0 => seen = area \cap s
        /\ i # 0 => /\ i \in 1..Len(list) /\ list[i] \in area \cap s
                    /\ Among(list, i, s) = seen \cup {list[i]} /\ list[i] \notin seen
    BY <1>2, <1>3, <1>7, NextInRight
  <1>9. Len(list) \in Nat
    BY <1>7, SeqFunction DEF Enumerates
  <1>10. CASE i = 0
    <2>1. CardStep(at, t, all, code).hits = <<>>
      BY <1>6, <1>10 DEF Missed
    <2>2. area \cap s = Reached("arduino", Fs, Dirs, b, all)
      BY DEF Reached, AreasOf, Named, Area, area, s, FoldersRight
    <2> QED
      BY <1>8, <1>10, <2>1, <2>2 DEF StepRight
  <1>11. CASE i # 0
    <2>1. PICK p : p = list[i]
      OBVIOUS
    <2>2. PICK c : c = IF all THEN p[2] ELSE code
      OBVIOUS
    <2>3. p \in Path /\ p \notin seen /\ p[2] \in User
      BY <1>8, <1>11, <2>1, PathParts DEF s
    <2>4. c \in User /\ (all => c = p[2])
      BY <2>2, <2>3
    <2>5. PICK step : step = CardStep(at, t, all, code)
      OBVIOUS
    <2>6. step.hits = <<<<p, c>>>> /\ step.place = [at EXCEPT !.pos = i]
      BY <1>6, <1>11, <2>1, <2>2, <2>5 DEF Found
    <2>7. step.place = [list |-> list, pos |-> i, names |-> b.names]
      BY <1>3, <2>6
    <2>8. CardAt(Fs, step.place, all, b, seen \cup {p})
      <3>1. i \in 0..Len(list) /\ seen \cup {p} = Among(list, i, s)
        BY <1>8, <1>9, <1>11, <2>1
      <3>2. PICK next : next = step.place
        OBVIOUS
      <3>3. /\ next = [list |-> list, pos |-> i, names |-> b.names]
            /\ next.pos = i
        BY <2>7, <3>2
      <3> QED
        BY <1>1, <3>1, <3>2, <3>3 DEF CardAt, area, s
    <2> QED
      BY <2>3, <2>4, <2>5, <2>6, <2>8 DEF StepRight, At
  <1> QED
    BY <1>10, <1>11

\* A finite set of numbers has a greatest one.
LEMMA GreatestNumber ==
    ASSUME NEW S \in SUBSET Nat, IsFiniteSet(S), S # {}
    PROVE  Max(S) \in S /\ \A m \in S : m <= Max(S)
  <1> DEFINE Above(x) == {y \in S : y > x}
             sizes == {Cardinality(Above(x)) : x \in S}
  <1>1. \A x \in S : IsFiniteSet(Above(x)) /\ Cardinality(Above(x)) \in Nat
    BY FS_Subset, FS_CardinalityType
  <1> HIDE DEF Above
  <1>2. sizes \in SUBSET Nat /\ sizes # {}
    BY <1>1
  <1>3. PICK x \in S : \A y \in S : Cardinality(Above(x)) <= Cardinality(Above(y))
    <2> HIDE DEF sizes
    <2>1. PICK n \in sizes : \A m \in sizes : n <= m
      BY <1>2, LeastNumber
    <2> QED
      BY <2>1 DEF sizes
  <1>4. ASSUME NEW y \in S, y > x
        PROVE  FALSE
    <2>0. x \in Nat /\ y \in Nat
      OBVIOUS
    <2>1. Above(y) \cup {y} \in SUBSET Above(x) /\ y \notin Above(y)
      <3>1. \A z \in S : z \in Nat /\ (z > y => z > x)
        BY <1>4, <2>0
      <3>2. ~(y > y)
        BY <2>0
      <3> QED
        BY <1>4, <3>1, <3>2 DEF Above
    <2>2. Cardinality(Above(y) \cup {y}) = Cardinality(Above(y)) + 1
      BY <1>1, <2>1, FS_AddElement
    <2>3. Cardinality(Above(y) \cup {y}) <= Cardinality(Above(x))
      BY <1>1, <2>1, FS_Subset
    <2>4. Cardinality(Above(x)) <= Cardinality(Above(y))
      BY <1>3
    <2> QED
      BY <1>1, <2>2, <2>3, <2>4
  <1>5. \A y \in S : x >= y
    BY <1>4
  <1>6. \E m \in S : \A y \in S : m >= y
    BY <1>5
  <1>7. Max(S) \in S /\ \A y \in S : Max(S) >= y
    BY <1>6, Zenon DEF Max
  <1> QED
    BY <1>7

\* What FindFirstFile gives of a folder.
LEMMA FindFirstRight ==
    ASSUME FoldersRight(Fs, Dirs), NEW d, NEW u, NEW ns
    PROVE  LET h    == FindFirstFile([drive |-> d, user |-> u, names |-> ns])
               list == InOrder(Named(Area(Fs, d, {u}), ns))
           IN  /\ h.open \in BOOLEAN
               /\ h.open => h = [open |-> TRUE, list |-> list, pos |-> 0]
               /\ ~h.open => h.list = <<>>
               /\ ~h.open => Named(Area(Fs, d, {u}), ns) = {}
               /\ ns = Name => (h.open <=> <<d, u>> \in Dirs)
               /\ ns = Name => (h.list = <<>> <=> Area(Fs, d, {u}) = {})
  <1> DEFINE t == [drive |-> d, user |-> u, names |-> ns]
             s == Named(Area(Fs, d, {u}), ns)
  <1>1. PICK list : list = InOrder(s)
    OBVIOUS
  <1>2. InOrder({p \in InAreas(t.drive, {t.user}) : p[3] \in t.names}) = list
    BY <1>1 DEF InAreas, Area, Named, Fs
  <1>3. FindFirstFile(t) = IF list # <<>> \/ (ns = Name /\ <<d, u>> \in Dirs)
                           THEN [open |-> TRUE, list |-> list, pos |-> 0]
                           ELSE [open |-> FALSE, list |-> <<>>, pos |-> 0]
    BY <1>2 DEF FindFirstFile, Shut, Dirs
  <1>4. list = <<>> <=> s = {}
    <2>1. Enumerates(list, s)
      BY <1>1, AreaListed DEF FoldersRight
    <2> QED
      BY <2>1, TakenRight
  <1>5. ns = Name => s = Area(Fs, d, {u})
    BY PathParts DEF FoldersRight, Named, Area
  <1>6. Area(Fs, d, {u}) # {} => <<d, u>> \in Dirs
    BY DEF FoldersRight, Area
  <1> HIDE DEF s, t
  <1>7. PICK h : h = FindFirstFile(t)
    OBVIOUS
  <1>8. CASE list # <<>> \/ (ns = Name /\ <<d, u>> \in Dirs)
    <2>1. h = [open |-> TRUE, list |-> list, pos |-> 0]
      BY <1>3, <1>7, <1>8
    <2>2. h.open = TRUE /\ h.list = list
      BY <2>1
    <2>3. ns = Name => <<d, u>> \in Dirs
      BY <1>4, <1>5, <1>6, <1>8
    <2>4. ns = Name => (h.list = <<>> <=> Area(Fs, d, {u}) = {})
      BY <1>4, <1>5, <2>2
    <2> QED
      BY <1>1, <1>7, <2>1, <2>2, <2>3, <2>4 DEF s, t
  <1>9. CASE ~(list # <<>> \/ (ns = Name /\ <<d, u>> \in Dirs))
    <2>1. h = [open |-> FALSE, list |-> <<>>, pos |-> 0]
      BY <1>3, <1>7, <1>9
    <2>2. h.open = FALSE /\ h.list = <<>>
      BY <2>1
    <2>3. s = {} /\ (ns = Name => <<d, u>> \notin Dirs /\ Area(Fs, d, {u}) = {})
      BY <1>4, <1>5, <1>9
    <2> QED
      BY <1>7, <2>2, <2>3 DEF s, t
  <1> QED
    BY <1>8, <1>9

\* The area where NextUserArea stops.
LEMMA GapRight ==
    ASSUME FoldersRight(Fs, Dirs), NEW d, NEW u \in User,
           NEW t, t = [drive |-> d, user |-> u, names |-> Name]
    PROVE  /\ Gap(t, u) \in Nat /\ Gap(t, u) > u
           /\ <<d, Gap(t, u)>> \in Dirs => Area(Fs, d, {Gap(t, u)}) # {}
           /\ \A w \in (u + 1)..(Gap(t, u) - 1) : <<d, w>> \in Dirs /\ Area(Fs, d, {w}) = {}
  <1> DEFINE Stops(v) == <<d, v>> \in Dirs => Area(Fs, d, {v}) # {}
             Passed(v) == \A w \in (u + 1)..(v - 1) : <<d, w>> \in Dirs /\ Area(Fs, d, {w}) = {}
  <1>1. ASSUME NEW v
        PROVE  LET h == FindFirstFile([t EXCEPT !.user = v])
               IN  /\ h.list # <<>> \/ ~h.open <=> Stops(v)
                   /\ h.open /\ h.list = <<>> <=> <<d, v>> \in Dirs /\ Area(Fs, d, {v}) = {}
    <2>1. [t EXCEPT !.user = v] = [drive |-> d, user |-> v, names |-> Name]
      OBVIOUS
    <2>2. PICK h : h = FindFirstFile([drive |-> d, user |-> v, names |-> Name])
      OBVIOUS
    <2>3. (h.open <=> <<d, v>> \in Dirs) /\ (h.list = <<>> <=> Area(Fs, d, {v}) = {})
      BY <2>2, FindFirstRight
    <2>4. Area(Fs, d, {v}) # {} => <<d, v>> \in Dirs
      BY DEF FoldersRight, Area
    <2> QED
      BY <2>1, <2>2, <2>3, <2>4
  <1>2. User \in SUBSET Nat /\ IsFiniteSet(User) /\ User # {}
    BY SearchAssumption
  <1>3. Max(User) \in Nat /\ u <= Max(User) /\ Max(User) + 1 \notin User
    <2>1. Max(User) \in User /\ \A m \in User : m <= Max(User)
      BY <1>2, GreatestNumber
    <2>2. Max(User) \in Nat
      BY <1>2, <2>1
    <2> QED
      BY <1>2, <2>1, <2>2
  <1> DEFINE stops == {v \in (u + 1)..(Max(User) + 1) : Stops(v)}
  <1>4. PICK m \in Nat : m = Max(User)
    BY <1>3
  <1>5. Gap(t, u) = CHOOSE v \in (u + 1)..(m + 1) : Stops(v) /\ Passed(v)
    <2>1. \A v : FindFirstFile([t EXCEPT !.user = v]).list # <<>>
                   \/ ~FindFirstFile([t EXCEPT !.user = v]).open <=> Stops(v)
      BY <1>1
    <2>2. \A v : (\A w \in (u + 1)..(v - 1) :
                     LET h == FindFirstFile([t EXCEPT !.user = w]) IN h.open /\ h.list = <<>>)
                  <=> Passed(v)
      BY <1>1
    <2> HIDE DEF Stops, Passed
    <2> QED
      BY <1>4, <2>1, <2>2 DEF Gap
  <1>6. Stops(m + 1)
    <2>1. <<d, m + 1>> \notin Dirs
      BY <1>3, <1>4 DEF FoldersRight
    <2> QED
      BY <2>1
  <1> HIDE DEF Stops
  <1>7. PICK v \in (u + 1)..(m + 1) : Stops(v) /\ \A w \in (u + 1)..(v - 1) : ~Stops(w)
    <2>1. u \in Nat /\ u <= m
      BY <1>2, <1>3, <1>4
    <2>2. stops \in SUBSET Nat /\ m + 1 \in stops
      BY <1>4, <1>6, <2>1
    <2>3. PICK v \in stops : \A w \in stops : v <= w
      <3> HIDE DEF stops
      <3> QED
        BY <2>2, LeastNumber
    <2>4. ASSUME NEW w \in (u + 1)..(v - 1)
          PROVE  ~Stops(w)
      BY <1>4, <2>1, <2>3, <2>4
    <2> QED
      BY <1>4, <2>3, <2>4
  <1>8. Passed(v)
    BY <1>7 DEF Stops
  <1>9. Gap(t, u) \in (u + 1)..(m + 1) /\ Stops(Gap(t, u)) /\ Passed(Gap(t, u))
    <2> HIDE DEF Passed
    <2>1. \E x \in (u + 1)..(m + 1) : Stops(x) /\ Passed(x)
      BY <1>7, <1>8
    <2> QED
      BY <1>5, <2>1
  <1>10. u \in Nat
    BY <1>2
  <1>11. PICK g : g = Gap(t, u)
    OBVIOUS
  <1>12. g \in Nat /\ g > u
    BY <1>4, <1>9, <1>10, <1>11
  <1> QED
    BY <1>9, <1>11, <1>12 DEF Stops

LEMMA HandleMoved ==
    ASSUME NEW o, NEW list, NEW pos, NEW to, NEW h, h = [open |-> o, list |-> list, pos |-> pos]
    PROVE  /\ [h EXCEPT !.pos = to] = [open |-> o, list |-> list, pos |-> to]
           /\ h.pos = pos /\ h.open = o /\ h.list = list
  OBVIOUS

LEMMA WindowsStepRight ==
    ASSUME FoldersRight(Fs, Dirs), NEW b, NEW all, BeganRight(Dirs, b, all), NEW code \in User,
           NEW at, NEW t, NEW seen, WindowsAt(Fs, Dirs, at, t, all, b, seen)
    PROVE  StepRight("windows", Fs, Dirs, WindowsStep(at, t, all, code), all, b, seen)
  <1>1. PICK d, ns : d = b.drive /\ ns = b.names
    OBVIOUS
  <1>2. PICK u : u = IF all THEN t.user ELSE b.user
    OBVIOUS
  <1> DEFINE here == Named(Area(Fs, d, {u}), ns)
             past(v) == Area(Fs, d, 0..(v - 1))
  <1>3. PICK list : list = InOrder(here)
    OBVIOUS
  <1>4. PICK pos : pos = at.handle.pos
    OBVIOUS
  <1>5. /\ at = [dirPos |-> at.dirPos, handle |-> at.handle]
        /\ at.handle = [open |-> TRUE, list |-> list, pos |-> pos]
        /\ pos \in 0..Len(list)
        /\ seen = (IF all THEN past(u) ELSE {}) \cup Taken(list, pos)
        /\ all => /\ t = [drive |-> d, user |-> u, names |-> ns]
                  /\ u \in User /\ \A v \in 0..u : <<d, v>> \in Dirs
    BY <1>1, <1>2, <1>3, <1>4 DEF WindowsAt
  <1>6. Enumerates(list, here)
    BY <1>3, AreaListed DEF FoldersRight
  <1>7. /\ Len(list) \in Nat /\ Taken(list, Len(list)) = here
        /\ pos < Len(list) => /\ list[pos + 1] \in here /\ list[pos + 1] \notin Taken(list, pos)
                              /\ Taken(list, pos + 1) = Taken(list, pos) \cup {list[pos + 1]}
    BY <1>5, <1>6, TakenRight
  <1>8. /\ u \in User /\ u \in Nat /\ (~all => u = b.user) /\ (all => ns = Name)
        /\ all \in BOOLEAN
    BY <1>1, <1>2, <1>5, SearchAssumption DEF BeganRight
  <1>9. PICK c : c = IF all THEN 0 ELSE code
    OBVIOUS
  <1>10. c \in User /\ (all => c = 0)
    BY <1>9, SearchAssumption
  <1>11. PICK step : step = WindowsStep(at, t, all, code)
    OBVIOUS
  <1>12. PICK later : later = [t EXCEPT !.user = Gap(t, t.user)]
    OBVIOUS
  <1>13. PICK g : g = FindFirstFile(later)
    OBVIOUS
  <1>14. step = IF at.handle.open /\ at.handle.pos < Len(at.handle.list)
                THEN Found([dirPos |-> at.dirPos + 1, handle |-> [at.handle EXCEPT !.pos = @ + 1]], t,
                           at.handle.list[at.handle.pos + 1], c)
                ELSE IF ~all THEN Missed([at EXCEPT !.handle = Shut], t)
                ELSE IF ~g.open THEN Missed([at EXCEPT !.handle = Shut], later)
                ELSE Found([dirPos |-> at.dirPos + 1, handle |-> [g EXCEPT !.pos = 1]], later,
                           g.list[1], c)
    BY <1>9, <1>11, <1>12, <1>13 DEF WindowsStep
  <1>15. at.handle.open = TRUE /\ at.handle.list = list
    BY <1>5
  <1>16. \A p \in here : p \in Path /\ p[2] = u /\ p \notin past(u)
    BY <1>8 DEF here, past, Named, Area, FoldersRight
  <1>17. CASE pos < Len(list)
    <2>1. PICK p : p = list[pos + 1]
      OBVIOUS
    <2>2. p \in Path /\ p \notin seen
      BY <1>5, <1>7, <1>16, <1>17, <2>1
    <2>3. step = Found([dirPos |-> at.dirPos + 1, handle |-> [at.handle EXCEPT !.pos = @ + 1]], t, p, c)
      BY <1>4, <1>14, <1>15, <1>17, <2>1
    <2>4. PICK next : next = step.place
      OBVIOUS
    <2>5. step.hits = <<<<p, c>>>> /\ step.target = t
          /\ next = [dirPos |-> at.dirPos + 1, handle |-> [at.handle EXCEPT !.pos = @ + 1]]
      BY <2>3, <2>4 DEF Found
    <2>6. [at.handle EXCEPT !.pos = @ + 1] = [open |-> TRUE, list |-> list, pos |-> pos + 1]
      <3>1. PICK h : h = at.handle
        OBVIOUS
      <3>2. PICK o : o = TRUE
        OBVIOUS
      <3>3. h = [open |-> o, list |-> list, pos |-> pos]
        BY <1>5, <3>1, <3>2
      <3>4. h.pos = pos /\ [h EXCEPT !.pos = pos + 1] = [open |-> o, list |-> list, pos |-> pos + 1]
        BY <3>3, HandleMoved
      <3> QED
        BY <3>1, <3>2, <3>4
    <2>7. /\ next = [dirPos |-> next.dirPos, handle |-> next.handle]
          /\ next.handle = [open |-> TRUE, list |-> list, pos |-> pos + 1]
          /\ next.handle.pos = pos + 1
      BY <2>5, <2>6
    <2>8. pos + 1 \in 0..Len(list)
      BY <1>5, <1>7, <1>17
    <2>9. seen \cup {p} = (IF all THEN past(u) ELSE {}) \cup Taken(list, pos + 1)
      BY <1>5, <1>7, <1>17, <2>1
    <2>10. WindowsAt(Fs, Dirs, next, t, all, b, seen \cup {p})
      BY <1>1, <1>2, <1>3, <1>5, <2>7, <2>8, <2>9 DEF WindowsAt
    <2> QED
      BY <1>10, <1>11, <2>2, <2>4, <2>5, <2>10 DEF StepRight, At
  <1>18. CASE ~(pos < Len(list))
    <2>1. pos = Len(list)
      BY <1>5, <1>7, <1>18
    <2>2. seen = (IF all THEN past(u) ELSE {}) \cup here
      BY <1>5, <1>7, <2>1
    <2>3. CASE ~all
      <3>1. step.hits = <<>>
        BY <1>4, <1>14, <1>15, <1>18, <2>3 DEF Missed
      <3>2. seen = Reached("windows", Fs, Dirs, b, all)
        BY <1>1, <1>8, <2>2, <2>3 DEF Reached, AreasOf, here
      <3> QED
        BY <1>11, <3>1, <3>2 DEF StepRight
    <2>4. CASE all
      <3>1. PICK v : v = Gap(t, u)
        OBVIOUS
      <3>2. t = [drive |-> d, user |-> u, names |-> Name] /\ t.user = u
        BY <1>5, <1>8, <2>4
      <3>3. /\ v \in Nat /\ v > u
            /\ <<d, v>> \in Dirs => Area(Fs, d, {v}) # {}
            /\ \A w \in (u + 1)..(v - 1) : <<d, w>> \in Dirs /\ Area(Fs, d, {w}) = {}
        BY <1>8, <3>1, <3>2, GapRight
      <3>4. later = [drive |-> d, user |-> v, names |-> Name]
        BY <1>12, <3>1, <3>2
      <3>5. seen = past(v)
        <4>1. here = Area(Fs, d, {u})
          BY <1>8, <2>4, PathParts DEF here, Named, Area, FoldersRight
        <4>2. ASSUME NEW p \in Fs, p[1] = d, p[2] \in 0..(v - 1)
              PROVE  p[2] \in 0..(u - 1) \/ p[2] = u
          <5>1. p[2] \notin (u + 1)..(v - 1)
            BY <3>3, <4>2 DEF Area
          <5> QED
            BY <1>8, <3>3, <4>2, <5>1
        <4>3. 0..(u - 1) \subseteq 0..(v - 1) /\ u \in 0..(v - 1)
          BY <1>8, <3>3
        <4> QED
          BY <2>2, <2>4, <4>1, <4>2, <4>3 DEF past, Area
      <3>6. \A w \in 0..(v - 1) : <<d, w>> \in Dirs
        <4>1. \A w \in 0..(v - 1) : w \in 0..u \/ w \in (u + 1)..(v - 1)
          BY <1>8, <3>3
        <4> QED
          BY <1>5, <2>4, <3>3, <4>1
      <3>7. /\ g.open \in BOOLEAN
            /\ g.open => g = [open |-> TRUE, list |-> InOrder(Named(Area(Fs, d, {v}), Name)), pos |-> 0]
            /\ g.open <=> <<d, v>> \in Dirs
        BY <1>13, <3>4, FindFirstRight
      <3>8. CASE ~g.open
        <4>1. step.hits = <<>>
          BY <1>4, <1>14, <1>15, <1>18, <2>4, <3>8 DEF Missed
        <4>2. ASSUME NEW p \in Fs, p[1] = d
              PROVE  p[2] \in 0..(v - 1) <=> p[2] \in BeforeFirstGap(Dirs, d)
          <5>1. p[2] \in User /\ p[2] \in Nat
            BY PathParts DEF FoldersRight
          <5>2. p[2] \in 0..(v - 1) => \A w \in 0..p[2] : <<d, w>> \in Dirs
            BY <3>3, <3>6, <5>1
          <5>3. ~(p[2] \in 0..(v - 1)) => v \in 0..p[2]
            BY <3>3, <5>1
          <5> QED
            BY <3>7, <3>8, <5>1, <5>2, <5>3 DEF BeforeFirstGap
        <4>3. past(v) = Area(Fs, d, BeforeFirstGap(Dirs, d))
          BY <4>2 DEF past, Area
        <4>4. Area(Fs, d, BeforeFirstGap(Dirs, d)) = Reached("windows", Fs, Dirs, b, all)
          BY <1>1, <1>8, <2>4, PathParts DEF Reached, AreasOf, Named, Area, FoldersRight
        <4> QED
          BY <1>11, <3>5, <4>1, <4>3, <4>4 DEF StepRight
      <3>9. CASE g.open
        <4> DEFINE there == Named(Area(Fs, d, {v}), Name)
        <4>1. PICK list2 : list2 = InOrder(there)
          OBVIOUS
        <4>2. there = Area(Fs, d, {v})
          BY PathParts DEF Named, Area, FoldersRight
        <4>3. Enumerates(list2, there)
          BY <4>1, AreaListed DEF FoldersRight
        <4>4. there # {} /\ <<d, v>> \in Dirs
          BY <3>3, <3>7, <3>9, <4>2
        <4>5. \A p \in there : p \in Path /\ p[2] = v /\ p \notin past(v)
          BY <3>3 DEF there, past, Named, Area, FoldersRight
        <4> HIDE DEF there
        <4>6. Len(list2) \in Nat /\ list2 # <<>> /\ list2 \in Seq(there)
          BY <4>3, <4>4, TakenRight DEF Enumerates
        <4>7. 0 < Len(list2)
          BY <4>6
        <4>8. list2[1] \in there /\ Taken(list2, 1) = {list2[1]} /\ 1 \in 0..Len(list2)
          <5>1. \A n \in 1..Len(list2) : list2[n] \in there
            BY <4>6, SeqFunction
          <5> QED
            BY <4>6, <4>7, <5>1 DEF Taken
        <4>9. PICK p : p = list2[1]
          OBVIOUS
        <4>10. p \in Path /\ p \notin seen
          BY <3>5, <4>5, <4>8, <4>9
        <4>11. g = [open |-> TRUE, list |-> list2, pos |-> 0] /\ g.list = list2
          BY <3>7, <3>9, <4>1 DEF there
        <4>12. step = Found([dirPos |-> at.dirPos + 1, handle |-> [g EXCEPT !.pos = 1]], later, p, c)
          BY <1>4, <1>14, <1>15, <1>18, <2>4, <3>9, <4>9, <4>11
        <4>13. [g EXCEPT !.pos = 1] = [open |-> TRUE, list |-> list2, pos |-> 1]
          <5>1. PICK o : o = TRUE
            OBVIOUS
          <5>2. g = [open |-> o, list |-> list2, pos |-> 0]
            BY <4>11, <5>1
          <5>3. [g EXCEPT !.pos = 1] = [open |-> o, list |-> list2, pos |-> 1]
            BY <5>2, HandleMoved
          <5> QED
            BY <5>1, <5>3
        <4>14. PICK next : next = step.place
          OBVIOUS
        <4>15. step.hits = <<<<p, c>>>> /\ step.target = later
               /\ next = [dirPos |-> at.dirPos + 1, handle |-> [g EXCEPT !.pos = 1]]
          BY <4>12, <4>14 DEF Found
        <4>16. /\ next = [dirPos |-> next.dirPos, handle |-> next.handle]
               /\ next.handle = [open |-> TRUE, list |-> list2, pos |-> 1]
               /\ next.handle.pos = 1
          BY <4>13, <4>15
        <4>17. later.user = v /\ later = [drive |-> b.drive, user |-> v, names |-> b.names]
          BY <1>1, <1>8, <2>4, <3>4
        <4>18. list2 = InOrder(Named(Area(Fs, b.drive, {v}), b.names))
          BY <1>1, <1>8, <2>4, <4>1 DEF there
        <4>19. v \in User /\ \A w \in 0..v : <<b.drive, w>> \in Dirs
          <5>1. v \in User
            BY <4>4 DEF FoldersRight
          <5>2. \A w \in 0..v : w \in 0..(v - 1) \/ w = v
            BY <3>3
          <5> QED
            BY <1>1, <3>6, <4>4, <5>1, <5>2
        <4>20. seen \cup {p} = Area(Fs, b.drive, 0..(v - 1)) \cup Taken(list2, 1)
          BY <1>1, <3>5, <4>8, <4>9 DEF past
        <4>21. WindowsAt(Fs, Dirs, next, later, all, b, seen \cup {p})
          BY <2>4, <4>8, <4>16, <4>17, <4>18, <4>19, <4>20 DEF WindowsAt
        <4> QED
          BY <1>10, <1>11, <4>10, <4>14, <4>15, <4>21 DEF StepRight, At
      <3> QED
        BY <3>7, <3>8, <3>9
    <2> QED
      BY <1>8, <2>3, <2>4
  <1> QED
    BY <1>17, <1>18

\* What has been returned so far is within reach.
LEMMA AtReached ==
    ASSUME FoldersRight(Fs, Dirs), NEW b, NEW all, BeganRight(Dirs, b, all), NEW h \in Host,
           NEW at, NEW t, NEW seen, At(h, Fs, Dirs, at, t, all, b, seen)
    PROVE  seen \subseteq Reached(h, Fs, Dirs, b, all)
  <1>1. CASE h = "posix"
    <2> DEFINE area == Area(Fs, b.drive, IF all THEN User ELSE {b.user})
               s == {p \in Path : p[3] \in b.names /\ p[2] \in SearchUsers}
    <2>1. PICK list : list = InOrder(area)
      OBVIOUS
    <2>2. at.pos \in 0..Len(list) /\ seen = Among(list, at.pos, s)
      BY <1>1, <2>1 DEF At, PosixAt
    <2>3. Enumerates(list, area)
      BY <2>1, AreaListed DEF FoldersRight
    <2>4. area \cap s \subseteq Reached("posix", Fs, Dirs, b, all)
      BY DEF Reached, AreasOf, Named, Area
    <2> HIDE DEF area, s
    <2> QED
      BY <1>1, <2>2, <2>3, <2>4, NextInRight
  <1>2. CASE h = "arduino"
    <2> DEFINE area == Area(Fs, b.drive, IF all THEN SearchUsers ELSE {b.user})
               s == {p \in Path : p[3] \in b.names}
    <2>1. PICK list : list = Reverse(InOrder(area))
      OBVIOUS
    <2>2. at.pos \in 0..Len(list) /\ seen = Among(list, at.pos, s)
      BY <1>2, <2>1 DEF At, CardAt
    <2>3. Enumerates(list, area)
      BY <2>1, AreaListed DEF FoldersRight
    <2>4. area \cap s \subseteq Reached("arduino", Fs, Dirs, b, all)
      BY DEF Reached, AreasOf, Named, Area
    <2> HIDE DEF area, s
    <2> QED
      BY <1>2, <2>2, <2>3, <2>4, NextInRight
  <1>3. CASE h = "windows"
    <2>1. PICK u : u = IF all THEN t.user ELSE b.user
      OBVIOUS
    <2> DEFINE here == Named(Area(Fs, b.drive, {u}), b.names)
    <2>2. PICK list : list = InOrder(here)
      OBVIOUS
    <2>3. PICK n : n = at.handle.pos
      OBVIOUS
    <2>4. /\ n \in 0..Len(list)
          /\ seen = (IF all THEN Area(Fs, b.drive, 0..(u - 1)) ELSE {}) \cup Taken(list, n)
          /\ all => u \in User /\ \A v \in 0..u : <<b.drive, v>> \in Dirs
      BY <1>3, <2>1, <2>2, <2>3 DEF At, WindowsAt
    <2>5. Enumerates(list, here)
      BY <2>2, AreaListed DEF FoldersRight
    <2>6. Taken(list, n) \subseteq here
      <3> HIDE DEF here
      <3> QED
        BY <2>4, <2>5, TakenRight
    <2>7. CASE ~all
      BY <1>3, <2>1, <2>4, <2>6, <2>7 DEF Reached, AreasOf
    <2>8. CASE all
      <3>1. u \in Nat /\ b.names = Name
        BY <2>4, <2>8, SearchAssumption DEF BeganRight
      <3>2. ASSUME NEW p \in Fs, p[1] = b.drive, p[2] \in 0..u
            PROVE  p \in Reached("windows", Fs, Dirs, b, all)
        <4>1. p \in Path /\ p[2] \in User /\ p[3] \in Name
          BY PathParts DEF FoldersRight
        <4>2. \A v \in 0..p[2] : <<b.drive, v>> \in Dirs
          BY <2>4, <2>8, <3>1, <3>2
        <4> QED
          BY <2>8, <3>1, <3>2, <4>1, <4>2 DEF Reached, AreasOf, BeforeFirstGap, Named, Area
      <3>3. \A p \in seen : p \in Fs /\ p[1] = b.drive /\ p[2] \in 0..u
        <4>1. \A p \in Area(Fs, b.drive, 0..(u - 1)) : p \in Fs /\ p[1] = b.drive /\ p[2] \in 0..u
          BY <3>1 DEF Area
        <4>2. \A p \in here : p \in Fs /\ p[1] = b.drive /\ p[2] \in 0..u
          BY <3>1 DEF Area, Named
        <4> HIDE DEF here
        <4> QED
          BY <2>4, <2>6, <2>8, <4>1, <4>2
      <3> QED
        BY <1>3, <3>2, <3>3
    <2> QED
      BY <2>7, <2>8 DEF BeganRight
  <1> QED
    BY <1>1, <1>2, <1>3 DEF Host

\* The first steps.
LEMMA FirstRight ==
    ASSUME FoldersRight(Fs, Dirs), NEW d, NEW ns, NEW code \in User, NEW all,
           NEW b, b = Target(d, code, ns), BeganRight(Dirs, b, all)
    PROVE  /\ StepRight("posix", Fs, Dirs, PosixFirst(b, all, code), all, b, {})
           /\ StepRight("arduino", Fs, Dirs, CardFirst(b, all, code), all, b, {})
           /\ StepRight("windows", Fs, Dirs,
                        WindowsFirst(IF all THEN [b EXCEPT !.user = 0] ELSE b, all, code), all, b, {})
  <1>1. /\ b = [drive |-> d, user |-> code, names |-> ns]
        /\ b.drive = d /\ b.user = code /\ b.names = ns /\ (all => ns = Name)
        /\ all \in BOOLEAN
    BY DEF Target, BeganRight
  <1>2. (IF all THEN Name ELSE b.names) = ns
    BY <1>1
  <1>3. \A list, s : Among(list, 0, s) = {} /\ Taken(list, 0) = {}
    BY DEF Among, Taken
  <1>4. \A us : /\ Len(InOrder(Area(Fs, d, us))) \in Nat
                /\ Len(Reverse(InOrder(Area(Fs, d, us)))) \in Nat
    BY AreaListed, TakenRight DEF FoldersRight
  <1>5. StepRight("posix", Fs, Dirs, PosixFirst(b, all, code), all, b, {})
    <2>1. PICK at : at = [pos |-> 0, names |-> ns]
      OBVIOUS
    <2>2. PosixAt(Fs, at, b, all, b, {})
      BY <1>1, <1>3, <1>4, <2>1 DEF PosixAt
    <2>3. PosixFirst(b, all, code) = PosixStep(at, b, all, code)
      BY <1>2, <2>1 DEF PosixFirst
    <2> QED
      BY <2>2, <2>3, PosixStepRight
  <1>6. StepRight("arduino", Fs, Dirs, CardFirst(b, all, code), all, b, {})
    <2>1. PICK list : list = Reverse(InOrder(Area(Fs, d, IF all THEN SearchUsers ELSE {code})))
      OBVIOUS
    <2>2. PICK at : at = [list |-> list, pos |-> 0, names |-> ns]
      OBVIOUS
    <2>3. CardAt(Fs, at, all, b, {})
      BY <1>1, <1>3, <1>4, <2>1, <2>2 DEF CardAt
    <2>4. SlotListing(b.drive, IF all THEN SearchUsers ELSE {b.user}) = list
      BY <1>1, <2>1 DEF SlotListing, Listing, InAreas, Area, Fs
    <2>5. CardFirst(b, all, code) = CardStep(at, b, all, code)
      BY <1>2, <2>2, <2>4 DEF CardFirst
    <2> QED
      BY <2>3, <2>5, CardStepRight
  <1>7. StepRight("windows", Fs, Dirs,
                  WindowsFirst(IF all THEN [b EXCEPT !.user = 0] ELSE b, all, code), all, b, {})
    <2>1. PICK u : u = IF all THEN 0 ELSE code
      OBVIOUS
    <2>2. PICK t : t = [drive |-> d, user |-> u, names |-> ns]
      OBVIOUS
    <2>3. (IF all THEN [b EXCEPT !.user = 0] ELSE b) = t
      BY <1>1, <2>1, <2>2
    <2>4. PICK list : list = InOrder(Named(Area(Fs, d, {u}), ns))
      OBVIOUS
    <2>5. PICK h : h = FindFirstFile(t)
      OBVIOUS
    <2>6. /\ h.open \in BOOLEAN
          /\ h.open => h = [open |-> TRUE, list |-> list, pos |-> 0]
          /\ ~h.open => Named(Area(Fs, d, {u}), ns) = {}
          /\ ns = Name => (h.open <=> <<d, u>> \in Dirs)
      BY <2>2, <2>4, <2>5, FindFirstRight
    <2>7. PICK step : step = WindowsFirst(t, all, code)
      OBVIOUS
    <2>8. step = IF h.open THEN WindowsStep([dirPos |-> 0, handle |-> h], t, all, code)
                           ELSE Missed([dirPos |-> 0, handle |-> Shut], t)
      BY <2>5, <2>7 DEF WindowsFirst
    <2>9. CASE h.open
      <3>1. PICK at : at = [dirPos |-> 0, handle |-> h]
        OBVIOUS
      <3>2. at = [dirPos |-> at.dirPos, handle |-> at.handle] /\ at.handle = h
        BY <3>1
      <3>3. h = [open |-> TRUE, list |-> list, pos |-> h.pos] /\ h.pos = 0
        BY <2>6, <2>9
      <3>4. Len(list) \in Nat
        BY <2>4, AreaListed, TakenRight DEF FoldersRight
      <3>5. {} = (IF all THEN Area(Fs, d, 0..(u - 1)) ELSE {}) \cup Taken(list, 0)
        <4>1. all => 0..(u - 1) = {}
          BY <2>1
        <4>2. Area(Fs, d, {}) = {}
          BY DEF Area
        <4> QED
          BY <1>3, <4>1, <4>2
      <3>6. all => u \in User /\ \A v \in 0..u : <<d, v>> \in Dirs
        BY <1>1, <2>1, <2>6, <2>9, SearchAssumption
      <3>7. (IF all THEN t.user ELSE b.user) = u
        BY <1>1, <2>1, <2>2
      <3>8. at.handle.pos = 0
        BY <3>2, <3>3
      <3>9. at.handle = [open |-> TRUE, list |-> list, pos |-> at.handle.pos]
        BY <3>2, <3>3
      <3>10. WindowsAt(Fs, Dirs, at, t, all, b, {})
        <4>1. t = [drive |-> b.drive, user |-> u, names |-> b.names]
          BY <1>1, <2>2
        <4>2. list = InOrder(Named(Area(Fs, b.drive, {u}), b.names))
          BY <1>1, <2>4
        <4>3. {} = (IF all THEN Area(Fs, b.drive, 0..(u - 1)) ELSE {}) \cup Taken(list, at.handle.pos)
          BY <1>1, <3>5, <3>8
        <4>4. at.handle.pos \in 0..Len(list)
          BY <3>4, <3>8
        <4>5. all => u \in User /\ \A v \in 0..u : <<b.drive, v>> \in Dirs
          BY <1>1, <3>6
        <4> QED
          BY <3>2, <3>7, <3>9, <4>1, <4>2, <4>3, <4>4, <4>5 DEF WindowsAt
      <3> QED
        BY <2>3, <2>7, <2>8, <2>9, <3>1, <3>10, WindowsStepRight
    <2>10. CASE ~h.open
      <3>1. step.hits = <<>>
        BY <2>8, <2>10 DEF Missed
      <3>2. Reached("windows", Fs, Dirs, b, all) = {}
        <4>1. CASE all
          <5>1. <<d, 0>> \notin Dirs
            BY <1>1, <2>1, <2>6, <2>10, <4>1
          <5>2. \A v \in User : 0 \in 0..v
            BY SearchAssumption
          <5>3. BeforeFirstGap(Dirs, d) = {}
            BY <5>1, <5>2 DEF BeforeFirstGap
          <5> QED
            BY <1>1, <4>1, <5>3 DEF Reached, AreasOf, Named, Area
        <4>2. CASE ~all
          BY <1>1, <2>1, <2>6, <2>10, <4>2 DEF Reached, AreasOf
        <4> QED
          BY <1>1, <4>1, <4>2
      <3> QED
        BY <2>3, <2>7, <3>1, <3>2 DEF StepRight
    <2> QED
      BY <2>6, <2>9, <2>10
  <1> QED
    BY <1>5, <1>6, <1>7

-----------------------------------------------------------------------------
(* What a search has returned.                                             *)

IdsOf(hd) == {hd[i][1] : i \in 1..Len(hd)}

HeardRight(h, hd, all) ==
    /\ hd \in Seq(Path \X User)
    /\ IsFiniteSet(IdsOf(hd)) /\ Cardinality(IdsOf(hd)) = Len(hd)
    /\ all => \A i \in 1..Len(hd) : hd[i][2] = IF h = "windows" THEN 0 ELSE hd[i][1][2]

FollowedRight(h, fs, dirs, ph, at, t, all, b, hd) ==
    /\ ph \in {"on", "over", "none"}
    /\ ph # "none" =>
          /\ HeardRight(h, hd, all) /\ BeganRight(dirs, b, all)
          /\ ph = "over" => IdsOf(hd) = Reached(h, fs, dirs, b, all)
          /\ ph = "on" => At(h, fs, dirs, at, t, all, b, IdsOf(hd))

LEMMA HeardNothing ==
    ASSUME NEW h, NEW all
    PROVE  IdsOf(<<>>) = {} /\ HeardRight(h, <<>>, all)
  <1>1. Len(<<>>) = 0 /\ 1..0 = {} /\ <<>> \in Seq(Path \X User)
    OBVIOUS
  <1>2. IdsOf(<<>>) = {}
    BY <1>1 DEF IdsOf
  <1>3. IsFiniteSet({}) /\ Cardinality({}) = 0
    BY FS_EmptySet, Zenon
  <1> QED
    BY <1>1, <1>2, <1>3 DEF HeardRight

LEMMA HeardMore ==
    ASSUME NEW h, NEW all, NEW hd, HeardRight(h, hd, all), NEW p \in Path, NEW c \in User,
           p \notin IdsOf(hd), all => c = IF h = "windows" THEN 0 ELSE p[2]
    PROVE  /\ HeardRight(h, hd \o <<<<p, c>>>>, all)
           /\ IdsOf(hd \o <<<<p, c>>>>) = IdsOf(hd) \cup {p}
  <1>1. PICK n \in Nat : n = Len(hd)
    BY SeqFunction DEF HeardRight
  <1>2. hd \in Seq(Path \X User)
    BY DEF HeardRight
  <1>3. PICK x : x = <<p, c>>
    OBVIOUS
  <1>4. x \in Path \X User /\ x[1] = p /\ x[2] = c
    BY <1>3
  <1>5. PICK longer : longer = hd \o <<x>>
    OBVIOUS
  <1>6. /\ longer \in Seq(Path \X User) /\ Len(longer) = n + 1 /\ longer[n + 1] = x
        /\ \A i \in 1..n : longer[i] = hd[i]
    BY <1>1, <1>2, <1>4, <1>5
  <1>7. 1..(n + 1) = (1..n) \cup {n + 1}
    BY <1>1
  <1>8. IdsOf(longer) = IdsOf(hd) \cup {p}
    BY <1>1, <1>4, <1>6, <1>7 DEF IdsOf
  <1>9. IsFiniteSet(IdsOf(hd)) /\ Cardinality(IdsOf(hd)) = n
    BY <1>1 DEF HeardRight
  <1>10. IsFiniteSet(IdsOf(longer)) /\ Cardinality(IdsOf(longer)) = n + 1
    BY <1>8, <1>9, FS_AddElement
  <1>11. ASSUME all, NEW i \in 1..(n + 1)
         PROVE  longer[i][2] = IF h = "windows" THEN 0 ELSE longer[i][1][2]
    <2>1. CASE i = n + 1
      BY <1>4, <1>6, <1>11, <2>1
    <2>2. CASE i \in 1..n
      BY <1>1, <1>6, <1>11, <2>2 DEF HeardRight
    <2> QED
      BY <1>7, <2>1, <2>2
  <1> QED
    BY <1>3, <1>5, <1>6, <1>8, <1>10, <1>11 DEF HeardRight

LEMMA StepFollowed ==
    ASSUME NEW h, NEW fs, NEW dirs, NEW b, NEW all, BeganRight(dirs, b, all),
           NEW hd, HeardRight(h, hd, all),
           NEW step, StepRight(h, fs, dirs, step, all, b, IdsOf(hd))
    PROVE  FollowedRight(h, fs, dirs, IF step.hits = <<>> THEN "over" ELSE "on",
                         step.place, step.target, all, b, hd \o step.hits)
  <1>1. CASE step.hits = <<>> /\ IdsOf(hd) = Reached(h, fs, dirs, b, all)
    <2>1. hd \o step.hits = hd
      BY <1>1 DEF HeardRight
    <2> QED
      BY <1>1, <2>1 DEF FollowedRight
  <1>2. CASE \E p \in Path, c \in User :
               /\ step.hits = <<<<p, c>>>> /\ p \notin IdsOf(hd)
               /\ At(h, fs, dirs, step.place, step.target, all, b, IdsOf(hd) \cup {p})
               /\ all => c = IF h = "windows" THEN 0 ELSE p[2]
    <2>1. PICK p \in Path, c \in User :
               /\ step.hits = <<<<p, c>>>> /\ p \notin IdsOf(hd)
               /\ At(h, fs, dirs, step.place, step.target, all, b, IdsOf(hd) \cup {p})
               /\ all => c = IF h = "windows" THEN 0 ELSE p[2]
      BY <1>2
    <2>2. step.hits # <<>>
      BY <2>1
    <2>3. /\ HeardRight(h, hd \o step.hits, all)
          /\ IdsOf(hd \o step.hits) = IdsOf(hd) \cup {p}
      BY <2>1, HeardMore
    <2> QED
      BY <2>1, <2>2, <2>3 DEF FollowedRight
  <1> QED
    BY <1>1, <1>2 DEF StepRight

-----------------------------------------------------------------------------
(* The searches go on among the other calls.                               *)

\* What the calls keep: no search has returned too much, or been led astray.
FollowInv ==
    /\ userCode \in User /\ FoldersRight(Fs, Dirs)
    /\ \A h \in Host : FollowedRight(h, Fs, Dirs, phase[h], place[h], filename[h],
                                     allUsers, began, heard[h])

\* A folder made on another drive, or a file name written where the search does
\* not look, does no harm.
LEMMA FollowedKept ==
    ASSUME NEW h \in Host, NEW fs, NEW dirs, NEW ph, NEW at, NEW t, NEW all, NEW b, NEW hd,
           FollowedRight(h, fs, dirs, ph, at, t, all, b, hd),
           NEW dirs2, NEW t2,
           ph # "none" /\ <<b.drive>> \in dirs =>
              <<b.drive>> \in dirs2 /\ \A v : <<b.drive, v>> \in dirs2 <=> <<b.drive, v>> \in dirs,
           ph # "none" => \/ t2 = t \/ h = "arduino" \/ (h = "windows" /\ ~all)
                          \/ h = "posix" /\ t2.drive = b.drive /\ (all \/ t2.user = b.user)
    PROVE  FollowedRight(h, fs, dirs2, ph, at, t2, all, b, hd)
  <1> SUFFICES ASSUME ph # "none"
               PROVE  /\ HeardRight(h, hd, all) /\ BeganRight(dirs2, b, all)
                      /\ ph = "over" => IdsOf(hd) = Reached(h, fs, dirs2, b, all)
                      /\ ph = "on" => At(h, fs, dirs2, at, t2, all, b, IdsOf(hd))
    BY DEF FollowedRight
  <1>1. /\ HeardRight(h, hd, all) /\ BeganRight(dirs, b, all)
        /\ ph = "over" => IdsOf(hd) = Reached(h, fs, dirs, b, all)
        /\ ph = "on" => At(h, fs, dirs, at, t, all, b, IdsOf(hd))
    BY DEF FollowedRight
  <1>2. <<b.drive>> \in dirs2 /\ \A v : <<b.drive, v>> \in dirs2 <=> <<b.drive, v>> \in dirs
    BY <1>1 DEF BeganRight
  <1>3. BeganRight(dirs2, b, all)
    BY <1>1, <1>2 DEF BeganRight
  <1>4. Reached(h, fs, dirs2, b, all) = Reached(h, fs, dirs, b, all)
    <2>1. BeforeFirstGap(dirs2, b.drive) = BeforeFirstGap(dirs, b.drive)
      BY <1>2 DEF BeforeFirstGap
    <2> QED
      BY <2>1 DEF Reached, AreasOf
  <1>5. PICK seen : seen = IdsOf(hd)
    OBVIOUS
  <1>6. ASSUME At(h, fs, dirs, at, t, all, b, seen)
        PROVE  At(h, fs, dirs2, at, t2, all, b, seen)
    <2>1. CASE h = "posix"
      <3>1. PosixAt(fs, at, t2, all, b, seen)
        BY <1>6, <2>1 DEF At, PosixAt
      <3> QED
        BY <2>1, <3>1 DEF At
    <2>2. CASE h = "arduino"
      BY <1>6, <2>2 DEF At
    <2>3. CASE h = "windows"
      <3>1. WindowsAt(fs, dirs, at, t, all, b, seen) /\ (t2 = t \/ ~all)
        BY <1>6, <2>3 DEF At
      <3>2. WindowsAt(fs, dirs2, at, t2, all, b, seen)
        BY <1>2, <3>1 DEF WindowsAt
      <3> QED
        BY <2>3, <3>2 DEF At
    <2> QED
      BY <2>1, <2>2, <2>3 DEF Host
  <1> QED
    BY <1>1, <1>3, <1>4, <1>5, <1>6

LEMMA NotFollowed ==
    ASSUME NEW h, NEW fs, NEW dirs, NEW at, NEW t, NEW all, NEW b, NEW hd
    PROVE  FollowedRight(h, fs, dirs, "none", at, t, all, b, hd)
  BY DEF FollowedRight

\* A file call leaves each file in a folder.
LEMMA CallFolders ==
    ASSUME FoldersRight(Fs, Dirs), SameState, NEW p \in Path, CallOn(p) \/ DeleteFile(p)
    PROVE  folders' = folders /\ FoldersRight(Fs', Dirs')
  <1>1. folders' = folders
    BY DEF CallOn, OpenFile, FileSize, MakeFile, DeleteFile, RenameFile, ReadSeq, ReadRand,
           Truncate, Write
  <1>2. \A outs : Answered(outs) => files'["posix"] = outs["posix"].files
    BY DEF Answered, Host
  <1>3. Fs \in SUBSET Path /\ \A q \in Fs : <<q[1], q[2]>> \in Dirs
    BY DEF FoldersRight
  <1>4. folders["posix"] = Dirs
    BY DEF SameState, Same, Host, Dirs
  <1>5. p[1] \in Drive /\ p[2] \in User /\ p[3] \in Name /\ p = <<p[1], p[2], p[3]>>
    BY PathParts
  <1> DEFINE Right(fs) == fs \in SUBSET Path /\ \A q \in fs : <<q[1], q[2]>> \in Dirs
  <1>6. Right(DOMAIN files'["posix"])
    <2>1. \A r : Answer("posix", r).files = files["posix"]
      BY DEF Answer, Outcome
    <2>2. CASE OpenFile(p)
      <3>1. files'["posix"] = OpenOn("posix", p).files
        BY <1>2, <2>2 DEF OpenFile, Host
      <3> QED
        BY <1>3, <2>1, <3>1 DEF OpenOn, Fs
    <2>3. CASE FileSize(p)
      <3>1. files'["posix"] = SizeOn("posix", p).files
        BY <1>2, <2>3 DEF FileSize, Host
      <3> QED
        BY <1>3, <2>1, <3>1 DEF SizeOn, Fs
    <2>4. CASE MakeFile(p)
      <3>1. files'["posix"] = MakeOn("posix", p).files
        BY <1>2, <2>4 DEF MakeFile, Host
      <3>2. \/ files'["posix"] = files["posix"]
            \/ DOMAIN files'["posix"] = Fs \cup {p} /\ <<p[1], p[2]>> \in Dirs
        BY <1>4, <2>1, <3>1 DEF MakeOn, HasFolder, Outcome, With, Fs
      <3> QED
        BY <1>3, <3>2 DEF Fs
    <2>5. CASE DeleteFile(p)
      <3>1. files'["posix"] = DeleteOn("posix", p).files
        BY <1>2, <2>5 DEF DeleteFile, Host
      <3>2. DOMAIN files'["posix"] \subseteq Fs
        BY <2>1, <3>1 DEF DeleteOn, Outcome, Without, Fs
      <3> QED
        BY <1>3, <3>2
    <2>6. CASE \E n \in Name : RenameFile(p, n)
      <3>1. PICK n \in Name : RenameFile(p, n)
        BY <2>6
      <3>2. PICK q : q = <<p[1], p[2], n>>
        OBVIOUS
      <3>3. files'["posix"] = RenameOn("posix", p, q).files
        BY <1>2, <3>1, <3>2 DEF RenameFile, Host
      <3>4. \/ files'["posix"] = files["posix"]
            \/ p \in Fs /\ DOMAIN files'["posix"] = (Fs \ {p}) \cup {q}
        BY <2>1, <3>3 DEF RenameOn, There, Outcome, With, Without, Fs
      <3>5. q \in Path /\ q[1] = p[1] /\ q[2] = p[2]
        BY <1>5, <3>2 DEF Path
      <3> QED
        BY <1>3, <3>4, <3>5 DEF Fs
    <2>7. CASE \E rec \in Record : ReadSeq(p, rec) \/ ReadRand(p, rec) \/ Truncate(p, rec)
      <3>1. PICK rec \in Record : ReadSeq(p, rec) \/ ReadRand(p, rec) \/ Truncate(p, rec)
        BY <2>7
      <3>2. \A pos : ReadAt("posix", p, pos).files = files["posix"]
        BY <2>1 DEF ReadAt, Outcome
      <3>3. CASE ReadSeq(p, rec)
        <4>1. files'["posix"] = ReadSeqOn("posix", p, rec * BlkSZ).files
          BY <1>2, <3>3 DEF ReadSeq, Host
        <4> QED
          BY <1>3, <2>1, <3>2, <4>1 DEF ReadSeqOn, Fs
      <3>4. CASE ReadRand(p, rec)
        <4>1. files'["posix"] = ReadRandOn("posix", p, rec * BlkSZ).files
          BY <1>2, <3>4 DEF ReadRand, Host
        <4> QED
          BY <1>3, <2>1, <3>2, <4>1 DEF ReadRandOn, Fs
      <3>5. CASE Truncate(p, rec)
        <4>1. files'["posix"] = TruncateOn("posix", p, rec * BlkSZ).files
          BY <1>2, <3>5 DEF Truncate, Host
        <4>2. DOMAIN files'["posix"] = Fs
          BY <4>1 DEF TruncateOn, Outcome, Fs
        <4> QED
          BY <1>3, <4>2
      <3> QED
        BY <3>1, <3>3, <3>4, <3>5
    <2>8. CASE \E rec \in Record, room \in Room, kept \in BOOLEAN : Write(p, rec, room, kept)
      <3>1. PICK rec \in Record, room \in Room, kept \in BOOLEAN : Write(p, rec, room, kept)
        BY <2>8
      <3>2. files'["posix"] = WriteOn("posix", p, rec * BlkSZ, room, kept).files
        BY <1>2, <3>1 DEF Write, Host
      <3>3. DOMAIN files'["posix"] = Fs
        BY <2>1, <3>2 DEF WriteOn, WriteStdio, Outcome, Fs
      <3> QED
        BY <1>3, <3>3
    <2> QED
      BY <2>2, <2>3, <2>4, <2>5, <2>6, <2>7, <2>8 DEF CallOn
  <1>7. Fs' = DOMAIN files'["posix"] /\ Dirs' = Dirs
    BY <1>1 DEF Fs, Dirs
  <1> QED
    BY <1>1, <1>6, <1>7 DEF FoldersRight

LEMMA SearchFirstFollows ==
    ASSUME FollowInv, SameState, NEW d \in Drive, NEW ns \in Pattern, NEW all \in BOOLEAN,
           SearchFirst(d, ns, all)
    PROVE  FollowInv'
  <1> DEFINE t == Target(d, userCode, IF all THEN Name ELSE ns)
             begin == IF all THEN [t EXCEPT !.user = 0] ELSE t
             first == [h \in Host |->
                        CASE h = "posix"   -> PosixFirst(t, all, userCode)
                          [] h = "windows" -> WindowsFirst(begin, all, userCode)
                          [] h = "arduino" -> CardFirst(t, all, userCode)]
             nothing == [h \in Host |-> <<>>]
  <1>1. /\ <<d>> \in folders["posix"] /\ Searched(Host, first, nothing)
        /\ allUsers' = all /\ began' = t
        /\ UNCHANGED <<files, folders, userCode>>
    BY Zenon DEF SearchFirst, vars
  <1>2. PICK b, w : /\ b = Target(d, userCode, IF all THEN Name ELSE ns)
                    /\ w = IF all THEN [b EXCEPT !.user = 0] ELSE b
    OBVIOUS
  <1> DEFINE step == [h \in Host |->
                        CASE h = "posix"   -> PosixFirst(b, all, userCode)
                          [] h = "windows" -> WindowsFirst(w, all, userCode)
                          [] h = "arduino" -> CardFirst(b, all, userCode)]
  <1>3. /\ <<d>> \in folders["posix"] /\ Searched(Host, step, nothing)
        /\ allUsers' = all /\ began' = b
        /\ UNCHANGED <<files, folders, userCode>>
    <2>1. t = b /\ begin = w
      BY <1>2
    <2> HIDE DEF t, begin
    <2>2. first = step
      BY <2>1
    <2> HIDE DEF first, step, nothing
    <2> QED
      BY <1>1, <2>1, <2>2
  <1> HIDE DEF t, begin, first
  <1>4. /\ step["posix"] = PosixFirst(b, all, userCode)
        /\ step["windows"] = WindowsFirst(w, all, userCode)
        /\ step["arduino"] = CardFirst(b, all, userCode)
    BY DEF Host
  <1> HIDE DEF step
  <1>5. /\ FoldersRight(Fs, Dirs) /\ userCode \in User
    BY DEF FollowInv
  <1>6. BeganRight(Dirs, b, all)
    <2>1. <<d>> \in Dirs
      BY <1>3 DEF SameState, Same, Host, Dirs
    <2>2. ns \in SUBSET Name
      BY SearchAssumption
    <2>3. /\ b.drive = d /\ b.user = userCode /\ b.names = IF all THEN Name ELSE ns
      BY <1>2 DEF Target
    <2> QED
      BY <1>5, <2>1, <2>2, <2>3 DEF BeganRight
  <1>7. /\ StepRight("posix", Fs, Dirs, PosixFirst(b, all, userCode), all, b, {})
        /\ StepRight("arduino", Fs, Dirs, CardFirst(b, all, userCode), all, b, {})
        /\ StepRight("windows", Fs, Dirs, WindowsFirst(w, all, userCode), all, b, {})
    <2>1. PICK names : names = IF all THEN Name ELSE ns
      OBVIOUS
    <2>2. b = Target(d, userCode, names)
      BY <1>2, <2>1
    <2> QED
      BY <1>2, <1>5, <1>6, <2>2, FirstRight
  <1>8. \A h \in Host : StepRight(h, Fs, Dirs, step[h], all, b, IdsOf(<<>>))
    BY <1>4, <1>7, HeardNothing DEF Host
  <1>9. \A h \in Host : FollowedRight(h, Fs, Dirs, IF step[h].hits = <<>> THEN "over" ELSE "on",
                                      step[h].place, step[h].target, all, b, <<>> \o step[h].hits)
    BY <1>6, <1>8, HeardNothing, StepFollowed
  <1>10. \A h \in Host : /\ phase'[h] = (IF step[h].hits = <<>> THEN "over" ELSE "on")
                         /\ place'[h] = step[h].place /\ filename'[h] = step[h].target
                         /\ heard'[h] = <<>> \o step[h].hits
    BY <1>3 DEF Searched
  <1>11. Fs' = Fs /\ Dirs' = Dirs /\ userCode' = userCode
    BY <1>3 DEF Fs, Dirs
  <1>12. \A h \in Host : FollowedRight(h, Fs', Dirs', phase'[h], place'[h], filename'[h],
                                       allUsers', began', heard'[h])
    BY <1>3, <1>9, <1>10, <1>11
  <1> QED
    BY <1>5, <1>11, <1>12 DEF FollowInv

LEMMA SearchNextFollows ==
    ASSUME FollowInv, SearchNext
    PROVE  FollowInv'
  <1>1. PICK on : on = {h \in Host : phase[h] = "on"}
    OBVIOUS
  <1> DEFINE step == [h \in on |->
               CASE h = "posix"   -> PosixStep(place[h], filename[h], allUsers, userCode)
                 [] h = "windows" -> WindowsStep(place[h], filename[h], allUsers, userCode)
                 [] h = "arduino" -> CardStep(place[h], filename[h], allUsers, userCode)]
  <1>2. /\ Searched(on, step, heard)
        /\ UNCHANGED <<files, folders, userCode, allUsers, began>>
    BY <1>1 DEF SearchNext, vars
  <1>3. \A h \in on :
          /\ h = "posix" => step[h] = PosixStep(place[h], filename[h], allUsers, userCode)
          /\ h = "windows" => step[h] = WindowsStep(place[h], filename[h], allUsers, userCode)
          /\ h = "arduino" => step[h] = CardStep(place[h], filename[h], allUsers, userCode)
    OBVIOUS
  <1> HIDE DEF step
  <1>4. FoldersRight(Fs, Dirs) /\ userCode \in User
    BY DEF FollowInv
  <1>5. Fs' = Fs /\ Dirs' = Dirs /\ userCode' = userCode
    BY <1>2 DEF Fs, Dirs
  <1>6. ASSUME NEW h \in Host
        PROVE  FollowedRight(h, Fs', Dirs', phase'[h], place'[h], filename'[h],
                             allUsers', began', heard'[h])
    <2>1. FollowedRight(h, Fs, Dirs, phase[h], place[h], filename[h], allUsers, began, heard[h])
      BY DEF FollowInv
    <2>2. CASE h \in on
      <3>1. phase[h] = "on"
        BY <1>1, <2>2
      <3>2. /\ HeardRight(h, heard[h], allUsers) /\ BeganRight(Dirs, began, allUsers)
            /\ At(h, Fs, Dirs, place[h], filename[h], allUsers, began, IdsOf(heard[h]))
        BY <2>1, <3>1 DEF FollowedRight
      <3>3. StepRight(h, Fs, Dirs, step[h], allUsers, began, IdsOf(heard[h]))
        <4>1. CASE h = "posix"
          BY <1>3, <1>4, <2>2, <3>2, <4>1, PosixStepRight DEF At
        <4>2. CASE h = "windows"
          BY <1>3, <1>4, <2>2, <3>2, <4>2, WindowsStepRight DEF At
        <4>3. CASE h = "arduino"
          BY <1>3, <1>4, <2>2, <3>2, <4>3, CardStepRight DEF At
        <4> QED
          BY <4>1, <4>2, <4>3 DEF Host
      <3>4. FollowedRight(h, Fs, Dirs, IF step[h].hits = <<>> THEN "over" ELSE "on",
                          step[h].place, step[h].target, allUsers, began, heard[h] \o step[h].hits)
        BY <3>2, <3>3, StepFollowed
      <3>5. /\ phase'[h] = (IF step[h].hits = <<>> THEN "over" ELSE "on")
            /\ place'[h] = step[h].place /\ filename'[h] = step[h].target
            /\ heard'[h] = heard[h] \o step[h].hits
        BY <1>2, <2>2 DEF Searched
      <3> QED
        BY <1>2, <1>5, <3>4, <3>5
    <2>3. CASE h \notin on
      <3>1. /\ phase'[h] = phase[h] /\ place'[h] = place[h] /\ filename'[h] = filename[h]
            /\ heard'[h] = heard[h]
        BY <1>2, <2>3 DEF Searched
      <3> QED
        BY <1>2, <1>5, <2>1, <3>1
    <2> QED
      BY <2>2, <2>3
  <1> QED
    BY <1>4, <1>5, <1>6 DEF FollowInv

\* A search that is dropped is no longer followed.
LEMMA DroppedFollows ==
    ASSUME NEW hs, Dropped(hs), NEW h \in Host
    PROVE  /\ h \in hs => phase'[h] = "none"
           /\ h \notin hs => /\ phase'[h] = phase[h] /\ place'[h] = place[h]
                             /\ heard'[h] = heard[h]
           /\ began' = began /\ allUsers' = allUsers
  BY DEF Dropped

LEMMA FileCallFollows ==
    ASSUME FollowInv, SameState, NEW p \in Path, FileCall(p)
    PROVE  FollowInv'
  <1>1. PICK hs : hs = IF DOMAIN files'["posix"] = DOMAIN files["posix"]
                       THEN {h \in Host : Disturbs(h, p)} ELSE Host
    OBVIOUS
  <1>2. /\ p[2] = userCode /\ CallOn(p) /\ Dropped(hs) /\ userCode' = userCode
        /\ filename' = [h \in Host |-> Target(p[1], userCode, {p[3]})]
    BY <1>1 DEF FileCall
  <1>3. folders' = folders /\ FoldersRight(Fs', Dirs')
    BY <1>2, CallFolders DEF FollowInv
  <1>4. Dirs' = Dirs
    BY <1>3 DEF Dirs
  <1>5. ASSUME NEW h \in Host
        PROVE  FollowedRight(h, Fs', Dirs', phase'[h], place'[h], filename'[h],
                             allUsers', began', heard'[h])
    <2>1. CASE h \in hs
      BY <1>2, <2>1, DroppedFollows, NotFollowed
    <2>2. CASE h \notin hs
      <3>1. Fs' = Fs /\ ~Disturbs(h, p)
        BY <1>1, <2>2 DEF Fs
      <3>2. /\ phase'[h] = phase[h] /\ place'[h] = place[h] /\ heard'[h] = heard[h]
            /\ began' = began /\ allUsers' = allUsers
        BY <1>2, <2>2, DroppedFollows
      <3>3. FollowedRight(h, Fs, Dirs, phase[h], place[h], filename[h], allUsers, began, heard[h])
        BY DEF FollowInv
      <3>4. PICK t : t = filename'[h]
        OBVIOUS
      <3>5. t.drive = p[1] /\ t.user = p[2]
        BY <1>2, <3>4 DEF Target
      <3>6. allUsers \in BOOLEAN \/ phase[h] = "none"
        BY <3>3 DEF FollowedRight, BeganRight
      <3>7. phase[h] # "none" =>
               \/ h = "arduino" \/ (h = "windows" /\ ~allUsers)
               \/ h = "posix" /\ t.drive = began.drive /\ (allUsers \/ t.user = began.user)
        BY <3>1, <3>5, <3>6 DEF Disturbs, Host
      <3>8. FollowedRight(h, Fs, Dirs, phase[h], place[h], t, allUsers, began, heard[h])
        BY <3>3, <3>7, FollowedKept
      <3> QED
        BY <1>4, <3>1, <3>2, <3>4, <3>8
    <2> QED
      BY <2>1, <2>2
  <1>6. userCode' \in User
    BY <1>2 DEF FollowInv
  <1> QED
    BY <1>3, <1>5, <1>6 DEF FollowInv

LEMMA DeleteFollows ==
    ASSUME FollowInv, SameState, NEW p \in Path, Delete(p)
    PROVE  FollowInv'
  <1>1. DeleteFile(p) /\ Dropped(Host) /\ userCode' = userCode
    BY DEF Delete
  <1>2. FoldersRight(Fs', Dirs')
    BY <1>1, CallFolders DEF FollowInv
  <1>3. \A h \in Host : FollowedRight(h, Fs', Dirs', phase'[h], place'[h], filename'[h],
                                      allUsers', began', heard'[h])
    BY <1>1, DroppedFollows, NotFollowed
  <1>4. userCode' \in User
    BY <1>1 DEF FollowInv
  <1> QED
    BY <1>2, <1>3, <1>4 DEF FollowInv

LEMMA OtherCallFollows ==
    ASSUME FollowInv, OtherCall
    PROVE  FollowInv'
  <1>1. UNCHANGED <<userCode, filename, allUsers, place, phase, began, heard>>
    BY DEF OtherCall, searchVars
  <1>2. files' = files
    BY DEF OtherCall, Fill, SelectDisk, MakeDisk
  <1>3. Fs' = Fs
    BY <1>2 DEF Fs
  <1>4. FoldersRight(Fs, Dirs) /\ userCode \in User
    BY DEF FollowInv
  <1>5. /\ FoldersRight(Fs', Dirs')
        /\ \A d : <<d>> \in Dirs =>
              <<d>> \in Dirs' /\ \A v : <<d, v>> \in Dirs' <=> <<d, v>> \in Dirs
    <2>1. CASE folders' = folders
      <3>1. Dirs' = Dirs
        BY <2>1 DEF Dirs
      <3> QED
        BY <1>3, <1>4, <3>1
    <2>2. CASE \E d \in Drive : MakeDisk(d)
      <3>1. PICK d \in Drive : MakeDisk(d)
        BY <2>2
      <3>2. Dirs' = Dirs \cup {<<d>>} \cup (IF <<d>> \notin Dirs THEN {<<d, 0>>} ELSE {})
        BY <3>1 DEF MakeDisk, Dirs, Host
      <3>3. PICK dirs2 : dirs2 = Dirs'
        OBVIOUS
      <3>4. \A e : <<e>> # <<d, 0>>
        OBVIOUS
      <3>5. \A e, v : <<e, v>> # <<d>> /\ (<<e, v>> = <<d, 0>> => e = d /\ v = 0)
        OBVIOUS
      <3>6. Dirs \subseteq dirs2
        BY <3>2, <3>3
      <3>7. \A e, v : <<e, v>> \in dirs2 => <<e, v>> \in Dirs \/ (e = d /\ v = 0 /\ <<d>> \notin Dirs)
        BY <3>2, <3>3, <3>5
      <3>8. FoldersRight(Fs, dirs2)
        BY <1>4, <3>6, <3>7, SearchAssumption DEF FoldersRight
      <3> QED
        BY <1>3, <3>3, <3>6, <3>7, <3>8
    <2> QED
      BY <2>1, <2>2 DEF OtherCall, Fill, SelectDisk
  <1>6. ASSUME NEW h \in Host
        PROVE  FollowedRight(h, Fs', Dirs', phase'[h], place'[h], filename'[h],
                             allUsers', began', heard'[h])
    <2>1. FollowedRight(h, Fs, Dirs, phase[h], place[h], filename[h], allUsers, began, heard[h])
      BY DEF FollowInv
    <2>2. PICK dirs2 : dirs2 = Dirs'
      OBVIOUS
    <2>3. FollowedRight(h, Fs, dirs2, phase[h], place[h], filename[h], allUsers, began, heard[h])
      BY <1>5, <2>1, <2>2, FollowedKept
    <2> QED
      BY <1>1, <1>3, <2>2, <2>3
  <1> QED
    BY <1>1, <1>4, <1>5, <1>6 DEF FollowInv

LEMMA SetUserFollows ==
    ASSUME FollowInv, NEW d \in Drive, NEW u \in User, SetUser(d, u)
    PROVE  FollowInv'
  <1>1. /\ files' = files /\ userCode' = u /\ filename' = filename
        /\ IF folders' = folders THEN UNCHANGED <<allUsers, place, phase, began, heard>>
                                 ELSE Dropped(Host)
        /\ \/ folders'["windows"] = folders["windows"]
           \/ folders'["windows"] = folders["windows"] \cup {<<d, u>>}
    BY DEF SetUser, MakeUserDir, Host
  <1>2. Fs' = Fs
    BY <1>1 DEF Fs
  <1>3. FoldersRight(Fs, Dirs)
    BY DEF FollowInv
  <1>4. FoldersRight(Fs', Dirs')
    <2>1. PICK dirs2 : dirs2 = Dirs'
      OBVIOUS
    <2>2. Dirs \subseteq dirs2 /\ \A e, v : <<e, v>> \in dirs2 => <<e, v>> \in Dirs \/ v = u
      BY <1>1, <2>1 DEF Dirs
    <2> QED
      BY <1>2, <1>3, <2>1, <2>2 DEF FoldersRight
  <1>5. ASSUME NEW h \in Host
        PROVE  FollowedRight(h, Fs', Dirs', phase'[h], place'[h], filename'[h],
                             allUsers', began', heard'[h])
    <2>1. CASE folders' = folders
      <3>1. FollowedRight(h, Fs, Dirs, phase[h], place[h], filename[h], allUsers, began, heard[h])
        BY DEF FollowInv
      <3>2. Dirs' = Dirs /\ UNCHANGED <<allUsers, place, phase, began, heard>>
        BY <1>1, <2>1 DEF Dirs
      <3> QED
        BY <1>1, <1>2, <3>1, <3>2
    <2>2. CASE folders' # folders
      BY <1>1, <2>2, DroppedFollows, NotFollowed
    <2> QED
      BY <2>1, <2>2
  <1> QED
    BY <1>1, <1>4, <1>5 DEF FollowInv

LEMMA InitFollows ==
    ASSUME SearchInit
    PROVE  FollowInv
  <1>1. PICK ds \in SUBSET Drive : \E areas \in SUBSET (ds \X User) :
           \E there \in SUBSET {p \in Path : <<p[1], p[2]>> \in areas} :
           \E len \in [there -> InitLen] : InitWith(ds, areas, len)
    BY DEF SearchInit, Init
  <1>2. PICK areas \in SUBSET (ds \X User) :
           \E there \in SUBSET {p \in Path : <<p[1], p[2]>> \in areas} :
           \E len \in [there -> InitLen] : InitWith(ds, areas, len)
    BY <1>1
  <1>3. PICK there \in SUBSET {p \in Path : <<p[1], p[2]>> \in areas} :
           \E len \in [there -> InitLen] : InitWith(ds, areas, len)
    BY <1>2
  <1>4. PICK len \in [there -> InitLen] : InitWith(ds, areas, len)
    BY <1>3
  <1>5. Fs = there /\ Dirs = {<<d>> : d \in ds} \cup areas
    BY <1>4 DEF InitWith, Fs, Dirs, Host
  <1>6. ASSUME NEW d, NEW v, <<d, v>> \in Dirs
        PROVE  v \in User
    <2>1. \A e : <<d, v>> # <<e>>
      OBVIOUS
    <2>2. <<d, v>> \in areas
      BY <1>5, <1>6, <2>1
    <2> QED
      BY <2>2
  <1>7. FoldersRight(Fs, Dirs)
    <2>1. Fs \in SUBSET Path
      BY <1>5
    <2>2. \A p \in Fs : <<p[1], p[2]>> \in Dirs
      BY <1>5
    <2>3. \A d, v : <<d, v>> \in Dirs => v \in User
      BY <1>6
    <2> QED
      BY <2>1, <2>2, <2>3 DEF FoldersRight
  <1>8. \A h \in Host : phase[h] = "none"
    BY DEF SearchInit
  <1>9. userCode \in User
    BY SearchAssumption DEF SearchInit
  <1> QED
    BY <1>7, <1>8, <1>9, NotFollowed DEF FollowInv

LEMMA StepFollows ==
    ASSUME HostInv, FollowInv, [agreed /\ SearchCall]_allVars
    PROVE  FollowInv'
  <1>1. CASE UNCHANGED allVars
    <2>1. UNCHANGED <<files, folders, userCode, filename, allUsers, place, phase, began, heard>>
      BY <1>1 DEF allVars, vars, searchVars
    <2>2. Fs' = Fs /\ Dirs' = Dirs
      BY <2>1 DEF Fs, Dirs
    <2> QED
      BY <2>1, <2>2 DEF FollowInv
  <1>2. CASE agreed /\ SearchCall
    <2>1. SameState
      BY <1>2 DEF HostInv, HostsAgree, SameState
    <2>2. CASE \E p \in Path : FileCall(p)
      BY <2>1, <2>2, FileCallFollows
    <2>3. CASE \E p \in Path : Delete(p)
      BY <2>1, <2>3, DeleteFollows
    <2>4. CASE OtherCall
      BY <2>4, OtherCallFollows
    <2>5. CASE \E d \in Drive, ns \in Pattern, all \in BOOLEAN : SearchFirst(d, ns, all)
      BY <2>1, <2>5, SearchFirstFollows
    <2>6. CASE SearchNext
      BY <2>6, SearchNextFollows
    <2>7. CASE \E d \in Drive, u \in User : SetUser(d, u)
      BY <2>7, SetUserFollows
    <2> QED
      BY <1>2, <2>2, <2>3, <2>4, <2>5, <2>6, <2>7 DEF SearchCall
  <1> QED
    BY <1>1, <1>2

LEMMA FollowInvAlways == SearchSpec => []FollowInv
  <1>1. SearchInit => FollowInv
    BY InitFollows
  <1>2. HostInv /\ FollowInv /\ [agreed /\ SearchCall]_allVars => FollowInv'
    BY StepFollows
  <1> QED
    BY <1>1, <1>2, HostInvAlways, PTL DEF SearchSpec

\* SearchesExact: whatever file calls come in between, a search returns files
\* that it asks for, none twice, and in the end all of them, but on Windows for
\* all users those behind a missing area; on POSIX and the card it tells the
\* area of each.  So for any number of drives, user areas and names, and
\* whatever a program looks for.
THEOREM SearchesExactAlways == SearchSpec => []SearchesExact
  <1>1. FollowInv => SearchesExact
    <2> SUFFICES ASSUME FollowInv, NEW h \in Host, phase[h] # "none"
                 PROVE  /\ Cardinality(Ids(h)) = Len(heard[h])
                        /\ Ids(h) \subseteq WantedOn(h)
                        /\ phase[h] = "over" => \A p \in WantedOn(h) \ Ids(h) :
                              h = "windows" /\ allUsers /\ BehindGap(p)
                        /\ allUsers /\ h # "windows" => \A i \in DOMAIN heard[h] :
                              heard[h][i][2] = heard[h][i][1][2]
      BY DEF SearchesExact
    <2> DEFINE reached == Reached(h, Fs, Dirs, began, allUsers)
    <2>1. /\ FoldersRight(Fs, Dirs)
          /\ FollowedRight(h, Fs, Dirs, phase[h], place[h], filename[h], allUsers, began, heard[h])
      BY DEF FollowInv
    <2>2. /\ phase[h] \in {"on", "over"}
          /\ HeardRight(h, heard[h], allUsers) /\ BeganRight(Dirs, began, allUsers)
          /\ phase[h] = "over" => IdsOf(heard[h]) = reached
          /\ phase[h] = "on" => At(h, Fs, Dirs, place[h], filename[h], allUsers, began, IdsOf(heard[h]))
      BY <2>1 DEF FollowedRight
    <2>3. DOMAIN heard[h] = 1..Len(heard[h])
      BY <2>2, SeqFunction DEF HeardRight
    <2>4. IdsOf(heard[h]) = Ids(h)
      BY <2>3 DEF IdsOf, Ids
    <2>5. IdsOf(heard[h]) \subseteq reached
      BY <2>1, <2>2, AtReached
    <2>6. reached \subseteq WantedOn(h)
      BY DEF Reached, AreasOf, BeforeFirstGap, Named, Area, Fs, WantedOn, InAreas
    <2>7. ASSUME NEW p \in WantedOn(h) \ reached
          PROVE  h = "windows" /\ allUsers /\ BehindGap(p)
      <3>1. p \in Fs /\ p[1] = began.drive /\ p[3] \in began.names
        BY <2>7 DEF WantedOn, InAreas, Fs
      <3>2. h = "windows" /\ allUsers /\ p[2] \in User /\ p[2] \notin BeforeFirstGap(Dirs, began.drive)
        BY <2>7, <3>1 DEF WantedOn, InAreas, Fs, Reached, AreasOf, Named, Area
      <3>3. PICK v \in 0..p[2] : <<began.drive, v>> \notin Dirs
        BY <3>2 DEF BeforeFirstGap
      <3>4. <<began.drive, p[2]>> \in Dirs
        BY <2>1, <3>1 DEF FoldersRight
      <3>5. v # p[2]
        BY <3>3, <3>4, Zenon
      <3>6. p[2] \in Nat
        BY <3>2, SearchAssumption
      <3>7. v \in 0..(p[2] - 1)
        BY <3>5, <3>6
      <3> QED
        BY <3>2, <3>3, <3>7 DEF BehindGap, Dirs
    <2> HIDE DEF reached
    <2>8. phase[h] = "over" => \A p \in WantedOn(h) \ Ids(h) :
             h = "windows" /\ allUsers /\ BehindGap(p)
      BY <2>2, <2>4, <2>7
    <2> QED
      BY <2>2, <2>3, <2>4, <2>5, <2>6, <2>8 DEF HeardRight
  <1> QED
    BY <1>1, FollowInvAlways, PTL
=============================================================================
