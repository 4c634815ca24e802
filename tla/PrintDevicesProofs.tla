-------------------------- MODULE PrintDevicesProofs --------------------------
(***************************************************************************)
(* An open device prints to the file of its name, and what it printed is   *)
(* in that file and its buffer, for every instance of PrintDevices:        *)
(* however many places, names and files there are.                         *)
(***************************************************************************)
EXTENDS PrintDevices, SequenceTheorems, TLAPS

\* What the streams and the directory agree on.  That a live stream counts as
\* open is what makes a delete close it, and that its file has a number is what
\* makes a delete of its name find the name.
StreamsInv ==
    /\ names \in [Dir -> File \cup {0}]
    /\ open \in [Device -> BOOLEAN]
    /\ dev \in [Device -> {"null", "live", "closed"}]
    /\ file \in [Device -> File \cup {0}]
    /\ moved \in BOOLEAN
    /\ \A d \in Device : dev[d] = "live" => open[d] /\ file[d] # 0
    /\ PrintsToItsName

LEMMA HomeNames == \A d \in Device : <<Home, d>> \in Dir /\ d \in Name
  BY DeviceAssumption DEF Dir, Name

\* A file that is in no use is a file.
LEMMA FreshFile == Unused # {} => Fresh \in File /\ Fresh # 0
  <1> SUFFICES ASSUME Unused # {} PROVE Fresh \in File /\ Fresh # 0
    OBVIOUS
  <1>1. Fresh \in Unused
    BY DEF Fresh
  <1> QED
    BY <1>1, DeviceAssumption DEF Unused

LEMMA InitStreams == Init => StreamsInv
  BY DEF Init, StreamsInv, PrintsToItsName, Live

\* Calls 4 and 5 (PrintChar).  A device that opens takes the file of its name,
\* or gives its name to a fresh one.
LEMMA PrintCharStreams ==
  ASSUME StreamsInv, NEW d \in Device, NEW c \in Char, PrintChar(d, c)
  PROVE  StreamsInv'
  <1> USE DEF StreamsInv, PrintsToItsName, Live
  <1>1. CASE Opens(d) /\ OpenStream(d, c)
    <2> DEFINE f == IF names[<<Home, d>>] # 0 THEN names[<<Home, d>>] ELSE Fresh
    <2>1. /\ names' = [names EXCEPT ![<<Home, d>>] = f]
          /\ dev' = [dev EXCEPT ![d] = "live"]
          /\ file' = [file EXCEPT ![d] = f]
          /\ open' = [open EXCEPT ![d] = TRUE] /\ moved' = moved
      BY <1>1 DEF OpenStream, PrintChar
    <2>2. f \in File /\ f # 0
      <3>1. names[<<Home, d>>] # 0 \/ Unused # {}
        BY <1>1 DEF OpenStream
      <3> QED
        BY <3>1, FreshFile, HomeNames, DeviceAssumption
    <2> HIDE DEF f
    <2>3. \A e \in Device : e # d => <<Home, e>> # <<Home, d>>
      OBVIOUS
    <2> QED
      BY <2>1, <2>2, <2>3, HomeNames
  <1>2. CASE Opens(d) /\ OpenRefused(d)
    BY <1>2 DEF PrintChar, OpenRefused
  <1>3. CASE ~Opens(d)
    BY <1>3 DEF PrintChar, Opens
  <1> QED
    BY <1>1, <1>2, <1>3 DEF PrintChar

\* Call 22 (MakeFile) takes a name that no device prints to.
LEMMA MakeFileStreams ==
  ASSUME StreamsInv, NEW e \in Dir, MakeFile(e)
  PROVE  StreamsInv'
  <1> USE DEF StreamsInv, PrintsToItsName, Live
  <1>1. names' = [names EXCEPT ![e] = Fresh] /\ Fresh \in File
    BY FreshFile DEF MakeFile
  <1>2. UNCHANGED <<open, dev, file, moved>>
    BY DEF MakeFile, streamVars, viewVars
  <1>3. \A d \in Live : ~moved => <<Home, d>> # e
    BY DEF MakeFile
  <1> QED
    BY <1>1, <1>2, <1>3, HomeNames

\* Call 19 (DeleteFile) closes every device whose name it removes in Home.
LEMMA DeleteFileStreams ==
  ASSUME StreamsInv, NEW p \in Place, NEW ns \in SUBSET Name, DeleteFile(p, ns)
  PROVE  StreamsInv'
  <1> USE DEF StreamsInv, PrintsToItsName, Live
  <1> DEFINE ds == Closes(p, ns)
  <1>1. CASE ~(ds \subseteq Live)
    BY <1>1 DEF DeleteFile, streamVars, viewVars
  <1>2. CASE ds \subseteq Live
    <2>1. /\ names' = [e \in Dir |-> IF e[1] = p /\ e[2] \in ns THEN 0 ELSE names[e]]
          /\ open' = [d \in Device |-> open[d] /\ d \notin ds]
          /\ dev' = [d \in Device |-> IF d \in ds THEN "closed" ELSE dev[d]]
          /\ file' = [d \in Device |-> IF d \in ds THEN 0 ELSE file[d]]
          /\ moved' = moved
      BY <1>2 DEF DeleteFile, CloseStreams, Closed
    <2>2. \A d \in Live' : d \in Live /\ d \notin ds
      BY <2>1
    <2>3. ASSUME ~moved, NEW d \in Live' PROVE names'[<<Home, d>>] = file'[d]
      <3>1. names[<<Home, d>>] = file[d] /\ file[d] # 0 /\ open[d]
        BY <2>2, <2>3
      <3>2. ~(Home = p /\ d \in ns)
        BY <2>2, <3>1 DEF Closes
      <3> QED
        BY <2>1, <2>2, <3>1, <3>2, HomeNames
    <2>4. \A d \in Device : dev'[d] = "live" => open'[d] /\ file'[d] # 0
      BY <2>1, <2>2
    <2> QED
      BY <2>1, <2>3, <2>4
  <1> QED
    BY <1>1, <1>2

\* Call 23 (RenameFile) touches a device's name in Home only if it sets moved.
LEMMA RenameFileStreams ==
  ASSUME StreamsInv, NEW p \in Place, NEW n \in Name, NEW m \in Name,
         RenameFile(p, n, m)
  PROVE  StreamsInv'
  <1> USE DEF StreamsInv, PrintsToItsName, Live
  <1>1. /\ names' = [names EXCEPT ![<<p, m>>] = names[<<p, n>>], ![<<p, n>>] = 0]
        /\ moved' = (moved \/ (p = Home /\ {n, m} \cap Device # {}))
        /\ UNCHANGED <<open, dev, file>>
    BY DEF RenameFile, streamVars
  <1>2. <<p, n>> \in Dir /\ <<p, m>> \in Dir
    BY DEF Dir
  <1>3. names' \in [Dir -> File \cup {0}]
    BY <1>1, <1>2
  <1>4. ASSUME ~moved', NEW d \in Live' PROVE names'[<<Home, d>>] = file'[d]
    <2>1. <<Home, d>> # <<p, n>> /\ <<Home, d>> # <<p, m>>
      BY <1>1, <1>4
    <2> QED
      BY <1>1, <1>4, <2>1, HomeNames
  <1> QED
    BY <1>1, <1>3, <1>4

LEMMA WarmBootStreams ==
  ASSUME StreamsInv, WarmBoot
  PROVE  StreamsInv'
  BY DEF StreamsInv, PrintsToItsName, Live, WarmBoot

LEMMA NextStreams == StreamsInv /\ [Next]_vars => StreamsInv'
  <1> SUFFICES ASSUME StreamsInv, [Next]_vars PROVE StreamsInv'
    OBVIOUS
  <1>1. CASE UNCHANGED vars
    BY <1>1 DEF StreamsInv, PrintsToItsName, Live, vars, streamVars, viewVars
  <1>2. ASSUME NEW d \in Device, NEW c \in Char, PrintChar(d, c) PROVE StreamsInv'
    BY <1>2, PrintCharStreams
  <1>3. ASSUME NEW e \in Dir, MakeFile(e) PROVE StreamsInv'
    BY <1>3, MakeFileStreams
  <1>4. ASSUME NEW p \in Place, NEW ns \in SUBSET Name, DeleteFile(p, ns)
        PROVE  StreamsInv'
    BY <1>4, DeleteFileStreams
  <1>5. ASSUME NEW p \in Place, NEW n \in Name, NEW m \in Name, RenameFile(p, n, m)
        PROVE  StreamsInv'
    BY <1>5, RenameFileStreams
  <1>6. CASE WarmBoot
    BY <1>6, WarmBootStreams
  <1> QED
    BY <1>1, <1>2, <1>3, <1>4, <1>5, <1>6 DEF Next

\* An open device prints to the file of its name in user area 0 of A:, unless a
\* rename took the name: a delete of that file closes the device (_DeleteFile).
THEOREM DevicesPrintToTheirNames == Spec => []PrintsToItsName
  <1>1. StreamsInv => PrintsToItsName
    BY DEF StreamsInv
  <1> QED
    BY InitStreams, NextStreams, <1>1, PTL DEF Spec

-----------------------------------------------------------------------------
(* What is written to a file.                                              *)

Text == Char \cup {"gap"}

LEMMA MaxOfTwo ==
  ASSUME NEW a \in Int, NEW b \in Int
  PROVE  Max({a, b}) = IF a >= b THEN a ELSE b
  <1> DEFINE m == IF a >= b THEN a ELSE b
  <1>1. m \in {a, b} /\ \A y \in {a, b} : m >= y
    OBVIOUS
  <1>2. \A x \in {a, b} : (\A y \in {a, b} : x >= y) => x = m
    OBVIOUS
  <1> HIDE DEF m
  <1>3. Max({a, b}) = m
    BY <1>1, <1>2 DEF Max
  <1> QED
    BY <1>3 DEF m

LEMMA WrittenTyped ==
  ASSUME NEW old \in Seq(Text), NEW p \in Nat, NEW s \in Seq(Char)
  PROVE  Written(old, p, s) \in Seq(Text)
  <1>1. Len(old) \in Nat /\ Len(s) \in Nat
    BY LenProperties
  <1> DEFINE n == IF Len(old) >= p + Len(s) THEN Len(old) ELSE p + Len(s)
  <1>2. n \in Nat /\ Max({Len(old), p + Len(s)}) = n
    BY <1>1, MaxOfTwo
  <1>3. \A i \in 1..n : i \in (p + 1)..(p + Len(s)) => s[i - p] \in Text
    BY <1>1, LenProperties DEF Text
  <1>4. \A i \in 1..n : i <= Len(old) => old[i] \in Text
    BY <1>1, LenProperties
  <1> HIDE DEF n
  <1>5. Written(old, p, s) \in [1..n -> Text]
    BY <1>2, <1>3, <1>4 DEF Written, Text
  <1> QED
    BY <1>2, <1>5, SeqDef

\* At the end of a file it is appended.
LEMMA WrittenAtEnd ==
  ASSUME NEW old \in Seq(Text), NEW s \in Seq(Char)
  PROVE  Written(old, Len(old), s) = old \o s
  <1>1. Len(old) \in Nat /\ Len(s) \in Nat /\ s \in Seq(Text)
    BY LenProperties, SeqMonotonic DEF Text
  <1> DEFINE n == Len(old) + Len(s)
             w == Written(old, Len(old), s)
  <1>2. Max({Len(old), n}) = n
    BY <1>1, MaxOfTwo
  <1>3. w = [i \in 1..n |-> IF i \in (Len(old) + 1)..n THEN s[i - Len(old)]
                            ELSE IF i <= Len(old) THEN old[i] ELSE "gap"]
    BY <1>2 DEF Written
  <1>4. w \in Seq(Text)
    BY <1>1, WrittenTyped
  <1>5. Len(w) = n
    BY <1>1, <1>3, <1>4, LenProperties
  <1>6. /\ old \o s \in Seq(Text) /\ Len(old \o s) = n
        /\ \A i \in 1..n : (old \o s)[i] = IF i <= Len(old) THEN old[i] ELSE s[i - Len(old)]
    BY <1>1, ConcatProperties
  <1>7. \A i \in 1..n : w[i] = (old \o s)[i]
    BY <1>1, <1>3, <1>6
  <1> HIDE DEF w, n
  <1>8. old \o s \in Seq(Text) /\ Len(w) = Len(old \o s)
        /\ \A i \in 1..Len(w) : w[i] = (old \o s)[i]
    BY <1>5, <1>6, <1>7
  <1>9. w = old \o s
    BY <1>4, <1>8, SeqEqual
  <1> QED
    BY <1>9 DEF w

-----------------------------------------------------------------------------
(* The invariant.  A device that is not overrun is the only one to write   *)
(* to its file, whose end is where its buffer goes.                        *)

TextFiles(all) == all \in [File -> Seq(Text)]

PrintTyped ==
    /\ TextFiles(data)
    /\ pos \in [Device -> Nat]
    /\ buffer \in [Device -> Seq(Char)] /\ \A d \in Device : Len(buffer[d]) <= Size
    /\ printed \in [Device -> Seq(Char)]
    /\ overrun \subseteq Device /\ booted \in BOOLEAN
    /\ \A d \in Device : open[d] => dev[d] # "closed"

SoleWriter == \A d \in Live \ overrun, e \in Live : e # d => file[e] # file[d]

KeptOf(d) == /\ pos[d] = Len(data[file[d]])
             /\ printed[d] = data[file[d]] \o buffer[d]

AllKept == \A d \in Live \ overrun : KeptOf(d)

BootedEmpty == booted => \A d \in Live : buffer[d] = <<>>

PrintInv == StreamsInv /\ PrintTyped /\ SoleWriter /\ AllKept /\ BootedEmpty

LEMMA LiveFile ==
  ASSUME StreamsInv, NEW d \in Live
  PROVE  d \in Device /\ file[d] \in File /\ open[d] /\ dev[d] = "live"
  BY DEF StreamsInv, Live

\* What a flush leaves in each file, and in that of a device that is not overrun.
LEMMA FlushedOneData ==
  ASSUME StreamsInv, PrintTyped, NEW all, TextFiles(all), NEW d \in Device, NEW ds
  PROVE  /\ TextFiles(FlushedOne(all, d, ds))
         /\ \A f \in File : ~(d \in ds \cap Live /\ file[d] = f) => FlushedOne(all, d, ds)[f] = all[f]
         /\ d \in ds \cap Live =>
               FlushedOne(all, d, ds)[file[d]] = Written(all[file[d]], pos[d], buffer[d])
  <1>1. CASE d \in ds \cap Live
    <2>1. file[d] \in File
      BY <1>1, LiveFile
    <2>2. Written(all[file[d]], pos[d], buffer[d]) \in Seq(Text)
      BY <2>1, WrittenTyped DEF PrintTyped, TextFiles
    <2> QED
      BY <1>1, <2>1, <2>2 DEF FlushedOne, TextFiles
  <1>2. CASE d \notin ds \cap Live
    BY <1>2 DEF FlushedOne
  <1> QED
    BY <1>1, <1>2

LEMMA FlushedData ==
  ASSUME PrintInv, NEW d \in Device, NEW e \in Device, d # e, NEW ds
  PROVE  /\ TextFiles(Flushed(d, e, ds))
         /\ \A x \in Live \ overrun :
               Flushed(d, e, ds)[file[x]] =
                  IF x \in ds THEN data[file[x]] \o buffer[x] ELSE data[file[x]]
  <1> DEFINE one == FlushedOne(data, d, ds)
             two == FlushedOne(one, e, ds)
  <1>0. StreamsInv /\ PrintTyped /\ TextFiles(data)
    BY DEF PrintInv, PrintTyped
  <1>1. /\ TextFiles(one)
        /\ \A f \in File : ~(d \in ds \cap Live /\ file[d] = f) => one[f] = data[f]
        /\ d \in ds \cap Live => one[file[d]] = Written(data[file[d]], pos[d], buffer[d])
    BY <1>0, FlushedOneData
  <1> HIDE DEF one
  <1>2. /\ TextFiles(two)
        /\ \A f \in File : ~(e \in ds \cap Live /\ file[e] = f) => two[f] = one[f]
        /\ e \in ds \cap Live => two[file[e]] = Written(one[file[e]], pos[e], buffer[e])
    BY <1>0, <1>1, FlushedOneData
  <1> HIDE DEF two
  <1>3. ASSUME NEW x \in Live \ overrun
        PROVE  two[file[x]] = IF x \in ds THEN data[file[x]] \o buffer[x] ELSE data[file[x]]
    <2>1. /\ x \in Device /\ file[x] \in File
          /\ data[file[x]] \in Seq(Text) /\ buffer[x] \in Seq(Char)
      BY <1>0, LiveFile DEF PrintTyped, TextFiles
    <2>2. Written(data[file[x]], pos[x], buffer[x]) = data[file[x]] \o buffer[x]
      BY <2>1, WrittenAtEnd DEF PrintInv, AllKept, KeptOf
    <2>3. \A y \in Live : y # x => file[y] # file[x]
      BY DEF PrintInv, SoleWriter
    <2>4. d \in Live => file[d] \in File
      BY <1>0, LiveFile
    <2>5. x = d \/ x = e
      BY <2>1 DEF Device
    <2>6. CASE x = d
      BY <1>1, <1>2, <2>1, <2>2, <2>3, <2>6
    <2>7. CASE x = e
      BY <1>1, <1>2, <2>1, <2>2, <2>3, <2>7
    <2> QED
      BY <2>5, <2>6, <2>7
  <1> QED
    BY <1>2, <1>3 DEF Flushed, one, two

\* A file that a stream still writes to keeps its data.
LEMMA KeptData ==
  ASSUME StreamsInv', NEW all, TextFiles(all)
  PROVE  /\ TextFiles(Kept(all))
         /\ \A d \in Live' : Kept(all)[file'[d]] = all[file'[d]]
  <1>1. \A f \in File : IF f \in Unused' THEN <<>> \in Seq(Text) ELSE all[f] \in Seq(Text)
    BY EmptySeq DEF TextFiles
  <1>2. \A d \in Live' : file'[d] \in File /\ file'[d] \notin Unused'
    BY DEF StreamsInv, Live, Unused
  <1> QED
    BY <1>1, <1>2 DEF Kept, TextFiles

-----------------------------------------------------------------------------
(* The actions.                                                            *)

LEMMA ConcatAppend ==
  ASSUME NEW s \in Seq(Text), NEW u \in Seq(Char), NEW c \in Char
  PROVE  s \o Append(u, c) = Append(s \o u, c)
  <1>1. u \in Seq(Text) /\ <<c>> \in Seq(Text) /\ c \in Text
    BY SeqMonotonic DEF Text
  <1>2. Append(u, c) = u \o <<c>> /\ Append(s \o u, c) = (s \o u) \o <<c>>
    BY <1>1
  <1> QED
    BY <1>1, <1>2, ConcatAssociative

LEMMA InitPrint == Init => PrintInv
  <1> SUFFICES ASSUME Init PROVE PrintInv
    OBVIOUS
  <1>1. TextFiles(data)
    BY EmptySeq DEF Init, TextFiles
  <1>2. PrintTyped
    <2>1. /\ buffer \in [Device -> Seq(Char)] /\ printed \in [Device -> Seq(Char)]
          /\ \A d \in Device : Len(buffer[d]) <= Size
      <3>1. <<>> \in Seq(Char) /\ Len(<<>>) <= Size
        BY DeviceAssumption
      <3> QED
        BY <3>1 DEF Init
    <2>2. \A d \in Device : open[d] => dev[d] # "closed"
      BY DEF Init
    <2>3. pos \in [Device -> Nat] /\ overrun \subseteq Device /\ booted \in BOOLEAN
      BY DEF Init
    <2> QED
      BY <1>1, <2>1, <2>2, <2>3 DEF PrintTyped
  <1>3. Live = {}
    BY DEF Init, Live
  <1> QED
    BY <1>2, <1>3, InitStreams DEF PrintInv, SoleWriter, AllKept, BootedEmpty

\* A device that opens shares its file with none, or is marked as overrun with
\* all that do.
LEMMA OpenStreamPrint ==
  ASSUME PrintInv, NEW d \in Device, NEW c \in Char,
         PrintChar(d, c), Opens(d), OpenStream(d, c)
  PROVE  PrintTyped' /\ SoleWriter' /\ AllKept' /\ BootedEmpty'
  <1> DEFINE f == IF names[<<Home, d>>] # 0 THEN names[<<Home, d>>] ELSE Fresh
             sharing == {e \in Live \ {d} : file[e] = f}
  <1>1. /\ data' = [data EXCEPT ![f] = <<>>]
        /\ open' = [open EXCEPT ![d] = TRUE] /\ dev' = [dev EXCEPT ![d] = "live"]
        /\ file' = [file EXCEPT ![d] = f] /\ pos' = [pos EXCEPT ![d] = 0]
        /\ buffer' = [buffer EXCEPT ![d] = <<c>>]
        /\ overrun' = IF sharing = {} THEN overrun \ {d} ELSE overrun \cup sharing \cup {d}
        /\ booted' = FALSE
    BY DEF OpenStream, PrintChar
  <1>2. printed' = [printed EXCEPT ![d] = <<c>>]
    BY DEF PrintChar, Opens
  <1>3. f \in File
    <2>1. names[<<Home, d>>] # 0 \/ Unused # {}
      BY DEF OpenStream
    <2> QED
      BY <2>1, FreshFile, HomeNames DEF PrintInv, StreamsInv
  <1>4. sharing \subseteq Device /\ d \notin sharing /\ \A e \in Live : e # d => (e \in sharing <=> file[e] = f)
    BY DEF Live
  <1> HIDE DEF f, sharing
  <1>5. StreamsInv /\ PrintTyped /\ SoleWriter /\ AllKept
    BY DEF PrintInv
  <1>6. \A e \in Device : e # d => dev'[e] = dev[e] /\ file'[e] = file[e] /\ pos'[e] = pos[e]
                                    /\ buffer'[e] = buffer[e] /\ printed'[e] = printed[e]
    BY <1>1, <1>2, <1>5 DEF StreamsInv, PrintTyped
  <1>7. /\ file'[d] = f /\ pos'[d] = 0 /\ buffer'[d] = <<c>> /\ printed'[d] = <<c>>
        /\ data'[f] = <<>> /\ \A g \in File : g # f => data'[g] = data[g]
    BY <1>1, <1>2, <1>3, <1>5 DEF StreamsInv, PrintTyped, TextFiles
  <1>8. \A e \in Live' : e = d \/ e \in Live
    BY <1>6 DEF Live
  <1>9. ASSUME NEW x \in Live' \ overrun', x # d
        PROVE  x \in Live \ overrun /\ file[x] # f
    BY <1>1, <1>4, <1>8, <1>9
  <1>10. d \notin overrun' => \A e \in Live : e # d => file[e] # f
    BY <1>1, <1>4
  <1>11. PrintTyped'
    <2>1. TextFiles(data')
      BY <1>1, <1>5, EmptySeq DEF PrintTyped, TextFiles
    <2>2. buffer' \in [Device -> Seq(Char)] /\ printed' \in [Device -> Seq(Char)] /\ Len(<<c>>) = 1
      BY <1>1, <1>2, <1>5 DEF PrintTyped
    <2>3. \A e \in Device : Len(buffer'[e]) <= Size
      <3>1. Len(buffer'[d]) <= Size
        BY <1>7, <2>2, DeviceAssumption
      <3>2. ASSUME NEW e \in Device, e # d PROVE Len(buffer'[e]) <= Size
        BY <1>5, <1>6, <3>2 DEF PrintTyped
      <3> QED
        BY <3>1, <3>2
    <2>4. overrun' \subseteq Device
      BY <1>1, <1>4, <1>5 DEF PrintTyped
    <2>5. \A e \in Device : open'[e] => dev'[e] # "closed"
      BY <1>1, <1>5 DEF PrintTyped, StreamsInv
    <2>6. pos' \in [Device -> Nat] /\ booted' \in BOOLEAN
      BY <1>1, <1>5 DEF PrintTyped
    <2> QED
      BY <2>1, <2>2, <2>3, <2>4, <2>5, <2>6 DEF PrintTyped, TextFiles
  <1>12. SoleWriter'
    <2> SUFFICES ASSUME NEW x \in Live' \ overrun', NEW e \in Live', e # x
                 PROVE  file'[e] # file'[x]
      BY DEF SoleWriter
    <2>1. x \in Device /\ e \in Device
      BY DEF Live
    <2>2. CASE x = d
      BY <1>6, <1>7, <1>8, <1>10, <2>1, <2>2
    <2>3. CASE x # d
      <3>1. x \in Live \ overrun /\ file[x] # f /\ file'[x] = file[x]
        BY <1>6, <1>9, <2>1, <2>3
      <3>2. CASE e = d
        BY <1>7, <3>1, <3>2
      <3>3. CASE e # d
        BY <1>5, <1>6, <1>8, <2>1, <3>1, <3>3 DEF SoleWriter
      <3> QED
        BY <3>2, <3>3
    <2> QED
      BY <2>2, <2>3
  <1>13. AllKept'
    <2> SUFFICES ASSUME NEW x \in Live' \ overrun' PROVE KeptOf(x)'
      BY DEF AllKept
    <2>1. x \in Device
      BY DEF Live
    <2>2. CASE x = d
      <3>1. Len(<<>>) = 0 /\ <<>> \o <<c>> = <<c>>
        OBVIOUS
      <3> QED
        BY <1>7, <2>2, <3>1 DEF KeptOf
    <2>3. CASE x # d
      <3>1. x \in Live \ overrun /\ file[x] # f /\ KeptOf(x)
        BY <1>5, <1>9, <2>3 DEF AllKept
      <3>2. file[x] \in File
        BY <1>5, <3>1, LiveFile
      <3> QED
        BY <1>6, <1>7, <2>1, <2>3, <3>1, <3>2 DEF KeptOf
    <2> QED
      BY <2>2, <2>3
  <1> QED
    BY <1>1, <1>11, <1>12, <1>13 DEF BootedEmpty

\* The host refuses, or the device did not open: what is printed is dropped.
LEMMA DroppedPrint ==
  ASSUME PrintInv, NEW d \in Device, NEW c \in Char, PrintChar(d, c),
         dev' \in [Device -> {"null", "live", "closed"}], dev'[d] = "null",
         \A e \in Device : e # d => dev'[e] = dev[e],
         UNCHANGED <<data, file, pos, buffer, overrun>>
  PROVE  PrintTyped' /\ SoleWriter' /\ AllKept' /\ BootedEmpty'
  <1>1. StreamsInv /\ PrintTyped /\ SoleWriter /\ AllKept
    BY DEF PrintInv
  <1>2. /\ open' = [open EXCEPT ![d] = TRUE] /\ booted' = FALSE
        /\ printed' = [printed EXCEPT ![d] = Append(IF open[d] THEN @ ELSE <<>>, c)]
    BY DEF PrintChar
  <1>3. \A e \in Live' : e # d /\ e \in Live
    BY DEF Live
  <1>4. printed[d] \in Seq(Char) /\ <<>> \in Seq(Char)
    BY <1>1 DEF PrintTyped
  <1>5. Append(IF open[d] THEN printed[d] ELSE <<>>, c) \in Seq(Char)
    BY <1>4, AppendProperties
  <1>6. /\ printed' \in [Device -> Seq(Char)]
        /\ \A e \in Device : e # d => printed'[e] = printed[e]
    BY <1>1, <1>2, <1>5 DEF PrintTyped
  <1>7. PrintTyped'
    <2>1. \A e \in Device : open'[e] => dev'[e] # "closed"
      BY <1>1, <1>2 DEF PrintTyped, StreamsInv
    <2> QED
      BY <1>1, <1>2, <1>6, <2>1 DEF PrintTyped, TextFiles
  <1>8. SoleWriter'
    BY <1>1, <1>3 DEF SoleWriter
  <1>9. AllKept'
    <2>1. ASSUME NEW x \in Live' \ overrun' PROVE KeptOf(x)'
      <3>1. x \in Live \ overrun /\ x # d /\ x \in Device
        BY <1>3, <2>1 DEF Live
      <3> QED
        BY <1>1, <1>6, <3>1 DEF AllKept, KeptOf
    <2> QED
      BY <2>1 DEF AllKept
  <1> QED
    BY <1>2, <1>7, <1>8, <1>9 DEF BootedEmpty

\* fputc adds the character to the buffer, or to an empty one after it was written.
LEMMA PutPrint ==
  ASSUME PrintInv, NEW d \in Device, NEW c \in Char, PrintChar(d, c),
         dev[d] = "live", Put(d, c), UNCHANGED <<dev, file, overrun>>
  PROVE  PrintTyped' /\ SoleWriter' /\ AllKept' /\ BootedEmpty'
  <1>1. StreamsInv /\ PrintTyped /\ SoleWriter /\ AllKept
    BY DEF PrintInv
  <1>2. d \in Live /\ file[d] \in File /\ open[d] /\ Live' = Live
    BY <1>1, LiveFile DEF Live
  <1>3. /\ open' = [open EXCEPT ![d] = TRUE] /\ booted' = FALSE
        /\ printed' = [printed EXCEPT ![d] = Append(@, c)]
    BY <1>2 DEF PrintChar
  <1> DEFINE old == data[file[d]]
             buf == buffer[d]
  <1>4. /\ old \in Seq(Text) /\ buf \in Seq(Char) /\ printed[d] \in Seq(Char)
        /\ pos[d] \in Nat /\ Len(buf) <= Size
    BY <1>1, <1>2 DEF PrintTyped, TextFiles
  <1>5. Append(buf, c) \in Seq(Char) /\ <<c>> \in Seq(Char) /\ Len(<<c>>) = 1
        /\ Len(Append(buf, c)) = Len(buf) + 1 /\ Len(buf) \in Nat
    BY <1>4, AppendProperties, LenProperties
  <1>6. /\ printed' \in [Device -> Seq(Char)] /\ printed'[d] = Append(printed[d], c)
        /\ \A e \in Device : e # d => printed'[e] = printed[e]
    <2>1. Append(printed[d], c) \in Seq(Char)
      BY <1>4, AppendProperties
    <2> QED
      BY <1>1, <1>3, <2>1 DEF PrintTyped
  <1>7. \A e \in Device : open'[e] => dev'[e] # "closed"
    BY <1>1, <1>2, <1>3 DEF PrintTyped, StreamsInv
  <1>8. SoleWriter'
    BY <1>1, <1>2 DEF SoleWriter
  <1>9. d \notin overrun => old \o Append(buf, c) = printed'[d] /\ pos[d] = Len(old)
    BY <1>1, <1>2, <1>4, <1>6, ConcatAppend DEF AllKept, KeptOf
  <1>10. Len(buf) < Size \/ Len(buf) = Size
    BY <1>4, <1>5, DeviceAssumption
  <1> HIDE DEF old, buf
  <1>11. CASE Len(buf) < Size
    <2>1. buffer' = [buffer EXCEPT ![d] = Append(buf, c)] /\ UNCHANGED <<data, pos>>
      BY <1>11 DEF Put, buf
    <2>2. /\ buffer' \in [Device -> Seq(Char)] /\ buffer'[d] = Append(buf, c)
          /\ \A e \in Device : e # d => buffer'[e] = buffer[e]
      BY <1>1, <1>5, <2>1 DEF PrintTyped
    <2>3. \A e \in Device : Len(buffer'[e]) <= Size
      <3>1. Len(buffer'[d]) <= Size
        BY <1>5, <1>11, <2>2, DeviceAssumption
      <3>2. ASSUME NEW e \in Device, e # d PROVE Len(buffer'[e]) <= Size
        BY <1>1, <2>2, <3>2 DEF PrintTyped
      <3> QED
        BY <3>1, <3>2
    <2>4. PrintTyped'
      BY <1>1, <1>3, <1>6, <1>7, <2>1, <2>2, <2>3 DEF PrintTyped, TextFiles
    <2>5. ASSUME NEW x \in Live' \ overrun' PROVE KeptOf(x)'
      <3>1. x \in Live \ overrun /\ x \in Device
        BY <1>2 DEF Live
      <3>2. CASE x = d
        BY <1>6, <1>9, <2>1, <2>2, <3>1, <3>2 DEF KeptOf, old
      <3>3. CASE x # d
        BY <1>1, <1>6, <2>1, <2>2, <3>1, <3>3 DEF AllKept, KeptOf
      <3> QED
        BY <3>2, <3>3
    <2> QED
      BY <1>3, <1>8, <2>4, <2>5 DEF AllKept, BootedEmpty
  <1>12. CASE Len(buf) = Size
    <2>1. /\ data' = [data EXCEPT ![file[d]] = Written(old, pos[d], buf)]
          /\ pos' = [pos EXCEPT ![d] = pos[d] + Len(buf)]
          /\ buffer' = [buffer EXCEPT ![d] = <<c>>]
      BY <1>5, <1>12, DeviceAssumption DEF Put, buf, old
    <2>2. Written(old, pos[d], buf) \in Seq(Text)
      BY <1>4, WrittenTyped
    <2>3. /\ TextFiles(data') /\ data'[file[d]] = Written(old, pos[d], buf)
          /\ \A g \in File : g # file[d] => data'[g] = data[g]
      BY <1>1, <1>2, <2>1, <2>2 DEF PrintTyped, TextFiles
    <2>4. /\ buffer' \in [Device -> Seq(Char)] /\ buffer'[d] = <<c>>
          /\ pos' \in [Device -> Nat] /\ pos'[d] = pos[d] + Len(buf)
          /\ \A e \in Device : e # d => buffer'[e] = buffer[e] /\ pos'[e] = pos[e]
      BY <1>1, <1>4, <1>5, <2>1 DEF PrintTyped
    <2>5. \A e \in Device : Len(buffer'[e]) <= Size
      <3>1. Len(buffer'[d]) <= Size
        BY <1>5, <2>4, DeviceAssumption
      <3>2. ASSUME NEW e \in Device, e # d PROVE Len(buffer'[e]) <= Size
        BY <1>1, <2>4, <3>2 DEF PrintTyped
      <3> QED
        BY <3>1, <3>2
    <2>6. PrintTyped'
      BY <1>1, <1>3, <1>6, <1>7, <2>3, <2>4, <2>5 DEF PrintTyped
    <2>7. ASSUME NEW x \in Live' \ overrun' PROVE KeptOf(x)'
      <3>1. x \in Live \ overrun /\ x \in Device
        BY <1>2 DEF Live
      <3>2. CASE x = d
        <4>1. Written(old, pos[d], buf) = old \o buf
          BY <1>4, <1>9, <3>1, <3>2, WrittenAtEnd
        <4>2. Len(old \o buf) = Len(old) + Len(buf)
          BY <1>4, ConcatProperties, SeqMonotonic DEF Text
        <4>3. (old \o buf) \o <<c>> = old \o Append(buf, c)
          <5>1. buf \in Seq(Text) /\ <<c>> \in Seq(Text) /\ Append(buf, c) = buf \o <<c>>
            BY <1>4, SeqMonotonic DEF Text
          <5> QED
            BY <1>4, <5>1, ConcatAssociative
        <4> QED
          BY <1>9, <2>3, <2>4, <3>1, <3>2, <4>1, <4>2, <4>3 DEF KeptOf
      <3>3. CASE x # d
        <4>1. file[x] \in File /\ file[x] # file[d]
          BY <1>1, <1>2, <3>1, <3>3, LiveFile DEF SoleWriter
        <4> QED
          BY <1>1, <1>6, <2>3, <2>4, <3>1, <3>3, <4>1 DEF AllKept, KeptOf
      <3> QED
        BY <3>2, <3>3
    <2> QED
      BY <1>3, <1>8, <2>6, <2>7 DEF AllKept, BootedEmpty
  <1> QED
    BY <1>10, <1>11, <1>12

\* Calls 4 and 5.
LEMMA PrintCharPrint ==
  ASSUME PrintInv, NEW d \in Device, NEW c \in Char, PrintChar(d, c)
  PROVE  PrintInv'
  <1>1. StreamsInv /\ StreamsInv'
    BY PrintCharStreams DEF PrintInv
  <1>2. CASE Opens(d) /\ OpenStream(d, c)
    BY <1>1, <1>2, OpenStreamPrint DEF PrintInv
  <1>3. CASE Opens(d) /\ OpenRefused(d)
    <2>1. dev' = [dev EXCEPT ![d] = "null"] /\ UNCHANGED <<data, file, pos, buffer, overrun>>
      BY <1>3 DEF OpenRefused
    <2>2. /\ dev' \in [Device -> {"null", "live", "closed"}] /\ dev'[d] = "null"
          /\ \A e \in Device : e # d => dev'[e] = dev[e]
      BY <1>1, <2>1 DEF StreamsInv
    <2> QED
      BY <1>1, <2>1, <2>2, DroppedPrint DEF PrintInv
  <1>4. CASE /\ ~Opens(d) /\ dev[d] = "null"
             /\ UNCHANGED <<names, data, dev, file, pos, buffer, overrun>>
    BY <1>1, <1>4, DroppedPrint DEF PrintInv, StreamsInv
  <1>5. CASE ~Opens(d) /\ dev[d] = "live" /\ Put(d, c) /\ UNCHANGED <<names, dev, file, overrun>>
    BY <1>1, <1>5, PutPrint DEF PrintInv
  <1> QED
    BY <1>2, <1>3, <1>4, <1>5 DEF PrintChar

\* What keeps the invariant when no device opens: the streams that stay live keep
\* their buffers, and their files keep what they hold.
LEMMA StreamsStay ==
  ASSUME PrintInv, StreamsInv', TextFiles(data'), Live' \subseteq Live,
         UNCHANGED <<overrun, booted>>,
         \A d \in Live' : /\ file'[d] = file[d] /\ pos'[d] = pos[d]
                          /\ buffer'[d] = buffer[d] /\ printed'[d] = printed[d],
         \A d \in Live' \ overrun : data'[file[d]] = data[file[d]]
  PROVE  SoleWriter' /\ AllKept' /\ BootedEmpty'
  <1>1. \A d \in Live' \ overrun' : d \in Live \ overrun
    BY DEF Live
  <1>2. SoleWriter'
    BY <1>1 DEF PrintInv, SoleWriter
  <1>3. ASSUME NEW d \in Live' \ overrun' PROVE KeptOf(d)'
    <2>1. KeptOf(d) /\ data'[file[d]] = data[file[d]] /\ file'[d] = file[d]
      BY <1>1, <1>3 DEF PrintInv, AllKept
    <2> QED
      BY <1>3, <2>1 DEF KeptOf
  <1> QED
    BY <1>2, <1>3 DEF AllKept, BootedEmpty, PrintInv

\* Call 22: the file is in no use, so no stream writes to it.
LEMMA MakeFilePrint ==
  ASSUME PrintInv, NEW e \in Dir, MakeFile(e)
  PROVE  PrintInv'
  <1>1. StreamsInv /\ StreamsInv' /\ PrintTyped
    BY MakeFileStreams DEF PrintInv
  <1>2. /\ Unused # {} /\ data' = [data EXCEPT ![Fresh] = <<>>]
        /\ UNCHANGED <<open, dev, file, pos, buffer, printed, overrun, booted>>
    BY DEF MakeFile, streamVars, viewVars
  <1>3. Fresh \in Unused
    BY <1>2 DEF Fresh
  <1>4. \A d \in Live : file[d] # Fresh /\ file[d] \in File
    BY <1>1, <1>3, LiveFile DEF Unused
  <1>5. TextFiles(data') /\ \A d \in Live : data'[file[d]] = data[file[d]]
    BY <1>1, <1>2, <1>4, EmptySeq DEF PrintTyped, TextFiles
  <1>6. Live' = Live
    BY <1>2 DEF Live
  <1>7. SoleWriter' /\ AllKept' /\ BootedEmpty'
    BY <1>1, <1>2, <1>5, <1>6, StreamsStay
  <1>8. PrintTyped'
    BY <1>1, <1>2, <1>5 DEF PrintTyped
  <1> QED
    BY <1>1, <1>7, <1>8 DEF PrintInv

\* Call 19: the devices it closes are flushed, and those it leaves keep their file.
LEMMA DeleteFilePrint ==
  ASSUME PrintInv, NEW p \in Place, NEW ns \in SUBSET Name, DeleteFile(p, ns)
  PROVE  PrintInv'
  <1> DEFINE ds == Closes(p, ns)
             all == Flushed(Lst, Pun, ds)
  <1>1. StreamsInv /\ StreamsInv' /\ PrintTyped
    BY DeleteFileStreams DEF PrintInv
  <1>2. CASE ~(ds \subseteq Live)
    <2>1. UNCHANGED <<data, streamVars, viewVars>>
      BY <1>2 DEF DeleteFile
    <2> QED
      BY <1>1, <2>1 DEF PrintInv, PrintTyped, TextFiles, SoleWriter, AllKept, KeptOf,
                        BootedEmpty, Live, streamVars, viewVars
  <1>3. CASE ds \subseteq Live
    <2>1. CloseStreams(ds) /\ data' = Kept(all) /\ booted' = booted
      BY <1>3 DEF DeleteFile
    <2>2. TextFiles(all) /\ \A x \in Live \ overrun : x \notin ds => all[file[x]] = data[file[x]]
      BY FlushedData, DeviceAssumption DEF Device
    <2> HIDE DEF ds, all
    <2>3. /\ open' = [d \in Device |-> open[d] /\ d \notin ds]
          /\ dev' = [d \in Device |-> IF d \in ds THEN "closed" ELSE dev[d]]
          /\ file' = [d \in Device |-> IF d \in ds THEN 0 ELSE file[d]]
          /\ overrun' = overrun \ ds
      BY <2>1 DEF CloseStreams, Closed
    <2>4. /\ pos' = [d \in Device |-> IF d \in ds THEN 0 ELSE pos[d]]
          /\ buffer' = [d \in Device |-> IF d \in ds THEN <<>> ELSE buffer[d]]
          /\ printed' = [d \in Device |-> IF d \in ds THEN <<>> ELSE printed[d]]
      BY <2>1 DEF CloseStreams
    <2>5. Live' = Live \ ds
      BY <2>3 DEF Live
    <2>6. \A d \in Live' : /\ file'[d] = file[d] /\ pos'[d] = pos[d]
                           /\ buffer'[d] = buffer[d] /\ printed'[d] = printed[d]
      BY <2>3, <2>4, <2>5 DEF Live
    <2>7. /\ TextFiles(data')
          /\ \A d \in Live' \ overrun : data'[file[d]] = data[file[d]]
      BY <1>1, <2>1, <2>2, <2>5, <2>6, KeptData
    <2>9. SoleWriter' /\ AllKept'
      <3>1. \A d \in Live' \ overrun' : d \in Live \ overrun
        BY <2>3, <2>5
      <3>2. SoleWriter'
        BY <2>5, <2>6, <3>1 DEF PrintInv, SoleWriter
      <3>3. ASSUME NEW d \in Live' \ overrun' PROVE KeptOf(d)'
        BY <2>6, <2>7, <3>1, <3>3 DEF PrintInv, AllKept, KeptOf
      <3> QED
        BY <3>2, <3>3 DEF AllKept
    <2>10. BootedEmpty'
      BY <2>1, <2>5, <2>6 DEF PrintInv, BootedEmpty
    <2>11. PrintTyped'
      <3>1. \A d \in Device : open'[d] => dev'[d] # "closed"
        BY <1>1, <2>3 DEF PrintTyped
      <3>2. <<>> \in Seq(Char) /\ Len(<<>>) <= Size
        BY DeviceAssumption
      <3>3. /\ pos' \in [Device -> Nat] /\ buffer' \in [Device -> Seq(Char)]
            /\ printed' \in [Device -> Seq(Char)] /\ \A d \in Device : Len(buffer'[d]) <= Size
        BY <1>1, <2>4, <3>2 DEF PrintTyped
      <3> QED
        BY <1>1, <2>1, <2>3, <2>7, <3>1, <3>3 DEF PrintTyped
    <2> QED
      BY <1>1, <2>9, <2>10, <2>11 DEF PrintInv
  <1> QED
    BY <1>2, <1>3

\* Call 23 leaves the streams alone, and the files they write to.
LEMMA RenameFilePrint ==
  ASSUME PrintInv, NEW p \in Place, NEW n \in Name, NEW m \in Name, RenameFile(p, n, m)
  PROVE  PrintInv'
  <1>1. StreamsInv /\ StreamsInv' /\ PrintTyped
    BY RenameFileStreams DEF PrintInv
  <1>2. /\ data' = Kept(data)
        /\ UNCHANGED <<open, dev, file, pos, buffer, printed, overrun, booted>>
    BY DEF RenameFile, streamVars
  <1>3. Live' = Live
    BY <1>2 DEF Live
  <1>4. TextFiles(data') /\ \A d \in Live : data'[file[d]] = data[file[d]]
    BY <1>1, <1>2, <1>3, KeptData DEF PrintTyped
  <1>5. SoleWriter' /\ AllKept' /\ BootedEmpty'
    BY <1>1, <1>2, <1>3, <1>4, StreamsStay
  <1>6. PrintTyped'
    BY <1>1, <1>2, <1>4 DEF PrintTyped
  <1> QED
    BY <1>1, <1>5, <1>6 DEF PrintInv

\* A warm boot flushes every live device: what was in its buffer is in its file.
LEMMA WarmBootPrint ==
  ASSUME PrintInv, WarmBoot
  PROVE  PrintInv'
  <1> DEFINE ds == BootFlushes
             all == Flushed(Pun, Lst, ds)
  <1>1. StreamsInv /\ StreamsInv' /\ PrintTyped
    BY WarmBootStreams DEF PrintInv
  <1>2. UNCHANGED <<open, dev, file, printed, overrun>> /\ Live' = Live
    BY DEF WarmBoot, Live
  <1>3. SoleWriter'
    BY <1>2 DEF PrintInv, SoleWriter
  <1>4. CASE UNCHANGED <<data, pos, buffer, booted>>
    BY <1>1, <1>2, <1>3, <1>4 DEF PrintInv, PrintTyped, TextFiles, AllKept, KeptOf, BootedEmpty
  <1>5. CASE /\ data' = all /\ booted' = TRUE
             /\ pos' = [d \in Device |-> IF d \in ds \cap Live
                                          THEN pos[d] + Len(buffer[d]) ELSE pos[d]]
             /\ buffer' = [d \in Device |-> IF d \in ds \cap Live THEN <<>> ELSE buffer[d]]
    <2>1. Live \subseteq ds /\ Live \subseteq Device
      BY DEF BootFlushes, Live
    <2>2. /\ TextFiles(all)
          /\ \A x \in Live \ overrun :
                all[file[x]] = IF x \in ds THEN data[file[x]] \o buffer[x] ELSE data[file[x]]
      BY FlushedData, DeviceAssumption DEF Device
    <2>3. \A x \in Live \ overrun : data'[file[x]] = data[file[x]] \o buffer[x]
      BY <1>5, <2>1, <2>2
    <2> HIDE DEF ds, all
    <2>4. \A d \in Live : buffer'[d] = <<>> /\ pos'[d] = pos[d] + Len(buffer[d])
      BY <1>5, <2>1
    <2>5. ASSUME NEW x \in Live' \ overrun' PROVE KeptOf(x)'
      <3>1. x \in Live \ overrun /\ KeptOf(x) /\ file'[x] = file[x] /\ printed'[x] = printed[x]
        BY <1>2, <2>5 DEF PrintInv, AllKept
      <3>2. data[file[x]] \in Seq(Text) /\ buffer[x] \in Seq(Text)
        <4>1. buffer[x] \in Seq(Char) /\ data[file[x]] \in Seq(Text)
          BY <1>1, <2>1, <3>1, LiveFile DEF PrintTyped, TextFiles
        <4> QED
          BY <4>1, SeqMonotonic DEF Text
      <3>3. data[file[x]] \o buffer[x] \in Seq(Text)
            /\ Len(data[file[x]] \o buffer[x]) = Len(data[file[x]]) + Len(buffer[x])
        BY <3>2, ConcatProperties
      <3>4. (data[file[x]] \o buffer[x]) \o <<>> = data[file[x]] \o buffer[x]
        BY <3>3, ConcatEmptySeq
      <3> QED
        BY <2>3, <2>4, <3>1, <3>3, <3>4 DEF KeptOf
    <2>6. PrintTyped'
      <3>1. <<>> \in Seq(Char) /\ Len(<<>>) <= Size
        BY DeviceAssumption
      <3>2. buffer' \in [Device -> Seq(Char)] /\ \A d \in Device : Len(buffer'[d]) <= Size
        BY <1>1, <1>5, <3>1 DEF PrintTyped
      <3>3. \A d \in Device : Len(buffer[d]) \in Nat
        BY <1>1 DEF PrintTyped
      <3>4. pos' \in [Device -> Nat]
        BY <1>1, <1>5, <3>3 DEF PrintTyped
      <3> QED
        BY <1>1, <1>2, <1>5, <2>2, <3>2, <3>4 DEF PrintTyped, all
    <2>7. BootedEmpty'
      BY <1>2, <2>4 DEF BootedEmpty
    <2> QED
      BY <1>1, <1>3, <2>5, <2>6, <2>7 DEF PrintInv, AllKept
  <1> QED
    BY <1>4, <1>5 DEF WarmBoot

LEMMA NextPrint == PrintInv /\ [Next]_vars => PrintInv'
  <1> SUFFICES ASSUME PrintInv, [Next]_vars PROVE PrintInv'
    OBVIOUS
  <1>1. CASE UNCHANGED vars
    <2>1. StreamsInv'
      BY <1>1, NextStreams DEF PrintInv
    <2> QED
      BY <1>1, <2>1 DEF PrintInv, PrintTyped, TextFiles, SoleWriter, AllKept, KeptOf,
                        BootedEmpty, Live, vars, streamVars, viewVars
  <1>2. ASSUME NEW d \in Device, NEW c \in Char, PrintChar(d, c) PROVE PrintInv'
    BY <1>2, PrintCharPrint
  <1>3. ASSUME NEW e \in Dir, MakeFile(e) PROVE PrintInv'
    BY <1>3, MakeFilePrint
  <1>4. ASSUME NEW p \in Place, NEW ns \in SUBSET Name, DeleteFile(p, ns)
        PROVE  PrintInv'
    BY <1>4, DeleteFilePrint
  <1>5. ASSUME NEW p \in Place, NEW n \in Name, NEW m \in Name, RenameFile(p, n, m)
        PROVE  PrintInv'
    BY <1>5, RenameFilePrint
  <1>6. CASE WarmBoot
    BY <1>6, WarmBootPrint
  <1> QED
    BY <1>1, <1>2, <1>3, <1>4, <1>5, <1>6 DEF Next

LEMMA PrintImplies == PrintInv => TypeOK /\ PrintedKept /\ FlushedAtBoot
  <1> SUFFICES ASSUME PrintInv PROVE TypeOK /\ PrintedKept /\ FlushedAtBoot
    OBVIOUS
  <1>1. StreamsInv /\ PrintTyped /\ AllKept /\ BootedEmpty
    BY DEF PrintInv
  <1>2. TypeOK
    <2>1. \A d \in Device : IF open[d] THEN dev[d] # "closed" ELSE dev[d] # "live"
      BY <1>1 DEF StreamsInv, PrintTyped
    <2> QED
      BY <1>1, <2>1 DEF TypeOK, StreamsInv, PrintTyped, TextFiles, Text
  <1>3. \A d \in Live : data[file[d]] \in Seq(Text) /\ buffer[d] \in Seq(Char)
    BY <1>1, LiveFile DEF PrintTyped, TextFiles
  <1>4. PrintedKept
    BY <1>1, <1>3, WrittenAtEnd DEF PrintedKept, AllKept, KeptOf
  <1>5. FlushedAtBoot
    <2>1. ASSUME booted, NEW d \in Live \ overrun PROVE data[file[d]] = printed[d]
      <3>1. printed[d] = data[file[d]] \o <<>>
        BY <1>1, <2>1 DEF AllKept, KeptOf, BootedEmpty
      <3> QED
        BY <1>3, <3>1, ConcatEmptySeq
    <2> QED
      BY <2>1 DEF FlushedAtBoot
  <1> QED
    BY <1>2, <1>4, <1>5

\* Type invariant; a device that counts as open has no dangling pointer, so
\* nothing is printed to a closed stream.
THEOREM TypeCorrect == Spec => []TypeOK
  BY InitPrint, NextPrint, PrintImplies, PTL DEF Spec

\* The host's file and the buffer of a device make up what was printed since it
\* was opened, through every make, rename and delete, as long as no two devices
\* share a file (calls 4 and 5, fclose in _DeleteFile).
THEOREM PrintedIsKept == Spec => []PrintedKept
  BY InitPrint, NextPrint, PrintImplies, PTL DEF Spec

\* After a warm boot the host has all of it, until more is printed (main's fflush).
THEOREM BootFlushesAll == Spec => []FlushedAtBoot
  BY InitPrint, NextPrint, PrintImplies, PTL DEF Spec
===============================================================================
