---------------------------- MODULE LineInputProofs ----------------------------
(***************************************************************************)
(* Theorems about LineInput, for every size of memory and of bytes: types, *)
(* the room the line editor has, what it writes, and that it implements    *)
(* LineEditor.                                                             *)
(***************************************************************************)
EXTENDS LineInput, SequenceTheorems, TLAPS

LineInv == TypeOK /\ RoomLeft

LEMMA Sizes ==
    /\ MaxByte \in Nat \ {0} /\ MemSize \in Nat \ {0} /\ MemSize > MaxByte + 2
    /\ Limit \subseteq Byte /\ Char \cap Byte = {}
  BY MemoryAssumption DEF Byte

\* An address is its own remainder; one past the end begins again.
LEMMA WordValue ==
    ASSUME NEW n \in Int
    PROVE  /\ Word(n) \in Addr
           /\ n \in Addr => Word(n) = n
           /\ n \in MemSize..(2 * MemSize - 1) => Word(n) = n - MemSize
           /\ n \in (-MemSize)..(-1) => Word(n) = n + MemSize
  <1>1. PICK q \in Int, r \in 0..(MemSize - 1) : n = MemSize * q + r /\ Word(n) = r
    BY Sizes DEF Word
  <1>2. Word(n) \in Addr
    BY <1>1, Sizes DEF Addr
  <1>3. n \in Addr => q = 0
    BY <1>1, Sizes DEF Addr
  <1>4. n \in MemSize..(2 * MemSize - 1) => q = 1
    BY <1>1, Sizes
  <1>5. n \in (-MemSize)..(-1) => q = -1
    BY <1>1, Sizes
  <1> QED
    BY <1>1, <1>2, <1>3, <1>4, <1>5, Sizes

\* Where the n-th character goes: n + 1 places behind the limit, and so neither
\* on the limit nor on the count.
LEMMA SlotPlace ==
    ASSUME TypeOK, NEW n \in 1..MaxByte
    PROVE  /\ Slot(n) \in Addr /\ Slot(n) # DE /\ Slot(n) # i
           /\ i \in Addr /\ i # DE
           /\ Word(Slot(n) - DE) = n + 1 /\ Word(i - DE) = 1
  <1>1. DE \in 0..(MemSize - 1) /\ i = Word(DE + 1)
    BY DEF TypeOK, Addr
  <1>2. i = IF DE + 1 < MemSize THEN DE + 1 ELSE 0
    BY <1>1, Sizes, WordValue DEF Addr
  <1>3. i \in 0..(MemSize - 1) /\ i # DE
    BY <1>1, <1>2, Sizes
  <1>4. Slot(n) = IF i + n < MemSize THEN i + n ELSE i + n - MemSize
    BY <1>3, Sizes, WordValue, i + n \in Int DEF Slot, Addr
  <1>5. Slot(n) \in 0..(MemSize - 1) /\ Slot(n) # DE /\ Slot(n) # i
    BY <1>1, <1>2, <1>3, <1>4, Sizes
  <1>6. Slot(n) - DE = n + 1 \/ Slot(n) - DE = n + 1 - MemSize
    BY <1>1, <1>2, <1>4, Sizes
  <1>7. Word(Slot(n) - DE) = n + 1
    <2>1. Slot(n) - DE \in Int
      BY <1>1, <1>5
    <2>2. CASE Slot(n) - DE = n + 1
      BY <2>1, <2>2, Sizes, WordValue DEF Addr
    <2>3. CASE Slot(n) - DE = n + 1 - MemSize
      BY <2>1, <2>3, Sizes, WordValue
    <2> QED
      BY <1>6, <2>2, <2>3
  <1>8. Word(i - DE) = 1
    <2>1. i - DE = 1 \/ i - DE = 1 - MemSize
      BY <1>1, <1>2, Sizes
    <2>2. i - DE \in Int
      BY <1>1, <1>3
    <2>3. CASE i - DE = 1
      BY <2>2, <2>3, Sizes, WordValue DEF Addr
    <2>4. CASE i - DE = 1 - MemSize
      BY <2>2, <2>4, Sizes, WordValue
    <2> QED
      BY <2>1, <2>3, <2>4
  <1> QED
    BY <1>3, <1>5, <1>7, <1>8 DEF Addr

-----------------------------------------------------------------------------
(* Types, and the room there is.                                           *)

LEMMA InitLine == Init => LineInv
  <1>1. 0 \in Addr /\ 0 \in Byte /\ 1 = Word(0 + 1)
    BY Sizes, WordValue DEF Addr, Byte
  <1> QED
    BY <1>1 DEF Init, LineInv, TypeOK, RoomLeft

\* What a turn of the loop does to the variables that the invariant is about.
LEMMA KeyLine ==
    ASSUME LineInv, ReadKey
    PROVE  LineInv'
  <1> DEFINE k == Head(keys)
  <1>1. /\ reading /\ keys \in Seq(Key) /\ keys # <<>>
        /\ keys' = Tail(keys) /\ DE' = DE /\ i' = i
    BY DEF ReadKey, LineInv, TypeOK
  <1>2. keys' \in Seq(Key)
    BY <1>1
  <1>3. /\ RAM \in [Addr -> Byte \cup Char] /\ DE \in Addr /\ i \in Addr /\ i # DE
        /\ c \in Byte /\ count \in Byte /\ Status \in {0, 2}
        /\ c = RAM[DE] /\ count < c
    BY <1>1, SlotPlace, Sizes DEF LineInv, TypeOK, RoomLeft
  <1>4. SUFFICES /\ RAM' \in [Addr -> Byte \cup Char] /\ c' \in Byte /\ count' \in Byte
                 /\ reading' \in BOOLEAN /\ Status' \in {0, 2}
                 /\ reading' => c' = RAM'[DE] /\ count' < c'
    BY <1>1, <1>2, <1>3 DEF LineInv, TypeOK, RoomLeft
  <1>5. ASSUME NEW m \in [Addr -> Byte \cup Char], NEW n \in Byte, Finish(m, n)
        PROVE  RAM' \in [Addr -> Byte \cup Char] /\ reading' = FALSE /\ count' = 0
    BY <1>5 DEF Finish
  <1>6. 0 \in Byte
    BY Sizes DEF Byte
  <1>7. CASE Interrupt(k)
    BY <1>3, <1>5, <1>6, <1>7 DEF Interrupt
  <1>8. CASE NewRow(k) \/ Redraw(k) \/ Skip(k)
    BY <1>1, <1>3, <1>8 DEF NewRow, Redraw, Skip, Unread
  <1>9. CASE RubOut(k)
    BY <1>1, <1>3, <1>9, Sizes DEF RubOut, Unread, Byte
  <1>10. CASE EndLine(k)
    BY <1>3, <1>5, <1>6, <1>10 DEF EndLine
  <1>11. CASE Restart(k) \/ EraseLine(k)
    <2>1. /\ count' = 0 /\ c' = c /\ RAM' = RAM /\ reading' = reading
          /\ Status' = Status
      BY <1>3, <1>11 DEF Restart, EraseLine, Unread
    <2>2. 0 < c
      BY <1>3, Sizes DEF Byte
    <2> QED
      BY <1>1, <1>3, <1>6, <2>1, <2>2
  <1>12. CASE Store(k)
    <2> DEFINE m == [RAM EXCEPT ![Slot(count + 1)] = k]
    <2>1. /\ k \in Char /\ c' = c /\ Status' = Status
          /\ IF Full(count + 1)
               THEN Finish(m, count + 1)
               ELSE RAM' = m /\ count' = count + 1 /\ Unread
      BY <1>12 DEF Store
    <2>2. count + 1 \in 1..MaxByte /\ count + 1 \in Byte
      BY <1>3, Sizes DEF Byte
    <2>3. Slot(count + 1) # DE
      BY <2>2, SlotPlace DEF LineInv
    <2>4. m \in [Addr -> Byte \cup Char] /\ m[DE] = c
      BY <1>3, <2>1, <2>3
    <2>5. CASE Full(count + 1)
      <3>1. Finish(m, count + 1)
        BY <2>1, <2>5
      <3> HIDE DEF m
      <3> QED
        BY <1>3, <1>5, <1>6, <2>1, <2>2, <2>4, <3>1
    <2>6. CASE ~Full(count + 1)
      <3>1. RAM' = m /\ count' = count + 1 /\ reading' = reading
        BY <2>1, <2>6 DEF Unread
      <3>2. count + 1 < c
        BY <1>3, <2>2, <2>6, Sizes DEF Full, Byte
      <3> HIDE DEF m
      <3> QED
        BY <1>1, <1>3, <2>1, <2>2, <2>4, <3>1, <3>2
    <2> QED
      BY <2>5, <2>6
  <1> QED
    BY <1>7, <1>8, <1>9, <1>10, <1>11, <1>12 DEF ReadKey

LEMMA StepLine ==
    ASSUME LineInv, [Next]_vars
    PROVE  LineInv'
  <1> USE DEF LineInv, TypeOK, RoomLeft
  <1>1. CASE \E de \in Addr, n \in Limit, p \in Prompt : ReadLine(de, n, p)
    <2>1. PICK de \in Addr, n \in Limit, p \in Prompt : ReadLine(de, n, p)
      BY <1>1
    <2>2. n \in Byte /\ 0 \in Byte /\ Word(de + 1) = Word(DE' + 1)
      BY <2>1, Sizes DEF ReadLine, Byte
    <2>3. RAM' \in [Addr -> Byte \cup Char] /\ RAM'[DE'] = n
      BY <2>1, <2>2 DEF ReadLine
    <2> QED
      BY <2>1, <2>2, <2>3, Sizes DEF ReadLine, Byte
  <1>2. CASE ReadKey
    BY <1>2, KeyLine
  <1>3. CASE SingleKey
    BY <1>3 DEF SingleKey, lineVars
  <1>4. CASE \E k \in Key : Press(k)
    BY <1>4 DEF Press, lineVars
  <1>5. CASE WarmBoot
    BY <1>5 DEF WarmBoot, lineVars
  <1>6. CASE UNCHANGED vars
    BY <1>6 DEF vars, lineVars
  <1> QED
    BY <1>1, <1>2, <1>3, <1>4, <1>5, <1>6 DEF Next

\* A line never grows over its limit: the invariant that the others rest on.
LEMMA LineCorrect == Spec => []LineInv
  BY InitLine, StepLine, PTL DEF Spec

\* The line editor's variables have their types.
THEOREM TypeCorrect == Spec => []TypeOK
  <1>1. LineInv => TypeOK
    BY DEF LineInv
  <1> QED
    BY <1>1, LineCorrect, PTL

\* The limit is not overwritten and not reached before the line ends, so that the
\* loop of ^R over a byte ends, for every size of memory and of byte (call 10).
THEOREM RoomCorrect == Spec => []RoomLeft
  <1>1. LineInv => RoomLeft
    BY DEF LineInv
  <1> QED
    BY <1>1, LineCorrect, PTL

-----------------------------------------------------------------------------
(* What the editor writes.                                                 *)

\* The addresses of a buffer.
LEMMA StepWrites ==
    ASSUME LineInv, reading, [Next]_vars, NEW m \in Addr, RAM'[m] # RAM[m]
    PROVE  Word(m - DE) \in 1..(c + 1)
  <1>1. RAM \in [Addr -> Byte \cup Char] /\ c \in Byte /\ count \in Byte /\ count < c
    BY DEF LineInv, TypeOK, RoomLeft
  <1>2. ReadKey
    BY DEF Next, ReadLine, SingleKey, Press, WarmBoot, vars
  <1>3. m = i \/ m = Slot(count + 1)
    <2> DEFINE k == Head(keys)
    <2>1. ASSUME NEW n \in Byte, NEW f \in [Addr -> Byte \cup Char],
                 \A x \in Addr : x # Slot(count + 1) => f[x] = RAM[x], Finish(f, n)
          PROVE  m = i \/ m = Slot(count + 1)
      BY <2>1 DEF Finish
    <2>2. 0 \in Byte
      BY Sizes DEF Byte
    <2>3. CASE Interrupt(k)
      BY <1>1, <2>1, <2>2, <2>3 DEF Interrupt
    <2>4. CASE EndLine(k)
      BY <1>1, <2>1, <2>4 DEF EndLine
    <2>5. CASE Store(k)
      <3> DEFINE f == [RAM EXCEPT ![Slot(count + 1)] = k]
      <3>1. k \in Char /\ count + 1 \in Byte /\ (Finish(f, count + 1) \/ RAM' = f)
        BY <1>1, <2>5, Sizes DEF Store, Byte
      <3>2. /\ f \in [Addr -> Byte \cup Char]
            /\ \A x \in Addr : x # Slot(count + 1) => f[x] = RAM[x]
        BY <1>1, <3>1
      <3> HIDE DEF f
      <3> QED
        BY <2>1, <3>1, <3>2
    <2> QED
      BY <1>2, <2>3, <2>4, <2>5
         DEF ReadKey, NewRow, RubOut, Redraw, Restart, EraseLine, Skip
  <1>4. count + 1 \in 1..MaxByte /\ count + 2 \in 1..(c + 1) /\ 1 \in 1..(c + 1)
    BY <1>1, Sizes DEF Byte
  <1>5. Word(Slot(count + 1) - DE) = (count + 1) + 1 /\ Word(i - DE) = 1
    BY <1>4, SlotPlace DEF LineInv
  <1>6. (count + 1) + 1 = count + 2
    BY <1>1, Sizes DEF Byte
  <1> QED
    BY <1>3, <1>4, <1>5, <1>6

\* A line is written inside its buffer, in a memory of any size and wherever the
\* buffer is (call 10).
THEOREM BufferOnly == Spec => WritesBuffer
  <1>1. LineInv /\ [Next]_vars
          => (reading => \A m \in Addr : RAM'[m] # RAM[m] => Word(m - DE) \in 1..(c + 1))
    BY StepWrites
  <1> QED
    BY <1>1, LineCorrect, PTL DEF Spec, WritesBuffer

-----------------------------------------------------------------------------
(* The refinement of LineEditor.                                           *)

\* The line the buffer holds, as the refinement mapping reads it.
Line == IF reading THEN Text(RAM, i, count) ELSE <<>>

LEMMA TextSlots ==
    ASSUME NEW n \in Nat
    PROVE  /\ Text(RAM, i, n) = [j \in 1..n |-> RAM[Slot(j)]]
           /\ Len(Text(RAM, i, n)) = n
  BY DEF Text, Slot

\* Memory that is the same on n characters holds the same line.
LEMMA TextSame ==
    ASSUME NEW n \in Nat, NEW f, NEW g, NEW s,
           \A j \in 1..n : f[Word(s + j)] = g[Word(s + j)]
    PROVE  Text(f, s, n) = Text(g, s, n)
  BY DEF Text

\* The count is stored outside the line.
LEMMA FinishAnswer ==
    ASSUME TypeOK, NEW f \in [Addr -> Byte \cup Char], NEW n \in Byte, Finish(f, n)
    PROVE  answer' = Text(f, i, n) /\ reading' = FALSE
  <1>1. ASSUME NEW j \in 1..n
        PROVE  RAM'[Word(i + j)] = f[Word(i + j)]
    <2>1. j \in 1..MaxByte
      BY Sizes DEF Byte
    <2> QED
      BY <2>1, SlotPlace DEF Finish, Slot
  <1>2. n \in Nat
    BY Sizes DEF Byte
  <1>3. Text(RAM', i, n) = Text(f, i, n)
    BY <1>1, <1>2, TextSame
  <1> QED
    BY <1>3 DEF Finish

\* Where different characters go.
LEMMA SlotsApart ==
    ASSUME TypeOK, NEW n \in 1..MaxByte, NEW j \in 1..MaxByte, n # j
    PROVE  Slot(n) # Slot(j)
  BY SlotPlace, Sizes

\* A character stored behind the line is added to it.
LEMMA TextAppend ==
    ASSUME TypeOK, NEW k \in Char, NEW n \in Nat, n < MaxByte
    PROVE  Text([RAM EXCEPT ![Slot(n + 1)] = k], i, n + 1) = Append(Text(RAM, i, n), k)
  <1> DEFINE f == [RAM EXCEPT ![Slot(n + 1)] = k]
  <1>1. RAM \in [Addr -> Byte \cup Char]
    BY DEF TypeOK
  <1>2. n + 1 \in 1..MaxByte
    BY Sizes
  <1>3. Slot(n + 1) \in Addr /\ f[Slot(n + 1)] = k
    BY <1>1, <1>2, SlotPlace
  <1>4. ASSUME NEW j \in 1..n
        PROVE  f[Slot(j)] = RAM[Slot(j)]
    <2>1. j \in 1..MaxByte /\ j # n + 1
      BY Sizes
    <2>2. Slot(j) # Slot(n + 1) /\ Slot(j) \in Addr
      BY <1>2, <2>1, SlotsApart, SlotPlace
    <2> QED
      BY <1>1, <2>2
  <1>5. Text(f, i, n + 1) = [j \in 1..(n + 1) |-> f[Slot(j)]]
    BY DEF Text, Slot
  <1>6. Text(RAM, i, n) = [j \in 1..n |-> RAM[Slot(j)]]
    BY DEF Text, Slot
  <1> HIDE DEF f
  <1>7. Append([j \in 1..n |-> RAM[Slot(j)]], k)
          = [j \in 1..(n + 1) |-> IF j = n + 1 THEN k ELSE RAM[Slot(j)]]
    OBVIOUS
  <1>8. \A j \in 1..(n + 1) : f[Slot(j)] = IF j = n + 1 THEN k ELSE RAM[Slot(j)]
    BY <1>3, <1>4
  <1>9. Text(f, i, n + 1) = Append(Text(RAM, i, n), k)
    BY <1>5, <1>6, <1>7, <1>8
  <1> QED
    BY <1>9 DEF f

LEMMA InitEditor == Init => Editor!Init
  BY DEF Init, Editor!Init

\* What each turn of the loop is to the editor.
LEMMA KeyEditor ==
    ASSUME LineInv, ReadKey
    PROVE  Editor!Next \/ UNCHANGED Editor!vars
  <1> DEFINE k == Head(keys)
  <1> USE DEF Editor!vars, Line
  <1>1. /\ reading /\ DE' = DE /\ i' = i /\ TypeOK
        /\ keys \in Seq(Key) /\ keys # <<>> /\ k \in Key
    BY DEF ReadKey, LineInv, TypeOK
  <1>2. /\ RAM \in [Addr -> Byte \cup Char] /\ c = RAM[DE] /\ c \in Nat /\ count \in Nat
        /\ count < c /\ c <= MaxByte /\ Status \in {0, 2}
    BY <1>1, Sizes DEF LineInv, TypeOK, RoomLeft, Byte
  <1>3. Line = Text(RAM, i, count) /\ Len(Line) = count
    BY <1>1, <1>2, TextSlots
  <1>4. 0 \in Byte /\ count \in Byte /\ count + 1 \in Byte
    BY <1>2, Sizes DEF Byte
  <1>5. ASSUME NEW f \in [Addr -> Byte \cup Char], NEW n \in Byte, Finish(f, n)
        PROVE  answer' = Text(f, i, n) /\ ~reading' /\ reading' = FALSE /\ Line' = <<>>
    BY <1>1, <1>5, FinishAnswer
  <1>6. CASE Interrupt(k)
    <2>1. Line = <<>> /\ Text(RAM, i, 0) = <<>>
      BY <1>3, <1>6, TextSlots DEF Interrupt
    <2>2. Finish(RAM, 0) /\ c' = c /\ Status' = 2
      BY <1>6 DEF Interrupt
    <2>3. answer' = Text(RAM, i, 0) /\ reading' = FALSE /\ Line' = <<>>
      BY <1>2, <1>4, <1>5, <2>2
    <2>4. Editor!GiveUp
      BY <1>1, <2>1, <2>2, <2>3 DEF Editor!GiveUp, Editor!Answer
    <2> QED
      BY <2>4 DEF Editor!Next
  <1>7. CASE NewRow(k) \/ Redraw(k) \/ Skip(k)
    BY <1>1, <1>7 DEF NewRow, Redraw, Skip, Unread
  <1>8. CASE RubOut(k)
    <2>1. /\ count > 0 /\ count' = count - 1 /\ reading' = reading /\ RAM' = RAM
          /\ c' = c /\ Status' = Status /\ answer' = answer
      BY <1>8 DEF RubOut, Unread
    <2>2. count - 1 \in Nat
      BY <1>2, <2>1
    <2>3. Line' = SubSeq(Line, 1, Len(Line) - 1) /\ Line # <<>>
      <3>1. Line' = Text(RAM, i, count - 1)
        BY <1>1, <2>1
      <3> HIDE DEF Line
      <3> QED
        BY <1>2, <1>3, <2>1, <2>2, <3>1 DEF Text
    <2>4. Editor!Rub
      BY <1>1, <2>1, <2>3 DEF Editor!Rub
    <2> QED
      BY <2>4 DEF Editor!Next
  <1>9. CASE EndLine(k)
    <2>1. /\ answer' = Line /\ reading' = FALSE /\ Line' = <<>>
          /\ c' = c /\ Status' = Status
      BY <1>2, <1>3, <1>4, <1>5, <1>9 DEF EndLine
    <2>2. Editor!End
      BY <1>1, <2>1 DEF Editor!End, Editor!Answer
    <2> QED
      BY <2>2 DEF Editor!Next
  <1>10. CASE Restart(k) \/ EraseLine(k)
    <2>1. /\ count' = 0 /\ c' = c /\ reading' = reading /\ RAM' = RAM
          /\ Status' = Status /\ answer' = answer
      BY <1>2, <1>10 DEF Restart, EraseLine, Unread
    <2>2. Line' = <<>>
      BY <1>1, <2>1, TextSlots DEF Text
    <2>3. Editor!Clear
      BY <1>1, <2>1, <2>2 DEF Editor!Clear
    <2> QED
      BY <2>3 DEF Editor!Next
  <1>11. CASE Store(k)
    <2> DEFINE f == [RAM EXCEPT ![Slot(count + 1)] = k]
    <2>1. k \in Char /\ c' = c /\ Status' = Status
      BY <1>11 DEF Store
    <2>2. Text(f, i, count + 1) = Append(Line, k)
      <3>1. count < MaxByte
        BY <1>2, Sizes
      <3>2. Text(f, i, count + 1) = Append(Text(RAM, i, count), k)
        BY <1>1, <1>2, <2>1, <3>1, TextAppend
      <3> QED
        BY <1>3, <3>2
    <2>3. f \in [Addr -> Byte \cup Char]
      BY <1>2, <2>1
    <2>4. IF count + 1 = c THEN Finish(f, count + 1)
                           ELSE RAM' = f /\ count' = count + 1 /\ Unread
      BY <1>11 DEF Store, Full
    <2> HIDE DEF f
    <2>5. CASE count + 1 = c
      <3>1. answer' = Append(Line, k) /\ reading' = FALSE /\ Line' = <<>>
        BY <1>4, <1>5, <2>2, <2>3, <2>4, <2>5
      <3> QED
        BY <1>1, <1>3, <2>1, <2>5, <3>1 DEF Editor!Add, Editor!Answer, Editor!Next
    <2>6. CASE count + 1 # c
      <3>1. Line' = Append(Line, k) /\ reading' = reading /\ answer' = answer
        BY <1>1, <2>2, <2>4, <2>6 DEF Unread
      <3> QED
        BY <1>1, <1>3, <2>1, <2>6, <3>1 DEF Editor!Add, Editor!Next
    <2> QED
      BY <2>5, <2>6
  <1> QED
    BY <1>6, <1>7, <1>8, <1>9, <1>10, <1>11 DEF ReadKey

LEMMA StepEditor ==
    ASSUME LineInv, [Next]_vars
    PROVE  [Editor!Next]_(Editor!vars)
  <1> USE DEF Editor!vars
  <1>1. CASE \E de \in Addr, n \in Limit, p \in Prompt : ReadLine(de, n, p)
    <2>1. PICK de \in Addr, n \in Limit, p \in Prompt : ReadLine(de, n, p)
      BY <1>1
    <2>2. n \in 0..MaxByte
      BY <2>1, Sizes DEF Byte
    <2>3. (IF reading THEN Text(RAM, i, count) ELSE <<>>)' = <<>>
      BY <2>1 DEF ReadLine, Text
    <2>4. Editor!Ask(n)
      BY <2>1, <2>3 DEF ReadLine, Editor!Ask
    <2> QED
      BY <2>2, <2>4 DEF Editor!Next
  <1>2. CASE ReadKey
    BY <1>2, KeyEditor
  <1>3. CASE SingleKey
    BY <1>3 DEF SingleKey, lineVars, viewVars
  <1>4. CASE \E k \in Key : Press(k)
    BY <1>4 DEF Press, lineVars, viewVars
  <1>5. CASE WarmBoot
    BY <1>5 DEF WarmBoot, lineVars, viewVars, Editor!Reboot, Editor!Next
  <1>6. CASE UNCHANGED vars
    BY <1>6 DEF vars, lineVars, viewVars
  <1> QED
    BY <1>1, <1>2, <1>3, <1>4, <1>5, <1>6 DEF Next

\* Call 10 edits lines in a memory that wraps as sequences are edited, for every
\* size of memory and of byte, and every set of characters.
THEOREM LineEditorImplemented == Spec => ImplementsLineEditor
  BY InitEditor, StepEditor, LineCorrect, PTL DEF Spec, ImplementsLineEditor, Editor!Spec

-----------------------------------------------------------------------------
(* The screen row.                                                         *)

\* What may be on a row.
Sign == {"p", "s"} \cup Byte \cup Char

\* A row that is not torn is what was on it before the line, and the line.
RowInv == reading => base \in Seq(Sign) /\ (~torn => row = base \o Text(RAM, i, count))

LEMMA TextType ==
    ASSUME TypeOK, NEW n \in Nat
    PROVE  Text(RAM, i, n) \in Seq(Sign) /\ Len(Text(RAM, i, n)) = n
  <1>1. i \in Int
    BY WordValue, Sizes DEF TypeOK, Addr
  <1>2. \A j \in 1..n : RAM[Word(i + j)] \in Sign
    BY <1>1, WordValue DEF TypeOK, Sign
  <1>3. Text(RAM, i, n) = [j \in 1..n |-> RAM[Word(i + j)]]
    BY DEF Text
  <1>4. Text(RAM, i, n) \in [1..n -> Sign]
    BY <1>2, <1>3
  <1> QED
    BY <1>3, <1>4, SeqDef

\* Rubbing out characters of the line leaves what is in front of it.
LEMMA ErasedLine ==
    ASSUME NEW b \in Seq(Sign), NEW t \in Seq(Sign), NEW n \in 0..Len(t)
    PROVE  Erased(b \o t, n) = b \o SubSeq(t, 1, Len(t) - n)
  <1> DEFINE r == b \o t
             m == Len(t) - n
             e == SubSeq(r, 1, Len(b) + m)
             g == b \o SubSeq(t, 1, m)
  <1>1. Len(b) \in Nat /\ Len(t) \in Nat /\ m \in 0..Len(t)
    BY LenProperties
  <1>2. /\ r \in Seq(Sign) /\ Len(r) = Len(b) + Len(t)
        /\ \A j \in 1..Len(r) : r[j] = IF j <= Len(b) THEN b[j] ELSE t[j - Len(b)]
    BY ConcatProperties
  <1>3. (IF n < Len(r) THEN Len(r) - n ELSE 0) = Len(b) + m
    BY <1>1, <1>2
  <1>4. Erased(r, n) = e
    BY <1>3 DEF Erased
  <1>5. e = [j \in 1..(Len(b) + m) |-> r[j]]
    BY <1>1, <1>2
  <1>6. /\ SubSeq(t, 1, m) \in Seq(Sign) /\ Len(SubSeq(t, 1, m)) = m
        /\ \A j \in 1..m : SubSeq(t, 1, m)[j] = t[j]
    BY <1>1
  <1> HIDE DEF m, r
  <1>7. /\ g \in Seq(Sign) /\ Len(g) = Len(b) + m
        /\ \A j \in 1..Len(g) : g[j] = IF j <= Len(b) THEN b[j] ELSE SubSeq(t, 1, m)[j - Len(b)]
    BY <1>6, ConcatProperties
  <1>8. \A j \in 1..(Len(b) + m) : r[j] = g[j]
    BY <1>1, <1>2, <1>6, <1>7
  <1>9. g = [j \in 1..(Len(b) + m) |-> g[j]]
    BY <1>7
  <1>10. e = g
    BY <1>5, <1>8, <1>9
  <1> QED
    BY <1>4, <1>10 DEF r, m

LEMMA KeyRow ==
    ASSUME LineInv, RowInv, ReadKey
    PROVE  RowInv'
  <1> DEFINE k == Head(keys)
             t == Text(RAM, i, count)
  <1>1. /\ reading /\ DE' = DE /\ i' = i /\ TypeOK
        /\ base \in Seq(Sign) /\ (~torn => row = base \o t)
    BY DEF ReadKey, LineInv, RowInv
  <1>2. RAM \in [Addr -> Byte \cup Char] /\ count \in Nat /\ count < MaxByte /\ i \in Addr
    BY <1>1, Sizes, WordValue DEF LineInv, TypeOK, RoomLeft, Byte, Addr
  <1>3. t \in Seq(Sign) /\ Len(t) = count
    BY <1>1, <1>2, TextType
  <1>4. Margin \in Seq(Sign) /\ Margin \o <<>> = Margin
    BY DEF Margin, Sign
  <1>5. Text(RAM, i, 0) = <<>>
    BY <1>1, TextType
  <1> HIDE DEF t
  <1>6. CASE Interrupt(k) \/ EndLine(k)
    BY <1>6 DEF Interrupt, EndLine, Finish, RowInv
  <1>7. CASE NewRow(k) \/ Skip(k)
    BY <1>1, <1>7 DEF NewRow, Skip, Unread, RowInv, t
  <1>8. CASE RubOut(k)
    <2>1. /\ count > 0 /\ count' = count - 1 /\ row' = Erased(row, 1)
          /\ UNCHANGED <<RAM, reading, base, torn>>
      BY <1>8 DEF RubOut, Unread
    <2>2. SubSeq(t, 1, count - 1) = Text(RAM, i, count - 1)
      BY <1>2, <1>3, <2>1 DEF t, Text
    <2>3. ~torn => row' = base \o Text(RAM, i, count - 1)
      <3>1. 1 \in 0..Len(t)
        BY <1>2, <1>3, <2>1
      <3>2. Erased(base \o t, 1) = base \o SubSeq(t, 1, Len(t) - 1)
        BY <1>1, <1>3, <3>1, ErasedLine
      <3> QED
        BY <1>1, <1>3, <2>1, <2>2, <3>2
    <2> QED
      BY <1>1, <2>1, <2>3 DEF RowInv
  <1>9. CASE Redraw(k)
    <2>1. PICK w \in Char :
            row' = Margin \o [j \in 1..count |-> IF i + j < MemSize THEN RAM[i + j] ELSE w]
      BY <1>9 DEF Redraw
    <2>2. /\ base' = Margin /\ torn' = (i + count >= MemSize)
          /\ UNCHANGED <<RAM, reading, count>>
      BY <1>9 DEF Redraw, Unread
    <2>3. ASSUME ~torn', NEW j \in 1..count
          PROVE  i + j < MemSize /\ Word(i + j) = i + j
      <3>1. i + j \in Addr
        <4>1. ~(i + count >= MemSize)
          BY <2>2, <2>3
        <4> QED
          BY <1>2, <4>1, Sizes DEF Addr
      <3> QED
        BY <3>1, WordValue, Sizes DEF Addr
    <2>4. ~torn' => row' = Margin \o Text(RAM, i, count)
      BY <2>1, <2>3 DEF Text
    <2> QED
      BY <1>1, <1>4, <2>2, <2>4 DEF RowInv
  <1>10. CASE Restart(k)
    <2>1. row' = Margin /\ base' = Margin /\ count' = 0 /\ RAM' = RAM
      BY <1>10 DEF Restart, Unread
    <2> QED
      BY <1>1, <1>4, <1>5, <2>1 DEF RowInv
  <1>11. CASE EraseLine(k)
    <2>1. /\ row' = Erased(row, count) /\ count' = 0 /\ UNCHANGED <<RAM, reading, base, torn>>
      BY <1>11 DEF EraseLine, Unread
    <2>2. SubSeq(t, 1, count - count) = <<>>
      BY <1>2, <1>3
    <2>3. ~torn => row' = base \o <<>>
      <3>1. count \in 0..Len(t)
        BY <1>2, <1>3
      <3>2. Erased(base \o t, count) = base \o SubSeq(t, 1, Len(t) - count)
        BY <1>1, <1>3, <3>1, ErasedLine
      <3> QED
        BY <1>1, <1>3, <2>1, <2>2, <3>2
    <2> QED
      BY <1>1, <1>5, <2>1, <2>3 DEF RowInv
  <1>12. CASE Store(k)
    <2> DEFINE m == [RAM EXCEPT ![Slot(count + 1)] = k]
    <2>1. /\ k \in Char
          /\ \/ Finish(m, count + 1)
             \/ /\ RAM' = m /\ count' = count + 1 /\ row' = Append(row, k)
                /\ UNCHANGED <<reading, base, torn>>
      BY <1>12 DEF Store, Unread
    <2>2. Text(m, i, count + 1) = Append(t, k)
      BY <1>1, <1>2, <2>1, TextAppend DEF t
    <2> HIDE DEF m
    <2>3. base \o Append(t, k) = Append(base \o t, k)
      <3>1. <<k>> \in Seq(Sign) /\ Append(t, k) = t \o <<k>>
            /\ Append(base \o t, k) = (base \o t) \o <<k>>
        BY <1>1, <1>3, <2>1 DEF Sign
      <3> QED
        BY <1>1, <1>3, <3>1, ConcatAssociative
    <2>4. CASE Finish(m, count + 1)
      BY <2>4 DEF Finish, RowInv
    <2>5. CASE /\ RAM' = m /\ count' = count + 1 /\ row' = Append(row, k)
               /\ UNCHANGED <<reading, base, torn>>
      BY <1>1, <2>2, <2>3, <2>5 DEF RowInv
    <2> QED
      BY <2>1, <2>4, <2>5
  <1> QED
    BY <1>6, <1>7, <1>8, <1>9, <1>10, <1>11, <1>12 DEF ReadKey

LEMMA StepRow ==
    ASSUME LineInv, RowInv, [Next]_vars
    PROVE  RowInv'
  <1>1. CASE \E de \in Addr, n \in Limit, p \in Prompt : ReadLine(de, n, p)
    <2>1. PICK de \in Addr, n \in Limit, p \in Prompt : ReadLine(de, n, p)
      BY <1>1
    <2>2. p \in Seq(Sign)
      <3>1. p \in Seq({"p"})
        BY MemoryAssumption
      <3> QED
        BY <3>1, SeqMonotonic DEF Sign
    <2>3. row' = p /\ base' = p /\ count' = 0
      BY <2>1 DEF ReadLine
    <2>4. Text(RAM', i', 0) = <<>>
      BY DEF Text
    <2> QED
      BY <2>2, <2>3, <2>4, ConcatEmptySeq DEF RowInv
  <1>2. CASE ReadKey
    BY <1>2, KeyRow
  <1>3. CASE SingleKey
    BY <1>3 DEF RowInv, SingleKey, lineVars, viewVars
  <1>4. CASE \E k \in Key : Press(k)
    BY <1>4 DEF RowInv, Press, lineVars, viewVars
  <1>5. CASE WarmBoot
    BY <1>5 DEF RowInv, WarmBoot, lineVars, viewVars
  <1>6. CASE UNCHANGED vars
    BY <1>6 DEF RowInv, vars, lineVars, viewVars
  <1> QED
    BY <1>1, <1>2, <1>3, <1>4, <1>5, <1>6 DEF Next

\* What is on the row behind the prompt is the line, through every control key,
\* until ^E or the end of memory tears it (the echoes of call 10).
THEOREM RowCorrect == Spec => []RowShowsLine
  <1>1. Init => RowInv
    BY DEF Init, RowInv
  <1>2. RowInv => RowShowsLine
    BY DEF RowInv, RowShowsLine
  <1> QED
    BY InitLine, StepLine, StepRow, <1>1, <1>2, PTL DEF Spec
=============================================================================
