------------------------------- MODULE LineInput -------------------------------
(***************************************************************************)
(* Console input: the line editor of BDOS call 10, and the calls that take *)
(* a single key (1, 6 and the BIOS's CONIN) (RunCPM/cpm.h,                 *)
(* RunCPM/console.h).  One key of a line is one step, so that the user may *)
(* type ahead between any two.                                             *)
(*                                                                         *)
(* Abstractions.  Printable characters are values of Char, so an address   *)
(* holds a number or a character.  The screen is the row the cursor is in, *)
(* on a terminal wide enough for it.  Control characters that do nothing   *)
(* are one key.                                                            *)
(***************************************************************************)
EXTENDS Integers, Sequences, SequencesExt

CONSTANTS
    Char,      \* printable characters, 0x20..0x7E
    MaxByte,   \* the largest value of a byte (255)
    MemSize,   \* bytes of memory (64K)
    Limit,     \* the lengths programs ask for
    Prompt,    \* what they have on the row by then
    MaxAhead   \* bound: keys typed ahead

ASSUME MemoryAssumption ==
    /\ MaxByte \in Nat \ {0} /\ MemSize \in Nat /\ MemSize > MaxByte + 2
    /\ Limit \subseteq 0..MaxByte /\ Prompt \subseteq Seq({"p"})
    /\ Char \cap (0..MaxByte) = {} /\ MaxAhead \in Nat

VARIABLES
    RAM,      \* memory
    DE,       \* the address of the buffer: limit, count, characters
    i, c, count,  \* locals of _Bdos: address of the count, limit, characters read
    reading,  \* TRUE inside call 10
    keys,     \* typed and not yet read
    row,      \* the screen row the cursor is in, which is at its end
    Status    \* 2 after ^C, until the CCP runs again

\* What the properties compare with.
VARIABLES
    answer,   \* the line the program found in its buffer after the last call 10
    base,     \* what was on the row before the line
    torn      \* TRUE while the line is not on one row

lineVars == <<DE, i, c, count, reading>>
viewVars == <<answer, base, torn>>
vars == <<RAM, lineVars, keys, row, Status, viewVars>>

Addr    == 0..(MemSize - 1)
Byte    == 0..MaxByte
Control == {"^C", "^E", "^H", "^M", "^R", "^U", "^X", "ignored"}
Key     == Char \cup Control
Margin  == <<"s", "s">>

Word(n) == n % MemSize

-----------------------------------------------------------------------------
(* The buffer and the row.                                                 *)

\* A character stored one place too far.
SlotAfter(n) == Word(i + n + 1)

\* A character stored over the one before it.
SlotBefore(n) == Word(i + n - 1)

\* The address of the n-th character.
Slot(n) == Word(i + n)

\* The first n characters at start + 1, ..., in memory m.
Text(m, start, n) == [j \in 1..n |-> m[Word(start + j)]]

\* "\b \b", n times: at the left edge of the screen there is nothing to erase.
Erased(r, n) == SubSeq(r, 1, IF n < Len(r) THEN Len(r) - n ELSE 0)

\* The call returns: the count is stored, and the program finds its line.
Finish(m, n) ==
    /\ RAM' = [m EXCEPT ![i] = n]
    /\ reading' = FALSE /\ count' = 0
    /\ answer' = Text(RAM', i, n)
    /\ row' = <<>> /\ base' = <<>> /\ torn' = FALSE

\* The call goes on.
Unread == UNCHANGED <<reading, answer>>

-----------------------------------------------------------------------------
(* Call 10, key by key.                                                    *)

\* A program writes the limit n to address de and calls; the rest of memory is
\* zeros.  Without a limit nothing is read.
ReadLine(de, n, p) ==
    /\ ~reading /\ Status = 0 /\ DE' = de /\ i' = Word(de + 1) /\ c' = n
    /\ RAM' = [m \in Addr |-> IF m = de THEN n ELSE 0]
    /\ reading' = (n # 0) /\ row' = p /\ base' = p /\ torn' = FALSE
    /\ count' = 0 /\ answer' = <<>> /\ UNCHANGED <<keys, Status>>

\* ^C, on an empty line only: a warm boot.
Interrupt(k) == k = "^C" /\ count = 0 /\ Status' = 2 /\ Finish(RAM, 0) /\ UNCHANGED c

\* ^E goes on to the next row.
NewRow(k) ==
    /\ k = "^E" /\ row' = <<>> /\ torn' = TRUE
    /\ Unread /\ UNCHANGED <<RAM, c, count, Status, base>>

\* A rub-out that does not ask whether there is a character to erase.
RubOutAlways(k) ==
    /\ k = "^H" /\ count' = count - 1 /\ row' = Erased(row, 1)
    /\ Unread /\ UNCHANGED <<RAM, c, Status, base, torn>>

\* ^H and DEL.
RubOut(k) ==
    /\ k = "^H" /\ count > 0 /\ count' = count - 1 /\ row' = Erased(row, 1)
    /\ Unread /\ UNCHANGED <<RAM, c, Status, base, torn>>

\* A return that ends a line only if there is one.
EndLineUnlessEmpty(k) ==
    /\ k = "^M" /\ UNCHANGED <<c, Status>>
    /\ IF count > 0 THEN Finish(RAM, count)
                    ELSE Unread /\ UNCHANGED <<RAM, count, row, base, torn>>

\* ^J and ^M.
EndLine(k) == k = "^M" /\ Finish(RAM, count) /\ UNCHANGED <<c, Status>>

\* ^R shows the line again on a row of its own.  It reads on behind memory,
\* where anything may be, when the buffer runs past the end.
Redraw(k) ==
    /\ k = "^R"
    /\ \E w \in Char :
          row' = Margin \o [j \in 1..count |-> IF i + j < MemSize THEN RAM[i + j] ELSE w]
    /\ base' = Margin /\ torn' = (i + count >= MemSize)
    /\ Unread /\ UNCHANGED <<RAM, c, count, Status>>

\* ^U starts again on a row of its own, and reads the limit again.
Restart(k) ==
    /\ k = "^U" /\ row' = Margin /\ base' = Margin /\ torn' = FALSE
    /\ count' = 0 /\ c' = RAM[DE]
    /\ Unread /\ UNCHANGED <<RAM, Status>>

\* A ^X that erases the row and not the line.
EraseRow(k) ==
    /\ k = "^X" /\ row' = Erased(row, count) /\ c' = RAM[DE]
    /\ Unread /\ UNCHANGED <<RAM, count, Status, base, torn>>

\* ^X erases the line, and reads the limit again.
EraseLine(k) ==
    /\ k = "^X" /\ row' = Erased(row, count) /\ count' = 0 /\ c' = RAM[DE]
    /\ Unread /\ UNCHANGED <<RAM, Status, base, torn>>

\* A key that is no character, or cannot be obeyed now.
Skip(k) ==
    /\ k = "ignored" \/ (k = "^C" /\ count > 0) \/ (k = "^H" /\ count = 0)
    /\ Unread /\ UNCHANGED <<RAM, c, count, row, Status, base, torn>>

\* A test of the count that lets one character more in.
FullLate(n) == n > c

\* The line is as long as was asked for.
Full(n) == n = c

\* A character is echoed and stored, and ends the line if it fills the buffer.
Store(k) ==
    /\ k \in Char /\ UNCHANGED <<c, Status>>
    /\ LET m == [RAM EXCEPT ![Slot(count + 1)] = k]
       IN  IF Full(count + 1)
             THEN Finish(m, count + 1)
             ELSE /\ RAM' = m /\ count' = count + 1 /\ row' = Append(row, k)
                  /\ Unread /\ UNCHANGED <<base, torn>>

\* One turn of the loop, on the next key.
ReadKey ==
    /\ reading /\ keys # <<>> /\ keys' = Tail(keys) /\ UNCHANGED <<DE, i>>
    /\ LET k == Head(keys)
       IN  \/ Interrupt(k) \/ NewRow(k) \/ RubOut(k) \/ EndLine(k) \/ Redraw(k)
           \/ Restart(k) \/ EraseLine(k) \/ Skip(k) \/ Store(k)

-----------------------------------------------------------------------------
\* 1, 6 with 0xFF and CONIN take a key; 6 does not wait for one.
SingleKey ==
    /\ ~reading /\ Status = 0 /\ keys # <<>> /\ keys' = Tail(keys)
    /\ UNCHANGED <<RAM, lineVars, row, Status, viewVars>>

\* The user types, at any time.
Press(k) ==
    /\ Len(keys) < MaxAhead /\ keys' = Append(keys, k)
    /\ UNCHANGED <<RAM, lineVars, row, Status, viewVars>>

\* The CCP starts again.
WarmBoot ==
    /\ ~reading /\ Status = 2 /\ Status' = 0
    /\ UNCHANGED <<RAM, lineVars, keys, row, viewVars>>

Init ==
    /\ RAM = [m \in Addr |-> 0] /\ DE = 0 /\ i = 1 /\ c = 0 /\ count = 0
    /\ reading = FALSE /\ keys = <<>> /\ row = <<>> /\ Status = 0
    /\ answer = <<>> /\ base = <<>> /\ torn = FALSE

Next ==
    \/ \E de \in Addr, n \in Limit, p \in Prompt : ReadLine(de, n, p)
    \/ ReadKey
    \/ SingleKey
    \/ \E k \in Key : Press(k)
    \/ WarmBoot

Spec == Init /\ [][Next]_vars /\ WF_vars(ReadKey)

-----------------------------------------------------------------------------
(* Properties.                                                             *)

\* Type invariant.
TypeOK ==
    /\ RAM \in [Addr -> Byte \cup Char]
    /\ DE \in Addr /\ i = Word(DE + 1) /\ c \in Byte /\ count \in Byte
    /\ reading \in BOOLEAN /\ keys \in Seq(Key) /\ Status \in {0, 2}

\* While a line is read the limit the code works with is the one in memory,
\* which it reads again on ^U and ^X and never writes over, and there is room for
\* another character: ^R's loop over a byte ends, because the count is less than
\* the largest byte (call 10).
RoomLeft == reading => c = RAM[DE] /\ count < c

\* A line is written inside its buffer, wherever that is and if it runs past the
\* end of memory: the count and as many characters as the program asked for.
WritesBuffer ==
    [][reading => \A m \in Addr : RAM'[m] # RAM[m] => Word(m - DE) \in 1..(c + 1)]_vars

\* What is on the row behind the prompt is the line, through every control key,
\* until ^E or the end of memory tears it (the echoes of call 10).
RowShowsLine == reading /\ ~torn => row = base \o Text(RAM, i, count)

\* A line the user has ended is answered (the loop of call 10).
EndedLineAnswered == (reading /\ Contains(keys, "^M")) ~> ~reading

Editor == INSTANCE LineEditor WITH
    MaxLine <- MaxByte, limit <- c, boot <- (Status = 2),
    line <- IF reading THEN Text(RAM, i, count) ELSE <<>>

\* Whatever the address of the buffer, the program finds there the line that
\* editing a sequence of characters gives, and gets it when that is at its end.
ImplementsLineEditor == Editor!Spec
=============================================================================
