--------------------------- MODULE TerminalProofs ---------------------------
(* The line buffers implement the line editor, and a reader nothing comes in  *)
(* the way of gets its line: for any number of terminals, any buffer size and *)
(* any sizes of reads.                                                        *)
EXTENDS Terminal, SequenceTheorems, TLAPS

Readers == [at : {"out", "wait", "seen", "copy", "clear"},
            nbytes : ReadSizes \cup {0}, buf : Seq(Char)]

\* TypeOK, of which reader's part is about its fields only, and that reader is
\* a function of such records.
Typed == TypeOK /\ reader \in [Term -> Readers]

\* An entered buffer holds one newline, and none before the first Enter.
LinesEnd ==
    \A t \in Term :
        /\ \A j, k \in Cell : kbuf_entered[t][j] = NL /\ kbuf_entered[t][k] = NL => j = k
        /\ enter_flag[t] = 1 => \E n \in Cell : kbuf_entered[t][n] = NL

\* A reader has copied nothing before it copies, and stops at the last cell.
ReadersInBuffer ==
    \A t \in Term :
        /\ reader[t].at \in {"wait", "seen"} => reader[t].buf = << >>
        /\ reader[t].at = "copy" => Len(reader[t].buf) < kbuf_size

\* What a calm reader has copied so far is the beginning of its line.
CopiesOwnLine(t) ==
    LET buf == reader[t].buf
    IN  /\ Len(buf) <= reader[t].nbytes
        /\ Len(buf) <= LineLength(kbuf_entered[t])
        /\ buf = Cells(kbuf_entered[t], Len(buf))

CalmReads ==
    \A t \in calm :
        /\ visible_term_idx = t
        /\ reader[t].at \in {"seen", "copy", "clear"}
        /\ \E n \in Cell : kbuf_entered[t][n] = NL
        /\ reader[t].at = "copy" => CopiesOwnLine(t)

IInv == Typed /\ LinesEnd /\ ReadersInBuffer /\ CalmReads /\ CalmReadGetsItsLine

-----------------------------------------------------------------------------
(* Lines in buffers *)

LEMMA CellFacts ==
  /\ kbuf_size \in Nat \ {0}
  /\ 0 \in Cell
  /\ \A n \in 0 .. kbuf_size : n \in Nat /\ \A k \in 1 .. n : k - 1 \in Cell
  /\ \A n \in Cell : n \in 0 .. kbuf_size /\ n + 1 \in 0 .. kbuf_size
  /\ \A n \in Cell : n # 0 => n - 1 \in Cell
  <1>1. kbuf_size \in Nat \ {0}
    BY TerminalAssumption, Zenon
  <1> QED BY <1>1 DEF Cell

LEMMA CellsAre ==
  ASSUME NEW b \in [Cell -> Char], NEW n \in 0 .. kbuf_size
  PROVE  /\ Cells(b, n) \in Seq(Char) /\ Len(Cells(b, n)) = n
         /\ \A k \in 1 .. n : Cells(b, n)[k] = b[k - 1]
  <1>1. n \in Nat /\ Cells(b, n) \in [1 .. n -> Char]
    BY CellFacts DEF Cells
  <1>2. Cells(b, n) \in Seq(Char)
    BY <1>1, SeqDef
  <1>3. Len(Cells(b, n)) = n
    BY <1>1, <1>2, LenProperties
  <1> QED BY <1>2, <1>3 DEF Cells

\* One more cell is one more character.
LEMMA CellsAppend ==
  ASSUME NEW b \in [Cell -> Char], NEW n \in Cell
  PROVE  Append(Cells(b, n), b[n]) = Cells(b, n + 1)
  <1> DEFINE a == Append(Cells(b, n), b[n])
  <1>0. n \in Nat /\ n \in 0 .. kbuf_size /\ n + 1 \in 0 .. kbuf_size
    BY CellFacts
  <1>1. /\ Cells(b, n) \in Seq(Char) /\ Len(Cells(b, n)) = n
        /\ \A k \in 1 .. n : Cells(b, n)[k] = b[k - 1]
    BY <1>0, CellsAre
  <1>2. /\ Cells(b, n + 1) \in Seq(Char) /\ Len(Cells(b, n + 1)) = n + 1
        /\ \A k \in 1 .. n + 1 : Cells(b, n + 1)[k] = b[k - 1]
    BY <1>0, CellsAre
  <1>3. b[n] \in Char
    OBVIOUS
  <1>4. /\ a \in Seq(Char) /\ Len(a) = n + 1
        /\ \A k \in 1 .. n : a[k] = Cells(b, n)[k]
        /\ a[n + 1] = b[n]
    BY <1>1, <1>3, AppendProperties
  <1> HIDE DEF a
  <1>5. ASSUME NEW k \in 1 .. n + 1 PROVE a[k] = Cells(b, n + 1)[k]
    <2>1. CASE k = n + 1
      BY <1>0, <1>2, <1>4, <2>1
    <2>2. CASE k # n + 1
      <3>1. k \in 1 .. n
        BY <1>0, <2>2
      <3> QED BY <1>1, <1>2, <1>4, <3>1
    <2> QED BY <2>1, <2>2
  <1>6. a = Cells(b, n + 1)
    BY <1>2, <1>4, <1>5, SeqEqual
  <1> QED BY <1>6 DEF a

\* Taking a character back from a text leaves the text of the cells before it.
LEMMA CellsFront ==
  ASSUME NEW b \in [Cell -> Char], NEW n \in Cell, n # 0
  PROVE  /\ Cells(b, n) # << >>
         /\ Front(Cells(b, n)) = Cells(b, n - 1)
  <1> DEFINE f == Front(Cells(b, n))
  <1>0. /\ n \in Nat /\ n - 1 \in Nat
        /\ n \in 0 .. kbuf_size /\ n - 1 \in 0 .. kbuf_size
    BY CellFacts
  <1>1. /\ Cells(b, n) \in Seq(Char) /\ Len(Cells(b, n)) = n
        /\ \A k \in 1 .. n : Cells(b, n)[k] = b[k - 1]
    BY <1>0, CellsAre
  <1>2. /\ Cells(b, n - 1) \in Seq(Char) /\ Len(Cells(b, n - 1)) = n - 1
        /\ \A k \in 1 .. n - 1 : Cells(b, n - 1)[k] = b[k - 1]
    BY <1>0, CellsAre
  <1>3. \A k \in 1 .. n - 1 : Cells(b, n)[k] \in Char
    BY <1>0, <1>1, ElementOfSeq
  <1>4. /\ f \in Seq(Char) /\ Len(f) = n - 1
        /\ \A k \in 1 .. n - 1 : f[k] = Cells(b, n)[k]
    BY <1>0, <1>1, <1>3, SubSeqProperties DEF Front
  <1> HIDE DEF f
  <1>5. ASSUME NEW k \in 1 .. n - 1 PROVE f[k] = Cells(b, n - 1)[k]
    <2>1. k \in 1 .. n
      BY <1>0
    <2> QED BY <1>1, <1>2, <1>4, <2>1
  <1>6. f = Cells(b, n - 1)
    BY <1>2, <1>4, <1>5, SeqEqual
  <1> QED BY <1>0, <1>1, <1>6, EmptySeq DEF f

LEMMA CellsSame ==
  ASSUME NEW b, NEW c, NEW n \in Nat, \A j \in 0 .. n - 1 : b[j] = c[j]
  PROVE  Cells(b, n) = Cells(c, n)
  <1>1. \A k \in 1 .. n : b[k - 1] = c[k - 1]
    OBVIOUS
  <1> QED BY <1>1 DEF Cells

\* A line ends at its newline.
LEMMA LineLengthIs ==
  ASSUME NEW b, NEW n \in Cell, b[n] = NL, \A k \in Cell : b[k] = NL => n = k
  PROVE  LineLength(b) = n
  <1>1. n <= n
    BY CellFacts
  <1>2. \E j \in Cell : b[j] = NL /\ \A k \in Cell : b[k] = NL => j <= k
    BY <1>1
  <1> DEFINE j == CHOOSE j \in Cell : b[j] = NL /\ \A k \in Cell : b[k] = NL => j <= k
  <1>3. j \in Cell /\ b[j] = NL
    BY <1>2
  <1> QED BY <1>3 DEF LineLength

LEMMA LineLengthBlank ==
  ASSUME NEW b, \A k \in Cell : b[k] # NL
  PROVE  LineLength(b) = 0
  BY DEF LineLength

\* Where the newline is, in an entered buffer that has one.
LEMMA LineEnd ==
  ASSUME LinesEnd, NEW t \in Term, NEW n \in Cell, kbuf_entered[t][n] = NL
  PROVE  LineLength(kbuf_entered[t]) = n
  BY LineLengthIs DEF LinesEnd

-----------------------------------------------------------------------------
(* Type correctness *)

LEMMA CharFacts ==
  /\ NL # NUL /\ NL \notin Chars /\ NUL \notin Chars
  /\ Chars \cup {NUL} \subseteq Char /\ NL \in Char /\ NUL \in Char
  BY TerminalAssumption, Zenon DEF NL, NUL, Char

LEMMA SizeFacts == ReadSizes \cup {0} \subseteq Nat
  <1>1. ReadSizes \subseteq Nat
    BY TerminalAssumption, Zenon
  <1> QED BY <1>1

LEMMA InitTyped == Init => Typed
  <1> SUFFICES ASSUME Init PROVE Typed
    OBVIOUS
  <1>1. 0 \in Term /\ Blank \in [Cell -> Chars \cup {NUL}] /\ Blank \in [Cell -> Char]
    <2>1. NTERMS \in Nat \ {0}
      BY TerminalAssumption, Zenon
    <2> QED BY <2>1, CharFacts DEF Term, Blank
  <1>2. Out \in Readers /\ Len(Out.buf) <= kbuf_size
    <2>1. << >> \in Seq(Char) /\ Len(<< >>) = 0 /\ kbuf_size \in Nat
      BY EmptySeq, CellFacts
    <2> QED BY <2>1 DEF Out, Readers
  <1>3. reader \in [Term -> Readers] /\ \A t \in Term : reader[t] = Out
    BY <1>2 DEF Init
  <1>4. \A t \in Term : /\ reader[t].at \in {"out", "wait", "seen", "copy", "clear"}
                        /\ reader[t].nbytes \in ReadSizes \cup {0}
                        /\ reader[t].buf \in Seq(Char)
                        /\ Len(reader[t].buf) <= kbuf_size
    BY <1>2, <1>3 DEF Readers
  <1> QED BY <1>1, <1>3, <1>4, CellFacts DEF Init, Typed, TypeOK

\* The keys' part: the buffers, whatever the reader does.
KeyboardTyped ==
  /\ visible_term_idx \in Term
  /\ kbuf \in [Term -> [Cell -> Chars \cup {NUL}]]
  /\ cur_kuf_size \in [Term -> Cell]
  /\ kbuf_entered \in [Term -> [Cell -> Char]]
  /\ enter_flag \in [Term -> {0, 1}]
  /\ calm \subseteq Term

\* The readers' part.
ReadersTyped ==
  /\ reader \in [Term -> Readers]
  /\ \A t \in Term : Len(reader[t].buf) <= kbuf_size

LEMMA TypedParts == Typed <=> KeyboardTyped /\ ReadersTyped
  <1>1. ReadersTyped =>
          \A t \in Term : /\ reader[t].at \in {"out", "wait", "seen", "copy", "clear"}
                          /\ reader[t].nbytes \in ReadSizes \cup {0}
                          /\ reader[t].buf \in Seq(Char)
                          /\ Len(reader[t].buf) <= kbuf_size
    BY DEF ReadersTyped, Readers
  <1> QED BY <1>1 DEF Typed, TypeOK, KeyboardTyped, ReadersTyped

LEMMA KeyboardTypedStep ==
  ASSUME KeyboardTyped, [Next]_vars
  PROVE  KeyboardTyped'
  <1> DEFINE v == visible_term_idx
  <1>0. /\ v \in Term /\ kbuf[v] \in [Cell -> Chars \cup {NUL}] /\ cur_kuf_size[v] \in Cell
        /\ kbuf[v] \in [Cell -> Char]
    BY CharFacts DEF KeyboardTyped
  <1>1. ASSUME NEW c \in Chars, Type(c) PROVE KeyboardTyped'
    <2>1. cur_kuf_size[v] + 1 \in Cell
      BY <1>0, <1>1, CellFacts DEF Type, Cell
    <2>2. [kbuf[v] EXCEPT ![cur_kuf_size[v]] = c] \in [Cell -> Chars \cup {NUL}]
      BY <1>0
    <2> QED BY <1>0, <1>1, <2>1, <2>2 DEF KeyboardTyped, Type
  <1>2. CASE Backspace
    <2>1. cur_kuf_size[v] - 1 \in Cell
      BY <1>0, <1>2, CellFacts DEF Backspace, Cell
    <2>2. [kbuf[v] EXCEPT ![cur_kuf_size[v]] = NUL] \in [Cell -> Chars \cup {NUL}]
      BY <1>0
    <2> QED BY <1>0, <1>2, <2>1, <2>2 DEF KeyboardTyped, Backspace
  <1>3. Blank \in [Cell -> Chars \cup {NUL}]
    BY DEF Blank
  <1>4. CASE Enter
    <2>1. [kbuf[v] EXCEPT ![cur_kuf_size[v]] = NL] \in [Cell -> Char]
      BY <1>0, CharFacts
    <2> QED BY <1>0, <1>3, <1>4, <2>1, CellFacts DEF KeyboardTyped, Enter
  <1>5. CASE ClearScreen
    BY <1>0, <1>3, <1>5, CellFacts DEF KeyboardTyped, ClearScreen
  <1>6. ASSUME NEW to \in Term, Switch(to) PROVE KeyboardTyped'
    BY <1>6 DEF KeyboardTyped, Switch, keyboard
  <1>7. ASSUME NEW t \in Term, ReadReturns(t) PROVE KeyboardTyped'
    BY <1>0, <1>7 DEF KeyboardTyped, ReadReturns
  <1>8. ASSUME NEW t \in Term,
               \/ \E nbytes \in ReadSizes : ReadCall(t, nbytes)
               \/ ReadSeesLine(t) \/ ReadSeesItself(t) \/ ReadCopies(t) \/ Killed(t)
        PROVE  KeyboardTyped'
    BY <1>8 DEF KeyboardTyped, keyboard, ReadCall, ReadSeesLine, ReadSeesItself,
                ReadCopies, Killed
  <1>9. CASE UNCHANGED vars
    BY <1>9 DEF KeyboardTyped, vars
  <1> QED
    BY <1>1, <1>2, <1>4, <1>5, <1>6, <1>7, <1>8, <1>9 DEF Next, Key, Read

\* A turn of the copy loop: at the end it copies nothing, and before it one
\* character, a newline at the latest in the last cell.
LEMMA CopyTurn ==
  ASSUME Typed, ReadersInBuffer, NEW t \in Term, ReadCopies(t)
  PROVE  LET j == Len(reader[t].buf)
             c == IF j = kbuf_size - 1 THEN NL ELSE kbuf_entered[visible_term_idx][j]
         IN  /\ j \in Cell /\ c \in Char
             /\ \/ /\ j = reader[t].nbytes
                   /\ reader' = [reader EXCEPT ![t] = [reader[t] EXCEPT !.at = "clear"]]
                \/ /\ j < reader[t].nbytes
                   /\ reader' = [reader EXCEPT ![t] =
                        [reader[t] EXCEPT !.buf = Append(@, c),
                                          !.at = IF c = NL THEN "clear" ELSE @]]
  <1> DEFINE j == Len(reader[t].buf)
             c == IF j = kbuf_size - 1 THEN NL ELSE kbuf_entered[visible_term_idx][j]
  <1>1. /\ reader[t] \in Readers /\ reader[t].at = "copy"
        /\ reader \in [Term -> Readers]
    BY DEF Typed, ReadCopies
  <1>2. reader[t].buf \in Seq(Char)
    BY <1>1 DEF Readers
  <1>3. j \in Nat /\ j < kbuf_size
    BY <1>1, <1>2, LenProperties DEF ReadersInBuffer
  <1>4. j \in Cell
    BY <1>3, CellFacts DEF Cell
  <1>5. kbuf_entered[visible_term_idx][j] \in Char
    BY <1>4 DEF Typed, TypeOK
  <1>6. c \in Char
    BY <1>5, CharFacts
  <1>7. \/ /\ j = reader[t].nbytes
           /\ reader' = [reader EXCEPT ![t].at = "clear"]
        \/ /\ j < reader[t].nbytes
           /\ reader' = [reader EXCEPT ![t].buf = Append(@, c),
                                       ![t].at = IF c = NL THEN "clear" ELSE @]
    BY DEF ReadCopies
  <1> HIDE DEF c, j
  <1>8. [reader EXCEPT ![t].buf = Append(@, c), ![t].at = IF c = NL THEN "clear" ELSE @]
          = [reader EXCEPT ![t] = [reader[t] EXCEPT !.buf = Append(@, c),
                                                    !.at = IF c = NL THEN "clear" ELSE @]]
    BY <1>1
  <1>9. [reader EXCEPT ![t].at = "clear"]
          = [reader EXCEPT ![t] = [reader[t] EXCEPT !.at = "clear"]]
    BY <1>1
  <1> QED BY <1>4, <1>6, <1>7, <1>8, <1>9 DEF c, j

LEMMA ReadersTypedStep ==
  ASSUME Typed, ReadersInBuffer, [Next]_vars
  PROVE  ReadersTyped' /\ ReadersInBuffer'
  <1> SUFFICES /\ reader' \in [Term -> Readers]
               /\ \A t \in Term :
                    /\ Len(reader'[t].buf) <= kbuf_size
                    /\ reader'[t].at \in {"wait", "seen"} => reader'[t].buf = << >>
                    /\ reader'[t].at = "copy" => Len(reader'[t].buf) < kbuf_size
    BY DEF ReadersTyped, ReadersInBuffer
  <1> DEFINE Good(r) == /\ r \in Readers /\ Len(r.buf) <= kbuf_size
                        /\ r.at \in {"wait", "seen"} => r.buf = << >>
                        /\ r.at = "copy" => Len(r.buf) < kbuf_size
  <1>1. reader \in [Term -> Readers] /\ \A t \in Term : Good(reader[t])
    BY TypedParts DEF Typed, ReadersTyped, ReadersInBuffer
  <1>2. \/ UNCHANGED reader
        \/ \E t \in Term : \E r : Good(r) /\ reader' = [reader EXCEPT ![t] = r]
    <2>1. << >> \in Seq(Char) /\ Len(<< >>) = 0 /\ 0 <= kbuf_size /\ 0 < kbuf_size
      BY EmptySeq, CellFacts
    <2>2. Good(Out)
      BY <2>1 DEF Out, Readers
    <2>3. ASSUME NEW t \in Term, NEW nbytes \in ReadSizes, ReadCall(t, nbytes)
          PROVE  \E r : Good(r) /\ reader' = [reader EXCEPT ![t] = r]
      <3>1. Good([at |-> "wait", nbytes |-> nbytes, buf |-> << >>])
        BY <2>1 DEF Readers
      <3> QED BY <2>3, <3>1 DEF ReadCall
    <2>4. ASSUME NEW t \in Term, ReadSeesLine(t)
          PROVE  \E r : Good(r) /\ reader' = [reader EXCEPT ![t] = r]
      <3>1. Good([reader[t] EXCEPT !.at = "seen"])
        BY <1>1, <2>4 DEF ReadSeesLine, Readers
      <3>2. reader' = [reader EXCEPT ![t] = [reader[t] EXCEPT !.at = "seen"]]
        BY <1>1, <2>4 DEF ReadSeesLine
      <3> QED BY <3>1, <3>2
    <2>5. ASSUME NEW t \in Term, ReadSeesItself(t)
          PROVE  \E r : Good(r) /\ reader' = [reader EXCEPT ![t] = r]
      <3>1. PICK a \in {"copy", "wait"} :
              reader' = [reader EXCEPT ![t] = [reader[t] EXCEPT !.at = a]]
        BY <1>1, <2>5 DEF ReadSeesItself
      <3>2. reader[t].buf = << >>
        BY <1>1, <2>5 DEF ReadSeesItself
      <3>3. Good([reader[t] EXCEPT !.at = a])
        BY <1>1, <2>1, <3>2 DEF Readers
      <3> QED BY <3>1, <3>3
    <2>6. ASSUME NEW t \in Term, ReadCopies(t)
          PROVE  \E r : Good(r) /\ reader' = [reader EXCEPT ![t] = r]
      <3> DEFINE j == Len(reader[t].buf)
                 c == IF j = kbuf_size - 1 THEN NL ELSE kbuf_entered[visible_term_idx][j]
      <3>1. CASE reader' = [reader EXCEPT ![t] = [reader[t] EXCEPT !.at = "clear"]]
        <4>1. Good([reader[t] EXCEPT !.at = "clear"])
          BY <1>1 DEF Readers
        <4> QED BY <3>1, <4>1
      <3>2. CASE reader' = [reader EXCEPT ![t] =
                        [reader[t] EXCEPT !.buf = Append(@, c),
                                          !.at = IF c = NL THEN "clear" ELSE @]]
        <4> DEFINE b == Append(reader[t].buf, c)
        <4>1. j \in Cell /\ c \in Char /\ (j = kbuf_size - 1 => c = NL)
          BY <2>6, CopyTurn
        <4>2. reader[t].buf \in Seq(Char) /\ reader[t].nbytes \in ReadSizes \cup {0}
          BY <1>1 DEF Readers
        <4> HIDE DEF c
        <4>3. b \in Seq(Char) /\ Len(b) = j + 1
          BY <4>1, <4>2, AppendProperties
        <4> HIDE DEF b
        <4>4. j + 1 <= kbuf_size /\ (c # NL => j + 1 < kbuf_size)
          BY <4>1, CellFacts DEF Cell
        <4>5. PICK a \in {"copy", "clear"} :
                 /\ reader' = [reader EXCEPT ![t] =
                                 [reader[t] EXCEPT !.buf = b, !.at = a]]
                 /\ a = "copy" => c # NL
          BY <2>6, <3>2 DEF b, ReadCopies
        <4>6. Good([reader[t] EXCEPT !.buf = b, !.at = a])
          BY <1>1, <4>2, <4>3, <4>4, <4>5 DEF Readers
        <4> QED BY <4>5, <4>6
      <3> QED BY <2>6, <3>1, <3>2, CopyTurn
    <2>7. ASSUME NEW t \in Term, ReadReturns(t) \/ Killed(t)
          PROVE  \E r : Good(r) /\ reader' = [reader EXCEPT ![t] = r]
      BY <2>2, <2>7 DEF ReadReturns, Killed
    <2>8. CASE UNCHANGED vars
      BY <2>8 DEF vars
    <2>9. CASE Key
      BY <2>9 DEF Key, Type, Backspace, Enter, ClearScreen, Switch
    <2> HIDE DEF Good
    <2> QED BY <2>3, <2>4, <2>5, <2>6, <2>7, <2>8, <2>9 DEF Next, Read
  <1>3. reader' \in [Term -> Readers] /\ \A t \in Term : Good(reader'[t])
    BY <1>1, <1>2
  <1> QED BY <1>3

-----------------------------------------------------------------------------
(* Lines and their readers *)

LEMMA LinesEndStep ==
  ASSUME Typed, LinesEnd, [Next]_vars
  PROVE  LinesEnd'
  <1> DEFINE v == visible_term_idx
  <1>1. CASE Enter
    <2>1. /\ v \in Term /\ cur_kuf_size[v] \in Cell
          /\ kbuf[v] \in [Cell -> Chars \cup {NUL}]
          /\ kbuf_entered \in [Term -> [Cell -> Char]] /\ enter_flag \in [Term -> {0, 1}]
      BY DEF Typed, TypeOK
    <2>2. \A j \in Cell : kbuf[v][j] # NL
      BY <2>1, CharFacts
    <2>3. \A j \in Cell : kbuf_entered'[v][j] = NL <=> j = cur_kuf_size[v]
      BY <1>1, <2>1, <2>2 DEF Enter
    <2>4. \A t \in Term \ {v} : /\ kbuf_entered'[t] = kbuf_entered[t]
                                /\ enter_flag'[t] = enter_flag[t]
      BY <1>1, <2>1 DEF Enter
    <2> HIDE DEF v
    <2>5. ASSUME NEW t \in Term, t # v
          PROVE  /\ \A j, k \in Cell :
                      kbuf_entered'[t][j] = NL /\ kbuf_entered'[t][k] = NL => j = k
                 /\ enter_flag'[t] = 1 => \E n \in Cell : kbuf_entered'[t][n] = NL
      <3>1. kbuf_entered'[t] = kbuf_entered[t] /\ enter_flag'[t] = enter_flag[t]
        BY <2>4, <2>5
      <3> QED BY <3>1, Zenon DEF LinesEnd
    <2>6. \A j, k \in Cell :
            kbuf_entered'[v][j] = NL /\ kbuf_entered'[v][k] = NL => j = k
      BY <2>3, Zenon
    <2>7. \E n \in Cell : kbuf_entered'[v][n] = NL
      BY <2>1, <2>3, Zenon
    <2> QED BY <2>5, <2>6, <2>7, Zenon DEF LinesEnd
  <1>2. ASSUME NEW t \in Term, ReadReturns(t) PROVE LinesEnd'
    BY <1>2 DEF LinesEnd, ReadReturns, Typed, TypeOK
  <1>3. CASE UNCHANGED <<kbuf_entered, enter_flag>>
    BY <1>3 DEF LinesEnd
  <1>4. CASE UNCHANGED vars
    BY <1>3, <1>4 DEF vars
  <1> QED
    BY <1>1, <1>2, <1>3, <1>4
    DEF Next, Key, Read, Type, Backspace, ClearScreen, Switch, keyboard, ReadCall,
        ReadSeesLine, ReadSeesItself, ReadCopies, Killed

\* The beginning of a text.
LEMMA CellsPrefix ==
  ASSUME NEW b \in [Cell -> Char], NEW n \in 0 .. kbuf_size, NEW m \in Nat, m <= n
  PROVE  SubSeq(Cells(b, n), 1, m) = Cells(b, m)
  <1> DEFINE p == SubSeq(Cells(b, n), 1, m)
  <1>0. m \in 0 .. kbuf_size /\ \A k \in 1 .. m : k \in 1 .. n
    BY CellFacts
  <1>1. /\ Cells(b, n) \in Seq(Char) /\ Len(Cells(b, n)) = n
        /\ \A k \in 1 .. n : Cells(b, n)[k] = b[k - 1]
    BY CellsAre
  <1>2. /\ Cells(b, m) \in Seq(Char) /\ Len(Cells(b, m)) = m
        /\ \A k \in 1 .. m : Cells(b, m)[k] = b[k - 1]
    BY <1>0, CellsAre
  <1>3. \A k \in 1 .. m : Cells(b, n)[k] \in Char
    BY <1>0, <1>1, ElementOfSeq
  <1>4. /\ p \in Seq(Char) /\ Len(p) = m
        /\ \A k \in 1 .. m : p[k] = Cells(b, n)[k]
    BY <1>3, SubSeqProperties
  <1> HIDE DEF p
  <1>5. \A k \in 1 .. m : p[k] = Cells(b, m)[k]
    BY <1>0, <1>1, <1>2, <1>4
  <1>6. p = Cells(b, m)
    BY <1>2, <1>4, <1>5, SeqEqual
  <1> QED BY <1>6 DEF p

\* The line a reader gets from a buffer, and that line cell by cell.
LineOf(b, nbytes) ==
  LET line == Append(Cells(b, LineLength(b)), NL)
  IN  SubSeq(line, 1, IF nbytes < Len(line) THEN nbytes ELSE Len(line))

LEMMA LineOfIs ==
  ASSUME NEW b \in [Cell -> Char], NEW nbytes \in Nat, NEW n \in Cell,
         b[n] = NL, LineLength(b) = n
  PROVE  LineOf(b, nbytes) = Cells(b, IF nbytes < n + 1 THEN nbytes ELSE n + 1)
  <1> DEFINE line == Append(Cells(b, LineLength(b)), NL)
  <1>2. line = Cells(b, n + 1)
    BY CellsAppend
  <1>3. n + 1 \in 0 .. kbuf_size /\ n + 1 \in Nat
    BY CellFacts
  <1>4. Len(line) = n + 1
    BY <1>2, <1>3, CellsAre
  <1> DEFINE m == IF nbytes < n + 1 THEN nbytes ELSE n + 1
  <1>5. LineOf(b, nbytes) = SubSeq(line, 1, m)
    BY <1>4 DEF LineOf
  <1>6. m \in Nat /\ m <= n + 1
    BY <1>3
  <1> HIDE DEF m, line
  <1>7. SubSeq(line, 1, m) = Cells(b, m)
    BY <1>2, <1>3, <1>6, CellsPrefix
  <1> QED BY <1>5, <1>7 DEF m

\* What is known of a calm reader.
CalmOK(t) ==
  /\ visible_term_idx = t
  /\ reader[t].at \in {"seen", "copy", "clear"}
  /\ \E n \in Cell : kbuf_entered[t][n] = NL
  /\ reader[t].at = "copy" => CopiesOwnLine(t)
  /\ reader[t].at = "clear" => reader[t].buf = LineFor(t)

LEMMA CalmParts == CalmReads /\ CalmReadGetsItsLine <=> \A t \in calm : CalmOK(t)
  BY DEF CalmReads, CalmReadGetsItsLine, CalmOK

\* A reader stays calm as long as neither it nor its terminal's line moves.
LEMMA CalmFrame ==
  ASSUME NEW t \in Term, CalmOK(t), reader'[t] = reader[t],
         kbuf_entered'[t] = kbuf_entered[t], UNCHANGED visible_term_idx
  PROVE  CalmOK(t)'
  <1>1. (LineFor(t))' = LineFor(t)
    BY DEF LineFor, EnteredLine
  <1>2. CopiesOwnLine(t) => CopiesOwnLine(t)'
    BY DEF CopiesOwnLine
  <1> QED BY <1>1, <1>2 DEF CalmOK

\* It starts to copy with nothing copied.
LEMMA CalmStarts ==
  ASSUME Typed, LinesEnd, ReadersInBuffer, NEW t \in Term, CalmOK(t), ReadSeesItself(t)
  PROVE  CalmOK(t)'
  <1>1. PICK n \in Cell : kbuf_entered[t][n] = NL
    BY DEF CalmOK
  <1>2. /\ visible_term_idx = t /\ reader[t].at = "seen"
        /\ UNCHANGED <<visible_term_idx, kbuf_entered>>
    BY DEF CalmOK, ReadSeesItself, keyboard
  <1>3. reader[t] \in Readers /\ reader'[t] = [reader[t] EXCEPT !.at = "copy"]
    BY <1>2 DEF ReadSeesItself, Typed
  <1>4. reader'[t].at = "copy" /\ reader'[t].buf = << >>
    BY <1>2, <1>3 DEF ReadersInBuffer, Readers
  <1>5. reader'[t].nbytes \in Nat
    BY <1>3, SizeFacts DEF Readers
  <1>6. Cells(kbuf_entered[t], 0) = << >>
    <2>1. kbuf_entered[t] \in [Cell -> Char] /\ 0 \in 0 .. kbuf_size
      BY CellFacts DEF Typed, TypeOK
    <2>2. Cells(kbuf_entered[t], 0) \in Seq(Char) /\ Len(Cells(kbuf_entered[t], 0)) = 0
      BY <2>1, CellsAre
    <2> QED BY <2>2, EmptySeq
  <1>7. LineLength(kbuf_entered[t]) = n /\ n \in Nat
    BY <1>1, LineEnd, CellFacts
  <1>8. CopiesOwnLine(t)'
    BY <1>2, <1>4, <1>5, <1>6, <1>7, EmptySeq DEF CopiesOwnLine
  <1> QED BY <1>1, <1>2, <1>4, <1>8 DEF CalmOK

\* It copies its line up to the newline, and no more than it asked for.
LEMMA CalmCopies ==
  ASSUME Typed, LinesEnd, ReadersInBuffer, LinesEnd', Typed',
         NEW t \in Term, CalmOK(t), ReadCopies(t)
  PROVE  CalmOK(t)'
  <1> DEFINE b == kbuf_entered[t]
             j == Len(reader[t].buf)
             c == IF j = kbuf_size - 1 THEN NL ELSE b[j]
  <1>1. PICK n \in Cell : b[n] = NL
    BY DEF CalmOK
  <1>2. /\ visible_term_idx = t /\ reader[t].at = "copy"
        /\ UNCHANGED <<visible_term_idx, kbuf_entered>>
        /\ b \in [Cell -> Char] /\ reader[t] \in Readers
    BY DEF CalmOK, ReadCopies, keyboard, Typed, TypeOK
  <1>3. LineLength(b) = n /\ n \in Nat /\ n <= kbuf_size - 1
    BY <1>1, LineEnd, CellFacts DEF Cell
  <1>4. j <= reader[t].nbytes /\ j <= n /\ reader[t].buf = Cells(b, j)
    BY <1>2, <1>3 DEF CalmOK, CopiesOwnLine
  <1>5. reader[t].nbytes \in Nat
    BY <1>2, SizeFacts DEF Readers
  <1>6. /\ j \in Cell /\ j \in Nat /\ c \in Char
        /\ \/ j = reader[t].nbytes /\ reader'[t] = [reader[t] EXCEPT !.at = "clear"]
           \/ /\ j < reader[t].nbytes
              /\ reader'[t] = [reader[t] EXCEPT !.buf = Append(@, c),
                                                !.at = IF c = NL THEN "clear" ELSE @]
    <2>1. reader \in [Term -> Readers]
      BY DEF Typed
    <2> QED BY <1>2, <2>1, CopyTurn, CellFacts, ZenonT(40)
  <1>7. reader'[t].nbytes = reader[t].nbytes
    BY <1>2, <1>6 DEF Readers
  <1>8. (LineFor(t))' = Cells(b, IF reader[t].nbytes < n + 1 THEN reader[t].nbytes ELSE n + 1)
    <2>1. (LineFor(t))' = LineOf(b, reader[t].nbytes)
      BY <1>2, <1>7 DEF LineFor, EnteredLine, LineOf
    <2> QED BY <1>1, <1>2, <1>3, <1>5, <2>1, LineOfIs
  <1> HIDE DEF j, c, b
  <1>9. CASE j = reader[t].nbytes /\ reader'[t] = [reader[t] EXCEPT !.at = "clear"]
    <2>1. reader'[t].at = "clear" /\ reader'[t].buf = reader[t].buf
      BY <1>2, <1>9 DEF Readers
    <2>2. reader[t].nbytes < n + 1
      BY <1>3, <1>4, <1>5, <1>9
    <2>3. (LineFor(t))' = reader'[t].buf
      BY <1>4, <1>8, <1>9, <2>1, <2>2
    <2> QED BY <1>1, <1>2, <2>1, <2>3 DEF CalmOK, b
  <1>10. CASE /\ j < reader[t].nbytes
              /\ reader'[t] = [reader[t] EXCEPT !.buf = Append(@, c),
                                                !.at = IF c = NL THEN "clear" ELSE @]
    <2>1. /\ reader'[t].buf = Append(Cells(b, j), c)
          /\ reader'[t].at = IF c = NL THEN "clear" ELSE "copy"
      BY <1>2, <1>4, <1>10 DEF Readers
    <2>2. c = b[j]
      <3>1. CASE j = kbuf_size - 1
        BY <1>1, <1>3, <1>4, <1>6, <3>1, CellFacts DEF c
      <3> QED BY <3>1 DEF c
    <2>3. reader'[t].buf = Cells(b, j + 1) /\ Len(reader'[t].buf) = j + 1
      <3>1. j + 1 \in 0 .. kbuf_size
        BY <1>6, CellFacts
      <3>2. reader'[t].buf = Cells(b, j + 1)
        BY <1>2, <1>6, <2>1, <2>2, CellsAppend
      <3>3. Len(Cells(b, j + 1)) = j + 1
        BY <1>2, <3>1, CellsAre
      <3> QED BY <3>2, <3>3
    <2>4. CASE c = NL
      <3>1. j = n
        BY <1>1, <1>6, <2>2, <2>4 DEF LinesEnd, b
      <3>2. (LineFor(t))' = reader'[t].buf
        BY <1>3, <1>5, <1>8, <1>10, <2>3, <3>1
      <3> QED BY <1>1, <1>2, <2>1, <2>4, <3>2 DEF CalmOK, b
    <2>5. CASE c # NL
      <3>1. j # n
        BY <1>1, <2>2, <2>5
      <3>2. j + 1 <= n /\ j + 1 <= reader[t].nbytes
        BY <1>3, <1>4, <1>5, <1>6, <1>10, <3>1
      <3>3. CopiesOwnLine(t)'
        BY <1>2, <1>3, <1>7, <2>3, <3>2 DEF CopiesOwnLine, b
      <3> QED BY <1>1, <1>2, <2>1, <2>5, <3>3 DEF CalmOK, b
    <2> QED BY <2>4, <2>5
  <1> QED BY <1>6, <1>9, <1>10

LEMMA CalmStep ==
  ASSUME IInv, LinesEnd', Typed', [Next]_vars
  PROVE  \A t \in calm' : CalmOK(t)'
  <1> SUFFICES ASSUME NEW t \in calm' PROVE CalmOK(t)'
    OBVIOUS
  <1>0. /\ Typed /\ LinesEnd /\ ReadersInBuffer /\ t \in Term
        /\ \A u \in calm : CalmOK(u) /\ visible_term_idx = u
        /\ reader \in [Term -> Readers] /\ kbuf_entered \in [Term -> [Cell -> Char]]
    BY CalmParts DEF IInv, Typed, TypeOK, CalmOK
  <1>1. ASSUME t \in calm, reader'[t] = reader[t], kbuf_entered'[t] = kbuf_entered[t],
               UNCHANGED visible_term_idx
        PROVE  CalmOK(t)'
    BY <1>0, <1>1, CalmFrame
  <1>2. CASE UNCHANGED vars
    BY <1>1, <1>2 DEF vars
  <1>3. CASE Key
    <2>1. CASE Enter \/ \E to \in Term : Switch(to)
      BY <1>0, <2>1 DEF Enter, Switch
    <2>2. CASE UNCHANGED <<visible_term_idx, kbuf_entered, reader, calm>>
      BY <1>1, <2>2
    <2> QED BY <1>3, <2>1, <2>2 DEF Key, Type, Backspace, ClearScreen
  <1>4. ASSUME NEW u \in Term, u # t,
               \/ \E nbytes \in ReadSizes : ReadCall(u, nbytes)
               \/ Read(u) \/ Killed(u)
        PROVE  CalmOK(t)'
    <2>1. t \in calm /\ UNCHANGED <<visible_term_idx, kbuf_entered>>
      BY <1>4
      DEF ReadCall, Read, ReadSeesLine, ReadSeesItself, ReadCopies, ReadReturns, Killed,
          keyboard
    <2>2. reader'[t] = reader[t]
      BY <1>0, <1>4
      DEF ReadCall, Read, ReadSeesLine, ReadSeesItself, ReadCopies, ReadReturns, Killed
    <2> QED BY <1>1, <2>1, <2>2
  <1>5. ASSUME NEW nbytes \in ReadSizes, ReadCall(t, nbytes) PROVE FALSE
    <2>1. t \in calm /\ reader[t].at = "out"
      BY <1>5 DEF ReadCall
    <2> QED BY <1>0, <2>1 DEF CalmOK
  <1>6. CASE ReadSeesLine(t)
    <2>1. /\ visible_term_idx = t /\ enter_flag[t] = 1
          /\ UNCHANGED <<visible_term_idx, kbuf_entered>>
      BY <1>0, <1>6 DEF ReadSeesLine, keyboard
    <2>2. reader'[t].at = "seen"
      BY <1>0, <1>6 DEF ReadSeesLine
    <2> QED BY <1>0, <2>1, <2>2 DEF CalmOK, LinesEnd
  <1>7. CASE ReadSeesItself(t)
    <2>1. t \in calm
      BY <1>7 DEF ReadSeesItself
    <2> QED BY <1>0, <1>7, <2>1, CalmStarts
  <1>8. CASE ReadCopies(t)
    <2>1. t \in calm
      BY <1>8 DEF ReadCopies
    <2> QED BY <1>0, <1>8, <2>1, CalmCopies
  <1>9. ASSUME ReadReturns(t) \/ Killed(t) PROVE FALSE
    BY <1>9 DEF ReadReturns, Killed
  <1> QED
    BY <1>2, <1>3, <1>4, <1>5, <1>6, <1>7, <1>8, <1>9 DEF Next, Read

-----------------------------------------------------------------------------
(* The theorems *)

\* The inductive invariant holds in every reachable state.
THEOREM Invariance == Spec => []IInv
  <1>1. Init => IInv
    <2> SUFFICES ASSUME Init PROVE IInv
      OBVIOUS
    <2>1. \A t \in Term : reader[t] = Out /\ kbuf_entered[t] = Blank /\ enter_flag[t] = 0
      BY DEF Init
    <2>2. Out.at = "out" /\ \A j \in Cell : Blank[j] # NL
      BY CharFacts DEF Out, Blank
    <2>3. LinesEnd
      BY <2>1, <2>2 DEF LinesEnd
    <2>4. ReadersInBuffer
      BY <2>1, <2>2 DEF ReadersInBuffer
    <2>5. calm = {}
      BY DEF Init
    <2> QED BY <2>3, <2>4, <2>5, InitTyped DEF IInv, CalmReads, CalmReadGetsItsLine
  <1>2. IInv /\ [Next]_vars => IInv'
    <2> SUFFICES ASSUME IInv, [Next]_vars PROVE IInv'
      OBVIOUS
    <2>1. KeyboardTyped' /\ ReadersTyped' /\ ReadersInBuffer'
      BY TypedParts, KeyboardTypedStep, ReadersTypedStep DEF IInv
    <2>2. Typed'
      BY <2>1, TypedParts, PTL
    <2>3. LinesEnd'
      BY LinesEndStep DEF IInv
    <2>4. (\A t \in calm : CalmOK(t))'
      BY <2>2, <2>3, CalmStep
    <2>5. (CalmReads /\ CalmReadGetsItsLine)'
      BY <2>4, CalmParts, PTL
    <2> QED BY <2>1, <2>2, <2>3, <2>5 DEF IInv
  <1> QED BY <1>1, <1>2, PTL DEF Spec

\* No key and no read, in any interleaving, takes a line past its buffer or a
\* reader past what its buffer has room for.
THEOREM TypeCorrect == Spec => []TypeOK
  <1>1. IInv => TypeOK
    BY DEF IInv, Typed
  <1> QED BY <1>1, Invariance, PTL

\* A reader that no switch and no Enter comes in the way of returns the line
\* that was entered on its own terminal, up to the size it asked for.
THEOREM CalmReadersGetTheirLine == Spec => []CalmReadGetsItsLine
  <1>1. IInv => CalmReadGetsItsLine
    BY DEF IInv
  <1> QED BY <1>1, Invariance, PTL

-----------------------------------------------------------------------------
(* The line buffers implement the line editor *)

\* What LineEditor's variables stand for.
EditorText  == [t \in Term |-> Cells(kbuf[t], cur_kuf_size[t])]
EditorLine  == [t \in Term |-> EnteredLine(t)]
EditorReady == [t \in Term |-> enter_flag[t] = 1]

\* The editor's actions on what they stand for.
EditorTypes(t, c) ==
  /\ Len(EditorText[t]) < kbuf_size - 1
  /\ EditorText' = [EditorText EXCEPT ![t] = Append(@, c)]
  /\ UNCHANGED <<EditorLine, EditorReady>>

EditorErases(t) ==
  /\ EditorText[t] # << >>
  /\ EditorText' = [EditorText EXCEPT ![t] = Front(@)]
  /\ UNCHANGED <<EditorLine, EditorReady>>

EditorDiscards(t) ==
  EditorText' = [EditorText EXCEPT ![t] = << >>] /\ UNCHANGED <<EditorLine, EditorReady>>

EditorEnters(t) ==
  /\ EditorLine' = [EditorLine EXCEPT ![t] = EditorText[t]]
  /\ EditorReady' = [EditorReady EXCEPT ![t] = TRUE]
  /\ EditorText' = [EditorText EXCEPT ![t] = << >>]

EditorTakes(t) ==
  EditorReady' = [EditorReady EXCEPT ![t] = FALSE] /\ UNCHANGED <<EditorText, EditorLine>>

EditorStutters == UNCHANGED <<EditorText, EditorLine, EditorReady>>

LEMMA NoCells ==
  ASSUME NEW b \in [Cell -> Char]
  PROVE  Cells(b, 0) = << >>
  <1>1. Cells(b, 0) \in Seq(Char) /\ Len(Cells(b, 0)) = 0
    BY CellsAre, CellFacts
  <1> QED BY <1>1, EmptySeq

LEMMA BlankIs == Blank \in [Cell -> Char] /\ \A j \in Cell : Blank[j] # NL
  BY CharFacts DEF Blank

\* Nothing entered, nothing to take.
LEMMA LinesUnchanged ==
  ASSUME UNCHANGED <<kbuf_entered, enter_flag>>
  PROVE  UNCHANGED <<EditorLine, EditorReady>>
  BY DEF EditorLine, EditorReady, EnteredLine

\* A character that fits is appended to the text.
LEMMA TypeImplements ==
  ASSUME Typed, NEW c \in Chars, Type(c)
  PROVE  EditorTypes(visible_term_idx, c)
  <1> DEFINE v == visible_term_idx
             n == cur_kuf_size[v]
             b == [kbuf[v] EXCEPT ![n] = c]
  <1>1. /\ v \in Term /\ n \in Cell /\ n \in Nat /\ n < kbuf_size - 1
        /\ kbuf \in [Term -> [Cell -> Chars \cup {NUL}]]
        /\ cur_kuf_size \in [Term -> Cell]
        /\ kbuf[v] \in [Cell -> Char] /\ c \in Char
    BY CharFacts, CellFacts DEF Typed, TypeOK, Type
  <1>2. b \in [Cell -> Char] /\ b[n] = c /\ \A j \in 0 .. n - 1 : b[j] = kbuf[v][j]
    <2>1. \A j \in 0 .. n - 1 : j \in Cell /\ j # n
      BY <1>1, CellFacts DEF Cell
    <2> QED BY <1>1, <2>1
  <1>3. kbuf' = [kbuf EXCEPT ![v] = b] /\ cur_kuf_size' = [cur_kuf_size EXCEPT ![v] = n + 1]
    BY <1>1 DEF Type
  <1>4. Cells(b, n + 1) = Append(Cells(kbuf[v], n), c)
    <2> HIDE DEF b, n
    <2>1. Cells(b, n) = Cells(kbuf[v], n)
      BY <1>1, <1>2, CellsSame, Zenon
    <2>2. Append(Cells(b, n), b[n]) = Cells(b, n + 1)
      BY <1>1, <1>2, CellsAppend
    <2> QED BY <1>2, <2>1, <2>2
  <1>5. Len(Cells(kbuf[v], n)) = n
    BY <1>1, CellsAre, CellFacts
  <1> HIDE DEF b, n
  <1>6. EditorText' = [EditorText EXCEPT ![v] = Append(@, c)]
    <2>1. \A t \in Term : EditorText'[t] = IF t = v THEN Cells(b, n + 1) ELSE EditorText[t]
      BY <1>1, <1>3 DEF EditorText
    <2>2. EditorText[v] = Cells(kbuf[v], n)
      BY <1>1 DEF EditorText, n
    <2>3. DOMAIN EditorText = Term /\ EditorText' = [t \in Term |-> EditorText'[t]]
      BY DEF EditorText
    <2>4. EditorText' = [t \in Term |-> IF t = v THEN Append(EditorText[v], c)
                                        ELSE EditorText[t]]
      BY <1>4, <2>1, <2>2, <2>3
    <2> QED BY <1>1, <2>4 DEF EditorText
  <1>7. EditorText[v] = Cells(kbuf[v], n)
    BY <1>1 DEF EditorText, n
  <1>8. UNCHANGED <<EditorLine, EditorReady>>
    BY LinesUnchanged DEF Type
  <1> QED BY <1>1, <1>5, <1>6, <1>7, <1>8 DEF EditorTypes

\* Backspace takes the last one back; the cell it leaves behind is not text.
LEMMA BackspaceImplements ==
  ASSUME Typed, Backspace
  PROVE  EditorErases(visible_term_idx)
  <1> DEFINE v == visible_term_idx
             n == cur_kuf_size[v]
             b == [kbuf[v] EXCEPT ![n] = NUL]
  <1>1. /\ v \in Term /\ n \in Cell /\ n # 0 /\ n - 1 \in Nat
        /\ kbuf \in [Term -> [Cell -> Chars \cup {NUL}]]
        /\ cur_kuf_size \in [Term -> Cell]
        /\ kbuf[v] \in [Cell -> Char]
    <2>1. n \in Cell /\ n > 0
      BY DEF Typed, TypeOK, Backspace
    <2>2. n \in Nat
      BY <2>1, CellFacts
    <2> QED BY <2>1, <2>2, CharFacts DEF Typed, TypeOK
  <1>2. \A j \in 0 .. (n - 1) - 1 : b[j] = kbuf[v][j]
    <2>1. \A j \in 0 .. (n - 1) - 1 : j \in Cell /\ j # n
      BY <1>1, CellFacts DEF Cell
    <2> QED BY <1>1, <2>1
  <1>3. kbuf' = [kbuf EXCEPT ![v] = b] /\ cur_kuf_size' = [cur_kuf_size EXCEPT ![v] = n - 1]
    BY <1>1 DEF Backspace
  <1>4. Cells(kbuf[v], n) # << >> /\ Cells(b, n - 1) = Front(Cells(kbuf[v], n))
    <2> HIDE DEF b, n
    <2>1. Cells(b, n - 1) = Cells(kbuf[v], n - 1)
      BY <1>1, <1>2, CellsSame, Zenon
    <2> QED BY <1>1, <2>1, CellsFront
  <1> HIDE DEF b, n
  <1>5. EditorText[v] = Cells(kbuf[v], n)
    BY <1>1 DEF EditorText, n
  <1>6. EditorText' = [EditorText EXCEPT ![v] = Front(@)]
    <2>1. \A t \in Term : EditorText'[t] = IF t = v THEN Cells(b, n - 1) ELSE EditorText[t]
      BY <1>1, <1>3 DEF EditorText
    <2>2. EditorText' = [t \in Term |-> EditorText'[t]]
      BY DEF EditorText
    <2>3. EditorText' = [t \in Term |-> IF t = v THEN Front(EditorText[v])
                                        ELSE EditorText[t]]
      BY <1>4, <1>5, <2>1, <2>2
    <2> QED BY <1>1, <2>3 DEF EditorText
  <1>7. UNCHANGED <<EditorLine, EditorReady>>
    BY LinesUnchanged DEF Backspace
  <1> QED BY <1>4, <1>5, <1>6, <1>7 DEF EditorErases

\* An emptied buffer holds no text.
LEMMA EmptiedText ==
  ASSUME Typed, NEW v \in Term, kbuf' = [kbuf EXCEPT ![v] = Blank],
         cur_kuf_size' = [cur_kuf_size EXCEPT ![v] = 0]
  PROVE  EditorText' = [EditorText EXCEPT ![v] = << >>]
  <1>1. \A t \in Term : EditorText'[t] = IF t = v THEN Cells(Blank, 0) ELSE EditorText[t]
    BY DEF EditorText, Typed, TypeOK
  <1>2. Cells(Blank, 0) = << >>
    BY BlankIs, NoCells
  <1>3. EditorText' = [t \in Term |-> EditorText'[t]]
    BY DEF EditorText
  <1>4. EditorText' = [t \in Term |-> IF t = v THEN << >> ELSE EditorText[t]]
    BY <1>1, <1>2, <1>3
  <1> QED BY <1>4 DEF EditorText

\* Enter makes the text the line, to be taken.
LEMMA EnterImplements ==
  ASSUME Typed, Enter
  PROVE  EditorEnters(visible_term_idx)
  <1> DEFINE v == visible_term_idx
             n == cur_kuf_size[v]
             b == [kbuf[v] EXCEPT ![n] = NL]
  <1>1. /\ v \in Term /\ n \in Cell /\ n \in Nat
        /\ kbuf[v] \in [Cell -> Chars \cup {NUL}]
        /\ kbuf_entered \in [Term -> [Cell -> Char]]
        /\ enter_flag \in [Term -> {0, 1}]
    BY CellFacts DEF Typed, TypeOK
  <1>2. /\ \A j \in 0 .. n - 1 : b[j] = kbuf[v][j]
        /\ b[n] = NL /\ \A j \in Cell : b[j] = NL => n = j
    <2>1. \A j \in 0 .. n - 1 : j \in Cell /\ j # n
      BY <1>1, CellFacts DEF Cell
    <2>2. \A j \in Cell : kbuf[v][j] # NL
      BY <1>1, CharFacts
    <2> QED BY <1>1, <2>1, <2>2
  <1>3. Cells(b, LineLength(b)) = Cells(kbuf[v], n)
    <2>1. LineLength(b) = n
      BY <1>1, <1>2, LineLengthIs
    <2> HIDE DEF b, n
    <2>2. Cells(b, n) = Cells(kbuf[v], n)
      BY <1>1, <1>2, CellsSame, ZenonT(40)
    <2> QED BY <2>1, <2>2
  <1>4. /\ kbuf_entered' = [kbuf_entered EXCEPT ![v] = b]
        /\ enter_flag' = [enter_flag EXCEPT ![v] = 1]
    BY <1>1 DEF Enter
  <1> HIDE DEF b
  <1>5. EditorText[v] = Cells(kbuf[v], n)
    BY <1>1 DEF EditorText
  <1>6. EditorLine' = [EditorLine EXCEPT ![v] = EditorText[v]]
    <2>1. \A t \in Term : EditorLine'[t] = IF t = v THEN Cells(b, LineLength(b))
                                           ELSE EditorLine[t]
      BY <1>1, <1>4 DEF EditorLine, EnteredLine
    <2>2. EditorLine' = [t \in Term |-> EditorLine'[t]]
      BY DEF EditorLine
    <2>3. EditorLine' = [t \in Term |-> IF t = v THEN EditorText[v] ELSE EditorLine[t]]
      BY <1>3, <1>5, <2>1, <2>2
    <2> QED BY <2>3 DEF EditorLine
  <1>7. EditorReady' = [EditorReady EXCEPT ![v] = TRUE]
    <2>1. EditorReady' = [t \in Term |-> IF t = v THEN TRUE ELSE EditorReady[t]]
      BY <1>1, <1>4 DEF EditorReady
    <2> QED BY <2>1 DEF EditorReady
  <1>8. EditorText' = [EditorText EXCEPT ![v] = << >>]
    BY <1>1, EmptiedText DEF Enter
  <1> QED BY <1>6, <1>7, <1>8 DEF EditorEnters

\* The end of any read, its own terminal's or not, takes the visible one's line.
LEMMA ReturnImplements ==
  ASSUME Typed, NEW t \in Term, ReadReturns(t)
  PROVE  EditorTakes(visible_term_idx)
  <1>1. EditorReady' = [u \in Term |-> IF u = visible_term_idx THEN FALSE ELSE EditorReady[u]]
    <2>1. enter_flag' = [enter_flag EXCEPT ![visible_term_idx] = 0] /\ enter_flag \in [Term -> {0, 1}]
      BY DEF ReadReturns, Typed, TypeOK
    <2>2. \A u \in Term : (enter_flag'[u] = 1) = IF u = visible_term_idx THEN FALSE
                                               ELSE EditorReady[u]
      <3>1. ASSUME NEW u \in Term PROVE enter_flag'[u] = IF u = visible_term_idx THEN 0 ELSE enter_flag[u]
        BY <2>1
      <3>2. ASSUME NEW u \in Term PROVE EditorReady[u] = (enter_flag[u] = 1)
        BY Zenon DEF EditorReady
      <3>3. 0 # 1
        OBVIOUS
      <3> QED BY <3>1, <3>2, <3>3, Zenon
    <2> QED BY <2>2 DEF EditorReady
  <1>2. EditorReady' = [EditorReady EXCEPT ![visible_term_idx] = FALSE]
    BY <1>1 DEF EditorReady
  <1>3. UNCHANGED <<EditorText, EditorLine>>
    BY DEF EditorText, EditorLine, EnteredLine, ReadReturns
  <1> QED BY <1>2, <1>3 DEF EditorTakes

LEMMA StepImplements ==
  ASSUME Typed, [Next]_vars
  PROVE  \/ \E t \in Term : \/ \E c \in Chars : EditorTypes(t, c)
                            \/ EditorErases(t) \/ EditorDiscards(t)
                            \/ EditorEnters(t) \/ EditorTakes(t)
         \/ EditorStutters
  <1>1. visible_term_idx \in Term
    BY DEF Typed, TypeOK
  <1>2. CASE ClearScreen
    <2>1. EditorText' = [EditorText EXCEPT ![visible_term_idx] = << >>]
      BY <1>1, <1>2, EmptiedText DEF ClearScreen
    <2>2. UNCHANGED <<EditorLine, EditorReady>>
      BY <1>2, LinesUnchanged DEF ClearScreen
    <2> QED BY <1>1, <2>1, <2>2 DEF EditorDiscards
  <1>3. CASE UNCHANGED keyboard
    BY <1>3, LinesUnchanged DEF keyboard, EditorStutters, EditorText
  <1>4. CASE UNCHANGED vars
    BY <1>3, <1>4 DEF vars, keyboard
  <1> QED
    BY <1>1, <1>2, <1>3, <1>4, TypeImplements, BackspaceImplements, EnterImplements,
       ReturnImplements
    DEF Next, Key, Read, Switch, ReadCall, ReadSeesLine, ReadSeesItself, ReadCopies, Killed

\* Whatever is typed, erased, cleared, entered and read, on any number of
\* terminals, is a step of the line editor on each: the cell Backspace leaves
\* behind never shows, and the limit leaves room for the newline.
THEOREM BuffersImplementEditor == Spec => ImplementsEditor
  <1>1. Init => Editor!Init
    <2> SUFFICES ASSUME Init PROVE Editor!Init
      OBVIOUS
    <2>1. Cells(Blank, 0) = << >> /\ LineLength(Blank) = 0
      BY BlankIs, NoCells, LineLengthBlank
    <2>2. /\ EditorText = [t \in Term |-> << >>] /\ EditorLine = [t \in Term |-> << >>]
          /\ EditorReady = [t \in Term |-> FALSE]
      <3>1. \A t \in Term : /\ Cells(kbuf[t], cur_kuf_size[t]) = << >>
                            /\ EnteredLine(t) = << >> /\ enter_flag[t] = 0
        BY <2>1 DEF Init, EnteredLine
      <3>2. \A t \in Term : (enter_flag[t] = 1) = FALSE
        BY <3>1
      <3> QED BY <3>1, <3>2, Zenon DEF EditorText, EditorLine, EditorReady
    <2> QED BY <2>2 DEF Editor!Init, EditorText, EditorLine, EditorReady
  <1>2. IInv /\ [Next]_vars => [Editor!Next]_(Editor!vars)
    <2> SUFFICES ASSUME IInv, [Next]_vars PROVE [Editor!Next]_(Editor!vars)
      OBVIOUS
    <2>1. ASSUME NEW t \in Term, NEW c \in Chars, EditorTypes(t, c) PROVE Editor!Type(t, c)
      BY <2>1 DEF EditorTypes, Editor!Type, EditorText, EditorLine, EditorReady
    <2>2. ASSUME NEW t \in Term, EditorErases(t) PROVE Editor!Erase(t)
      BY <2>2 DEF EditorErases, Editor!Erase, Editor!Front, Front, EditorText, EditorLine, EditorReady
    <2>3. ASSUME NEW t \in Term, EditorDiscards(t) PROVE Editor!Discard(t)
      BY <2>3 DEF EditorDiscards, Editor!Discard, EditorText, EditorLine, EditorReady
    <2>4. ASSUME NEW t \in Term, EditorEnters(t) PROVE Editor!Enter(t)
      BY <2>4 DEF EditorEnters, Editor!Enter, EditorText, EditorLine, EditorReady
    <2>5. ASSUME NEW t \in Term, EditorTakes(t) PROVE Editor!Take(t)
      BY <2>5 DEF EditorTakes, Editor!Take, EditorText, EditorLine, EditorReady
    <2>6. ASSUME EditorStutters PROVE UNCHANGED Editor!vars
      BY <2>6 DEF EditorStutters, Editor!vars, EditorText, EditorLine, EditorReady
    <2>7. Typed
      BY DEF IInv
    <2> QED BY <2>1, <2>2, <2>3, <2>4, <2>5, <2>6, <2>7, StepImplements DEF Editor!Next
  <1> QED BY <1>1, <1>2, Invariance, PTL DEF Spec, ImplementsEditor, Editor!Spec
=============================================================================
