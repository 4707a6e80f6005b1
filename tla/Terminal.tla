------------------------------ MODULE Terminal ------------------------------
(***************************************************************************)
(* The input side of the terminals: print_key and clear_screen edit the    *)
(* visible terminal's line buffer in the keyboard interrupt, Enter hands   *)
(* the line over in kbuf_entered with enter_flag, and terminal_read spins  *)
(* on the flag and copies the line out, with interrupts on.  Every access  *)
(* of terminal_read goes through the global visible_term_idx, which a key  *)
(* may change between any two of them (module Console has the switch).     *)
(***************************************************************************)
EXTENDS Integers, Sequences, SequencesExt

CONSTANTS NTERMS,        \* terminals (3 in multi_term.h)
          kbuf_size,     \* characters of a line buffer (128 in keyboard.h)
          Chars,         \* the characters of printable keys other than Enter
          ReadSizes      \* nbytes of the reads

ASSUME TerminalAssumption ==
    /\ NTERMS \in Nat \ {0}
    /\ kbuf_size \in Nat \ {0}
    /\ ReadSizes \subseteq Nat
    /\ "" \notin Chars /\ "\n" \notin Chars

Term == 0 .. NTERMS - 1
Cell == 0 .. kbuf_size - 1
NUL  == ""
NL   == "\n"

VARIABLES
    visible_term_idx,
    kbuf,              \* [Term -> [Cell -> character]]: the line being typed
    cur_kuf_size,      \* [Term -> its length]
    kbuf_entered,      \* [Term -> [Cell -> character]]: the line entered
    enter_flag,        \* [Term -> 1 when it has not been read]
    reader,            \* [Term -> its process's terminal_read]
    calm               \* readers no switch and no Enter came in the way of

keyboard == <<kbuf, cur_kuf_size, kbuf_entered, enter_flag>>
vars == <<visible_term_idx, kbuf, cur_kuf_size, kbuf_entered, enter_flag, reader, calm>>

Blank == [j \in Cell |-> NUL]
Out   == [at |-> "out", nbytes |-> 0, buf |-> << >>]

Reading(t) == reader[t].at \in {"seen", "copy", "clear"}

-----------------------------------------------------------------------------
(* print_key and clear_screen, on the visible terminal *)

\* Mutant: the last cell is used too.
TypeTooFar(c) ==
    LET v == visible_term_idx
    IN  /\ cur_kuf_size[v] < kbuf_size
        /\ kbuf' = [kbuf EXCEPT ![v][cur_kuf_size[v]] = c]
        /\ cur_kuf_size' = [cur_kuf_size EXCEPT ![v] = @ + 1]
        /\ UNCHANGED <<visible_term_idx, kbuf_entered, enter_flag, reader, calm>>

\* One cell is kept for the newline; a key that finds the rest full is echoed
\* and dropped.
Type(c) ==
    LET v == visible_term_idx
    IN  /\ cur_kuf_size[v] < kbuf_size - 1
        /\ kbuf' = [kbuf EXCEPT ![v][cur_kuf_size[v]] = c]
        /\ cur_kuf_size' = [cur_kuf_size EXCEPT ![v] = @ + 1]
        /\ UNCHANGED <<visible_term_idx, kbuf_entered, enter_flag, reader, calm>>

\* Backspace blanks the cell after the last character, and forgets the last.
Backspace ==
    LET v == visible_term_idx
    IN  /\ cur_kuf_size[v] > 0
        /\ kbuf' = [kbuf EXCEPT ![v][cur_kuf_size[v]] = NUL]
        /\ cur_kuf_size' = [cur_kuf_size EXCEPT ![v] = @ - 1]
        /\ UNCHANGED <<visible_term_idx, kbuf_entered, enter_flag, reader, calm>>

\* Mutant: the newline goes after the cell Enter finds free.
EnterLate ==
    LET v == visible_term_idx
    IN  /\ kbuf_entered' = [kbuf_entered EXCEPT ![v] =
                               [j \in Cell |-> IF j = cur_kuf_size[v] + 1 THEN NL
                                               ELSE kbuf[v][j]]]
        /\ kbuf' = [kbuf EXCEPT ![v] = Blank]
        /\ cur_kuf_size' = [cur_kuf_size EXCEPT ![v] = 0]
        /\ enter_flag' = [enter_flag EXCEPT ![v] = 1]
        /\ calm' = calm \ {v}
        /\ UNCHANGED <<visible_term_idx, reader>>

Enter ==
    LET v == visible_term_idx
    IN  /\ kbuf_entered' = [kbuf_entered EXCEPT ![v] =
                               [kbuf[v] EXCEPT ![cur_kuf_size[v]] = NL]]
        /\ kbuf' = [kbuf EXCEPT ![v] = Blank]
        /\ cur_kuf_size' = [cur_kuf_size EXCEPT ![v] = 0]
        /\ enter_flag' = [enter_flag EXCEPT ![v] = 1]
        /\ calm' = calm \ {v}
        /\ UNCHANGED <<visible_term_idx, reader>>

\* Ctrl-L.
ClearScreen ==
    LET v == visible_term_idx
    IN  /\ kbuf' = [kbuf EXCEPT ![v] = Blank]
        /\ cur_kuf_size' = [cur_kuf_size EXCEPT ![v] = 0]
        /\ UNCHANGED <<visible_term_idx, kbuf_entered, enter_flag, reader, calm>>

Switch(to) ==
    /\ to # visible_term_idx
    /\ visible_term_idx' = to
    /\ calm' = {}
    /\ UNCHANGED <<keyboard, reader>>

-----------------------------------------------------------------------------
(* terminal_read in terminal t's process; each step is taken with t active *)

ReadCall(t, nbytes) ==
    /\ reader[t].at = "out"
    /\ reader' = [reader EXCEPT ![t] = [at |-> "wait", nbytes |-> nbytes, buf |-> << >>]]
    /\ UNCHANGED <<visible_term_idx, keyboard, calm>>

\* The loop's condition: the visible terminal has a line ...
ReadSeesLine(t) ==
    /\ reader[t].at = "wait"
    /\ enter_flag[visible_term_idx] = 1
    /\ reader' = [reader EXCEPT ![t].at = "seen"]
    /\ calm' = IF visible_term_idx = t THEN calm \cup {t} ELSE calm \ {t}
    /\ UNCHANGED <<visible_term_idx, keyboard>>

\* Mutant: the active terminal's index is one ahead.
ReadSeesNext(t) ==
    /\ reader[t].at = "seen"
    /\ reader' = [reader EXCEPT ![t].at =
                     IF visible_term_idx = (t + 1) % NTERMS THEN "copy" ELSE "wait"]
    /\ UNCHANGED <<visible_term_idx, keyboard, calm>>

\* ... and the visible terminal is the active one.
ReadSeesItself(t) ==
    /\ reader[t].at = "seen"
    /\ reader' = [reader EXCEPT ![t].at = IF visible_term_idx = t THEN "copy" ELSE "wait"]
    /\ UNCHANGED <<visible_term_idx, keyboard, calm>>

\* Mutant: the newline that ends the line is not looked for.
ReadCopiesOn(t) ==
    LET j == Len(reader[t].buf)
        c == kbuf_entered[visible_term_idx][j]
    IN  /\ reader[t].at = "copy"
        /\ reader' = [reader EXCEPT
                        ![t].buf = IF j = reader[t].nbytes THEN @
                                   ELSE Append(@, IF j = kbuf_size - 1 THEN NL ELSE c),
                        ![t].at = IF j = reader[t].nbytes \/ j = kbuf_size - 1
                                  THEN "clear" ELSE @]
        /\ UNCHANGED <<visible_term_idx, keyboard, calm>>

\* One turn of the copy loop, or its end: after nbytes characters, or with the
\* newline, which is forced into the buffer's last cell.
ReadCopies(t) ==
    LET j == Len(reader[t].buf)
        c == IF j = kbuf_size - 1 THEN NL ELSE kbuf_entered[visible_term_idx][j]
    IN  /\ reader[t].at = "copy"
        /\ \/ /\ j = reader[t].nbytes
              /\ reader' = [reader EXCEPT ![t].at = "clear"]
           \/ /\ j < reader[t].nbytes
              /\ reader' = [reader EXCEPT ![t].buf = Append(@, c),
                                          ![t].at = IF c = NL THEN "clear" ELSE @]
        /\ UNCHANGED <<visible_term_idx, keyboard, calm>>

ReadReturns(t) ==
    /\ reader[t].at = "clear"
    /\ enter_flag' = [enter_flag EXCEPT ![visible_term_idx] = 0]
    /\ reader' = [reader EXCEPT ![t] = Out]
    /\ calm' = calm \ {t}
    /\ UNCHANGED <<visible_term_idx, kbuf, cur_kuf_size, kbuf_entered>>

\* Ctrl-C ends the process in the middle of its read.
Killed(t) ==
    /\ reader[t].at # "out"
    /\ visible_term_idx = t
    /\ reader' = [reader EXCEPT ![t] = Out]
    /\ calm' = calm \ {t}
    /\ UNCHANGED <<visible_term_idx, keyboard>>

-----------------------------------------------------------------------------
\* init_terminal
Init ==
    /\ visible_term_idx = 0
    /\ kbuf = [t \in Term |-> Blank]
    /\ cur_kuf_size = [t \in Term |-> 0]
    /\ kbuf_entered = [t \in Term |-> Blank]
    /\ enter_flag = [t \in Term |-> 0]
    /\ reader = [t \in Term |-> Out]
    /\ calm = {}

Key ==
    \/ \E c \in Chars : Type(c)
    \/ Backspace \/ Enter \/ ClearScreen
    \/ \E to \in Term : Switch(to)

Read(t) == ReadSeesLine(t) \/ ReadSeesItself(t) \/ ReadCopies(t) \/ ReadReturns(t)

Next ==
    \/ Key
    \/ \E t \in Term : \/ \E nbytes \in ReadSizes : ReadCall(t, nbytes)
                       \/ Read(t) \/ Killed(t)

\* The PIT gives every terminal's process the CPU again and again.
Fairness == \A t \in Term : WF_vars(Read(t))

Spec == Init /\ [][Next]_vars /\ Fairness

-----------------------------------------------------------------------------
(* Properties *)

Char == Chars \cup {NUL, NL}

TypeOK ==
    /\ visible_term_idx \in Term
    /\ kbuf \in [Term -> [Cell -> Chars \cup {NUL}]]
    /\ cur_kuf_size \in [Term -> Cell]
    /\ kbuf_entered \in [Term -> [Cell -> Char]]
    /\ enter_flag \in [Term -> {0, 1}]
    /\ \A t \in Term :
         /\ reader[t].at \in {"out", "wait", "seen", "copy", "clear"}
         /\ reader[t].nbytes \in ReadSizes \cup {0}
         /\ reader[t].buf \in Seq(Char)
         /\ Len(reader[t].buf) <= kbuf_size
    /\ calm \subseteq Term

\* The text a buffer holds: its first n cells.
Cells(buffer, n) == [k \in 1 .. n |-> buffer[k - 1]]

\* The length of the line in an entered buffer, without its newline.
LineLength(buffer) ==
    IF \E j \in Cell : buffer[j] = NL
    THEN CHOOSE j \in Cell : buffer[j] = NL /\ \A k \in Cell : buffer[k] = NL => j <= k
    ELSE 0

EnteredLine(t) == Cells(kbuf_entered[t], LineLength(kbuf_entered[t]))

Editor == INSTANCE LineEditor
            WITH Terminals <- Term, Limit <- kbuf_size - 1,
                 text  <- [t \in Term |-> Cells(kbuf[t], cur_kuf_size[t])],
                 line  <- [t \in Term |-> EnteredLine(t)],
                 ready <- [t \in Term |-> enter_flag[t] = 1]

\* Whatever is typed, erased, cleared or entered, at the buffer's limit too,
\* the two buffers hold the text and the line the user sees: the cell
\* Backspace leaves behind never shows.
ImplementsEditor == Editor!Spec

\* The line a terminal's reader may get: as much as it asked for.
LineFor(t) ==
    LET line == Append(EnteredLine(t), NL)
    IN  SubSeq(line, 1, IF reader[t].nbytes < Len(line) THEN reader[t].nbytes
                        ELSE Len(line))

\* A reader that no switch and no Enter comes in the way of returns the line
\* that was entered on its own terminal, up to the size it asked for.
CalmReadGetsItsLine ==
    \A t \in calm : reader[t].at = "clear" =>
        /\ visible_term_idx = t
        /\ reader[t].buf = LineFor(t)

\* A line entered on a terminal somebody waits to read is read, unless the
\* terminal is switched away from or its process is killed.
LineIsRead ==
    \A t \in Term :
        enter_flag[t] = 1 /\ reader[t].at # "out" /\ visible_term_idx = t
            ~> \/ enter_flag[t] = 0 \/ reader[t].at = "out" \/ visible_term_idx # t

\* terminal_read returns only when Enter is pressed: it goes on to copy a line
\* only when its own terminal has one.
ReadsOnlyAfterEnter ==
    [][\A t \in Term : reader[t].at = "seen" /\ reader'[t].at = "copy"
         => enter_flag[t] = 1]_vars
=============================================================================
