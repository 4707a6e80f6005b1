-------------------------------- MODULE Tty --------------------------------
(***************************************************************************)
(* What a terminal shows, as its user thinks of it: one run of cells, line  *)
(* after line, and the place in it where the next character goes.  When it  *)
(* is full the first line goes away.  There are no rows, no pages and no    *)
(* other terminals here.                                                    *)
(***************************************************************************)
EXTENDS Integers, Sequences, SequencesExt

CONSTANTS NUM_COLS, NUM_ROWS    \* 80 and 25 in lib.c

ASSUME TtyAssumption == NUM_COLS \in Nat \ {0} /\ NUM_ROWS \in Nat \ {0}

Space   == " "
Newline == "\n"
Tab     == "\t"

Size   == NUM_COLS * NUM_ROWS
Spaces(n) == [k \in 1 .. n |-> Space]

EmptyTty == [text |-> Spaces(Size), at |-> 0]

\* Room for the place to be at: the first line goes when there is none.
MakeRoom(tty) ==
    IF tty.at < Size THEN tty
    ELSE [text |-> SubSeq(tty.text, NUM_COLS + 1, Size) \o Spaces(NUM_COLS),
          at   |-> Size - NUM_COLS]

Put(tty, c) == MakeRoom([text |-> ReplaceAt(tty.text, tty.at + 1, c), at |-> tty.at + 1])

Show(tty, c) ==
    CASE c = Newline -> MakeRoom([tty EXCEPT !.at = NUM_COLS * (@ \div NUM_COLS + 1)])
      [] c = Tab     -> Put(Put(Put(Put(tty, Space), Space), Space), Space)
      [] OTHER       -> Put(tty, c)

TakeBack(tty) ==
    IF tty.at = 0 THEN tty
    ELSE [text |-> ReplaceAt(tty.text, tty.at, Space), at |-> tty.at - 1]

\* A tab was four cells.
Erase(tty, tab) == IF tab THEN TakeBack(TakeBack(TakeBack(TakeBack(tty)))) ELSE TakeBack(tty)
=============================================================================
