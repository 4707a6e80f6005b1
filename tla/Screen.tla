------------------------------- MODULE Screen -------------------------------
(***************************************************************************)
(* The screens of the terminals: what terminal_write, the echo of keys and *)
(* programs that draw through vidmap put where, and the switch of the      *)
(* visible terminal with the window its sti opens.                         *)
(*                                                                         *)
(* A page is 4 KB of text memory with the cursor that goes with it:        *)
(* screen_x and screen_y with video memory, terminal[t]'s with t's page.   *)
(* putc and putc_diff are the same code on different pages.                *)
(* Keys pressed inside a switch are in module Console.                     *)
(***************************************************************************)
EXTENDS Tty

CONSTANTS NTERMS,      \* terminals (3 in multi_term.h)
          Chars,       \* characters other than newline and tab
          Prompt,      \* what Ctrl-L prints on the cleared screen
          START_X,     \* where the cursor of a terminal that has not been
          START_Y      \* visible starts (7 and 1 in multi_term.c)

ASSUME ScreenAssumption ==
    /\ NTERMS \in Nat \ {0}
    /\ Prompt \in Seq(Chars \cup {Newline})
    /\ START_X \in 0 .. NUM_COLS - 1 /\ START_Y \in 0 .. NUM_ROWS - 1

Term  == 0 .. NTERMS - 1
VIDEO == NTERMS
Page  == Term \cup {VIDEO}
Row   == 0 .. NUM_ROWS - 1
Col   == 0 .. NUM_COLS - 1
None  == -1

VARIABLES
    memory,            \* [Page -> [cell, x, y]]
    visible_term_idx,
    target,            \* the terminal a stopped switch is to, or None
    vid_map,           \* the page that vidmap's address is mapped to, or None
    drawers,           \* terminals whose process has called vidmap
    undisturbed,       \* those whose call no switch and no other call undid
    tty,               \* [Term -> what its own output and keys should show]
    mixed              \* output came in a switch, or through a stale mapping

vars == <<memory, visible_term_idx, target, vid_map, drawers, undisturbed, tty, mixed>>

-----------------------------------------------------------------------------
(* putc, scroll, rmc and clear, on one page *)

Blank == [cell |-> [r \in Row |-> [c \in Col |-> Space]], x |-> 0, y |-> 0]

scroll(s) ==
    [s EXCEPT !.cell = [r \in Row |-> IF r = NUM_ROWS - 1 THEN Blank.cell[r]
                                      ELSE s.cell[r + 1]]]

NextLine(s) ==
    [IF s.y < NUM_ROWS - 1 THEN [s EXCEPT !.y = @ + 1] ELSE scroll(s) EXCEPT !.x = 0]

Fill(s, c) == [s EXCEPT !.cell[s.y][s.x] = c]

\* Mutant: the line is one character too long.
PutCharLate(s, c) ==
    IF s.x = NUM_COLS THEN NextLine(s) ELSE [Fill(s, c) EXCEPT !.x = @ + 1]

PutChar(s, c) ==
    IF s.x + 1 = NUM_COLS THEN NextLine(Fill(s, c)) ELSE [Fill(s, c) EXCEPT !.x = @ + 1]

putc(s, c) ==
    CASE c = Newline -> NextLine(s)
      [] c = Tab     -> PutChar(PutChar(PutChar(PutChar(s, Space), Space), Space), Space)
      [] OTHER       -> PutChar(s, c)

rmc(s) ==
    LET back == IF s.x > 0 THEN [s EXCEPT !.x = @ - 1]
                ELSE [s EXCEPT !.x = NUM_COLS - 1, !.y = @ - 1]
    IN  IF s.x = 0 /\ s.y = 0 THEN s ELSE Fill(back, Space)

\* What Backspace takes back of a tab, and of any other character.
RemoveCells(s, tab) == IF tab THEN rmc(rmc(rmc(rmc(s)))) ELSE rmc(s)

-----------------------------------------------------------------------------
(* Output of terminal a's process, which has the CPU *)

\* In a switch the pages have changed places and visible_term_idx has not.
InSwitch(a) == target # None /\ a \in {visible_term_idx, target}

\* The page a's output goes to: terminal_write and vidmap choose it alike.
PageOf(a) == IF a = visible_term_idx THEN VIDEO ELSE a

\* One character of a terminal_write.
Write(a, c) ==
    /\ memory' = [memory EXCEPT ![PageOf(a)] = putc(@, c)]
    /\ tty' = [tty EXCEPT ![a] = Show(@, c)]
    /\ mixed' = InSwitch(a)
    /\ UNCHANGED <<visible_term_idx, target, vid_map, drawers, undisturbed>>

\* vidmap: the one page table is set up for the caller, as things are.  (The
\* code asks which terminal is visible and stores the entry later; a switch in
\* between leaves a mapping that is not the caller's page, as a switch after
\* the store does; the properties exempt what is drawn through either.)
Vidmap(a) ==
    /\ vid_map' = PageOf(a)
    /\ drawers' = drawers \cup {a}
    /\ undisturbed' = IF InSwitch(a) THEN {} ELSE {a}
    /\ UNCHANGED <<memory, visible_term_idx, target, tty, mixed>>

\* A program that has called vidmap draws a character.
Draw(a, row, col, c) ==
    /\ a \in drawers
    /\ memory' = [memory EXCEPT ![vid_map].cell[row][col] = c]
    /\ tty' = [tty EXCEPT ![a].text[NUM_COLS * row + col + 1] = c]
    /\ mixed' = (a \notin undisturbed)
    /\ UNCHANGED <<visible_term_idx, target, vid_map, drawers, undisturbed>>

-----------------------------------------------------------------------------
(* Keys *)

Key == target = None /\ UNCHANGED <<visible_term_idx, target, vid_map, drawers,
                                    undisturbed, mixed>>

\* print_key echoes a character on the screen, with interrupts off unless its
\* handler has switched terminals before (a key that came with a stale request
\* for a switch); another terminal's write inside such an echo is left out ...
Echo(c) ==
    /\ Key
    /\ memory' = [memory EXCEPT ![VIDEO] = putc(@, c)]
    /\ tty' = [tty EXCEPT ![visible_term_idx] = Show(@, c)]

\* ... and takes back the cells of the one Backspace removes.
\* (Whether one has been typed is in module Terminal.)
Backspace(tab) ==
    /\ Key
    /\ memory' = [memory EXCEPT ![VIDEO] = RemoveCells(@, tab)]
    /\ tty' = [tty EXCEPT ![visible_term_idx] = Erase(@, tab)]

\* Ctrl-L.
ClearScreen ==
    /\ Key
    /\ memory' = [memory EXCEPT ![VIDEO] = FoldLeft(putc, Blank, Prompt)]
    /\ tty' = [tty EXCEPT ![visible_term_idx] = FoldLeft(Show, EmptyTty, Prompt)]

\* Mutant: the cursor stays where it is.
TerminalSwitchKeepsCursor(to) ==
    /\ target = None
    /\ to # visible_term_idx
    /\ memory' = [memory EXCEPT ![visible_term_idx] = memory[VIDEO],
                                ![VIDEO].cell = memory[to].cell]
    /\ target' = to
    /\ undisturbed' = undisturbed \ {visible_term_idx, to}
    /\ UNCHANGED <<visible_term_idx, vid_map, drawers, tty, mixed>>

\* terminal_switch, up to its sti: cursor and screen go to the old terminal's
\* page, and the new one's come from its.
TerminalSwitch(to) ==
    /\ target = None
    /\ to # visible_term_idx
    /\ memory' = [memory EXCEPT ![visible_term_idx] = memory[VIDEO],
                                ![VIDEO] = memory[to]]
    /\ target' = to
    /\ undisturbed' = undisturbed \ {visible_term_idx, to}
    /\ UNCHANGED <<visible_term_idx, vid_map, drawers, tty, mixed>>

\* The handler goes on.
SwitchDone ==
    /\ target # None
    /\ visible_term_idx' = target
    /\ target' = None
    /\ UNCHANGED <<memory, vid_map, drawers, undisturbed, tty, mixed>>

-----------------------------------------------------------------------------
\* The screens are blank; only the visible terminal's cursor starts at 0, 0.
Init ==
    /\ memory = [p \in Page |-> IF p = VIDEO THEN Blank
                                ELSE [Blank EXCEPT !.x = START_X, !.y = START_Y]]
    /\ visible_term_idx = 0
    /\ target = None
    /\ vid_map = None
    /\ drawers = {} /\ undisturbed = {}
    /\ tty = [t \in Term |-> IF t = 0 THEN EmptyTty
                             ELSE [EmptyTty EXCEPT !.at = NUM_COLS * START_Y + START_X]]
    /\ mixed = FALSE

Shown == Chars \cup {Newline, Tab}

Step ==
    \/ \E a \in Term : \/ \E c \in Shown : Write(a, c)
                       \/ Vidmap(a)
                       \/ \E row \in Row, col \in Col, c \in Chars : Draw(a, row, col, c)
    \/ \E c \in Shown : Echo(c)
    \/ \E tab \in BOOLEAN : Backspace(tab)
    \/ ClearScreen
    \/ \E to \in Term : TerminalSwitch(to)
    \/ SwitchDone

\* The model ends where output is mixed up.
AtBound == mixed /\ UNCHANGED vars

Next == (~mixed /\ Step) \/ AtBound

Spec == Init /\ [][Next]_vars

-----------------------------------------------------------------------------
(* Properties *)

Text == [Row -> [Col -> Chars \cup {Space}]]

TypeOK ==
    /\ memory \in [Page -> [cell : Text, x : Col, y : Row]]
    /\ visible_term_idx \in Term
    /\ target \in Term \cup {None}
    /\ vid_map \in Page \cup {None}
    /\ drawers \subseteq Term /\ undisturbed \subseteq drawers
    /\ \A t \in Term : /\ tty[t].text \in Seq(Chars \cup {Space})
                       /\ Len(tty[t].text) = Size
                       /\ tty[t].at \in 0 .. Size - 1
    /\ mixed \in BOOLEAN

\* What the user of terminal t sees, now or when it is switched to.
ScreenOf(t) ==
    memory[IF t = (IF target = None THEN visible_term_idx ELSE target) THEN VIDEO ELSE t]

\* A page read cell by cell.
AsTty(s) ==
    [text |-> [k \in 1 .. Size |-> s.cell[(k - 1) \div NUM_COLS][(k - 1) % NUM_COLS]],
     at   |-> NUM_COLS * s.y + s.x]

\* Every terminal shows what its own process wrote and drew and its user typed,
\* as if it were the only one, whichever terminals were visible meanwhile and
\* however lines wrapped and scrolled; unless a character came inside a switch
\* to or from the terminal, or was drawn through a mapping that is not its own.
ScreensShowOwnOutput == ~mixed => \A t \in Term : AsTty(ScreenOf(t)) = tty[t]
=============================================================================
