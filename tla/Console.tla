------------------------------ MODULE Console ------------------------------
(***************************************************************************)
(* The keyboard interrupt handler: the modifier keys and the requests they *)
(* make (Ctrl-C, Alt-F1..3), the switch of the visible terminal, and whose *)
(* screen the video memory and the terminals' backup pages hold.           *)
(*                                                                         *)
(* The handler runs with interrupts off up to the sti at the end of        *)
(* terminal_switch, after which the old terminal is still the visible one  *)
(* until the handler goes on.  Its EOI is out by then, so the PIT, writes  *)
(* of the other terminals and further keys all fit in.  A handler stopped  *)
(* there waits on the stack of the terminal it interrupted.  Interrupts    *)
(* stay on from there to its iret; what is left of it (the store to        *)
(* visible_term_idx, the remaining tests, print_key) is one step here: a   *)
(* key between those would be one more that overtakes a handler, after     *)
(* which the properties promise nothing.                                   *)
(***************************************************************************)
EXTENDS Integers, Sequences, SequencesExt, FiniteSetsExt

CONSTANTS NTERMS,       \* terminals (3 in multi_term.h)
          MAX_OVERLAPS  \* bound: keys that overtake a stopped handler

ASSUME ConsoleAssumption == NTERMS \in 1 .. 3 /\ MAX_OVERLAPS \in Nat \ {0}

Term == 0 .. NTERMS - 1
FKey == <<"f1", "f2", "f3">>

\* Scan codes: the keys that matter, any other printable key, and "up", the
\* release of a key that is not a modifier.
Printable == {"c", "a"}
Codes     == {"ctrl", "ctrl_up", "alt", "alt_up", "up"} \cup Printable
                 \cup {FKey[t + 1] : t \in Term}

VARIABLES
    control, alt,        \* the modifier flags
    control_c,           \* Ctrl-C asked for
    alt_f,               \* [Term -> Alt-Fn asked for]
    scan_code,           \* global: the code last read from the keyboard
    visible_term_idx,    \* the terminal that is on the screen
    handlers,            \* [Term -> handlers stopped on its stack, innermost last]
    video,               \* the terminal whose screen is in video memory
    page,                \* [Term -> the terminal whose screen its page holds]
    misprinted,          \* a handler has printed another key than it read
    overlaps             \* keys that came while a handler was stopped

flags == <<control, alt, control_c, alt_f>>
vars  == <<control, alt, control_c, alt_f, scan_code, visible_term_idx, handlers,
           video, page, misprinted, overlaps>>

Stopped == {a \in Term : handlers[a] # << >>}

-----------------------------------------------------------------------------
\* update_flags: 1 when the code is a modifier or makes a request.
FlagUpdated(code) ==
    \/ code \in {"ctrl", "ctrl_up", "alt", "alt_up"}
    \/ code = "c" /\ control
    \/ \E t \in Term : code = FKey[t + 1] /\ alt

UpdateFlags(code) ==
    /\ control' = (code = "ctrl" \/ (control /\ code # "ctrl_up"))
    /\ alt' = (code = "alt" \/ (alt /\ code # "alt_up"))

CtrlCAsked(code)   == control_c \/ (code = "c" /\ control)
Asked(code)        == [t \in Term |-> alt_f[t] \/ (code = FKey[t + 1] /\ alt)]

\* Mutant: the page after the one wanted, past the last for the last one.
TerminalSwitchNextPage(from, to) ==
    /\ page' = [page EXCEPT ![from] = video]
    /\ video' = to + 1

\* Mutant: the two copies in the other order.
TerminalSwitchRestoresFirst(from, to) ==
    /\ video' = page[to]
    /\ page' = [page EXCEPT ![from] = page[to]]

\* terminal_switch: the screen goes to the old terminal's page, the new one's
\* page to the screen.  (The cursor position travels with them.)
TerminalSwitch(from, to) ==
    /\ page' = [page EXCEPT ![from] = video]
    /\ video' = page[to]

\* Mutant: the key of the code before.
PrintKeyBefore(code, handler) ==
    misprinted' = (misprinted \/ (~handler.updated /\ scan_code # handler.code
                                  /\ Printable \cap {scan_code, handler.code} # {}))

\* print_key gets the key of whatever scan_code holds by now.
PrintKey(code, handler) ==
    misprinted' = (misprinted \/ (~handler.updated /\ code # handler.code
                                  /\ Printable \cap {code, handler.code} # {}))

\* switch_terminal from its n-th test on, with the given requests and visible
\* terminal, in a handler on a's stack: it stops in the first switch it makes,
\* or prints and returns.  below are the handlers stopped further down.
SwitchFrom(n, asked, visible, a, handler, below, code) ==
    LET wanted == {t \in Term : t >= n /\ asked[t] /\ t # visible}
    IN  IF wanted = {}
        THEN /\ PrintKey(code, handler)
             /\ alt_f' = asked
             /\ handlers' = [handlers EXCEPT ![a] = below]
             /\ UNCHANGED <<video, page>>
        ELSE LET to == Min(wanted)
             IN  /\ alt_f' = [asked EXCEPT ![to] = FALSE]
                 /\ TerminalSwitch(visible, to)
                 /\ handlers' = [handlers EXCEPT ![a] =
                                    Append(below, [handler EXCEPT !.to = to])]
                 /\ UNCHANGED misprinted

\* A key, while terminal a has the CPU.
KeyboardHandler(a, code) ==
    /\ overlaps < MAX_OVERLAPS
    /\ scan_code' = code
    /\ UpdateFlags(code)
    /\ \/ /\ CtrlCAsked(code) /\ a = visible_term_idx    \* halt(0) never returns:
          /\ control_c' = FALSE                          \* the stack is abandoned
          /\ alt_f' = Asked(code)
          /\ handlers' = [handlers EXCEPT ![a] = << >>]
          /\ UNCHANGED <<video, page, misprinted>>
       \/ /\ ~(CtrlCAsked(code) /\ a = visible_term_idx)
          /\ control_c' = CtrlCAsked(code)
          /\ SwitchFrom(0, Asked(code), visible_term_idx, a,
                        [to |-> 0, updated |-> FlagUpdated(code), code |-> code],
                        handlers[a], code)
    /\ overlaps' = IF Stopped = {} THEN overlaps ELSE overlaps + 1
    /\ UNCHANGED visible_term_idx

\* A stopped handler goes on: the new terminal is the visible one, then the
\* remaining tests of switch_terminal, then print_key.
KeyboardHandlerGoesOn(a) ==
    /\ handlers[a] # << >>
    /\ LET handler == Last(handlers[a])
       IN  /\ visible_term_idx' = handler.to
           /\ SwitchFrom(handler.to + 1, alt_f, handler.to, a, handler,
                         Front(handlers[a]), scan_code)
    /\ UNCHANGED <<control, alt, control_c, scan_code, overlaps>>

-----------------------------------------------------------------------------
Init ==
    /\ control = FALSE /\ alt = FALSE
    /\ control_c = FALSE
    /\ alt_f = [t \in Term |-> FALSE]
    /\ scan_code = "up"
    /\ visible_term_idx = 0
    /\ handlers = [t \in Term |-> << >>]
    /\ video = 0
    /\ page = [t \in Term |-> t]
    /\ misprinted = FALSE
    /\ overlaps = 0

\* The model ends where the bound is reached.
AtBound == overlaps = MAX_OVERLAPS /\ Stopped = {} /\ UNCHANGED vars

Next ==
    \/ \E a \in Term : KeyboardHandlerGoesOn(a)
    \/ \E a \in Term, code \in Codes : KeyboardHandler(a, code)
    \/ AtBound

Spec == Init /\ [][Next]_vars

-----------------------------------------------------------------------------
(* Properties *)

TypeOK ==
    /\ control \in BOOLEAN /\ alt \in BOOLEAN /\ control_c \in BOOLEAN
    /\ alt_f \in [Term -> BOOLEAN]
    /\ scan_code \in Codes
    /\ visible_term_idx \in Term
    /\ handlers \in [Term -> Seq([to : Term, updated : BOOLEAN, code : Codes])]
    /\ video \in Term /\ page \in [Term -> Term]
    /\ misprinted \in BOOLEAN
    /\ overlaps \in 0 .. MAX_OVERLAPS

\* Where terminal_write puts what a process of terminal a writes: on the
\* screen when it is the visible one, into its page otherwise.
WritesTo(a) == IF a = visible_term_idx THEN video ELSE page[a]

\* As long as no key overtakes a stopped handler, what a terminal writes goes
\* to its own screen, except that in a switch the two terminals it is between
\* write to one another's.
ScreensStayApart ==
    overlaps = 0 =>
        \A a \in Term : \/ WritesTo(a) = a
                        \/ \E b \in Stopped : a \in {visible_term_idx, Last(handlers[b]).to}

\* ... and print_key prints the key its handler read.
PrintsTheKeyRead == misprinted => overlaps > 0
=============================================================================
