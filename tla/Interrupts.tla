----------------------------- MODULE Interrupts -----------------------------
(***************************************************************************)
(* Interrupt delivery: the two 8259s, the IDT's gates, the CPU's interrupt   *)
(* flag, and the three handlers with the points at which they acknowledge,  *)
(* turn interrupts on again, change stacks or never come back.  Every       *)
(* terminal has the frames of its interrupted handlers, outermost first;    *)
(* that a saved frame is still whole is module Processes' question.  The    *)
(* 8259, the timers and the keyboard behave as QEMU's do.                   *)
(***************************************************************************)
EXTENDS Integers, Sequences, SequencesExt

CONSTANTS NTERMS,      \* terminals
          MAX_KEYS,    \* keys pressed in a behaviour
          MAX_EARLY    \* ticks that come while an earlier one's handler runs

ASSUME InterruptsAssumption ==
    /\ NTERMS \in Nat \ {0}
    /\ MAX_KEYS \in Nat /\ MAX_EARLY \in Nat

Term == 0 .. NTERMS - 1
BOOT == -1                     \* the stack of entry()

\* Interrupt lines: 0..7 of the master, 8..15 of the slave, which is on IR2.
PIT_IRQ      == 0
KEYBOARD_IRQ == 1
IR2          == 2
RTC_IRQ      == 8
Device       == {PIT_IRQ, KEYBOARD_IRQ, RTC_IRQ}

VARIABLES
    boot,       \* how far entry() is
    mask,       \* lines masked
    irr, isr,   \* lines requested, lines in service
    IFlag,      \* the CPU takes interrupts
    on,         \* active_term_idx; BOOT until the first shell runs
    i,          \* pit.h: the last terminal started
    stack,      \* frames of the handlers of every terminal
    base,       \* below them: the program, a system call that did cli, or
                \* an exception's handler with interrupts off
    visible,    \* visible_term_idx
    control_c, alt_f,    \* Ctrl-C and the Alt-F keys waiting to be acted on
    queue,      \* scancodes in the keyboard controller
    keys,       \* keys pressed
    pf,         \* the RTC's line is high: register C has not been read
    early       \* ticks during a tick's handler

vars == <<boot, mask, irr, isr, IFlag, on, i, stack, base, visible, control_c,
          alt_f, queue, keys, pf, early>>
kbd  == <<visible, control_c, alt_f, queue, keys>>

-----------------------------------------------------------------------------
(* The 8259s *)

\* Mutant: only the slave is told.
SlaveEoi(s, irq) == s \ {irq}

send_eoi(s, irq) == s \ (IF irq < 8 THEN {irq} ELSE {IR2, irq})

enable_irq(irq) == mask' = mask \ {irq}

\* The master's line by which a request reaches the CPU.
Line(irq) == IF irq < 8 THEN irq ELSE IR2

\* The controllers pass a request on: it and its line are not masked, and
\* nothing of its priority or above is in service or requested.
Delivers(irq) ==
    /\ irq \in irr /\ {irq, Line(irq)} \cap mask = {}
    /\ \A s \in isr : Line(irq) < Line(s)
    /\ \A r \in irr \ mask : irq <= r

-----------------------------------------------------------------------------
(* The IDT *)

\* Where ICW2 puts the lines.
Vector(irq) == IF irq < 8 THEN 32 + irq ELSE 40 + irq - 8

Exceptions == (0 .. 19) \ {15}
SYS_CALL   == 128
Interrupts == {32, 33, 40}                       \* PIT, KEYBOARD, RTC
Present    == Exceptions \cup Interrupts \cup {SYS_CALL}

\* Mutant: the handlers are behind trap gates, as everything else is.
TrapGates(vector) == FALSE

ClearsIF(vector) == vector \in Interrupts

-----------------------------------------------------------------------------
(* Stacks of handlers *)

Frame(irq, at, to) == [irq |-> irq, at |-> at, to |-> to]
Running    == stack[on]
Handling(irq, at) == Running # << >> /\ Last(Running).irq = irq /\ Last(Running).at = at
InProgram  == Running = << >>
Set(s, at) == [s EXCEPT ![Len(s)] = [@ EXCEPT !.at = at]]

\* popfl, popal, iret: what was interrupted had interrupts on.
Return == stack' = [stack EXCEPT ![on] = Front(@)] /\ IFlag' = TRUE

\* The CPU takes an interrupt before the next instruction.
Takes(irq)  == IFlag /\ Delivers(irq)
Interrupted == \E irq \in Device : Takes(irq)

Take(irq) ==
    /\ Takes(irq)
    /\ Vector(irq) \in Present
    /\ irr' = irr \ {irq}
    /\ isr' = isr \cup {irq, Line(irq)}
    /\ stack' = [stack EXCEPT ![on] = Append(@, Frame(irq, "start", on))]
    /\ IFlag' = ~ClearsIF(Vector(irq))
    /\ UNCHANGED <<boot, mask, on, i, base, kbd, pf, early>>

-----------------------------------------------------------------------------
(* Boot: entry() with interrupts off, then its loop *)

i8259_init ==
    /\ boot = "i8259_init" /\ boot' = "init_keyboard"
    /\ mask' = (0 .. 15) \ {IR2}
    /\ irr' = {} /\ isr' = {}
    /\ UNCHANGED <<IFlag, on, i, stack, base, kbd, pf, early>>

init_keyboard ==
    /\ boot = "init_keyboard" /\ boot' = "init_rtc"
    /\ enable_irq(KEYBOARD_IRQ)
    /\ control_c' = FALSE /\ alt_f' = {}
    /\ UNCHANGED <<irr, isr, IFlag, on, i, stack, base, visible, queue, keys, pf, early>>

\* Periodic interrupts on; a period that has ended already requests one, and
\* register C is read.
init_rtc ==
    /\ boot = "init_rtc" /\ boot' = "init_pit"
    /\ enable_irq(RTC_IRQ)
    /\ \E ended \in SUBSET {RTC_IRQ} : irr' = irr \cup ended
    /\ pf' = FALSE
    /\ UNCHANGED <<isr, IFlag, on, i, stack, base, kbd, early>>

init_pit ==
    /\ boot = "init_pit" /\ boot' = "sti"
    /\ i' = -1 /\ visible' = 0
    /\ enable_irq(PIT_IRQ)
    /\ UNCHANGED <<irr, isr, IFlag, on, stack, base, control_c, alt_f, queue, keys, pf, early>>

BootSti ==
    /\ boot = "sti" /\ boot' = "spin"
    /\ IFlag' = TRUE
    /\ UNCHANGED <<mask, irr, isr, on, i, stack, base, kbd, pf, early>>

Boot == i8259_init \/ init_keyboard \/ init_rtc \/ init_pit \/ BootSti

-----------------------------------------------------------------------------
(* PIT *)

\* Mutant: one terminal more.
StartingOneMore == i < NTERMS

Starting == i < NTERMS - 1

\* init_terminal runs a new terminal's shell.  The old terminal's handler ends
\* when its turn comes; entry()'s never does.
init_terminal ==
    /\ i' = i + 1 /\ on' = i + 1
    /\ stack' = [stack EXCEPT ![on] = IF on = BOOT THEN << >> ELSE Set(@, "started")]
    /\ base' = [base EXCEPT ![i + 1] = "program"]
    /\ IFlag' = TRUE

\* Mutant: the CPU goes to the terminal on the screen.
SwitchToVisible ==
    LET next == visible
        left == [stack EXCEPT ![on] = Set(@, "switched")]
    IN  /\ on' = next
        /\ stack' = [left EXCEPT ![next] =
                       IF Last(@).at = "started" THEN Front(@) ELSE Set(@, "tail")]
        /\ IFlag' = TRUE
        /\ UNCHANGED <<i, base>>

\* process_switch to the next terminal: a handler left in init_terminal
\* returns, one left here goes on behind its sti.
process_switch ==
    LET next == (on + 1) % NTERMS
        left == [stack EXCEPT ![on] = Set(@, "switched")]
    IN  /\ on' = next
        /\ stack' = [left EXCEPT ![next] =
                       IF Last(@).at = "started" THEN Front(@) ELSE Set(@, "tail")]
        /\ IFlag' = TRUE
        /\ UNCHANGED <<i, base>>

\* Mutant: the handler acknowledges at its end, behind the switch.
PitAcknowledgesLast ==
    /\ Handling(PIT_IRQ, "start")
    /\ IF Starting THEN init_terminal ELSE process_switch
    /\ UNCHANGED <<boot, mask, irr, isr, kbd, pf, early>>

pit_handler ==
    /\ Handling(PIT_IRQ, "start")
    /\ isr' = send_eoi(isr, PIT_IRQ)
    /\ IF Starting THEN init_terminal ELSE process_switch
    /\ UNCHANGED <<boot, mask, irr, kbd, pf, early>>

PitReturns ==
    /\ Handling(PIT_IRQ, "tail") /\ ~Interrupted
    /\ Return
    /\ UNCHANGED <<boot, mask, irr, isr, on, i, base, kbd, pf, early>>

-----------------------------------------------------------------------------
(* RTC *)

\* Mutant: register C is not read.
RtcLeavesRegisterC ==
    /\ Handling(RTC_IRQ, "start")
    /\ isr' = send_eoi(isr, RTC_IRQ)
    /\ Return
    /\ UNCHANGED <<boot, mask, irr, on, i, base, kbd, pf, early>>

rtc_handler ==
    /\ Handling(RTC_IRQ, "start")
    /\ isr' = send_eoi(isr, RTC_IRQ)
    /\ pf' = FALSE
    /\ Return
    /\ UNCHANGED <<boot, mask, irr, on, i, base, kbd, early>>

-----------------------------------------------------------------------------
(* Keyboard *)

\* inb: the controller lowers its line, and raises it for the next scancode.
ReadScancode ==
    /\ queue' = queue - 1
    /\ irr' = irr \cup (IF queue > 1 THEN {KEYBOARD_IRQ} ELSE {})
    /\ UNCHANGED keys

\* Mutant: Ctrl-C is not acknowledged before halt().
HaltWithoutEoi ==
    /\ control_c' = FALSE
    /\ UNCHANGED isr
    /\ stack' = [stack EXCEPT ![on] = << >>]
    /\ IF on = BOOT
       THEN base' = [base EXCEPT ![on] = "exception"] /\ IFlag' = FALSE
       ELSE base' = [base EXCEPT ![on] = "program"]   /\ IFlag' = TRUE

\* halt(0) leaves the stack with every handler on it for the shell's entry or
\* the parent's execute().  Before the first shell there is no PCB: a page
\* fault with interrupts off.
halt_program ==
    /\ control_c' = FALSE
    /\ isr' = send_eoi(isr, KEYBOARD_IRQ)
    /\ stack' = [stack EXCEPT ![on] = << >>]
    /\ IF on = BOOT
       THEN base' = [base EXCEPT ![on] = "exception"] /\ IFlag' = FALSE
       ELSE base' = [base EXCEPT ![on] = "program"]   /\ IFlag' = TRUE

\* switch_terminal as far as terminal_switch's sti, for the first waiting
\* Alt-F key of candidates; without one the handler ends.
switch_terminal(waiting, candidates) ==
    /\ isr' = send_eoi(isr, KEYBOARD_IRQ)
    /\ \/ /\ candidates = {}
          /\ alt_f' = waiting /\ Return
       \/ \E to \in candidates :
            /\ \A t \in candidates : to <= t
            /\ alt_f' = waiting \ {to}
            /\ stack' = [stack EXCEPT ![on] =
                           Append(Front(@), Frame(KEYBOARD_IRQ, "window", to))]
            /\ IFlag' = TRUE

CTRL_C   == -1
ORDINARY == -2
Key      == {CTRL_C, ORDINARY} \cup Term

\* key is Ctrl-C, a terminal's Alt-F key, or any other.
keyboard_handler(key) ==
    /\ Handling(KEYBOARD_IRQ, "start")
    /\ ReadScancode
    /\ LET c == control_c \/ key = CTRL_C
           f == alt_f \cup ({key} \cap Term)
       IN  IF c /\ visible = (IF on = BOOT THEN 0 ELSE on)
           THEN halt_program /\ alt_f' = f
           ELSE /\ control_c' = c
                /\ switch_terminal(f, f \ {visible})
                /\ UNCHANGED base
    /\ UNCHANGED <<boot, mask, on, i, visible, pf, early>>

\* Behind terminal_switch's sti: the rest of the handler, up to its next switch
\* or its EOI, is one step, though interrupts are on in it: nothing is in
\* service by then, so the EOI ends nothing wherever an interrupt comes.
SwitchReturns ==
    /\ Handling(KEYBOARD_IRQ, "window") /\ ~Interrupted
    /\ visible' = Last(Running).to
    /\ switch_terminal(alt_f, {t \in alt_f : t > Last(Running).to})
    /\ UNCHANGED <<boot, mask, irr, on, i, base, control_c, queue, keys, pf, early>>

-----------------------------------------------------------------------------
(* Programs, and the devices *)

\* execute() turns interrupts off, and on again behind its work or at iret.
ExecuteCli ==
    /\ on \in Term /\ InProgram /\ base[on] = "program" /\ IFlag /\ ~Interrupted
    /\ base' = [base EXCEPT ![on] = "cli"] /\ IFlag' = FALSE
    /\ UNCHANGED <<boot, mask, irr, isr, on, i, stack, kbd, pf, early>>

ExecuteSti ==
    /\ InProgram /\ base[on] = "cli"
    /\ base' = [base EXCEPT ![on] = "program"] /\ IFlag' = TRUE
    /\ UNCHANGED <<boot, mask, irr, isr, on, i, stack, kbd, pf, early>>

\* An exception's handler spins behind a trap gate: with interrupts on a
\* program like any other, with interrupts off the end.
Exception(vector) ==
    /\ on \in Term /\ InProgram /\ base[on] \in {"program", "cli"}
    /\ vector \in Present
    /\ IFlag' = (IFlag /\ ~ClearsIF(vector))
    /\ base' = [base EXCEPT ![on] = IF IFlag' THEN "program" ELSE "exception"]
    /\ UNCHANGED <<boot, mask, irr, isr, on, i, stack, kbd, pf, early>>

InHandler(irq) == \E n \in DOMAIN Running : Running[n].irq = irq

Tick ==
    /\ PIT_IRQ \notin irr
    /\ irr' = irr \cup {PIT_IRQ}
    /\ IF InHandler(PIT_IRQ) THEN early < MAX_EARLY /\ early' = early + 1 ELSE UNCHANGED early
    /\ UNCHANGED <<boot, mask, isr, IFlag, on, i, stack, base, kbd, pf>>

\* The handler is shorter than a period.
RtcPeriod ==
    /\ boot \notin {"i8259_init", "init_keyboard", "init_rtc"}
    /\ ~pf /\ ~InHandler(RTC_IRQ)
    /\ pf' = TRUE
    /\ irr' = irr \cup {RTC_IRQ}
    /\ UNCHANGED <<boot, mask, isr, IFlag, on, i, stack, base, kbd, early>>

Press ==
    /\ boot # "i8259_init" /\ keys < MAX_KEYS
    /\ keys' = keys + 1 /\ queue' = queue + 1
    /\ irr' = irr \cup (IF queue = 0 THEN {KEYBOARD_IRQ} ELSE {})
    /\ UNCHANGED <<boot, mask, isr, IFlag, on, i, stack, base, visible, control_c, alt_f,
                   pf, early>>

-----------------------------------------------------------------------------
Init ==
    /\ boot = "i8259_init" /\ mask = {} /\ irr = {} /\ isr = {} /\ IFlag = FALSE
    /\ on = BOOT /\ i = -1
    /\ stack = [t \in Term \cup {BOOT} |-> << >>]
    /\ base = [t \in Term \cup {BOOT} |-> IF t = BOOT THEN "program" ELSE "none"]
    /\ visible = 0 /\ control_c = FALSE /\ alt_f = {}
    /\ queue = 0 /\ keys = 0 /\ pf = FALSE /\ early = 0

Handlers ==
    \/ pit_handler \/ PitReturns
    \/ rtc_handler
    \/ (\E key \in Key : keyboard_handler(key)) \/ SwitchReturns

Next ==
    \/ Boot
    \/ \E irq \in Device : Take(irq)
    \/ Handlers
    \/ ExecuteCli \/ ExecuteSti
    \/ \E vector \in Exceptions : Exception(vector)
    \/ Tick \/ RtcPeriod \/ Press

\* The CPU goes on between one interrupt and the next, the two timers run, and
\* a request that the controllers deliver again and again is taken.
Fairness ==
    /\ WF_vars(Boot \/ Handlers \/ ExecuteSti)
    /\ \A t \in Term : SF_vars(on = t /\ PitReturns) /\ SF_vars(on = t /\ SwitchReturns)
    /\ WF_vars(Tick) /\ WF_vars(RtcPeriod)
    /\ WF_vars(Take(PIT_IRQ)) /\ SF_vars(Take(KEYBOARD_IRQ)) /\ SF_vars(Take(RTC_IRQ))

Spec == Init /\ [][Next]_vars /\ Fairness

-----------------------------------------------------------------------------
(* Properties *)

At == {"start", "started", "switched", "tail", "window"}
Frames == [irq : Device, at : At,
           to : Term \cup {BOOT}]

\* Every variable is in its range: i and active_term_idx name terminals, and a
\* flag or a line is one that exists.
TypeOK ==
    /\ boot \in {"i8259_init", "init_keyboard", "init_rtc", "init_pit", "sti", "spin"}
    /\ mask \subseteq 0 .. 15 /\ irr \subseteq Device /\ isr \subseteq Device \cup {IR2}
    /\ IFlag \in BOOLEAN /\ pf \in BOOLEAN /\ control_c \in BOOLEAN
    /\ on \in Term \cup {BOOT} /\ i \in -1 .. NTERMS - 1
    /\ stack \in [Term \cup {BOOT} -> Seq(Frames)]
    /\ base \in [Term \cup {BOOT} -> {"none", "program", "cli", "exception"}]
    /\ visible \in Term /\ alt_f \subseteq Term
    /\ queue \in 0 .. MAX_KEYS /\ keys \in 0 .. MAX_KEYS /\ early \in 0 .. MAX_EARLY

\* Whenever the CPU can be interrupted, on whatever stack and however deep in
\* handlers, the controllers have every earlier interrupt acknowledged: no
\* line is shut by a handler that waits for its terminal's turn or was left
\* for good by Ctrl-C, and a second acknowledgement cannot meet another's.
OpenMeansAcknowledged == IFlag => isr = {}

\* The whole machine stands still: an exception's handler spins with
\* interrupts off (an exception inside execute(), or Ctrl-C before the first
\* tick).
Frozen == base[on] = "exception" /\ ~IFlag

\* Scancodes do not stay in the controller: again and again it is empty.
KeysAreRead == []<>(queue = 0 \/ Frozen)

\* The RTC goes on interrupting: its line falls again and again.
RtcGoesOn == []<>(~pf \/ Frozen)

InSwitch(t) == \E n \in DOMAIN stack[t] : stack[t][n].at = "window"

\* A terminal switch whose handler was interrupted behind its sti is finished
\* or, with Ctrl-C, given up; it does not wait for ever on its terminal's stack.
SwitchesEnd == \A t \in Term : []<>(~InSwitch(t) \/ Frozen)
=============================================================================
