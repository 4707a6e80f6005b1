------------------------- MODULE InterruptsProofs --------------------------
(* Whenever the CPU can be interrupted, everything is acknowledged: for any   *)
(* number of terminals, keys, ticks and handlers on a stack.                  *)
EXTENDS Interrupts, TLAPS

Stacks == [Term \cup {BOOT} -> Seq(Frames)]

\* What runs has a stack.
StackOK == /\ on \in Term \cup {BOOT} /\ i \in -1 .. NTERMS - 1
           /\ stack \in Stacks /\ alt_f \subseteq Term

\* A line is in service only for the handler that has just been entered.
InServiceAtStart ==
    isr # {} => /\ Running # << >> /\ Last(Running).at = "start"
                /\ isr \subseteq {Last(Running).irq, Line(Last(Running).irq)}

\* Up to entry()'s sti no handler runs.
QuietBoot == boot # "spin" => ~IFlag /\ isr = {} /\ Running = << >> /\ base[on] # "cli"

IInv == StackOK /\ InServiceAtStart /\ QuietBoot /\ OpenMeansAcknowledged

\* A handler past its first instructions; if it is in a switch, of a terminal.
Resting == {f \in Frames : f.at # "start" /\ (f.at = "window" => f.to \in Term)}
RestingStacks == [Term \cup {BOOT} -> Seq(Resting)]

\* Only what runs can have been entered just now, and then nothing interrupts it.
OneStarts ==
    \/ stack \in RestingStacks
    \/ /\ ~IFlag /\ Running # << >> /\ Last(Running).at = "start"
       /\ [stack EXCEPT ![on] = Front(@)] \in RestingStacks

\* The keyboard asks only while it has a scancode, and not again before its
\* handler has read one: the handler never reads from an empty controller.
KeyRequested ==
    /\ queue <= keys
    /\ KEYBOARD_IRQ \in irr => queue > 0
    /\ Handling(KEYBOARD_IRQ, "start") => queue > 0 /\ KEYBOARD_IRQ \notin irr

TInv == IInv /\ TypeOK /\ OneStarts /\ KeyRequested

-----------------------------------------------------------------------------
LEMMA TermFacts ==
    /\ BOOT \notin Term
    /\ \A t \in Term \cup {BOOT} : (t + 1) % NTERMS \in Term
    /\ \A n \in -1 .. NTERMS - 1 : n < NTERMS - 1 => n + 1 \in Term
BY InterruptsAssumption, SMT DEF Term, BOOT

LEMMA DeviceFacts ==
    \A irq \in Device : /\ ClearsIF(Vector(irq))
                        /\ Line(irq) \in {irq, IR2}
BY SMT DEF Device, ClearsIF, Vector, Interrupts, Line, PIT_IRQ, KEYBOARD_IRQ, RTC_IRQ, IR2

\* An acknowledgement clears what taking the interrupt put in service.
LEMMA EoiClears ==
    ASSUME NEW s, NEW irq \in Device, s \subseteq {irq, Line(irq)}
    PROVE  send_eoi(s, irq) = {}
BY SMT DEF send_eoi, Line, Device, PIT_IRQ, KEYBOARD_IRQ, RTC_IRQ, IR2

LEMMA AppendFrame ==
    ASSUME NEW s \in Seq(Frames), NEW f \in Frames
    PROVE  /\ Append(s, f) \in Seq(Frames) /\ Append(s, f) # << >>
           /\ Last(Append(s, f)) = f
BY SMT DEF Last

LEMMA FrontFrames ==
    ASSUME NEW s \in Seq(Frames)
    PROVE  Front(s) \in Seq(Frames)
BY SMT DEF Front

LEMMA SetFrames ==
    ASSUME NEW s \in Seq(Frames),
           NEW at \in At
    PROVE  Set(s, at) \in Seq(Frames)
<1> DEFINE r == Set(s, at)
<1>1. PICK n \in Nat : s \in [1 .. n -> Frames] /\ Len(s) = n
  BY SMT
<1>2. \A f \in Frames : [f EXCEPT !.at = at] \in Frames
  BY SMT DEF Frames
<1>3. r = [k \in 1 .. n |-> IF k = n THEN [s[n] EXCEPT !.at = at] ELSE s[k]]
  BY <1>1, Zenon DEF Set
<1>4. \A k \in 1 .. n : s[k] \in Frames
  BY <1>1
<1> HIDE DEF r
<1>5. r \in [1 .. n -> Frames]
  <2> DEFINE g(k) == IF k = n THEN [s[n] EXCEPT !.at = at] ELSE s[k]
  <2>1. \A k \in 1 .. n : g(k) \in Frames
    BY <1>2, <1>4, Zenon
  <2> HIDE DEF g
  <2>2. [k \in 1 .. n |-> g(k)] \in [1 .. n -> Frames]
    BY <2>1, Zenon
  <2> QED
    BY <1>3, <2>2 DEF g
<1> QED
  BY <1>5, SMT DEF r

-----------------------------------------------------------------------------
\* When a handler is entered, only what was taken for it is in service.
LEMMA StartClears ==
    ASSUME IInv, NEW irq \in Device, Handling(irq, "start")
    PROVE  send_eoi(isr, irq) = {}
<1>1. isr \subseteq {irq, Line(irq)}
  BY DEF IInv, InServiceAtStart, Handling
<1> QED
  BY <1>1, EoiClears

\* Anywhere else nothing is in service.
LEMMA NothingElsewhere ==
    ASSUME IInv, Running = << >> \/ Last(Running).at # "start"
    PROVE  isr = {}
BY DEF IInv, InServiceAtStart

\* What leaves nothing in service keeps the invariant.
LEMMA ClearKeeps ==
    ASSUME StackOK', isr' = {}, QuietBoot'
    PROVE  IInv'
BY DEF IInv, InServiceAtStart, OpenMeansAcknowledged

\* The types of a stack after a handler's return, and in another place.
LEMMA StackTypes ==
    ASSUME StackOK, NEW c \in Term \cup {BOOT}
    PROVE  /\ [stack EXCEPT ![c] = << >>] \in Stacks
           /\ [stack EXCEPT ![c] = Front(@)] \in Stacks
           /\ \A at \in At : [stack EXCEPT ![c] = Set(@, at)] \in Stacks
           /\ \A f \in Frames : /\ [stack EXCEPT ![c] = Append(@, f)] \in Stacks
                                /\ [stack EXCEPT ![c] = Append(Front(@), f)] \in Stacks
<1>1. stack[c] \in Seq(Frames)
  BY DEF StackOK, Stacks
<1>2. /\ << >> \in Seq(Frames) /\ Front(stack[c]) \in Seq(Frames)
      /\ \A at \in At : Set(stack[c], at) \in Seq(Frames)
  BY <1>1, FrontFrames, SetFrames
<1>3. \A f \in Frames : /\ Append(stack[c], f) \in Seq(Frames)
                        /\ Append(Front(stack[c]), f) \in Seq(Frames)
  BY <1>1, <1>2, AppendFrame
<1>4. \A s \in Seq(Frames) : [stack EXCEPT ![c] = s] \in Stacks
  BY DEF StackOK, Stacks
<1> QED
  BY <1>2, <1>3, <1>4

LEMMA InitIInv == Init => IInv
<1> SUFFICES ASSUME Init PROVE IInv
  OBVIOUS
<1>1. StackOK
  BY InterruptsAssumption, SMT DEF Init, StackOK, Stacks, BOOT
<1>2. isr = {} /\ ~IFlag
  BY DEF Init
<1>3. Running = << >> /\ base[on] # "cli"
  BY DEF Init, Running
<1> QED
  BY <1>1, <1>2, <1>3 DEF IInv, InServiceAtStart, QuietBoot, OpenMeansAcknowledged

LEMMA TakeIInv ==
    ASSUME IInv, NEW irq \in Device, Take(irq)
    PROVE  IInv'
<1> DEFINE f == Frame(irq, "start", on)
<1>1. /\ isr = {} /\ boot = "spin" /\ stack[on] \in Seq(Frames)
      /\ on \in Term \cup {BOOT} /\ stack \in Stacks
  BY DEF IInv, OpenMeansAcknowledged, QuietBoot, Take, Takes, StackOK, Stacks
<1>2. f \in Frames /\ f.irq = irq /\ f.at = "start"
  BY <1>1 DEF Frames, Frame, At
<1>3. /\ stack' = [stack EXCEPT ![on] = Append(stack[on], f)]
      /\ isr' = {irq, Line(irq)} /\ ~IFlag'
      /\ UNCHANGED <<boot, on, i, alt_f>>
  BY <1>1, DeviceFacts DEF Take, kbd
<1>4. stack'[on] = Append(stack[on], f)
  BY <1>1, <1>3 DEF Stacks
<1>5. StackOK'
  <2>1. stack' \in Stacks
    BY <1>2, <1>3, <1>1, StackTypes DEF IInv
  <2> QED
    BY <2>1, <1>3 DEF IInv, StackOK, Stacks
<1>6. InServiceAtStart'
  <2>1. Running' = Append(stack[on], f)
    BY <1>3, <1>4 DEF Running
  <2>2. Running' # << >> /\ Last(Running') = f
    BY <2>1, <1>1, <1>2, AppendFrame
  <2> QED
    BY <2>2, <1>2, <1>3 DEF InServiceAtStart
<1> QED
  BY <1>1, <1>3, <1>5, <1>6 DEF IInv, QuietBoot, OpenMeansAcknowledged

LEMMA BootIInv ==
    ASSUME IInv, Boot
    PROVE  IInv'
<1>1. isr = {} /\ isr' = {} /\ UNCHANGED <<on, stack, base>>
  BY DEF IInv, QuietBoot, Boot, i8259_init, init_keyboard, init_rtc, init_pit, BootSti
<1>2. QuietBoot'
  BY <1>1 DEF IInv, QuietBoot, Running, Boot, i8259_init, init_keyboard, init_rtc,
              init_pit, BootSti
<1>3. i' \in {i, -1} /\ alt_f' \in {alt_f, {}}
  BY DEF Boot, i8259_init, init_keyboard, init_rtc, init_pit, BootSti, kbd
<1>4. -1 \in -1 .. NTERMS - 1
  BY InterruptsAssumption
<1>5. StackOK'
  BY <1>1, <1>3, <1>4 DEF IInv, StackOK, Stacks
<1> QED
  BY <1>1, <1>2, <1>5, ClearKeeps

\* A handler runs only after boot.
LEMMA HandlerAfterBoot ==
    ASSUME IInv, Running # << >>
    PROVE  boot = "spin"
BY DEF IInv, QuietBoot

LEMMA PitIInv ==
    ASSUME IInv, pit_handler
    PROVE  IInv'
<1>1. isr' = {} /\ UNCHANGED <<boot, alt_f>>
  BY StartClears DEF pit_handler, Device, kbd
<1>2. boot = "spin" /\ StackOK
  BY HandlerAfterBoot DEF pit_handler, Handling, IInv
<1>3. on' \in Term /\ i' \in -1 .. NTERMS - 1 /\ stack' \in Stacks
  <2>1. CASE Starting /\ init_terminal
    <3>1. i + 1 \in Term /\ i + 1 \in -1 .. NTERMS - 1
      BY <1>2, <2>1, TermFacts, InterruptsAssumption DEF StackOK, Starting
    <3>2. stack' \in Stacks
      <4>1. \/ stack' = [stack EXCEPT ![on] = << >>]
            \/ stack' = [stack EXCEPT ![on] = Set(@, "started")]
        BY <2>1 DEF init_terminal
      <4>2. on \in Term \cup {BOOT} /\ "started" \in At
        BY <1>2 DEF StackOK, At
      <4> QED
        BY <4>1, <4>2, <1>2, StackTypes
    <3> QED
      BY <2>1, <3>1, <3>2 DEF init_terminal
  <2>2. CASE process_switch
    <3> DEFINE next == (on + 1) % NTERMS
               left == [stack EXCEPT ![on] = Set(@, "switched")]
    <3>1. next \in Term /\ on \in Term \cup {BOOT}
      BY <1>2, TermFacts DEF StackOK
    <3>2. left \in Stacks
      BY <1>2, <3>1, StackTypes DEF At
    <3>3. left[next] \in Seq(Frames)
      BY <3>1, <3>2 DEF Stacks
    <3>4. Front(left[next]) \in Seq(Frames) /\ Set(left[next], "tail") \in Seq(Frames)
      BY <3>3, FrontFrames, SetFrames DEF At
    <3>5. \E s \in Seq(Frames) : stack' = [left EXCEPT ![next] = s]
      <4>1. stack' = [left EXCEPT ![next] = IF Last(left[next]).at = "started"
                                             THEN Front(left[next])
                                             ELSE Set(left[next], "tail")]
        BY <2>2 DEF process_switch
      <4> QED
        BY <3>4, <4>1
    <3>6. stack' \in Stacks
      BY <3>2, <3>5 DEF Stacks
    <3> QED
      BY <1>2, <2>2, <3>1, <3>6 DEF process_switch, StackOK
  <2> QED
    BY <2>1, <2>2 DEF pit_handler
<1> QED
  BY <1>1, <1>2, <1>3, ClearKeeps DEF StackOK, QuietBoot

\* A handler that acknowledges, or has, and returns or stays on its stack.
LEMMA HandlerIInv ==
    ASSUME IInv, Running # << >>, isr' = {}, stack' \in Stacks, alt_f' \subseteq Term,
           UNCHANGED <<boot, on, i>>
    PROVE  IInv'
<1>1. boot = "spin"
  BY HandlerAfterBoot
<1> QED
  BY <1>1, ClearKeeps DEF IInv, StackOK, QuietBoot, Stacks

LEMMA ReturnTypes ==
    ASSUME IInv, Return
    PROVE  stack' \in Stacks
BY StackTypes DEF Return, IInv, StackOK

LEMMA PitReturnsIInv ==
    ASSUME IInv, PitReturns
    PROVE  IInv'
<1>1. Running # << >> /\ Last(Running).at = "tail"
  BY DEF PitReturns, Handling
<1>2. isr' = {} /\ UNCHANGED <<boot, on, i, alt_f>> /\ Return
  BY <1>1, NothingElsewhere DEF PitReturns, kbd
<1> QED
  BY <1>1, <1>2, HandlerIInv, ReturnTypes DEF IInv, StackOK

LEMMA RtcIInv ==
    ASSUME IInv, rtc_handler
    PROVE  IInv'
<1>1. Running # << >> /\ isr' = {} /\ UNCHANGED <<boot, on, i, alt_f>> /\ Return
  BY StartClears DEF rtc_handler, Handling, Device, kbd
<1> QED
  BY <1>1, HandlerIInv, ReturnTypes DEF IInv, StackOK

\* switch_terminal, whether it switches or the handler ends.
LEMMA SwitchTypes ==
    ASSUME IInv, NEW w \in SUBSET Term, NEW c \in SUBSET Term, switch_terminal(w, c)
    PROVE  stack' \in Stacks /\ alt_f' \subseteq Term
<1>1. CASE alt_f' = w /\ Return
  BY <1>1, ReturnTypes
<1>2. CASE \E to \in c : /\ alt_f' = w \ {to}
                         /\ stack' = [stack EXCEPT ![on] =
                                        Append(Front(@), Frame(KEYBOARD_IRQ, "window", to))]
  <2>1. PICK to \in c : /\ alt_f' = w \ {to}
                        /\ stack' = [stack EXCEPT ![on] =
                                       Append(Front(@), Frame(KEYBOARD_IRQ, "window", to))]
    BY <1>2
  <2>2. Frame(KEYBOARD_IRQ, "window", to) \in Frames
    BY DEF Frame, Frames, Device, At
  <2> QED
    BY <2>1, <2>2, StackTypes DEF IInv, StackOK
<1> QED
  BY <1>1, <1>2 DEF switch_terminal

LEMMA KeyboardIInv ==
    ASSUME IInv, NEW key \in Key, keyboard_handler(key)
    PROVE  IInv'
<1>1. Running # << >> /\ Handling(KEYBOARD_IRQ, "start") /\ UNCHANGED <<boot, on, i>>
  BY DEF keyboard_handler, Handling
<1>2. send_eoi(isr, KEYBOARD_IRQ) = {}
  BY <1>1, StartClears DEF Device
<1> DEFINE f == alt_f \cup ({key} \cap Term)
<1>3. f \subseteq Term /\ f \ {visible} \subseteq Term
  BY DEF IInv, StackOK
<1>4. isr' = {} /\ stack' \in Stacks /\ alt_f' \subseteq Term
  <2>1. CASE halt_program /\ alt_f' = f
    BY <2>1, <1>2, <1>3, StackTypes DEF halt_program, IInv, StackOK
  <2>2. CASE switch_terminal(f, f \ {visible})
    BY <2>2, <1>2, <1>3, SwitchTypes DEF switch_terminal
  <2> QED
    BY <2>1, <2>2 DEF keyboard_handler
<1> QED
  BY <1>1, <1>4, HandlerIInv

LEMMA SwitchReturnsIInv ==
    ASSUME IInv, SwitchReturns
    PROVE  IInv'
<1>1. Running # << >> /\ Last(Running).at = "window" /\ UNCHANGED <<boot, on, i>>
  BY DEF SwitchReturns, Handling
<1>2. isr = {}
  BY <1>1, NothingElsewhere
<1> DEFINE c == {t \in alt_f : t > Last(Running).to}
<1>3. alt_f \in SUBSET Term /\ c \in SUBSET Term /\ switch_terminal(alt_f, c)
  BY DEF IInv, StackOK, SwitchReturns
<1>4. isr' = {}
  BY <1>2, <1>3 DEF switch_terminal, send_eoi
<1>5. stack' \in Stacks /\ alt_f' \subseteq Term
  BY <1>3, SwitchTypes
<1> QED
  BY <1>1, <1>4, <1>5, HandlerIInv

LEMMA ProgramIInv ==
    ASSUME IInv, ExecuteCli \/ ExecuteSti \/ \E vector \in Exceptions : Exception(vector)
    PROVE  IInv'
<1>1. InProgram /\ on \in Term \cup {BOOT} /\ UNCHANGED <<boot, on, i, stack, isr, alt_f>>
  BY DEF ExecuteCli, ExecuteSti, Exception, kbd, IInv, StackOK
<1>2. isr' = {}
  BY <1>1, NothingElsewhere DEF InProgram
<1>3. StackOK'
  BY <1>1 DEF IInv, StackOK, Stacks
<1>4. QuietBoot'
  <2> SUFFICES ASSUME boot # "spin" PROVE ~IFlag' /\ base'[on] # "cli"
    BY <1>1, <1>2 DEF IInv, QuietBoot, Running
  <2>1. ~IFlag /\ base[on] # "cli"
    BY DEF IInv, QuietBoot
  <2>2. PICK vector \in Exceptions : Exception(vector)
    BY <2>1 DEF ExecuteCli, ExecuteSti
  <2>3. ~IFlag' /\ base' = [base EXCEPT ![on] = "exception"]
    BY <2>1, <2>2 DEF Exception
  <2>4. base'[on] # "cli"
    BY <2>1, <2>3
  <2> QED
    BY <2>3, <2>4
<1> QED
  BY <1>2, <1>3, <1>4, ClearKeeps

LEMMA DevicesIInv ==
    ASSUME IInv, Tick \/ RtcPeriod \/ Press \/ UNCHANGED vars
    PROVE  IInv'
<1>1. UNCHANGED <<boot, isr, IFlag, on, i, stack, base, alt_f>>
  BY DEF Tick, RtcPeriod, Press, vars, kbd
<1> QED
  BY <1>1 DEF IInv, StackOK, Stacks, InServiceAtStart, QuietBoot, OpenMeansAcknowledged,
              Running

LEMMA NextIInv == IInv /\ [Next]_vars => IInv'
<1> SUFFICES ASSUME IInv, [Next]_vars PROVE IInv'
  OBVIOUS
<1>1. CASE Boot
  BY <1>1, BootIInv
<1>2. CASE \E irq \in Device : Take(irq)
  BY <1>2, TakeIInv
<1>3. CASE Handlers
  BY <1>3, PitIInv, PitReturnsIInv, RtcIInv, KeyboardIInv, SwitchReturnsIInv DEF Handlers
<1>4. CASE ExecuteCli \/ ExecuteSti \/ \E vector \in Exceptions : Exception(vector)
  BY <1>4, ProgramIInv
<1>5. CASE Tick \/ RtcPeriod \/ Press \/ UNCHANGED vars
  BY <1>5, DevicesIInv
<1> QED
  BY <1>1, <1>2, <1>3, <1>4, <1>5 DEF Next

\* The invariant that carries the proof holds in every behaviour.
THEOREM Invariance == Spec => []IInv
<1>1. Init => IInv
  BY InitIInv
<1>2. IInv /\ [Next]_vars => IInv'
  BY NextIInv
<1> QED
  BY <1>1, <1>2, PTL DEF Spec

\* No handler that can be interrupted, waits for its terminal's turn or was left
\* for good by Ctrl-C keeps a line of the controllers in service.
THEOREM Acknowledged == Spec => []OpenMeansAcknowledged
<1>1. IInv => OpenMeansAcknowledged
  BY DEF IInv
<1> QED
  BY <1>1, Invariance, PTL

-----------------------------------------------------------------------------
(* Types *)

\* A frame moved on is at rest, whatever it was before.
LEMMA SetRests ==
    ASSUME NEW s \in Seq(Frames), Front(s) \in Seq(Resting),
           NEW at \in {"started", "switched", "tail"}
    PROVE  Set(s, at) \in Seq(Resting)
<1> DEFINE r == Set(s, at)
<1>1. PICK n \in Nat : s \in [1 .. n -> Frames] /\ Len(s) = n
  BY SMT
<1>2. \A f \in Frames : [f EXCEPT !.at = at] \in Resting
  BY SMT DEF Frames, Resting, At
<1>3. r = [k \in 1 .. n |-> IF k = n THEN [s[n] EXCEPT !.at = at] ELSE s[k]]
  BY <1>1, Zenon DEF Set
<1>4. \A k \in 1 .. n : k # n => s[k] \in Resting
  <2>1. Front(s) = [k \in 1 .. n - 1 |-> s[k]]
    BY <1>1, SMT DEF Front
  <2> QED
    BY <1>1, <2>1, SMT
<1> HIDE DEF r
<1>5. r \in [1 .. n -> Resting]
  <2> DEFINE g(k) == IF k = n THEN [s[n] EXCEPT !.at = at] ELSE s[k]
  <2>1. \A k \in 1 .. n : g(k) \in Resting
    BY <1>1, <1>2, <1>4, Zenon
  <2> HIDE DEF g
  <2>2. [k \in 1 .. n |-> g(k)] \in [1 .. n -> Resting]
    BY <2>1, Zenon
  <2> QED
    BY <1>3, <2>2 DEF g
<1> QED
  BY <1>5, SMT DEF r

LEMMA FrontRests ==
    ASSUME NEW s \in Seq(Resting)
    PROVE  s \in Seq(Frames) /\ Front(s) \in Seq(Resting)
BY SMT DEF Front, Resting

\* Below what runs everything rests.
LEMMA RestBelow ==
    ASSUME TInv
    PROVE  /\ on \in Term \cup {BOOT}
           /\ Running \in Seq(Frames) /\ Front(Running) \in Seq(Resting)
           /\ \A s \in Seq(Resting) : [stack EXCEPT ![on] = s] \in RestingStacks
           /\ \A t \in Term \cup {BOOT} : t # on => stack[t] \in Seq(Resting)
<1>1. on \in Term \cup {BOOT} /\ stack \in Stacks
  BY DEF TInv, IInv, StackOK
<1>2. Running \in Seq(Frames)
  BY <1>1 DEF Running, Stacks
<1>3. CASE stack \in RestingStacks
  BY <1>1, <1>2, <1>3, FrontRests DEF RestingStacks, Running
<1>4. CASE [stack EXCEPT ![on] = Front(@)] \in RestingStacks
  <2> DEFINE rest == [stack EXCEPT ![on] = Front(@)]
  <2>1. rest[on] = Front(Running)
    BY <1>1 DEF Running, Stacks
  <2>2. \A t \in Term \cup {BOOT} : t # on => rest[t] = stack[t]
    BY <1>1 DEF Stacks
  <2>3. \A s : [stack EXCEPT ![on] = s] = [rest EXCEPT ![on] = s]
    BY <1>1 DEF Stacks
  <2> HIDE DEF rest
  <2>4. rest \in RestingStacks
    BY <1>4 DEF rest
  <2> QED
    BY <1>1, <1>2, <2>1, <2>2, <2>3, <2>4 DEF RestingStacks
<1> QED
  BY <1>3, <1>4 DEF TInv, OneStarts

\* What runs rests as well, unless it has just been entered.
LEMMA RestAll ==
    ASSUME TInv, Running = << >> \/ Last(Running).at # "start" \/ IFlag
    PROVE  stack \in RestingStacks
BY DEF TInv, OneStarts

\* A step into a state where everything rests keeps OneStarts, and the
\* keyboard's handler has not been entered.
LEMMA RestKeeps ==
    ASSUME stack' \in RestingStacks, on' \in Term \cup {BOOT}
    PROVE  OneStarts' /\ ~Handling(KEYBOARD_IRQ, "start")'
<1>1. Running' \in Seq(Resting)
  BY DEF RestingStacks, Running
<1>2. Running' # << >> => Last(Running') \in Resting
  BY <1>1, SMT DEF Last
<1> QED
  BY <1>2 DEF OneStarts, Handling, Resting

\* TypeOK without what StackOK says.
Machine ==
    /\ boot \in {"i8259_init", "init_keyboard", "init_rtc", "init_pit", "sti", "spin"}
    /\ mask \subseteq 0 .. 15 /\ irr \subseteq Device /\ isr \subseteq Device \cup {IR2}
    /\ IFlag \in BOOLEAN /\ pf \in BOOLEAN /\ control_c \in BOOLEAN
    /\ base \in [Term \cup {BOOT} -> {"none", "program", "cli", "exception"}]
    /\ visible \in Term
    /\ queue \in 0 .. MAX_KEYS /\ keys \in 0 .. MAX_KEYS /\ early \in 0 .. MAX_EARLY

LEMMA TypeParts == TypeOK <=> StackOK /\ Machine
BY Zenon DEF TypeOK, StackOK, Machine, Stacks

LEMMA InitTInv == Init => TInv
<1> SUFFICES ASSUME Init PROVE TInv
  OBVIOUS
<1>1. IInv
  BY InitIInv
<1>2. Machine
  <2>1. 0 \in Term /\ 0 \in 0 .. MAX_KEYS /\ 0 \in 0 .. MAX_EARLY
    BY InterruptsAssumption, SMT DEF Term
  <2>2. base \in [Term \cup {BOOT} -> {"none", "program", "cli", "exception"}]
    BY DEF Init
  <2> QED
    BY <2>1, <2>2 DEF Init, Machine
<1>3. stack \in RestingStacks /\ Running = << >>
  BY DEF Init, RestingStacks, Running
<1>4. OneStarts /\ KeyRequested
  BY <1>3 DEF Init, OneStarts, KeyRequested, Handling
<1> QED
  BY <1>1, <1>2, <1>4, TypeParts DEF TInv, IInv

LEMMA BootTInv ==
    ASSUME TInv, Boot
    PROVE  TInv'
<1>1. IInv' /\ Machine
  BY BootIInv, TypeParts DEF TInv
<1>2. UNCHANGED <<on, stack>> /\ Running = << >>
  BY DEF TInv, IInv, QuietBoot, Boot, i8259_init, init_keyboard, init_rtc, init_pit, BootSti
<1>3. Machine'
  <2>1. 0 \in Term /\ {KEYBOARD_IRQ, RTC_IRQ, PIT_IRQ} \subseteq Device
    BY InterruptsAssumption, SMT DEF Term, Device
  <2>2. mask' \subseteq 0 .. 15 /\ irr' \subseteq irr \cup {RTC_IRQ}
        /\ isr' \subseteq isr /\ visible' \in {visible, 0}
    BY <1>1 DEF Machine, Boot, i8259_init, init_keyboard, init_rtc, init_pit, BootSti,
                enable_irq, kbd
  <2>3. boot' \in {"i8259_init", "init_keyboard", "init_rtc", "init_pit", "sti", "spin"}
        /\ IFlag' \in {IFlag, TRUE} /\ pf' \in {pf, FALSE} /\ control_c' \in {control_c, FALSE}
        /\ UNCHANGED <<base, queue, keys, early>>
    BY DEF Boot, i8259_init, init_keyboard, init_rtc, init_pit, BootSti, kbd
  <2> QED
    BY <1>1, <2>1, <2>2, <2>3 DEF Machine
<1>4. stack' \in RestingStacks /\ on' \in Term \cup {BOOT}
  BY <1>2, RestAll DEF TInv, IInv, StackOK
<1>5. irr' \subseteq irr \cup {RTC_IRQ} /\ UNCHANGED <<queue, keys>>
  BY DEF Boot, i8259_init, init_keyboard, init_rtc, init_pit, BootSti, kbd
<1>6. OneStarts' /\ KeyRequested'
  BY <1>4, <1>5, RestKeeps DEF TInv, KeyRequested, KEYBOARD_IRQ, RTC_IRQ
<1> QED
  BY <1>1, <1>3, <1>6, TypeParts, PTL DEF TInv, IInv

LEMMA TakeTInv ==
    ASSUME TInv, NEW irq \in Device, Take(irq)
    PROVE  TInv'
<1>1. IInv' /\ Machine
  BY TakeIInv, TypeParts DEF TInv
<1> DEFINE f == Frame(irq, "start", on)
<1>2. Machine'
  <2>1. irr' \subseteq irr /\ isr' = isr \cup {irq, Line(irq)} /\ IFlag' \in BOOLEAN
        /\ UNCHANGED <<boot, mask, base, pf, control_c, visible, queue, keys, early>>
    BY DEF Take, kbd, ClearsIF
  <2> QED
    BY <1>1, <2>1, DeviceFacts DEF Machine
<1>3. stack \in RestingStacks /\ ~IFlag' /\ UNCHANGED on
  BY RestAll, DeviceFacts DEF Take, Takes
<1>4. Running \in Seq(Resting) /\ f \in Frames /\ on \in Term \cup {BOOT}
  BY <1>3, RestBelow DEF RestingStacks, Running, Frames, Frame, At
<1>5. stack' = [stack EXCEPT ![on] = Append(@, f)] /\ Running' = Append(Running, f)
  BY <1>3, <1>4 DEF Take, RestingStacks, Running
<1>6. Running' # << >> /\ Last(Running') = f /\ Front(Running') = Running
  <2>1. Running \in Seq(Frames)
    BY <1>4, FrontRests
  <2>2. Append(Running, f) # << >> /\ Last(Append(Running, f)) = f
    BY <1>4, <2>1, AppendFrame
  <2>3. Front(Append(Running, f)) = Running
    BY <1>4, <2>1, SMT DEF Front
  <2> QED
    BY <1>5, <2>2, <2>3
<1>7. OneStarts'
  <2>1. [stack' EXCEPT ![on'] = Front(@)] = stack
    BY <1>3, <1>4, <1>5, <1>6 DEF RestingStacks, Running
  <2>2. Last(Running').at = "start"
    BY <1>6 DEF Frame
  <2> QED
    BY <1>3, <1>6, <2>1, <2>2, Zenon DEF OneStarts
<1>8. KeyRequested'
  <2>1. irr' = irr \ {irq} /\ irq \in irr /\ UNCHANGED <<queue, keys>>
    BY DEF Take, Takes, Delivers, kbd
  <2>2. Handling(KEYBOARD_IRQ, "start")' => irq = KEYBOARD_IRQ
    BY <1>6 DEF Handling, Frame
  <2> QED
    BY <2>1, <2>2 DEF TInv, KeyRequested
<1> QED
  BY <1>1, <1>2, <1>7, <1>8, TypeParts, PTL DEF TInv, IInv

\* A handler that leaves everything at rest, and the controller as full as its
\* request says.
LEMMA HandlersKeep ==
    ASSUME TInv, IInv', Machine', stack' \in RestingStacks,
           \/ UNCHANGED <<irr, queue, keys>>
           \/ Handling(KEYBOARD_IRQ, "start") /\ ReadScancode
    PROVE  TInv'
<1>1. on' \in Term \cup {BOOT}
  BY DEF IInv, StackOK
<1>2. OneStarts' /\ ~Handling(KEYBOARD_IRQ, "start")'
  BY <1>1, RestKeeps
<1>3. queue' <= keys' /\ (KEYBOARD_IRQ \in irr' => queue' > 0)
  <2>1. CASE UNCHANGED <<irr, queue, keys>>
    BY <2>1 DEF TInv, KeyRequested
  <2>2. CASE Handling(KEYBOARD_IRQ, "start") /\ ReadScancode
    <3>1. queue \in Int /\ keys \in Int
      BY TypeParts DEF TInv, Machine
    <3> QED
      BY <2>2, <3>1 DEF TInv, KeyRequested, ReadScancode
  <2> QED
    BY <2>1, <2>2
<1>4. KeyRequested'
  BY <1>2, <1>3 DEF KeyRequested
<1> QED
  BY <1>2, <1>4, TypeParts, PTL DEF TInv, IInv

LEMMA PitTInv ==
    ASSUME TInv, pit_handler
    PROVE  TInv'
<1>1. IInv' /\ Machine /\ UNCHANGED <<irr, queue, keys>>
  BY PitIInv, TypeParts DEF TInv, pit_handler, kbd
<1>2. /\ on \in Term \cup {BOOT}
      /\ Running \in Seq(Frames) /\ Front(Running) \in Seq(Resting)
      /\ \A s \in Seq(Resting) : [stack EXCEPT ![on] = s] \in RestingStacks
  BY RestBelow
<1>3. Machine' /\ stack' \in RestingStacks
  <2>1. isr' \subseteq isr
        /\ UNCHANGED <<boot, mask, irr, pf, control_c, visible, queue, keys, early>>
    BY DEF pit_handler, send_eoi, kbd
  <2>2. IFlag' = TRUE
    BY DEF pit_handler, init_terminal, process_switch
  <2>3. CASE Starting /\ init_terminal
    <3>1. base' = [base EXCEPT ![i + 1] = "program"]
      BY <2>3 DEF init_terminal
    <3>2. Machine'
      BY <1>1, <2>1, <2>2, <3>1 DEF Machine
    <3>3. \E s \in Seq(Resting) : stack' = [stack EXCEPT ![on] = s]
      <4>1. << >> \in Seq(Resting) /\ Set(Running, "started") \in Seq(Resting)
        BY <1>2, SetRests
      <4>2. stack' = [stack EXCEPT ![on] = IF on = BOOT THEN << >> ELSE Set(Running, "started")]
        BY <2>3 DEF init_terminal, Running
      <4> QED
        BY <4>1, <4>2
    <3> QED
      BY <1>2, <3>2, <3>3
  <2>4. CASE process_switch
    <3> DEFINE next == (on + 1) % NTERMS
               left == [stack EXCEPT ![on] = Set(Running, "switched")]
    <3>1. Machine'
      BY <1>1, <2>1, <2>2, <2>4 DEF Machine, process_switch
    <3>2. next \in Term
      BY <1>2, TermFacts
    <3>3. left \in RestingStacks
      BY <1>2, SetRests
    <3>4. left[next] \in Seq(Resting)
      BY <3>2, <3>3 DEF RestingStacks
    <3>5. Front(left[next]) \in Seq(Resting) /\ Set(left[next], "tail") \in Seq(Resting)
      BY <3>4, FrontRests, SetRests
    <3>6. stack' = [left EXCEPT ![next] = IF Last(left[next]).at = "started"
                                           THEN Front(left[next])
                                           ELSE Set(left[next], "tail")]
      BY <2>4 DEF process_switch, Running
    <3>7. \A s \in Seq(Resting) : [left EXCEPT ![next] = s] \in RestingStacks
      BY <3>3 DEF RestingStacks
    <3> QED
      BY <3>1, <3>5, <3>6, <3>7
  <2> QED
    BY <2>3, <2>4 DEF pit_handler
<1> QED
  BY <1>1, <1>3, HandlersKeep

\* A handler that returns.
LEMMA ReturnRests ==
    ASSUME TInv, Return
    PROVE  stack' \in RestingStacks
BY RestBelow DEF Return, Running

LEMMA ReturnsTInv ==
    ASSUME TInv, PitReturns \/ rtc_handler
    PROVE  TInv'
<1>1. IInv' /\ Machine /\ UNCHANGED <<irr, queue, keys>> /\ stack' \in RestingStacks
  BY PitReturnsIInv, RtcIInv, TypeParts, ReturnRests DEF TInv, PitReturns, rtc_handler, kbd
<1>2. Machine'
  <2>1. isr' \subseteq isr /\ IFlag' = TRUE /\ pf' \in {pf, FALSE}
        /\ UNCHANGED <<boot, mask, base, control_c, visible, early>>
    BY DEF PitReturns, rtc_handler, send_eoi, kbd, Return
  <2> QED
    BY <1>1, <2>1 DEF Machine
<1> QED
  BY <1>1, <1>2, HandlersKeep

\* switch_terminal, whether it switches or the handler ends.
LEMMA SwitchRests ==
    ASSUME TInv, NEW w, NEW c \in SUBSET Term, switch_terminal(w, c)
    PROVE  stack' \in RestingStacks
<1>1. CASE Return
  BY <1>1, ReturnRests
<1>2. CASE \E to \in c : stack' = [stack EXCEPT ![on] =
                                     Append(Front(@), Frame(KEYBOARD_IRQ, "window", to))]
  <2>1. PICK to \in c : stack' = [stack EXCEPT ![on] =
                                    Append(Front(Running), Frame(KEYBOARD_IRQ, "window", to))]
    BY <1>2 DEF Running
  <2>2. Frame(KEYBOARD_IRQ, "window", to) \in Resting
    BY DEF Frame, Frames, Resting, Device, At
  <2>3. Front(Running) \in Seq(Resting)
    BY RestBelow
  <2>4. Append(Front(Running), Frame(KEYBOARD_IRQ, "window", to)) \in Seq(Resting)
    BY <2>2, <2>3
  <2> QED
    BY <2>1, <2>4, RestBelow
<1> QED
  BY <1>1, <1>2 DEF switch_terminal

LEMMA KeyboardTInv ==
    ASSUME TInv, NEW key \in Key, keyboard_handler(key)
    PROVE  TInv'
<1>1. IInv' /\ Machine /\ Handling(KEYBOARD_IRQ, "start") /\ ReadScancode
  BY KeyboardIInv, TypeParts DEF TInv, keyboard_handler
<1> DEFINE f == alt_f \cup ({key} \cap Term)
<1>2. f \in SUBSET Term /\ f \ {visible} \in SUBSET Term
  BY DEF TInv, IInv, StackOK
<1>3. /\ stack' \in RestingStacks
      /\ isr' \subseteq isr /\ IFlag' \in BOOLEAN /\ control_c' \in BOOLEAN
      /\ base' \in [Term \cup {BOOT} -> {"none", "program", "cli", "exception"}]
  <2>1. CASE halt_program
    <3>1. \E b \in {"exception", "program"} : base' = [base EXCEPT ![on] = b]
      BY <2>1 DEF halt_program
    <3>2. isr' \subseteq isr /\ IFlag' \in BOOLEAN /\ control_c' = FALSE
      BY <2>1 DEF halt_program, send_eoi
    <3>3. stack' = [stack EXCEPT ![on] = << >>] /\ << >> \in Seq(Resting)
      BY <2>1 DEF halt_program
    <3> QED
      BY <1>1, <3>1, <3>2, <3>3, RestBelow DEF Machine
  <2>2. CASE control_c' = (control_c \/ key = CTRL_C)
             /\ switch_terminal(f, f \ {visible}) /\ UNCHANGED base
    <3>1. isr' \subseteq isr /\ IFlag' = TRUE
      BY <2>2 DEF switch_terminal, send_eoi, Return
    <3>2. stack' \in RestingStacks
      BY <1>2, <2>2, SwitchRests
    <3>3. control_c' \in BOOLEAN
      BY <2>2
    <3> QED
      BY <1>1, <2>2, <3>1, <3>2, <3>3 DEF Machine
  <2> QED
    BY <2>1, <2>2 DEF keyboard_handler
<1>4. Machine'
  <2>1. /\ queue' = queue - 1 /\ irr' \subseteq irr \cup {KEYBOARD_IRQ}
        /\ UNCHANGED <<boot, mask, keys, visible, pf, early>>
    BY DEF keyboard_handler, ReadScancode
  <2>2. queue > 0
    BY <1>1 DEF TInv, KeyRequested
  <2>3. queue' \in 0 .. MAX_KEYS
    BY <1>1, <2>1, <2>2, InterruptsAssumption DEF Machine
  <2>4. irr' \subseteq Device
    BY <1>1, <2>1 DEF Machine, Device
  <2> QED
    BY <1>1, <1>3, <2>1, <2>3, <2>4 DEF Machine
<1> QED
  BY <1>1, <1>3, <1>4, HandlersKeep

LEMMA SwitchReturnsTInv ==
    ASSUME TInv, SwitchReturns
    PROVE  TInv'
<1>1. IInv' /\ Machine /\ UNCHANGED <<irr, queue, keys>>
  BY SwitchReturnsIInv, TypeParts DEF TInv, SwitchReturns
<1>2. Running # << >> /\ Last(Running).at = "window"
  BY DEF SwitchReturns, Handling
<1>3. Last(Running) \in Resting
  <2>1. Running \in Seq(Resting)
    BY <1>2, RestAll, RestBelow DEF RestingStacks, Running
  <2> QED
    BY <1>2, <2>1, SMT DEF Last
<1>4. visible' \in Term
  BY <1>2, <1>3 DEF SwitchReturns, Resting
<1> DEFINE c == {t \in alt_f : t > Last(Running).to}
<1>5. c \in SUBSET Term /\ switch_terminal(alt_f, c)
  BY DEF TInv, IInv, StackOK, SwitchReturns
<1>6. stack' \in RestingStacks
  BY <1>5, SwitchRests
<1>7. Machine'
  <2>1. isr' \subseteq isr /\ IFlag' = TRUE
    BY <1>5 DEF switch_terminal, send_eoi, Return
  <2>2. UNCHANGED <<boot, mask, base, control_c, pf, early>>
    BY DEF SwitchReturns
  <2> QED
    BY <1>1, <1>4, <2>1, <2>2 DEF Machine
<1> QED
  BY <1>1, <1>6, <1>7, HandlersKeep

LEMMA ProgramTInv ==
    ASSUME TInv, ExecuteCli \/ ExecuteSti \/ \E vector \in Exceptions : Exception(vector)
    PROVE  TInv'
<1>1. IInv' /\ Machine /\ InProgram /\ UNCHANGED <<on, stack, irr, queue, keys>>
  BY ProgramIInv, TypeParts DEF TInv, ExecuteCli, ExecuteSti, Exception, kbd
<1>2. stack' \in RestingStacks
  BY <1>1, RestAll DEF InProgram
<1>3. Machine'
  <2>1. \E b \in {"program", "cli", "exception"} : base' = [base EXCEPT ![on] = b]
    BY DEF ExecuteCli, ExecuteSti, Exception
  <2>2. IFlag' \in BOOLEAN
        /\ UNCHANGED <<boot, mask, isr, pf, control_c, visible, early>>
    BY <1>1 DEF Machine, ExecuteCli, ExecuteSti, Exception, kbd
  <2> QED
    BY <1>1, <2>1, <2>2 DEF Machine
<1> QED
  BY <1>1, <1>2, <1>3, HandlersKeep

\* What the timers and the keyboard do does not reach the CPU's side.
LEMMA DevicesTInv ==
    ASSUME TInv, Tick \/ RtcPeriod \/ Press \/ UNCHANGED vars
    PROVE  TInv'
<1>1. IInv' /\ Machine /\ UNCHANGED <<on, stack, IFlag>>
  BY DevicesIInv, TypeParts DEF TInv, Tick, RtcPeriod, Press, vars
<1>2. OneStarts'
  BY <1>1 DEF TInv, OneStarts, Running
<1>3. /\ irr' \subseteq Device /\ pf' \in BOOLEAN /\ early' \in 0 .. MAX_EARLY
      /\ UNCHANGED <<boot, mask, isr, base, visible, control_c>>
  <2>1. /\ irr' \subseteq irr \cup {PIT_IRQ, RTC_IRQ, KEYBOARD_IRQ}
        /\ UNCHANGED <<boot, mask, isr, base, visible, control_c>>
    BY DEF Tick, RtcPeriod, Press, vars, kbd
  <2>2. pf' \in {pf, TRUE}
    BY DEF Tick, RtcPeriod, Press, vars
  <2>3. early' = early \/ (early < MAX_EARLY /\ early' = early + 1)
    BY DEF Tick, RtcPeriod, Press, vars
  <2>4. early' \in 0 .. MAX_EARLY
    BY <1>1, <2>3, InterruptsAssumption DEF Machine
  <2> QED
    BY <1>1, <2>1, <2>2, <2>4 DEF Machine, Device
<1>4. queue' \in 0 .. MAX_KEYS /\ keys' \in 0 .. MAX_KEYS /\ KeyRequested'
  <2>1. queue \in Int /\ keys \in Int /\ 0 <= queue /\ queue <= keys /\ keys <= MAX_KEYS
        /\ MAX_KEYS \in Int
    BY <1>1, InterruptsAssumption DEF Machine, TInv, KeyRequested
  <2>2. Handling(KEYBOARD_IRQ, "start")' <=> Handling(KEYBOARD_IRQ, "start")
    BY <1>1 DEF Handling, Running
  <2>3. CASE Press
    BY <2>1, <2>2, <2>3 DEF Press, TInv, KeyRequested
  <2>4. CASE Tick \/ RtcPeriod \/ UNCHANGED vars
    <3>1. UNCHANGED <<queue, keys>> /\ irr' \subseteq irr \cup {PIT_IRQ, RTC_IRQ}
      BY <2>4 DEF Tick, RtcPeriod, vars, kbd
    <3> QED
      BY <1>1, <2>2, <3>1 DEF Machine, TInv, KeyRequested, PIT_IRQ, RTC_IRQ, KEYBOARD_IRQ
  <2> QED
    BY <2>3, <2>4
<1>5. Machine'
  BY <1>1, <1>3, <1>4 DEF Machine
<1> QED
  BY <1>1, <1>2, <1>4, <1>5, TypeParts, PTL DEF TInv, IInv

LEMMA NextTInv == TInv /\ [Next]_vars => TInv'
<1> SUFFICES ASSUME TInv, [Next]_vars PROVE TInv'
  OBVIOUS
<1>1. CASE Boot
  BY <1>1, BootTInv
<1>2. CASE \E irq \in Device : Take(irq)
  BY <1>2, TakeTInv
<1>3. CASE Handlers
  BY <1>3, PitTInv, ReturnsTInv, KeyboardTInv, SwitchReturnsTInv DEF Handlers
<1>4. CASE ExecuteCli \/ ExecuteSti \/ \E vector \in Exceptions : Exception(vector)
  BY <1>4, ProgramTInv
<1>5. CASE Tick \/ RtcPeriod \/ Press \/ UNCHANGED vars
  BY <1>5, DevicesTInv
<1> QED
  BY <1>1, <1>2, <1>3, <1>4, <1>5 DEF Next

\* Lines, stacks and the keyboard's queue stay in their ranges: a switch is to a
\* terminal, and the keyboard's handler never reads from an empty controller.
THEOREM TypeCorrect == Spec => []TypeOK
<1>1. Init => TInv
  BY InitTInv
<1>2. TInv /\ [Next]_vars => TInv'
  BY NextTInv
<1>3. TInv => TypeOK
  BY DEF TInv
<1> QED
  BY <1>1, <1>2, <1>3, PTL DEF Spec
=============================================================================
