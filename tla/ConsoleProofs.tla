--------------------------- MODULE ConsoleProofs ----------------------------
(* As long as no key overtakes a stopped handler, every screen is where its   *)
(* terminal's output goes and every key is printed once it is read: for one,  *)
(* two or three terminals and any number of keys.                             *)
EXTENDS Console, SequenceTheorems, TLAPS

Handlers == [to : Term, updated : BOOLEAN, code : Codes]

\* The visible terminal's screen is in video memory, the others' in their pages.
AtHome(visible) == video = visible /\ \A t \in Term \ {visible} : page[t] = t

\* Nobody is stopped, and the screens are at home; or one handler is, in the
\* switch to a terminal whose screen is in video memory already.
InOrder ==
    \/ Stopped = {} /\ AtHome(visible_term_idx)
    \/ \E a \in Term, h \in Handlers :
          /\ handlers = [t \in Term |-> IF t = a THEN <<h>> ELSE << >>]
          /\ h.to # visible_term_idx /\ h.code = scan_code
          /\ AtHome(h.to)

IInv == TypeOK /\ (overlaps = 0 => InOrder /\ ~misprinted)

-----------------------------------------------------------------------------
(* Type correctness *)

LEMMA TermFacts ==
  Term \subseteq {0, 1, 2} /\ 0 \in Term /\ MAX_OVERLAPS \in Nat \ {0}
  BY ConsoleAssumption DEF Term

\* The first of the terminals asked for.
LEMMA FirstIsOne ==
  ASSUME NEW S \in SUBSET Term, S # {}
  PROVE  Min(S) \in S
  <1>1. \E x \in S : \A y \in S : x <= y
    <2>1. CASE 0 \in S
      BY <2>1, TermFacts
    <2>2. CASE 0 \notin S /\ 1 \in S
      BY <2>2, TermFacts
    <2>3. CASE S = {2}
      BY <2>3
    <2> QED BY <2>1, <2>2, <2>3, TermFacts
  <1> QED BY <1>1 DEF Min

LEMMA SwitchTypes ==
  ASSUME TypeOK, NEW n, NEW asked \in [Term -> BOOLEAN], NEW visible \in Term,
         NEW a \in Term, NEW handler \in Handlers, NEW below \in Seq(Handlers), NEW code,
         SwitchFrom(n, asked, visible, a, handler, below, code)
  PROVE  /\ alt_f' \in [Term -> BOOLEAN] /\ handlers' \in [Term -> Seq(Handlers)]
         /\ video' \in Term /\ page' \in [Term -> Term] /\ misprinted' \in BOOLEAN
  <1> DEFINE wanted == {t \in Term : t >= n /\ asked[t] /\ t # visible}
             to     == Min(wanted)
             stop   == Append(below, [handler EXCEPT !.to = to])
  <1>0. handlers \in [Term -> Seq(Handlers)] /\ video \in Term /\ page \in [Term -> Term]
        /\ misprinted \in BOOLEAN
    BY DEF TypeOK, Handlers
  <1>1. CASE wanted = {}
    <2>1. /\ PrintKey(code, handler) /\ alt_f' = asked
          /\ handlers' = [handlers EXCEPT ![a] = below] /\ UNCHANGED <<video, page>>
      BY <1>1 DEF SwitchFrom
    <2>2. misprinted' \in BOOLEAN
      BY <2>1, Zenon DEF PrintKey
    <2> QED BY <1>0, <2>1, <2>2
  <1>2. CASE wanted # {}
    <2>1. to \in Term
      BY <1>2, FirstIsOne
    <2>2. /\ alt_f' = [asked EXCEPT ![to] = FALSE]
          /\ handlers' = [handlers EXCEPT ![a] = stop]
          /\ page' = [page EXCEPT ![visible] = video] /\ video' = page[to]
          /\ UNCHANGED misprinted
      BY <1>2 DEF SwitchFrom, TerminalSwitch
    <2> HIDE DEF to
    <2>3. [handler EXCEPT !.to = to] \in Handlers
      BY <2>1 DEF Handlers
    <2>4. stop \in Seq(Handlers)
      BY <2>3, AppendProperties
    <2> HIDE DEF stop
    <2> QED BY <1>0, <2>1, <2>2, <2>4
  <1> QED BY <1>1, <1>2

\* A handler that begins.
NewHandler(code) == [to |-> 0, updated |-> FlagUpdated(code), code |-> code]

LEMMA NewHandlerType ==
  ASSUME TypeOK, NEW code \in Codes
  PROVE  NewHandler(code) \in Handlers /\ NewHandler(code).code = code
  <1>1. FlagUpdated(code) \in BOOLEAN
    BY Zenon DEF FlagUpdated
  <1> QED BY <1>1, TermFacts DEF NewHandler, Handlers

LEMMA AskedType ==
  ASSUME TypeOK, NEW code \in Codes
  PROVE  Asked(code) \in [Term -> BOOLEAN] /\ CtrlCAsked(code) \in BOOLEAN
  <1>1. \A t \in Term : (alt_f[t] \/ (code = FKey[t + 1] /\ alt)) \in BOOLEAN
    BY Zenon
  <1>2. CtrlCAsked(code) \in BOOLEAN
    BY Zenon DEF CtrlCAsked
  <1> QED BY <1>1, <1>2 DEF Asked

\* The last handler on a stack, and the ones below it.
LEMMA StoppedLast ==
  ASSUME NEW below \in Seq(Handlers), below # << >>
  PROVE  Last(below) \in Handlers /\ Front(below) \in Seq(Handlers)
  <1>1. Len(below) \in Nat /\ Len(below) >= 1
    BY EmptySeq, LenProperties
  <1>2. \A i \in 1 .. Len(below) - 1 : below[i] \in Handlers
    BY <1>1, ElementOfSeq
  <1>3. Len(below) \in 1 .. Len(below)
    BY <1>1
  <1>4. below[Len(below)] \in Handlers
    BY <1>3, ElementOfSeq
  <1>5. SubSeq(below, 1, Len(below) - 1) \in Seq(Handlers)
    BY <1>1, <1>2, SubSeqProperties
  <1> QED BY <1>4, <1>5 DEF Last, Front

LEMMA KeyTypes ==
  ASSUME TypeOK, NEW a \in Term, NEW code \in Codes, KeyboardHandler(a, code)
  PROVE  TypeOK'
  <1>1. /\ scan_code' \in Codes /\ visible_term_idx' \in Term
        /\ handlers \in [Term -> Seq(Handlers)]
    BY DEF KeyboardHandler, TypeOK, Handlers
  <1>2. overlaps' \in 0 .. MAX_OVERLAPS
    BY TermFacts DEF KeyboardHandler, TypeOK
  <1>3. control' \in BOOLEAN /\ alt' \in BOOLEAN
    BY Zenon DEF KeyboardHandler, UpdateFlags, TypeOK
  <1>4. /\ control_c' \in BOOLEAN
        /\ alt_f' \in [Term -> BOOLEAN] /\ handlers' \in [Term -> Seq(Handlers)]
        /\ video' \in Term /\ page' \in [Term -> Term] /\ misprinted' \in BOOLEAN
    <2>1. CASE /\ control_c' = FALSE /\ alt_f' = Asked(code)
               /\ handlers' = [handlers EXCEPT ![a] = << >>]
               /\ UNCHANGED <<video, page, misprinted>>
      BY <1>1, <2>1, AskedType, EmptySeq DEF TypeOK
    <2>2. CASE /\ control_c' = CtrlCAsked(code)
               /\ SwitchFrom(0, Asked(code), visible_term_idx, a, NewHandler(code),
                             handlers[a], code)
      <3>1. handlers[a] \in Seq(Handlers) /\ visible_term_idx \in Term
        BY <1>1 DEF TypeOK
      <3> QED BY <2>2, <3>1, AskedType, NewHandlerType, SwitchTypes
    <2> QED BY <2>1, <2>2 DEF KeyboardHandler, NewHandler
  <1> QED BY <1>1, <1>2, <1>3, <1>4 DEF TypeOK, Handlers

LEMMA GoesOnTypes ==
  ASSUME TypeOK, NEW a \in Term, KeyboardHandlerGoesOn(a)
  PROVE  TypeOK'
  <1> DEFINE handler == Last(handlers[a])
  <1>1. handlers[a] \in Seq(Handlers) /\ handlers[a] # << >> /\ alt_f \in [Term -> BOOLEAN]
    BY DEF TypeOK, Handlers, KeyboardHandlerGoesOn
  <1>2. handler \in Handlers /\ Front(handlers[a]) \in Seq(Handlers)
    BY <1>1, StoppedLast
  <1>3. handler.to \in Term
    BY <1>2 DEF Handlers
  <1>4. /\ visible_term_idx' = handler.to
        /\ SwitchFrom(handler.to + 1, alt_f, handler.to, a, handler,
                      Front(handlers[a]), scan_code)
        /\ UNCHANGED <<control, alt, control_c, scan_code, overlaps>>
    BY DEF KeyboardHandlerGoesOn
  <1> HIDE DEF handler
  <1>5. /\ alt_f' \in [Term -> BOOLEAN] /\ handlers' \in [Term -> Seq(Handlers)]
        /\ video' \in Term /\ page' \in [Term -> Term] /\ misprinted' \in BOOLEAN
    BY <1>1, <1>2, <1>3, <1>4, SwitchTypes
  <1> QED BY <1>3, <1>4, <1>5 DEF TypeOK, Handlers

-----------------------------------------------------------------------------
(* Screens and keys while no key overtakes a stopped handler *)

\* From screens at home, a handler alone prints its key and returns, with the
\* screens at home, or stops in a switch that has moved two of them.
LEMMA SwitchInOrder ==
  ASSUME TypeOK, NEW n, NEW asked \in [Term -> BOOLEAN], NEW visible \in Term,
         NEW a \in Term, NEW handler \in Handlers, NEW code,
         SwitchFrom(n, asked, visible, a, handler, << >>, code),
         \A t \in Term \ {a} : handlers[t] = << >>,
         AtHome(visible), handler.code = code,
         scan_code' = code, visible_term_idx' = visible, ~misprinted
  PROVE  InOrder' /\ ~misprinted'
  <1> DEFINE wanted == {t \in Term : t >= n /\ asked[t] /\ t # visible}
             to     == Min(wanted)
             h      == [handler EXCEPT !.to = to]
  <1>0. handlers \in [Term -> Seq(Handlers)] /\ video \in Term /\ page \in [Term -> Term]
        /\ video = visible
    BY DEF TypeOK, Handlers, AtHome
  <1>1. CASE wanted = {}
    <2>1. /\ handlers' = [handlers EXCEPT ![a] = << >>]
          /\ PrintKey(code, handler) /\ UNCHANGED <<video, page>>
      BY <1>1 DEF SwitchFrom
    <2>2. \A t \in Term : handlers'[t] = << >>
      BY <1>0, <2>1
    <2>3. (Stopped = {})'
      BY <2>2 DEF Stopped
    <2>4. AtHome(visible_term_idx)'
      BY <2>1 DEF AtHome
    <2>5. ~misprinted'
      BY <2>1 DEF PrintKey
    <2> QED BY <2>3, <2>4, <2>5 DEF InOrder
  <1>2. CASE wanted # {}
    <2>1. to \in Term /\ to # visible
      <3>1. to \in wanted
        BY <1>2, FirstIsOne
      <3> HIDE DEF to
      <3> QED BY <3>1
    <2>2. /\ handlers' = [handlers EXCEPT ![a] = Append(<< >>, h)]
          /\ page' = [page EXCEPT ![visible] = video] /\ video' = page[to]
          /\ UNCHANGED misprinted
      BY <1>2 DEF SwitchFrom, TerminalSwitch
    <2> HIDE DEF to
    <2>3. h \in Handlers /\ h.to = to /\ h.code = code
      BY <2>1 DEF Handlers
    <2> HIDE DEF h
    <2>4. handlers' = [t \in Term |-> IF t = a THEN <<h>> ELSE << >>]
      <3>1. Append(<< >>, h) = <<h>>
        OBVIOUS
      <3> QED BY <1>0, <2>2, <3>1
    <2>5. AtHome(h.to)'
      <3>1. video' = to
        BY <2>1, <2>2 DEF AtHome
      <3>2. \A t \in Term : page'[t] = t
        BY <1>0, <2>2 DEF AtHome
      <3>3. h' = h
        BY DEF h, to
      <3> QED BY <2>3, <3>1, <3>2 DEF AtHome
    <2>6. InOrder'
      BY <2>1, <2>3, <2>4, <2>5 DEF InOrder
    <2> QED BY <2>2, <2>6
  <1> QED BY <1>1, <1>2

LEMMA KeyInOrder ==
  ASSUME IInv, NEW a \in Term, NEW code \in Codes, KeyboardHandler(a, code), overlaps' = 0
  PROVE  InOrder' /\ ~misprinted'
  <1>0. TypeOK /\ overlaps \in Nat
    <2>1. TypeOK /\ overlaps \in 0 .. MAX_OVERLAPS
      BY DEF IInv, TypeOK
    <2> QED BY <2>1, TermFacts
  <1>1. Stopped = {} /\ overlaps = 0
    BY <1>0 DEF KeyboardHandler
  <1>2. InOrder /\ ~misprinted
    BY <1>1 DEF IInv
  <1>3. \A t \in Term : handlers[t] = << >>
    BY <1>1 DEF Stopped
  <1>4. AtHome(visible_term_idx)
    <2> SUFFICES ASSUME NEW b \in Term, NEW h \in Handlers,
                        handlers = [t \in Term |-> IF t = b THEN <<h>> ELSE << >>]
                 PROVE  FALSE
      BY <1>2 DEF InOrder
    <2>1. <<h>> # << >>
      OBVIOUS
    <2> QED BY <1>3, <2>1
  <1>5. UNCHANGED visible_term_idx /\ scan_code' = code
    BY DEF KeyboardHandler
  <1>6. CASE /\ handlers' = [handlers EXCEPT ![a] = << >>]
             /\ UNCHANGED <<video, page, misprinted>>
    <2>1. handlers' = handlers
      BY <1>0, <1>3, <1>6 DEF TypeOK
    <2> QED BY <1>1, <1>2, <1>4, <1>5, <1>6, <2>1 DEF InOrder, AtHome, Stopped
  <1>7. CASE SwitchFrom(0, Asked(code), visible_term_idx, a, NewHandler(code),
                        handlers[a], code)
    <2>1. visible_term_idx \in Term /\ handlers[a] = << >>
      BY <1>0, <1>3 DEF TypeOK
    <2> QED BY <1>0, <1>2, <1>3, <1>4, <1>5, <1>7, <2>1, AskedType, NewHandlerType,
               SwitchInOrder
  <1> QED BY <1>6, <1>7 DEF KeyboardHandler, NewHandler

LEMMA GoesOnInOrder ==
  ASSUME IInv, NEW a \in Term, KeyboardHandlerGoesOn(a), overlaps' = 0
  PROVE  InOrder' /\ ~misprinted'
  <1>0. TypeOK /\ overlaps = 0 /\ handlers[a] # << >>
    BY DEF IInv, KeyboardHandlerGoesOn
  <1>1. InOrder /\ ~misprinted
    BY <1>0 DEF IInv
  <1>2. PICK b \in Term, h \in Handlers :
          /\ handlers = [t \in Term |-> IF t = b THEN <<h>> ELSE << >>]
          /\ h.to # visible_term_idx /\ h.code = scan_code
          /\ AtHome(h.to)
    <2>1. Stopped # {}
      BY <1>0 DEF Stopped
    <2> QED BY <1>1, <2>1 DEF InOrder
  <1>3. b = a /\ handlers[a] = <<h>> /\ \A t \in Term \ {a} : handlers[t] = << >>
    BY <1>0, <1>2
  <1>4. Last(<<h>>) = h /\ Front(<<h>>) = << >>
    <2>1. Len(<<h>>) = 1 /\ <<h>>[1] = h
      OBVIOUS
    <2>2. SubSeq(<<h>>, 1, 0) = << >>
      BY SubSeqEmpty
    <2> QED BY <2>1, <2>2 DEF Last, Front
  <1>5. h.to \in Term /\ alt_f \in [Term -> BOOLEAN]
    BY <1>0 DEF Handlers, TypeOK
  <1>6. /\ visible_term_idx' = h.to /\ scan_code' = scan_code
        /\ SwitchFrom(h.to + 1, alt_f, h.to, a, h, << >>, scan_code)
    BY <1>3, <1>4 DEF KeyboardHandlerGoesOn
  <1> QED BY <1>0, <1>1, <1>2, <1>3, <1>5, <1>6, SwitchInOrder

-----------------------------------------------------------------------------
(* The theorems *)

\* The inductive invariant holds in every reachable state.
THEOREM Invariance == Spec => []IInv
  <1>1. Init => IInv
    <2> SUFFICES ASSUME Init PROVE IInv
      OBVIOUS
    <2>1. /\ handlers \in [Term -> Seq(Handlers)] /\ page \in [Term -> Term]
          /\ alt_f \in [Term -> BOOLEAN] /\ \A t \in Term : handlers[t] = << >> /\ page[t] = t
      BY EmptySeq DEF Init
    <2>2. TypeOK
      BY <2>1, TermFacts DEF Init, TypeOK, Handlers, Codes
    <2>3. InOrder
      BY <2>1 DEF Init, InOrder, Stopped, AtHome
    <2> QED BY <2>2, <2>3 DEF Init, IInv
  <1>2. IInv /\ [Next]_vars => IInv'
    <2> SUFFICES ASSUME IInv, [Next]_vars PROVE IInv'
      OBVIOUS
    <2>1. ASSUME NEW a \in Term, NEW code \in Codes, KeyboardHandler(a, code) PROVE IInv'
      BY <2>1, KeyTypes, KeyInOrder DEF IInv
    <2>2. ASSUME NEW a \in Term, KeyboardHandlerGoesOn(a) PROVE IInv'
      BY <2>2, GoesOnTypes, GoesOnInOrder DEF IInv
    <2>3. CASE UNCHANGED vars
      BY <2>3 DEF vars, IInv, TypeOK, InOrder, Stopped, AtHome
    <2> QED BY <2>1, <2>2, <2>3 DEF Next, AtBound
  <1> QED BY <1>1, <1>2, PTL DEF Spec

\* Whatever keys come, in handlers stopped one upon another, what the requests,
\* the stacks and the pages hold are terminals and keys there are.
THEOREM TypeCorrect == Spec => []TypeOK
  <1>1. IInv => TypeOK
    BY DEF IInv
  <1> QED BY <1>1, Invariance, PTL

\* As long as no key overtakes a stopped handler, a terminal's output goes to
\* its own screen, but for the two that a switch in progress is between.
THEOREM ScreensAreApart == Spec => []ScreensStayApart
  <1>1. IInv => ScreensStayApart
    <2> SUFFICES ASSUME IInv, overlaps = 0, NEW a \in Term
                 PROVE  \/ WritesTo(a) = a
                        \/ \E b \in Stopped : a \in {visible_term_idx, Last(handlers[b]).to}
      BY DEF ScreensStayApart
    <2>1. CASE AtHome(visible_term_idx)
      BY <2>1 DEF WritesTo, AtHome
    <2>2. ASSUME NEW b \in Term, NEW h \in Handlers,
                 handlers = [t \in Term |-> IF t = b THEN <<h>> ELSE << >>], AtHome(h.to)
          PROVE  \/ WritesTo(a) = a
                 \/ \E c \in Stopped : a \in {visible_term_idx, Last(handlers[c]).to}
      <3>1. handlers[b] = <<h>> /\ <<h>> # << >> /\ Last(<<h>>) = h
        BY <2>2 DEF Last
      <3>2. b \in Stopped
        BY <3>1 DEF Stopped
      <3>3. CASE a \in {visible_term_idx, h.to}
        BY <3>1, <3>2, <3>3
      <3>4. CASE a \notin {visible_term_idx, h.to}
        BY <2>2, <3>4 DEF WritesTo, AtHome
      <3> QED BY <3>3, <3>4
    <2> QED BY <2>1, <2>2 DEF IInv, InOrder
  <1> QED BY <1>1, Invariance, PTL

\* ... and print_key prints the key its handler read.
THEOREM KeysPrintedAsRead == Spec => []PrintsTheKeyRead
  <1>1. IInv => PrintsTheKeyRead
    BY DEF IInv, PrintsTheKeyRead, TypeOK
  <1> QED BY <1>1, Invariance, PTL
=============================================================================
