----------------------------- MODULE LineEditor -----------------------------
(***************************************************************************)
(* What the keyboard layer promises a terminal's user and reader: the text *)
(* typed so far can be extended up to a limit, shortened at its end and    *)
(* thrown away, and Enter turns it into the line a reader may take.        *)
(***************************************************************************)
EXTENDS Integers, Sequences, SequencesExt

CONSTANTS Terminals, Chars, Limit

VARIABLES text,     \* [terminal -> characters typed since the last line]
          line,     \* [terminal -> the last line entered]
          ready     \* [terminal -> the line has not been taken]

vars == <<text, line, ready>>

Type(t, c) ==
    /\ Len(text[t]) < Limit
    /\ text' = [text EXCEPT ![t] = Append(@, c)]
    /\ UNCHANGED <<line, ready>>

Erase(t) ==
    /\ text[t] # << >>
    /\ text' = [text EXCEPT ![t] = Front(@)]
    /\ UNCHANGED <<line, ready>>

Discard(t) == text' = [text EXCEPT ![t] = << >>] /\ UNCHANGED <<line, ready>>

Enter(t) ==
    /\ line' = [line EXCEPT ![t] = text[t]]
    /\ ready' = [ready EXCEPT ![t] = TRUE]
    /\ text' = [text EXCEPT ![t] = << >>]

Take(t) == ready' = [ready EXCEPT ![t] = FALSE] /\ UNCHANGED <<text, line>>

Init ==
    /\ text = [t \in Terminals |-> << >>]
    /\ line = [t \in Terminals |-> << >>]
    /\ ready = [t \in Terminals |-> FALSE]

Next == \E t \in Terminals : \/ \E c \in Chars : Type(t, c)
                             \/ Erase(t) \/ Discard(t) \/ Enter(t) \/ Take(t)

Spec == Init /\ [][Next]_vars
=============================================================================
