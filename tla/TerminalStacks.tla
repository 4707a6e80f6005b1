--------------------------- MODULE TerminalStacks ---------------------------
(***************************************************************************)
(* What the process layer promises its users: every terminal has a stack   *)
(* of processes, the bottom one its shell and the top one the process that *)
(* runs; execute pushes, halt pops down to the shell, and the CPU goes     *)
(* round the terminals.  No pid is on two stacks or twice on one.          *)
(***************************************************************************)
EXTENDS Integers, Sequences, SequencesExt

CONSTANTS NTERMS, MAX_PID

VARIABLES chain,    \* [terminal -> sequence of pids]
          turn      \* the terminal that has the CPU

Terminals == 0 .. NTERMS - 1

InUse == UNION {ToSet(chain[t]) : t \in Terminals}

StartShell(t, p) ==
    /\ \A u \in Terminals : chain[u] = << >> <=> u >= t
    /\ chain' = [chain EXCEPT ![t] = <<p>>]
    /\ turn' = t

Run(p) ==
    /\ chain[turn] # << >>
    /\ chain' = [chain EXCEPT ![turn] = Append(@, p)]
    /\ UNCHANGED turn

Return ==
    /\ Len(chain[turn]) >= 2
    /\ chain' = [chain EXCEPT ![turn] = Front(@)]
    /\ UNCHANGED turn

Tick == turn' = (turn + 1) % NTERMS /\ UNCHANGED chain

Init == chain = [t \in Terminals |-> << >>] /\ turn = 0

Next ==
    \/ \E p \in (0 .. MAX_PID - 1) \ InUse :
         Run(p) \/ \E t \in Terminals : StartShell(t, p)
    \/ Return
    \/ Tick

Spec == Init /\ [][Next]_<<chain, turn>>
=============================================================================
