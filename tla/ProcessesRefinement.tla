------------------------ MODULE ProcessesRefinement ------------------------
(***************************************************************************)
(* The pid table, the parent links and schedule[] implement the terminals' *)
(* stacks of processes.                                                    *)
(***************************************************************************)
EXTENDS Processes, FiniteSets

\* The process terminal t runs, its parent, its parent's parent ...: None from
\* the shell on.
Ancestors(t) ==
    LET up[n \in 0 .. MAX_PID] ==
            IF n = 0 THEN schedule[t]
            ELSE IF up[n - 1] = None THEN None ELSE parent_pid[up[n - 1]]
    IN  up

\* The processes of terminal t, from its shell up to the one it runs, read
\* off the parent links.  (A cycle would make it longer than MAX_PID.)
ChainOf(t) ==
    LET up == Ancestors(t)
        depth == Cardinality({n \in 0 .. MAX_PID : up[n] # None})
    IN  [k \in 1 .. depth |-> up[depth - k]]

Stacks == INSTANCE TerminalStacks
            WITH chain <- [t \in Term |-> ChainOf(t)], turn <- active_term_idx

\* Every execute, halt, Ctrl-C and timer tick, in any interleaving, is a push,
\* a pop, a turn of the CPU or nothing on the terminals' process stacks.
ImplementsStacks == Stacks!Spec

-----------------------------------------------------------------------------
(* What the proof of it needs besides IInv. *)

\* While nothing has faulted, the only terminal without a process among those
\* started is the one that has the CPU, and the last one started has it until
\* all are.
ShellsInOrder ==
    cpu.at # "hung" =>
        /\ \A t \in Term : t <= i /\ schedule[t] = None => t = active_term_idx
        /\ i \in 0 .. NTERMS - 2 => active_term_idx = i
=============================================================================
