---------------------------- MODULE MCProcesses ----------------------------
(***************************************************************************)
(* Processes for TLC.  A PCB is never cleared: a free pid keeps its last   *)
(* parent and contexts, and a process that is not suspended an old context.*)
(* execute(), process_switch() and init_terminal() write those fields      *)
(* before anything reads them, so states that differ only there have the   *)
(* same futures and Live is a sound view.                                  *)
(***************************************************************************)
EXTENDS ProcessesRefinement

Suspended(p) ==
    \E t \in Term \ {active_term_idx} : schedule[t] = p

Live ==
    <<pid_status, schedule, active_term_idx, i, esp0, user_page, cpu, clobbered,
      [p \in Running |-> <<parent_pid[p], exe_ctx[p]>>],
      [p \in {q \in Pid : Suspended(q)} |-> kernel_ctx[p]]>>
=============================================================================
