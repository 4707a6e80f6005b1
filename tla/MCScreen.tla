------------------------------ MODULE MCScreen ------------------------------
(***************************************************************************)
(* Screen for TLC.  The page of the terminal on the screen is written over  *)
(* before anything reads it, and what vidmap last mapped matters only to a  *)
(* program that draws; the view leaves both out.                            *)
(***************************************************************************)
EXTENDS Screen

MCPrompt == <<"x", Newline>>

Live ==
    <<visible_term_idx, target, drawers, undisturbed, tty, mixed,
      IF drawers = {} THEN None ELSE vid_map,
      memory[VIDEO], [t \in Term |-> ScreenOf(t)]>>
=============================================================================
