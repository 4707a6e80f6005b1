----------------------------- MODULE MCTerminal -----------------------------
(***************************************************************************)
(* Terminal for TLC.  What a reader has copied so far matters only to the  *)
(* property about calm readers, and a reader is calm from before its first *)
(* character or not at all; the view keeps the length of what others have. *)
(***************************************************************************)
EXTENDS Terminal

Live == <<visible_term_idx, keyboard, calm,
          [t \in Term |-> IF t \in calm THEN reader[t]
                          ELSE [reader[t] EXCEPT !.buf = Len(@)]]>>
=============================================================================
