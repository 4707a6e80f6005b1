----------------------------- MODULE MCConsole -----------------------------
(* Console for TLC: scan_code is dead while no handler is stopped. *)
EXTENDS Console

Live == <<flags, visible_term_idx, handlers, video, page, misprinted, overlaps,
          IF Stopped = {} THEN "" ELSE scan_code>>
=============================================================================
