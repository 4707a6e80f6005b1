----------------------------- MODULE MCReadData -----------------------------
(* Files of two blocks, the second one not full. *)
EXTENDS MCFiles, FileContents

MCTwoBlocks == [i \in 0 .. 1 |-> (DATA_BLOCK_SIZE + 1) * i]
=============================================================================
