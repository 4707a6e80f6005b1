------------------------------ MODULE MCFiles ------------------------------
(***************************************************************************)
(* Boot blocks of two entries: the directory itself and a program, and,     *)
(* where the length of the chain is what matters, the rtc and a program.    *)
(***************************************************************************)
EXTENDS Files

MCDirentries ==
    << [name |-> ".",     filetype |-> "dir",  inode |-> 0],
       [name |-> "shell", filetype |-> "file", inode |-> 1] >>
MCRtcAndProgram ==
    << [name |-> "rtc", filetype |-> "rtc", inode |-> 0], MCDirentries[2] >>

MCFileLength == [i \in 0 .. 1 |-> i]

\* The view leaves out what no step reads before writing it: the tables of
\* processes that have halted, and info.dentry outside a directory read.
Live ==
    <<depth, file_dentry, counter, call, raced, owed, lister,
      [t \in Term |-> [d \in 1 .. depth[t] |-> <<fd_array[t][d], rtc_fd_idx[t][d]>>]],
      IF \E t \in Term : call[t].at \in {"load", "store", "copy"} THEN dentry ELSE NoEntry>>
=============================================================================
