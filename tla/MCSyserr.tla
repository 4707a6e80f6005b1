------------------------------ MODULE MCSyserr ------------------------------
(* A boot block of three entries, the view of MCFiles with the test program's  *)
(* state, and a bound on the other terminals: they run one process each that   *)
(* opens one file at a time, and reads and writes nothing.  What open() shares *)
(* is all there; positions and counts are not looked at by the tests.          *)
EXTENDS MCFiles, Syserr

MCThreeEntries == Append(MCDirentries, [name |-> "rtc", filetype |-> "rtc", inode |-> 0])

MCLive == <<Live, prog>>

OthersOnlyOpen ==
    \A t \in Term \ {Tester} :
        /\ depth[t] = 1 /\ rtc_fd_idx[t][1] = None
        /\ call[t].at \notin {"load", "store", "copy"}
        /\ \A k \in Fd : Table(t)[k].pos = 0 /\ (k > 2 => ~Table(t)[k].used)
=============================================================================
