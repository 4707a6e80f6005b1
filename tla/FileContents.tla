---------------------------- MODULE FileContents ----------------------------
(***************************************************************************)
(* Files with read_data, on disks of every arrangement of blocks, good and  *)
(* bad.  Files takes from a read only how far it moves the position.        *)
(***************************************************************************)
EXTENDS Files, ReadData

CONSTANT ReadLengths    \* numbers of bytes that are asked for

ASSUME FileContentsAssumption == ReadLengths \subseteq Nat

\* The blocks of a file, as its inode counts them, and the inodes that an
\* inode number may stand for (data_count stands for any bad block).
Blocks(size) == {b \in 0 .. size : b * DATA_BLOCK_SIZE < size}
OnDisk(i)    == [length : {FileLength[i]},
                 data_block_idx : [Blocks(FileLength[i]) -> 0 .. data_count]]

\* Wherever reads and ticks have left a descriptor, at the end of its file and
\* past it too, the next read returns the file's bytes from there on, however
\* the range lies on the blocks; and it moves the position as far as Files
\* says, unless a block is bad.
ReadDataIsExact ==
    \A t \in Term, k \in Fd, n \in ReadLengths :
        LET fd == Table(t)[k]
        IN  call[t].at = "idle" /\ fd.used /\ fd.op = "file" =>
              \A inode \in OnDisk(fd.inode) :
                LET got  == read_data(inode, fd.pos, n).bytes_read
                    left == inode.length - fd.pos
                IN  /\ ReadsTheFile(inode, fd.pos, n)
                    /\ got # -1 => got = IF left > 0 THEN Least(left, n) ELSE 0
=============================================================================
