------------------------------ MODULE ReadData ------------------------------
(***************************************************************************)
(* read_data: the walk from a byte range of a file over the data blocks    *)
(* its inode lists.  An inode is a record of its length and of the numbers *)
(* of its blocks; a byte is named by where it is on the disk.              *)
(***************************************************************************)
EXTENDS Integers, Sequences, FiniteSetsExt

CONSTANTS DATA_BLOCK_SIZE,   \* bytes of a block (4096 in filesystem.h)
          data_count         \* blocks of the file system

ASSUME ReadDataAssumption == DATA_BLOCK_SIZE \in Nat \ {0} /\ data_count \in Nat

\* The n bytes of a block from the given one on.
BlockBytes(block, from, n) == [k \in 1 .. n |-> <<block, from + k - 1>>]

\* Mutant: the first block is read as if from its start.
BytesInWholeBlock(file_size, offset, length) ==
    Min({DATA_BLOCK_SIZE, file_size - offset, length})

\* One turn of the loop stays in the block, in the file and in the request.
BytesToRead(file_size, offset, length) ==
    Min({DATA_BLOCK_SIZE - (offset % DATA_BLOCK_SIZE), file_size - offset, length})

\* The loop, from an offset with so many bytes left to read: what it returns
\* and what it has put into the buffer, which a bad block does not take back.
\* offset + length stays what it is.
CopyFrom(inode, start, count) ==
    LET copy[length \in 0 .. count] ==
            IF length = 0 THEN [bytes_read |-> 0, buf |-> << >>]
            ELSE LET offset == start + (count - length)
                     block  == inode.data_block_idx[offset \div DATA_BLOCK_SIZE]
                     n      == BytesToRead(inode.length, offset, length)
                     rest   == copy[length - n]
                 IN  IF block >= data_count THEN [bytes_read |-> -1, buf |-> << >>]
                     ELSE [bytes_read |-> IF rest.bytes_read = -1 THEN -1
                                          ELSE n + rest.bytes_read,
                           buf |-> BlockBytes(block, offset % DATA_BLOCK_SIZE, n)
                                       \o rest.buf]
    IN  copy[count]

read_data(inode, offset, length) ==
    IF offset >= inode.length THEN [bytes_read |-> 0, buf |-> << >>]
    ELSE CopyFrom(inode, offset, Min({length, inode.length - offset}))

-----------------------------------------------------------------------------
(* What it should compute. *)

\* The file as one sequence of bytes.
FileBytes(inode) ==
    [k \in 1 .. inode.length |->
        <<inode.data_block_idx[(k - 1) \div DATA_BLOCK_SIZE], (k - 1) % DATA_BLOCK_SIZE>>]

\* Its part behind the first from bytes, up to the end-th.
Part(inode, from, end) == SubSeq(FileBytes(inode), from + 1, end)

\* What a read of a part gives: the part; or -1 if a block of it is none of
\* the disk's, and then the buffer has what comes before that block.
Bad(part)     == {k \in DOMAIN part : part[k][1] >= data_count}
Outcome(part) ==
    IF Bad(part) = {} THEN [bytes_read |-> Len(part), buf |-> part]
    ELSE [bytes_read |-> -1, buf |-> SubSeq(part, 1, Min(Bad(part)) - 1)]

\* read_data reads the part of the file that starts at the offset and has the
\* length asked for or ends with the file.
ReadsTheFile(inode, offset, length) ==
    read_data(inode, offset, length)
        = Outcome(Part(inode, offset, Min({offset + length, inode.length})))
=============================================================================
