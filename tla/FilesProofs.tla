---------------------------- MODULE FilesProofs ----------------------------
(***************************************************************************)
(* TLAPS proofs for Files, for every number of terminals, chain length,     *)
(* table size and boot block: IInv is inductive, and the properties the     *)
(* runs check follow from it.  Then come read_data, which returns a file's  *)
(* bytes for every disk (FileContents), and the tests of ece391syserr,      *)
(* which find nothing wrong with any of these systems (Syserr).             *)
(***************************************************************************)
EXTENDS Syserr, FileContents, SequenceTheorems, WellFoundedInduction, TLAPS

-----------------------------------------------------------------------------
(* Facts about the constants and operators. *)

\* Standard input and output have numbers.
LEMMA StdNumbers == 0 \in Fd /\ 1 \in Fd
  BY FilesAssumption DEF Fd

\* Nobody is no terminal.
LEMMA NobodyIsNoTerm == Nobody \notin Term
  BY FilesAssumption DEF Nobody, Term

\* A lookup by name finds the entry of that name.
LEMMA EntryType ==
  ASSUME NEW name \in Names
  PROVE  Entry(name) \in Entries /\ Entry(name).name = name
  <1>1. \E n \in Index : Direntries[n].name = name
    BY DEF Names
  <1> QED BY <1>1 DEF Entry, Entries

\* What an entry of the boot block holds.
LEMMA EntriesType ==
  ASSUME NEW entry \in Entries
  PROVE  entry.filetype \in Types /\ entry.inode \in Inodes
  BY FilesAssumption DEF Entries

\* The blank and the standard descriptors.
LEMMA FreshType ==
  /\ Closed \in Descriptor /\ Std \in Descriptor
  /\ Closed.pos = 0 /\ Closed.inode = 0
  /\ Std.used /\ Std.pos = 0 /\ Std.inode = 0 /\ Std.op = "std"
  /\ FreshTable \in [Fd -> Descriptor]
  /\ FreshTable[0] = Std /\ FreshTable[1] = Std
  /\ \A k \in Fd : FreshTable[k].pos = 0 /\ FreshTable[k].inode = 0
  <1>1. Closed \in Descriptor /\ Closed.pos = 0 /\ Closed.inode = 0
    BY FilesAssumption DEF Closed, Descriptor
  <1>2. Std \in Descriptor
    BY <1>1 DEF Std, Descriptor
  <1>3. Std.used /\ Std.pos = 0 /\ Std.inode = 0 /\ Std.op = "std"
    BY DEF Std, Closed
  <1>4. \A k \in Fd : FreshTable[k] = IF k < 2 THEN Std ELSE Closed
    BY DEF FreshTable
  <1>5. FreshTable \in [Fd -> Descriptor]
    BY <1>1, <1>2 DEF FreshTable
  <1> QED BY <1>1, <1>2, <1>3, <1>4, <1>5, StdNumbers

\* A call that is not in progress.
LEMMA IdleType == Idle \in Call /\ Idle.at = "idle"
  BY StdNumbers, FilesAssumption DEF Idle, Call, CallAt

\* A terminal's table is a table.
LEMMA TableType ==
  ASSUME TypeOK, NEW t \in Term
  PROVE  Table(t) \in [Fd -> Descriptor] /\ depth[t] \in Depth
  BY DEF TypeOK, Table

\* A change of one descriptor of a terminal's running process.
LEMMA SetFdEffect ==
  ASSUME TypeOK, NEW t \in Term, NEW k \in Fd, NEW fd \in Descriptor,
         SetFd(t, k, fd)
  PROVE  /\ fd_array' \in [Term -> [Depth -> [Fd -> Descriptor]]]
         /\ fd_array'[t][depth[t]][k] = fd
         /\ \A u \in Term, d \in Depth, j \in Fd :
              ~(u = t /\ d = depth[t] /\ j = k)
                => fd_array'[u][d][j] = fd_array[u][d][j]
  BY DEF TypeOK, SetFd

\* What close() makes of a descriptor.
LEMMA ResetEffect ==
  ASSUME NEW fd \in Descriptor
  PROVE  /\ Reset(fd) \in Descriptor
         /\ ~Reset(fd).used /\ ~Reset(fd).late
         /\ Reset(fd).pos = 0 /\ Reset(fd).inode = 0 /\ Reset(fd).op = fd.op
  BY FilesAssumption DEF Descriptor, Reset

\* close() gives back a descriptor above the standard ones, or does nothing.
LEMMA AfterCloseEffect ==
  ASSUME NEW table \in [Fd -> Descriptor], NEW k \in Fd
  PROVE  /\ AfterClose(table, k) \in [Fd -> Descriptor]
         /\ \A j \in Fd : j # k => AfterClose(table, k)[j] = table[j]
         /\ AfterClose(table, k)[k] = IF k >= 2 /\ table[k].used THEN Reset(table[k])
                                      ELSE table[k]
  <1>1. Reset(table[k]) \in Descriptor
    BY ResetEffect
  <1>2. AfterClose(table, k) =
          IF k >= 2 /\ table[k].used THEN [table EXCEPT ![k] = Reset(table[k])] ELSE table
    BY DEF AfterClose
  <1> QED BY <1>1, <1>2

\* halt()'s loop closes what the child's numbers name in the parent's table.
LEMMA ClosedAllEffect ==
  ASSUME NEW given \in [Fd -> Descriptor], NEW current \in [Fd -> Descriptor]
  PROVE  /\ ClosedAll(given, current) \in [Fd -> Descriptor]
         /\ \A k \in Fd : ClosedAll(given, current)[k] =
              IF given[k].used /\ k >= 2 /\ current[k].used THEN Reset(current[k])
              ELSE current[k]
  <1>1. \A k \in Fd : ClosedAll(given, current)[k] =
          IF given[k].used THEN AfterClose(current, k)[k] ELSE current[k]
    BY DEF ClosedAll
  <1>2. \A k \in Fd : AfterClose(current, k) \in [Fd -> Descriptor]
    BY AfterCloseEffect
  <1>3. ClosedAll(given, current) \in [Fd -> Descriptor]
    BY <1>2 DEF ClosedAll
  <1> QED BY <1>1, <1>3, AfterCloseEffect

\* A tick moves a position, and nothing else that open() and close() look at.
LEMMA AfterTickEffect ==
  ASSUME NEW fd \in Descriptor, NEW reached \in BOOLEAN
  PROVE  /\ AfterTick(fd, reached) \in Descriptor
         /\ AfterTick(fd, reached).used = fd.used /\ AfterTick(fd, reached).op = fd.op
         /\ AfterTick(fd, reached).inode = fd.inode
         /\ AfterTick(fd, reached).used \/ AfterTick(fd, reached).late
  <1> DEFINE pos  == IF reached THEN 0 ELSE fd.pos + 1
             late == fd.late \/ ~fd.used
  <1>1. pos \in Nat /\ late \in BOOLEAN /\ (fd.used \/ late)
    BY DEF Descriptor
  <1>2. AfterTick(fd, reached) = [fd EXCEPT !.pos = pos, !.late = late]
    BY DEF AfterTick
  <1> HIDE DEF pos, late
  <1> QED BY <1>1, <1>2 DEF Descriptor

\* The entry a new call starts with.
LEMMA NewCallType ==
  ASSUME NEW entry \in Entries
  PROVE  /\ [Idle EXCEPT !.at = "take", !.entry = entry] \in Call
         /\ [Idle EXCEPT !.at = "take", !.entry = entry].at = "take"
         /\ [Idle EXCEPT !.at = "take", !.entry = entry].entry = entry
  <1>1. Idle \in Call
    BY IdleType
  <1> QED BY <1>1 DEF Call, CallAt

-----------------------------------------------------------------------------
(* The descriptor tables *)

\* What the invariants say of the k-th descriptor of the process <<t, d>>.
Sound(t, d, k) ==
    LET fd == fd_array[t][d][k]
    IN  /\ ~fd.used /\ ~fd.late => fd.pos = 0
        /\ d <= depth[t] /\ k < 2 => fd = Std
        /\ 1 < d /\ d <= depth[t] =>
             /\ fd.used /\ fd.op = "file" /\ ~fd.late => fd.pos <= FileLength[fd.inode]
             /\ HalfOpen(t, d, k) => d = depth[t] /\ Typing(t) /\ call[t].fd = k
             /\ rtc_fd_idx[t][d] = k =>
                  /\ fd.op = "rtc"
                  /\ fd.used \/ (d = depth[t] /\ call[t].at = "close" /\ call[t].fd = k)

AllSound == \A t \in Term, d \in Depth, k \in Fd : Sound(t, d, k)

\* The invariants of the tables, together.
Tables == /\ TypeOK /\ UnusedAtStart /\ CountsInRtc /\ PositionsWithinFile
          /\ HalfOpenInRootsOnly /\ StdStreams

LEMMA TablesAreSound ==
  ASSUME Tables PROVE AllSound
  <1> SUFFICES ASSUME NEW t \in Term, NEW d \in Depth, NEW k \in Fd PROVE Sound(t, d, k)
    BY DEF AllSound
  <1>1. k < 2 => k = 0 \/ k = 1
    BY DEF Fd
  <1>2. d <= depth[t] /\ k < 2 => fd_array[t][d][k] = Std
    BY <1>1 DEF Tables, StdStreams
  <1>3. 1 < d /\ d <= depth[t] /\ rtc_fd_idx[t][d] = k =>
             /\ fd_array[t][d][k].op = "rtc"
             /\ \/ fd_array[t][d][k].used
                \/ d = depth[t] /\ call[t].at = "close" /\ call[t].fd = k
    BY DEF Tables, CountsInRtc, Counted
  <1> QED
    BY <1>2, <1>3 DEF Sound, Tables, UnusedAtStart, PositionsWithinFile, HalfOpenInRootsOnly

LEMMA SoundAreTables ==
  ASSUME TypeOK, AllSound PROVE Tables
  <1>1. \A t \in Term, d \in Depth, k \in Fd : Sound(t, d, k)
    BY DEF AllSound
  <1>2. UnusedAtStart
    BY <1>1 DEF Sound, UnusedAtStart
  <1>3. StdStreams
    BY <1>1, StdNumbers DEF Sound, StdStreams
  <1>4. PositionsWithinFile
    BY <1>1 DEF Sound, PositionsWithinFile
  <1>5. HalfOpenInRootsOnly
    BY <1>1 DEF Sound, HalfOpenInRootsOnly
  <1>6. CountsInRtc
    BY <1>1 DEF Sound, CountsInRtc, Counted
  <1> QED BY <1>2, <1>3, <1>4, <1>5, <1>6 DEF Tables

\* A call that is about a descriptor.
Bound(t) == Typing(t) \/ call[t].at = "close"

\* A descriptor stays sound as long as it is left alone, and so is the call
\* that is about it, if there is one.
LEMMA SoundFrame ==
  ASSUME NEW t \in Term, NEW d \in Depth, NEW k \in Fd, Sound(t, d, k),
         fd_array'[t][d][k] = fd_array[t][d][k],
         rtc_fd_idx'[t][d] = rtc_fd_idx[t][d],
         depth'[t] = depth[t],
         \/ d # depth[t] \/ ~Bound(t) \/ call[t].fd # k \/ d <= 1
         \/ call'[t] = call[t]
  PROVE  Sound(t, d, k)'
  <1>1. d \in Nat
    BY DEF Depth
  <1>2. CASE d <= 1
    <2>1. ~(1 < d)
      BY <1>1, <1>2
    <2> QED BY <2>1 DEF Sound
  <1>3. CASE d # depth[t]
    BY <1>3 DEF Sound, HalfOpen
  <1>4. CASE ~Bound(t) \/ call[t].fd # k
    BY <1>4 DEF Sound, HalfOpen, Bound
  <1>5. CASE call'[t] = call[t]
    BY <1>5 DEF Sound, HalfOpen, Typing
  <1> QED BY <1>2, <1>3, <1>4, <1>5

\* What is new in place of the k-th descriptor of t's running process.
NewSound(t, k, fd) ==
    /\ fd \in Descriptor
    /\ ~fd.used /\ ~fd.late => fd.pos = 0
    /\ depth[t] > 1 =>
         /\ fd.used /\ fd.op = "file" /\ ~fd.late => fd.pos <= FileLength[fd.inode]
         /\ fd.used /\ fd.op = "none" => Typing(t)' /\ call'[t].fd = k
         /\ rtc_fd_idx[t][depth[t]] = k =>
              /\ fd.op = "rtc"
              /\ fd.used \/ (call'[t].at = "close" /\ call'[t].fd = k)

LEMMA SetFdSound ==
  ASSUME TypeOK, AllSound, NEW t \in Term, NEW k \in Fd, k >= 2, NEW fd,
         SetFd(t, k, fd), NewSound(t, k, fd),
         ~Bound(t) \/ call[t].fd = k,
         UNCHANGED <<depth, rtc_fd_idx>>, \A u \in Term \ {t} : call'[u] = call[u]
  PROVE  AllSound'
  <1> SUFFICES ASSUME NEW u \in Term, NEW d \in Depth, NEW j \in Fd PROVE Sound(u, d, j)'
    BY DEF AllSound
  <1>0. Sound(u, d, j) /\ depth[t] \in Depth
    BY DEF AllSound, TypeOK
  <1>1. CASE u = t /\ d = depth[t] /\ j = k
    <2>1. fd_array'[u][d][j] = fd
      BY <1>1, SetFdEffect DEF NewSound
    <2>2. ~(j < 2) /\ d \in Nat
      BY <1>1 DEF Fd, Depth
    <2> QED BY <1>1, <2>1, <2>2 DEF NewSound, Sound, HalfOpen
  <1>2. CASE ~(u = t /\ d = depth[t] /\ j = k)
    <2>1. fd_array'[u][d][j] = fd_array[u][d][j]
      BY <1>2, SetFdEffect DEF NewSound
    <2>2. \/ d # depth[u] \/ ~Bound(u) \/ call[u].fd # j
          \/ call'[u] = call[u]
      BY <1>2
    <2> QED BY <1>0, <2>1, <2>2, SoundFrame
  <1> QED BY <1>1, <1>2

-----------------------------------------------------------------------------
(* Each step keeps the descriptors sound. *)

\* A call is about a descriptor of its process's table.
LEMMA TakenType ==
  ASSUME TypeOK, NEW t \in Term
  PROVE  /\ call[t] \in Call /\ call[t].fd \in Fd /\ depth[t] \in Depth
         /\ Taken(t) \in Descriptor
         /\ Taken(t) = fd_array[t][depth[t]][call[t].fd]
  <1>1. call[t] \in Call /\ call[t].fd \in Fd
    BY DEF TypeOK, Call
  <1> QED BY <1>1, TableType DEF Taken, Table

\* What is known of the running process's descriptors.
LEMMA TopSound ==
  ASSUME TypeOK, AllSound, NEW t \in Term, NEW k \in Fd
  PROVE  /\ Table(t)[k] \in Descriptor /\ depth[t] \in Depth
         /\ Sound(t, depth[t], k)
         /\ k < 2 => Table(t)[k] = Std
         /\ ~Table(t)[k].used \/ Table(t)[k].op # "std" => k >= 2
  <1>1. depth[t] \in Depth /\ depth[t] <= depth[t] /\ Table(t)[k] \in Descriptor
    BY TableType DEF Depth
  <1>2. Sound(t, depth[t], k)
    BY <1>1 DEF AllSound
  <1>3. k < 2 => Table(t)[k] = Std
    BY <1>1, <1>2 DEF Sound, Table
  <1>4. k \in Int
    BY DEF Fd
  <1> QED BY <1>1, <1>2, <1>3, <1>4, FreshType

\* A step that changes no table and is not in the middle of setting one up.
LEMMA OtherSound ==
  ASSUME TypeOK, AllSound, NEW t \in Term, UNCHANGED <<depth, fd_array, rtc_fd_idx>>,
         \A u \in Term \ {t} : call'[u] = call[u],
         ~Bound(t) \/ call'[t] = call[t] \/ depth[t] = 1
  PROVE  AllSound'
  <1> SUFFICES ASSUME NEW u \in Term, NEW d \in Depth, NEW j \in Fd PROVE Sound(u, d, j)'
    BY DEF AllSound
  <1>1. Sound(u, d, j) /\ d \in Nat
    BY DEF AllSound, Depth
  <1>2. d # depth[u] \/ ~Bound(u) \/ d <= 1 \/ call'[u] = call[u]
    BY <1>1
  <1> QED BY <1>1, <1>2, SoundFrame

LEMMA OpenTakeSound ==
  ASSUME TypeOK, AllSound, NEW t \in Term, OpenTake(t),
         \A u \in Term \ {t} : call'[u] = call[u]
  PROVE  AllSound'
  <1>1. PICK k \in Unused(t) :
          /\ SetFd(t, k, [Table(t)[k] EXCEPT !.used = TRUE])
          /\ call' = [call EXCEPT ![t].at = "inode", ![t].fd = k]
    BY DEF OpenTake
  <1>2. k \in Fd /\ ~Table(t)[k].used
    BY DEF Unused
  <1>3. Table(t)[k] \in Descriptor /\ k >= 2 /\ Sound(t, depth[t], k) /\ depth[t] \in Depth
    BY <1>2, TopSound
  <1> DEFINE fd == [Table(t)[k] EXCEPT !.used = TRUE]
  <1>4. /\ fd \in Descriptor /\ fd.used
        /\ fd.pos = Table(t)[k].pos /\ fd.op = Table(t)[k].op
        /\ (fd.late <=> Table(t)[k].late)
    BY <1>3 DEF Descriptor
  <1>5. call'[t].at = "inode" /\ call'[t].fd = k
    BY <1>1, <1>2, TakenType DEF TypeOK, Call
  <1>6. call[t].at = "take" /\ UNCHANGED <<depth, rtc_fd_idx>> /\ ~Bound(t)
    BY DEF OpenTake, Bound, Typing
  <1>7. fd.inode \in Inodes /\ FileLength[fd.inode] \in Nat
    BY <1>4, FilesAssumption DEF Descriptor
  <1>8. SetFd(t, k, fd)
    BY <1>1
  <1> HIDE DEF fd
  <1>9. ~Table(t)[k].late => fd.pos <= FileLength[fd.inode]
    <2>1. ~Table(t)[k].late => fd.pos = 0
      BY <1>2, <1>3, <1>4 DEF Sound, Table
    <2> QED BY <1>7, <2>1
  <1>10. depth[t] > 1 => rtc_fd_idx[t][depth[t]] # k
    BY <1>2, <1>3, <1>6 DEF Sound, Table, Depth
  <1>11. NewSound(t, k, fd)
    BY <1>4, <1>5, <1>9, <1>10 DEF NewSound, Typing
  <1> QED BY <1>2, <1>3, <1>6, <1>8, <1>11, SetFdSound

\* open()'s stores into the descriptor it has taken, the operations last.
LEMMA OpensSound ==
  ASSUME TypeOK, AllSound, OpensAtStart, OpensAbove2, NEW t \in Term, Typing(t),
         NEW fd \in Descriptor, NEW place \in CallAt, Opens(t, fd, place),
         fd.used = Taken(t).used, fd.pos = Taken(t).pos, fd.late = Taken(t).late,
         fd.op # "none" \/ place \in {"type", "other"},
         \A u \in Term \ {t} : call'[u] = call[u]
  PROVE  AllSound'
  <1> DEFINE k == call[t].fd
  <1>1. k \in Fd /\ k >= 2 /\ depth[t] \in Depth
    BY TakenType DEF OpensAbove2
  <1>2. call'[t].at = place /\ call'[t].fd = k
    BY TakenType DEF Opens, TypeOK, Call
  <1>3. FileLength[fd.inode] \in Nat
    BY FilesAssumption DEF Descriptor
  <1>4. /\ fd.used
        /\ depth[t] > 1 => /\ rtc_fd_idx[t][depth[t]] # k
                           /\ ~fd.late => fd.pos = 0
    BY DEF OpensAtStart
  <1>5. SetFd(t, k, fd) /\ UNCHANGED <<depth, rtc_fd_idx>>
    BY DEF Opens
  <1> HIDE DEF k
  <1>6. ~fd.late /\ depth[t] > 1 => fd.pos <= FileLength[fd.inode]
    BY <1>3, <1>4
  <1>7. NewSound(t, k, fd)
    BY <1>2, <1>4, <1>6 DEF NewSound, Typing
  <1> QED BY <1>1, <1>5, <1>7, SetFdSound DEF k

LEMMA OpenInodeSound ==
  ASSUME TypeOK, AllSound, OpensAtStart, OpensAbove2, NEW t \in Term, OpenInode(t),
         \A u \in Term \ {t} : call'[u] = call[u]
  PROVE  AllSound'
  <1> DEFINE fd == [Taken(t) EXCEPT !.inode = file_dentry.inode]
  <1>1. file_dentry.inode \in Inodes
    BY EntriesType DEF TypeOK
  <1>2. /\ fd \in Descriptor /\ fd.used = Taken(t).used
        /\ fd.pos = Taken(t).pos /\ fd.late = Taken(t).late
    BY <1>1, TakenType DEF Descriptor
  <1>3. Typing(t) /\ Opens(t, fd, "type") /\ "type" \in CallAt
    BY DEF OpenInode, Typing, CallAt
  <1> HIDE DEF fd
  <1> QED BY <1>2, <1>3, OpensSound

LEMMA OpenTypeSound ==
  ASSUME TypeOK, AllSound, OpensAtStart, OpensAbove2, NEW t \in Term,
         OpenType(t) \/ OpenOther(t),
         \A u \in Term \ {t} : call'[u] = call[u]
  PROVE  AllSound'
  <1>1. Typing(t) /\ "opened" \in CallAt /\ "other" \in CallAt /\ Taken(t) \in Descriptor
    BY TakenType DEF OpenType, OpenOther, Typing, CallAt
  <1>2. CASE Opens(t, Taken(t), "other")
    BY <1>1, <1>2, OpensSound
  <1>3. ASSUME NEW op \in Types, Opens(t, [Taken(t) EXCEPT !.op = op], "opened")
        PROVE  AllSound'
    <2> DEFINE fd == [Taken(t) EXCEPT !.op = op]
    <2>1. /\ fd \in Descriptor /\ fd.used = Taken(t).used
          /\ fd.pos = Taken(t).pos /\ fd.late = Taken(t).late /\ fd.op # "none"
      BY <1>1 DEF Descriptor, Types
    <2>2. Opens(t, fd, "opened")
      BY <1>3
    <2> HIDE DEF fd
    <2> QED BY <1>1, <2>1, <2>2, OpensSound
  <1>4. "rtc" \in Types /\ (IF file_dentry.filetype = "dir" THEN "dir" ELSE "file") \in Types
    BY DEF Types
  <1>5. CASE OpenOther(t)
    BY <1>3, <1>4, <1>5 DEF OpenOther
  <1>6. CASE OpenType(t)
    BY <1>2, <1>3, <1>4, <1>6 DEF OpenType
  <1> QED BY <1>5, <1>6

\* file_read()'s move of the position.
LEMMA FileReadSound ==
  ASSUME TypeOK, AllSound, NEW t \in Term, NEW k \in Fd,
         NEW nbytes \in 1 .. 2, FileRead(t, k, nbytes)
  PROVE  AllSound' /\ k >= 2 /\ fd_array' \in [Term -> [Depth -> [Fd -> Descriptor]]]
  <1> DEFINE left == FileLength[Table(t)[k].inode] - Table(t)[k].pos
             read == IF left > 0 THEN Least(left, nbytes) ELSE 0
             fd   == [Table(t)[k] EXCEPT !.pos = @ + read]
  <1>1. /\ Table(t)[k] \in Descriptor /\ depth[t] \in Depth /\ Sound(t, depth[t], k)
        /\ Table(t)[k].used /\ Table(t)[k].op = "file" /\ k >= 2
    BY TopSound DEF FileRead
  <1>2. Table(t)[k].pos \in Nat /\ FileLength[Table(t)[k].inode] \in Nat
    BY <1>1, FilesAssumption DEF Descriptor
  <1>3. /\ read \in Nat
        /\ Table(t)[k].pos <= FileLength[Table(t)[k].inode]
             => Table(t)[k].pos + read <= FileLength[Table(t)[k].inode]
    BY <1>2 DEF Least
  <1>4. SetFd(t, k, fd)
    BY DEF FileRead
  <1> HIDE DEF read
  <1>5. /\ fd \in Descriptor /\ fd.pos = Table(t)[k].pos + read
        /\ fd.inode = Table(t)[k].inode /\ fd.used /\ fd.op = "file"
        /\ fd.late = Table(t)[k].late
    BY <1>1, <1>2, <1>3 DEF Descriptor
  <1> HIDE DEF fd
  <1>6. depth[t] > 1 => rtc_fd_idx[t][depth[t]] # k
    BY <1>1 DEF Sound, Table, Depth
  <1>7. depth[t] > 1 /\ ~fd.late => fd.pos <= FileLength[fd.inode]
    BY <1>1, <1>3, <1>5 DEF Sound, Table, Depth
  <1>8. NewSound(t, k, fd)
    BY <1>5, <1>6, <1>7 DEF NewSound
  <1>9. ~Bound(t) /\ UNCHANGED <<depth, rtc_fd_idx, call>>
    BY DEF FileRead, Bound, Typing
  <1>10. fd_array' \in [Term -> [Depth -> [Fd -> Descriptor]]]
    BY <1>4, <1>5, SetFdEffect
  <1> QED BY <1>1, <1>4, <1>8, <1>9, <1>10, SetFdSound

\* close(), in short: nothing, or one descriptor of the running process is reset.
LEMMA CloseIs ==
  ASSUME TypeOK, AllSound, NEW t \in Term, NEW k \in Fd, Close(t, k)
  PROVE  /\ \/ UNCHANGED <<fd_array, call>>
            \/ /\ k >= 2 /\ Table(t)[k].used
               /\ SetFd(t, k, Reset(Table(t)[k]))
               /\ \/ Table(t)[k].op # "rtc" /\ call'[t].at \in {"idle", "fault"}
                  \/ /\ Table(t)[k].op = "rtc"
                     /\ call'[t].at = "close" /\ call'[t].fd = k
         /\ k >= 2 /\ Table(t)[k].used =>
              /\ SetFd(t, k, Reset(Table(t)[k]))
              /\ Table(t)[k].op # "none" => call'[t].at \in {"idle", "close"}
  <1>0. /\ call \in [Term -> Call] /\ call[t] \in Call /\ call[t].at = "idle"
        /\ fd_array \in [Term -> [Depth -> [Fd -> Descriptor]]] /\ depth[t] \in Depth
        /\ k \in Int
    BY TakenType DEF TypeOK, Close, Fd
  <1>1. fd_array' = [fd_array EXCEPT ![t][depth[t]] = AfterClose(@, k)]
    BY DEF Close
  <1>2. CASE k < 2 \/ ~Table(t)[k].used
    <2>1. AfterClose(Table(t), k) = Table(t)
      BY <1>0, <1>2 DEF AfterClose
    <2>2. call' = call
      BY <1>2 DEF Close
    <2>3. fd_array' = [fd_array EXCEPT ![t][depth[t]] = Table(t)]
      BY <1>1, <2>1 DEF Table
    <2>4. fd_array' = fd_array
      BY <1>0, <2>3 DEF Table
    <2>5. ~(k >= 2 /\ Table(t)[k].used)
      BY <1>0, <1>2
    <2> QED BY <2>2, <2>4, <2>5
  <1>3. CASE k >= 2 /\ Table(t)[k].used
    <2>1. AfterClose(Table(t), k) = [Table(t) EXCEPT ![k] = Reset(Table(t)[k])]
      BY <1>3 DEF AfterClose
    <2>2. fd_array' = [fd_array EXCEPT ![t][depth[t]] = [Table(t) EXCEPT ![k] = Reset(Table(t)[k])]]
      BY <1>1, <2>1 DEF Table
    <2>3. SetFd(t, k, Reset(Table(t)[k]))
      BY <1>0, <2>2 DEF SetFd, Table
    <2>4. ~(k < 2 \/ ~Table(t)[k].used)
      BY <1>0, <1>3
    <2>5. call' = CASE Table(t)[k].op = "rtc" ->
                           [call EXCEPT ![t].at = "close", ![t].fd = k]
                    [] Table(t)[k].op = "none" -> [call EXCEPT ![t].at = "fault"]
                    [] OTHER -> call
      BY <2>4, Zenon DEF Close
    <2>6. CASE Table(t)[k].op = "rtc"
      <3>1. call' = [call EXCEPT ![t].at = "close", ![t].fd = k]
        BY <2>5, <2>6
      <3>2. call'[t].at = "close" /\ call'[t].fd = k
        BY <1>0, <3>1 DEF Call
      <3> QED BY <1>3, <2>3, <2>6, <3>2
    <2>7. CASE Table(t)[k].op = "none"
      <3>1. call' = [call EXCEPT ![t].at = "fault"]
        BY <2>5, <2>7
      <3>2. call'[t].at = "fault"
        BY <1>0, <3>1 DEF Call
      <3> QED BY <1>3, <2>3, <2>7, <3>2
    <2>8. CASE Table(t)[k].op \notin {"rtc", "none"}
      <3>1. call' = call
        BY <2>5, <2>8
      <3> QED BY <1>0, <1>3, <2>3, <2>8, <3>1
    <2> QED BY <2>6, <2>7, <2>8
  <1> QED BY <1>0, <1>2, <1>3

LEMMA CloseSound ==
  ASSUME TypeOK, AllSound, NEW t \in Term, NEW k \in Fd, Close(t, k),
         \A u \in Term \ {t} : call'[u] = call[u]
  PROVE  AllSound' /\ fd_array' \in [Term -> [Depth -> [Fd -> Descriptor]]]
  <1>0. UNCHANGED <<depth, rtc_fd_idx>> /\ ~Bound(t)
    BY DEF Close, Bound, Typing
  <1>1. CASE UNCHANGED <<fd_array, call>>
    BY <1>0, <1>1, OtherSound DEF TypeOK
  <1>2. CASE /\ k >= 2 /\ Table(t)[k].used
             /\ SetFd(t, k, Reset(Table(t)[k]))
             /\ \/ Table(t)[k].op # "rtc" /\ call'[t].at \in {"idle", "fault"}
                \/ /\ Table(t)[k].op = "rtc"
                   /\ call'[t].at = "close" /\ call'[t].fd = k
    <2>1. Table(t)[k] \in Descriptor /\ depth[t] \in Depth /\ Sound(t, depth[t], k)
      BY TopSound
    <2> DEFINE fd == Reset(Table(t)[k])
    <2>2. fd \in Descriptor /\ ~fd.used /\ fd.pos = 0 /\ fd.op = Table(t)[k].op
      BY <2>1, ResetEffect
    <2> HIDE DEF fd
    <2>3. depth[t] > 1 /\ rtc_fd_idx[t][depth[t]] = k => Table(t)[k].op = "rtc"
      BY <2>1 DEF Sound, Table, Depth
    <2>4. NewSound(t, k, fd)
      BY <1>2, <2>2, <2>3 DEF NewSound
    <2>5. SetFd(t, k, fd)
      BY <1>2 DEF fd
    <2>6. AllSound'
      BY <1>0, <1>2, <2>4, <2>5, SetFdSound
    <2>7. fd_array' \in [Term -> [Depth -> [Fd -> Descriptor]]]
      BY <2>2, <2>5, SetFdEffect
    <2> QED BY <2>6, <2>7
  <1> QED BY <1>1, <1>2, CloseIs

\* rtc_write() and rtc_close() change what the handler counts in.
LEMMA RtcIdxSound ==
  ASSUME TypeOK, AllSound, NEW t \in Term,
         (\E k \in Fd : RtcWrite(t, k)) \/ RtcClose(t),
         \A u \in Term \ {t} : call'[u] = call[u]
  PROVE  AllSound' /\ rtc_fd_idx' \in [Term -> [Depth -> Given \cup {None}]]
  <1>0. /\ UNCHANGED <<depth, fd_array>> /\ ~Typing(t) /\ depth[t] \in Depth
        /\ rtc_fd_idx \in [Term -> [Depth -> Given \cup {None}]]
    BY TakenType DEF RtcWrite, RtcClose, Typing, TypeOK
  <1>1. PICK idx \in Given \cup {None} :
          /\ rtc_fd_idx' = [rtc_fd_idx EXCEPT ![t][depth[t]] = idx]
          /\ idx # None => Table(t)[idx].used /\ Table(t)[idx].op = "rtc"
    <2>1. ASSUME NEW k \in Fd, RtcWrite(t, k) PROVE k \in Given
      <3>1. k >= 2
        BY <2>1, TopSound DEF RtcWrite
      <3> QED BY <3>1 DEF Given, Fd
    <2> QED BY <2>1 DEF RtcWrite, RtcClose
  <1>2. \A u \in Term, d \in Depth : rtc_fd_idx'[u][d] =
          IF u = t /\ d = depth[t] THEN idx ELSE rtc_fd_idx[u][d]
    BY <1>0, <1>1
  <1>3. ASSUME NEW u \in Term, NEW d \in Depth, NEW j \in Fd PROVE Sound(u, d, j)'
    <2>0. Sound(u, d, j) /\ j # None
      BY DEF AllSound, Fd, None
    <2>1. CASE u = t /\ d = depth[t]
      <3>1. ~HalfOpen(t, d, j) \/ ~(1 < d)
        BY <1>0, <2>0, <2>1 DEF Sound, Depth
      <3>2. rtc_fd_idx'[u][d] = j => fd_array[u][d][j].used /\ fd_array[u][d][j].op = "rtc"
        BY <1>1, <1>2, <2>0, <2>1 DEF Table
      <3>3. HalfOpen(t, d, j)' = HalfOpen(t, d, j)
        BY <1>0 DEF HalfOpen
      <3> QED BY <1>0, <2>0, <2>1, <3>1, <3>2, <3>3 DEF Sound
    <2>2. CASE ~(u = t /\ d = depth[t])
      <3>1. d # depth[u] \/ call'[u] = call[u]
        BY <2>2
      <3> QED BY <1>0, <1>2, <2>0, <2>2, <3>1, SoundFrame
    <2> QED BY <2>1, <2>2
  <1>4. rtc_fd_idx' \in [Term -> [Depth -> Given \cup {None}]]
    BY <1>0, <1>1
  <1> QED BY <1>3, <1>4 DEF AllSound

\* A child's table is fresh, and execute() touches no other.
LEMMA ExecuteIs ==
  ASSUME TypeOK, NEW t \in Term, NEW name \in Names, Execute(t, name)
  PROVE  /\ depth' \in [Term -> Depth]
         /\ fd_array' \in [Term -> [Depth -> [Fd -> Descriptor]]]
         /\ rtc_fd_idx' \in [Term -> [Depth -> Given \cup {None}]]
         /\ \A u \in Term \ {t} : depth'[u] = depth[u]
         /\ \/ UNCHANGED <<depth, fd_array, rtc_fd_idx>>
            \/ /\ depth'[t] = depth[t] + 1
               /\ \A u \in Term, d \in Depth :
                    /\ fd_array'[u][d] = IF u = t /\ d = depth[t] + 1 THEN FreshTable
                                         ELSE fd_array[u][d]
                    /\ rtc_fd_idx'[u][d] = IF u = t /\ d = depth[t] + 1 THEN None
                                           ELSE rtc_fd_idx[u][d]
  <1>1. CASE UNCHANGED <<depth, fd_array, rtc_fd_idx>>
    BY <1>1 DEF TypeOK
  <1>2. CASE /\ depth[t] < MAX_DEPTH
             /\ depth' = [depth EXCEPT ![t] = @ + 1]
             /\ fd_array' = [fd_array EXCEPT ![t][depth[t] + 1] = FreshTable]
             /\ rtc_fd_idx' = [rtc_fd_idx EXCEPT ![t][depth[t] + 1] = None]
    <2>1. depth[t] + 1 \in Depth
      BY <1>2, FilesAssumption DEF TypeOK, Depth
    <2>2. depth' \in [Term -> Depth] /\ depth'[t] = depth[t] + 1
      BY <1>2, <2>1 DEF TypeOK
    <2>3. fd_array' \in [Term -> [Depth -> [Fd -> Descriptor]]]
      BY <1>2, <2>1, FreshType DEF TypeOK
    <2>4. rtc_fd_idx' \in [Term -> [Depth -> Given \cup {None}]]
      BY <1>2, <2>1 DEF TypeOK
    <2>5. \A u \in Term, d \in Depth :
            /\ fd_array'[u][d] = IF u = t /\ d = depth[t] + 1 THEN FreshTable
                                 ELSE fd_array[u][d]
            /\ rtc_fd_idx'[u][d] = IF u = t /\ d = depth[t] + 1 THEN None
                                   ELSE rtc_fd_idx[u][d]
      BY <1>2, <2>1 DEF TypeOK
    <2>6. \A u \in Term \ {t} : depth'[u] = depth[u]
      BY <1>2 DEF TypeOK
    <2> QED BY <2>2, <2>3, <2>4, <2>5, <2>6
  <1> QED BY <1>1, <1>2 DEF Execute

LEMMA ExecuteSound ==
  ASSUME TypeOK, AllSound, NEW t \in Term, NEW name \in Names, Execute(t, name)
  PROVE  AllSound'
  <1>0. ~Bound(t) /\ UNCHANGED call /\ depth[t] \in Nat
    BY DEF Execute, Bound, Typing, TypeOK, Depth
  <1>1. CASE UNCHANGED <<depth, fd_array, rtc_fd_idx>>
    BY <1>0, <1>1, OtherSound
  <1>2. CASE /\ depth'[t] = depth[t] + 1
             /\ \A u \in Term, d \in Depth :
                    /\ fd_array'[u][d] = IF u = t /\ d = depth[t] + 1 THEN FreshTable
                                         ELSE fd_array[u][d]
                    /\ rtc_fd_idx'[u][d] = IF u = t /\ d = depth[t] + 1 THEN None
                                           ELSE rtc_fd_idx[u][d]
    <2> SUFFICES ASSUME NEW u \in Term, NEW d \in Depth, NEW k \in Fd
                 PROVE  Sound(u, d, k)'
      BY DEF AllSound
    <2>0. Sound(u, d, k) /\ d \in Nat /\ k # None /\ k \in Int
      BY DEF AllSound, Depth, Fd, None
    <2>1. CASE u # t
      BY <1>0, <1>2, <2>0, <2>1, SoundFrame, ExecuteIs, ZenonT(40)
    <2>2. CASE u = t /\ d = depth[t] + 1
      <3>1. fd_array'[u][d][k] = IF k < 2 THEN Std ELSE Closed
        BY <1>2, <2>2, ZenonT(40) DEF FreshTable
      <3>2. rtc_fd_idx'[u][d] # k
        BY <1>2, <2>0, <2>2
      <3>3. Std.used /\ Std.op = "std" /\ ~Closed.used /\ Closed.pos = 0
        BY FreshType DEF Closed
      <3> QED BY <3>1, <3>2, <3>3 DEF Sound, HalfOpen
    <2>3. CASE u = t /\ d # depth[t] + 1
      <3>1. fd_array'[u][d] = fd_array[u][d] /\ rtc_fd_idx'[u][d] = rtc_fd_idx[u][d]
        BY <1>2, <2>3
      <3>2. d <= depth'[u] => d <= depth[u]
        BY <1>0, <1>2, <2>0, <2>3
      <3>3. 1 < d /\ d <= depth[u] => ~HalfOpen(u, d, k)
        BY <1>0, <2>0, <2>3 DEF Sound, Bound
      <3>4. 1 < d /\ d <= depth[u] /\ rtc_fd_idx[u][d] = k => fd_array[u][d][k].used
        BY <1>0, <2>0, <2>3 DEF Sound, Bound
      <3> QED BY <2>0, <3>1, <3>2, <3>3, <3>4 DEF Sound, HalfOpen
    <2> QED BY <2>1, <2>2, <2>3
  <1> QED BY <1>1, <1>2, ExecuteIs

\* What halt() leaves of the parent's table.
LEMMA HaltIs ==
  ASSUME TypeOK, NEW t \in Term, Halt(t)
  PROVE  /\ depth' \in [Term -> Depth]
         /\ fd_array' \in [Term -> [Depth -> [Fd -> Descriptor]]]
         /\ rtc_fd_idx' \in [Term -> [Depth -> Given \cup {None}]]
         /\ depth[t] - 1 \in Depth /\ depth'[t] = depth[t] - 1
         /\ \A u \in Term \ {t} : depth'[u] = depth[u]
         /\ \A u \in Term, d \in Depth :
              /\ ~(u = t /\ d = depth[t] - 1) => /\ fd_array'[u][d] = fd_array[u][d]
                                                 /\ rtc_fd_idx'[u][d] = rtc_fd_idx[u][d]
              /\ u = t /\ d = depth[t] - 1 =>
                   /\ \A k \in Fd : fd_array'[u][d][k] =
                        IF k \in AlsoClosed(t) THEN Reset(fd_array[u][d][k])
                        ELSE fd_array[u][d][k]
                   /\ rtc_fd_idx'[u][d] = IF ParentHas(t, "rtc") THEN None
                                          ELSE rtc_fd_idx[u][d]
  <1> DEFINE d0  == depth[t] - 1
             new == ClosedAll(Table(t), fd_array[t][d0])
             idx == IF ParentHas(t, "rtc") THEN None ELSE rtc_fd_idx[t][d0]
  <1>0. /\ depth \in [Term -> Depth]
        /\ fd_array \in [Term -> [Depth -> [Fd -> Descriptor]]]
        /\ rtc_fd_idx \in [Term -> [Depth -> Given \cup {None}]]
    BY DEF TypeOK
  <1>1. d0 \in Depth
    BY <1>0, FilesAssumption DEF Halt, Depth
  <1>2. depth' \in [Term -> Depth] /\ depth'[t] = d0 /\ \A u \in Term \ {t} : depth'[u] = depth[u]
    BY <1>0, <1>1 DEF Halt
  <1>3. fd_array[t][d0] \in [Fd -> Descriptor] /\ Table(t) \in [Fd -> Descriptor]
    BY <1>0, <1>1, TableType
  <1>4. /\ new \in [Fd -> Descriptor]
        /\ \A k \in Fd : new[k] = IF Table(t)[k].used /\ k >= 2 /\ fd_array[t][d0][k].used
                                  THEN Reset(fd_array[t][d0][k]) ELSE fd_array[t][d0][k]
    BY <1>3, ClosedAllEffect
  <1>5. \A k \in Fd : k \in Given <=> k >= 2
    BY DEF Fd, Given
  <1>6. \A k \in Fd : new[k] = IF k \in AlsoClosed(t) THEN Reset(fd_array[t][d0][k])
                               ELSE fd_array[t][d0][k]
    BY <1>4, <1>5 DEF AlsoClosed
  <1>7. idx \in Given \cup {None}
    BY <1>0, <1>1
  <1>8. fd_array' = [fd_array EXCEPT ![t][d0] = new]
    BY DEF Halt
  <1>9. rtc_fd_idx' = [rtc_fd_idx EXCEPT ![t][d0] = idx]
    BY DEF Halt
  <1>10. (rtc_fd_idx[t][d0] = idx \/ idx = None) /\ (ParentHas(t, "rtc") => idx = None)
         /\ (~ParentHas(t, "rtc") => idx = rtc_fd_idx[t][d0])
    OBVIOUS
  <1> HIDE DEF new, d0, idx
  <1>11. /\ fd_array' \in [Term -> [Depth -> [Fd -> Descriptor]]]
         /\ \A u \in Term, d \in Depth :
              fd_array'[u][d] = IF u = t /\ d = d0 THEN new ELSE fd_array[u][d]
    BY <1>0, <1>1, <1>4, <1>8
  <1>12. /\ rtc_fd_idx' \in [Term -> [Depth -> Given \cup {None}]]
         /\ \A u \in Term, d \in Depth :
              rtc_fd_idx'[u][d] = IF u = t /\ d = d0 THEN idx ELSE rtc_fd_idx[u][d]
    BY <1>0, <1>1, <1>7, <1>9
  <1> QED BY <1>1, <1>2, <1>6, <1>10, <1>11, <1>12 DEF d0

LEMMA HaltSound ==
  ASSUME TypeOK, AllSound, NEW t \in Term, Halt(t),
         \A u \in Term \ {t} : call'[u] = call[u]
  PROVE  AllSound'
  <1> SUFFICES ASSUME NEW u \in Term, NEW d \in Depth, NEW k \in Fd
               PROVE  Sound(u, d, k)'
    BY DEF AllSound
  <1>0. /\ Sound(u, d, k) /\ d \in Nat /\ depth[u] \in Nat /\ k # None /\ k \in Int
        /\ fd_array[u][d][k] \in Descriptor
    <2>1. fd_array[u][d][k] \in Descriptor /\ depth[u] \in Depth
      BY DEF TypeOK
    <2> QED BY <2>1 DEF AllSound, Depth, Fd, None
  <1>1. CASE u # t
    BY <1>0, <1>1, SoundFrame, HaltIs
  <1>2. CASE u = t /\ d = depth[t] - 1
    <2>1. 1 < d => ~HalfOpen(u, d, k)
      BY <1>0, <1>2 DEF Sound
    <2>2. 1 < d /\ rtc_fd_idx[u][d] = k => fd_array[u][d][k].used /\ fd_array[u][d][k].op = "rtc"
      BY <1>0, <1>2 DEF Sound
    <2>3. CASE k \in AlsoClosed(t)
      <3>1. fd_array'[u][d][k] = Reset(fd_array[u][d][k]) /\ k >= 2
        BY <1>2, <2>3, HaltIs DEF AlsoClosed, Given
      <3>2. /\ ~fd_array'[u][d][k].used /\ fd_array'[u][d][k].pos = 0
            /\ fd_array'[u][d][k].op = fd_array[u][d][k].op
        BY <1>0, <3>1, ResetEffect
      <3>3. 1 < d => rtc_fd_idx'[u][d] # k
        <4>1. CASE fd_array[u][d][k].op = "rtc"
          <5>1. ParentHas(t, "rtc")
            BY <1>2, <2>3, <4>1 DEF ParentHas
          <5> QED BY <1>0, <1>2, <5>1, HaltIs
        <4>2. CASE fd_array[u][d][k].op # "rtc"
          <5>1. 1 < d => rtc_fd_idx[u][d] # k
            BY <2>2, <4>2
          <5>2. rtc_fd_idx'[u][d] \in {None, rtc_fd_idx[u][d]}
            BY <1>2, HaltIs
          <5> QED BY <1>0, <5>1, <5>2
        <4> QED BY <4>1, <4>2
      <3>4. ~(k < 2)
        BY <1>0, <3>1
      <3> QED BY <3>2, <3>3, <3>4 DEF Sound, HalfOpen
    <2>4. CASE k \notin AlsoClosed(t)
      <3>1. /\ fd_array'[u][d][k] = fd_array[u][d][k]
            /\ rtc_fd_idx'[u][d] = k => rtc_fd_idx[u][d] = k
        BY <1>0, <1>2, <2>4, HaltIs
      <3>2. d <= depth[u]
        BY <1>0, <1>2
      <3> QED BY <1>0, <2>1, <2>2, <3>1, <3>2 DEF Sound, HalfOpen
    <2> QED BY <2>3, <2>4
  <1>3. CASE u = t /\ d # depth[t] - 1
    <2>1. /\ fd_array'[u][d] = fd_array[u][d] /\ rtc_fd_idx'[u][d] = rtc_fd_idx[u][d]
          /\ depth'[u] = depth[u] - 1
      BY <1>3, HaltIs
    <2>2. d <= depth'[u] => d < depth[u]
      BY <1>0, <2>1
    <2>3. d < depth[u] => d <= depth[u] /\ d # depth[u]
      BY <1>0
    <2> QED BY <1>0, <2>1, <2>2, <2>3 DEF Sound, HalfOpen
  <1> QED BY <1>1, <1>2, <1>3

\* The handler changes positions, of the descriptors it counts in only, and
\* marks the unused ones among them.
LEMMA TickIs ==
  ASSUME TypeOK, Tick
  PROVE  /\ UNCHANGED <<depth, rtc_fd_idx, file_dentry, counter, dentry, call, raced, owed, lister>>
         /\ fd_array' \in [Term -> [Depth -> [Fd -> Descriptor]]]
         /\ \A t \in Term, d \in Depth, k \in Fd :
              /\ fd_array'[t][d][k].used = fd_array[t][d][k].used
              /\ fd_array'[t][d][k].op = fd_array[t][d][k].op
              /\ fd_array'[t][d][k].inode = fd_array[t][d][k].inode
              /\ fd_array'[t][d][k] # fd_array[t][d][k] => Counted(t, d, k)
              /\ Counted(t, d, k) => fd_array'[t][d][k].used \/ fd_array'[t][d][k].late
  <1>1. PICK reached \in SUBSET (Term \X Depth) :
          fd_array' = [t \in Term |-> [d \in Depth |-> [k \in Fd |->
                IF Counted(t, d, k) THEN AfterTick(fd_array[t][d][k], <<t, d>> \in reached)
                                    ELSE fd_array[t][d][k]]]]
    BY DEF Tick
  <1>2. ASSUME NEW t \in Term, NEW d \in Depth, NEW k \in Fd
        PROVE  /\ AfterTick(fd_array[t][d][k], <<t, d>> \in reached) \in Descriptor
               /\ fd_array[t][d][k] \in Descriptor
    <2>1. fd_array[t][d][k] \in Descriptor
      BY DEF TypeOK
    <2>2. (<<t, d>> \in reached) \in BOOLEAN
      OBVIOUS
    <2> QED BY <2>1, <2>2, AfterTickEffect
  <1>3. fd_array' \in [Term -> [Depth -> [Fd -> Descriptor]]]
    BY <1>1, <1>2
  <1>4. ASSUME NEW t \in Term, NEW d \in Depth, NEW k \in Fd
        PROVE  /\ fd_array'[t][d][k].used = fd_array[t][d][k].used
               /\ fd_array'[t][d][k].op = fd_array[t][d][k].op
               /\ fd_array'[t][d][k].inode = fd_array[t][d][k].inode
               /\ fd_array'[t][d][k] # fd_array[t][d][k] => Counted(t, d, k)
               /\ Counted(t, d, k) => fd_array'[t][d][k].used \/ fd_array'[t][d][k].late
    <2> DEFINE r == <<t, d>> \in reached
    <2>1. fd_array[t][d][k] \in Descriptor
      BY <1>2
    <2>1a. r \in BOOLEAN
      OBVIOUS
    <2>2. fd_array'[t][d][k] = IF Counted(t, d, k) THEN AfterTick(fd_array[t][d][k], r)
                               ELSE fd_array[t][d][k]
      BY <1>1
    <2> HIDE DEF r
    <2>3. CASE Counted(t, d, k)
      BY <2>1, <2>1a, <2>2, <2>3, AfterTickEffect
    <2>4. CASE ~Counted(t, d, k)
      BY <2>2, <2>4
    <2> QED BY <2>3, <2>4
  <1> QED BY <1>3, <1>4 DEF Tick

LEMMA TickSound ==
  ASSUME TypeOK, AllSound, Tick
  PROVE  AllSound'
  <1> SUFFICES ASSUME NEW t \in Term, NEW d \in Depth, NEW k \in Fd
               PROVE  Sound(t, d, k)'
    BY DEF AllSound
  <1>0. Sound(t, d, k) /\ UNCHANGED <<depth, rtc_fd_idx, call>>
    BY TickIs DEF AllSound
  <1>1. CASE fd_array'[t][d][k] = fd_array[t][d][k]
    BY <1>0, <1>1, SoundFrame
  <1>2. CASE fd_array'[t][d][k] # fd_array[t][d][k]
    <2>1. Counted(t, d, k)
      BY <1>2, TickIs
    <2>2. /\ fd_array'[t][d][k].used = fd_array[t][d][k].used
          /\ fd_array'[t][d][k].op = fd_array[t][d][k].op
          /\ fd_array'[t][d][k].used \/ fd_array'[t][d][k].late
      BY <2>1, TickIs
    <2>3. k >= 2 /\ ~(k < 2)
      <3>1. rtc_fd_idx[t][d] = k /\ rtc_fd_idx[t][d] \in Given \cup {None}
        BY <2>1 DEF Counted, TypeOK
      <3> QED BY <3>1 DEF Given, None, Fd
    <2>4. 1 < d => fd_array[t][d][k].op = "rtc"
      BY <1>0, <2>1 DEF Sound, Counted
    <2>5. HalfOpen(t, d, k)' = HalfOpen(t, d, k) /\ Typing(t)' = Typing(t)
      BY <1>0, <2>2 DEF HalfOpen, Typing
    <2> QED BY <1>0, <2>2, <2>3, <2>4, <2>5 DEF Sound
  <1> QED BY <1>1, <1>2

\* A child that faults in halt() is no more, and nothing else is any different.
LEMMA HaltFaultsSound ==
  ASSUME TypeOK, AllSound, NEW t \in Term, HaltFaults(t)
  PROVE  AllSound' /\ depth' \in [Term -> Depth]
  <1>0. /\ depth \in [Term -> Depth] /\ depth[t] - 1 \in Depth
        /\ UNCHANGED <<fd_array, rtc_fd_idx>>
    BY FilesAssumption DEF HaltFaults, TypeOK, Depth
  <1>1. /\ depth' \in [Term -> Depth] /\ depth'[t] = depth[t] - 1
        /\ \A u \in Term \ {t} : depth'[u] = depth[u] /\ call'[u] = call[u]
    BY <1>0 DEF HaltFaults, TypeOK
  <1>2. ASSUME NEW u \in Term, NEW d \in Depth, NEW k \in Fd
        PROVE  Sound(u, d, k)'
    <2>0. Sound(u, d, k) /\ d \in Nat /\ depth[u] \in Nat
      <3>1. depth[u] \in Depth
        BY <1>0
      <3> QED BY <3>1 DEF AllSound, Depth
    <2>1. CASE u # t
      BY <1>0, <1>1, <2>0, <2>1, SoundFrame
    <2>2. CASE u = t
      <3>1. d <= depth'[u] => d <= depth[u] /\ d # depth[u]
        BY <1>1, <2>0, <2>2
      <3> QED BY <1>0, <2>0, <2>2, <3>1 DEF Sound, HalfOpen
    <2> QED BY <2>1, <2>2
  <1> QED BY <1>1, <1>2 DEF AllSound

-----------------------------------------------------------------------------
(* Type correctness *)

\* A step of one terminal's process leaves the others' calls alone.
LEMMA CallStep ==
  ASSUME TypeOK, NEW t \in Term, Step(t)
  PROVE  /\ call' \in [Term -> Call]
         /\ \A u \in Term \ {t} : call'[u] = call[u]
  <1>0. call \in [Term -> Call] /\ call[t] \in Call
    BY DEF TypeOK
  <1>1. CASE UNCHANGED call
    BY <1>0, <1>1
  <1>2. CASE call' = [call EXCEPT ![t] = Idle]
    BY <1>0, <1>2, IdleType
  <1>3. ASSUME NEW name \in Names, OpenLookup(t, name)
        PROVE  /\ call' \in [Term -> Call]
               /\ \A u \in Term \ {t} : call'[u] = call[u]
    <2>1. [Idle EXCEPT !.at = "take", !.entry = Entry(name)] \in Call
      BY EntryType, NewCallType
    <2> QED BY <1>0, <1>3, <2>1 DEF OpenLookup
  <1>4. CASE \E place \in CallAt, k \in Fd : call' = [call EXCEPT ![t].at = place, ![t].fd = k]
    <2>1. PICK place \in CallAt, k \in Fd : call' = [call EXCEPT ![t].at = place, ![t].fd = k]
      BY <1>4
    <2>2. [call[t] EXCEPT !.at = place, !.fd = k] \in Call
      BY <1>0 DEF Call
    <2> QED BY <1>0, <2>1, <2>2
  <1>5. CASE \E place \in CallAt : call' = [call EXCEPT ![t].at = place]
    <2>1. PICK place \in CallAt : call' = [call EXCEPT ![t].at = place]
      BY <1>5
    <2>2. [call[t] EXCEPT !.at = place] \in Call
      BY <1>0 DEF Call
    <2> QED BY <1>0, <2>1, <2>2
  <1>6. CASE DirReadLoad(t)
    <2>1. counter + 1 \in 0 .. MAX_COUNTER
      BY <1>6, FilesAssumption DEF DirReadLoad, TypeOK
    <2>2. [call[t] EXCEPT !.at = "store", !.count = counter + 1] \in Call
      BY <1>0, <2>1 DEF Call, CallAt
    <2> QED BY <1>0, <1>6, <2>2 DEF DirReadLoad
  <1>7. CASE DirReadStore(t)
    <2>1. 0 \in 0 .. MAX_COUNTER
      BY FilesAssumption
    <2>2. [call[t] EXCEPT !.at = "copy", !.count = 0] \in Call
      BY <1>0, <2>1 DEF Call, CallAt
    <2> QED BY <1>0, <1>7, <2>2 DEF DirReadStore
  <1>8. CASE HaltFaults(t)
    <2>1. [Idle EXCEPT !.at = "hung"] \in Call
      BY IdleType DEF Call, CallAt
    <2> QED BY <1>0, <1>8, <2>1 DEF HaltFaults
  <1>9. ASSUME OpenInode(t) \/ OpenType(t) \/ OpenOther(t) \/ DirOpen(t) \/ DirReadFind(t)
               \/ Faults(t)
        PROVE  \E place \in CallAt : call' = [call EXCEPT ![t].at = place]
    BY <1>9 DEF OpenInode, OpenType, OpenOther, Opens, DirOpen, DirReadFind, Faults, CallAt
  <1>10. ASSUME OpenTake(t)
         PROVE  \E place \in CallAt, k \in Fd : call' = [call EXCEPT ![t].at = place, ![t].fd = k]
    BY <1>10 DEF OpenTake, Unused, CallAt
  <1>11. ASSUME NEW k \in Fd, Close(t, k)
         PROVE  \/ UNCHANGED call
                \/ \E place \in CallAt : call' = [call EXCEPT ![t].at = place]
                \/ \E place \in CallAt, j \in Fd :
                     call' = [call EXCEPT ![t].at = place, ![t].fd = j]
    <2>1. "close" \in CallAt /\ "fault" \in CallAt
      BY DEF CallAt
    <2> QED BY <1>11, <2>1 DEF Close
  <1> QED
    BY <1>1, <1>2, <1>3, <1>4, <1>5, <1>6, <1>7, <1>8, <1>9, <1>10, <1>11
    DEF Step, Execute, OpenNoDescriptor, OpenRtc, OpenLooksAgain, FileRead, RtcWrite,
        RtcClose, DirReadCopy, RestartRoot, Halt, Halts

\* The globals the terminals share, and the ghosts.
LEMMA GlobalsStep ==
  ASSUME TypeOK, NEW t \in Term, Step(t)
  PROVE  /\ file_dentry' \in Entries
         /\ counter' \in 0 .. MAX_COUNTER
         /\ dentry' \in Entries \cup {NoEntry}
         /\ raced' \subseteq Term
         /\ owed' \in [Term -> SUBSET Names]
         /\ lister' \in Term \cup {Nobody}
  <1>1. file_dentry' \in Entries
    BY EntryType
    DEF TypeOK, Step, OpenLookup, OpenTake, OpenNoDescriptor, OpenInode, OpenType, OpenOther,
        Opens, OpenRtc, DirOpen, OpenLooksAgain, FileRead, DirReadFind, DirReadLoad,
        DirReadStore, DirReadCopy, RtcWrite, Close, RtcClose, Faults, Execute, RestartRoot,
        Halt, HaltFaults, Halts, Ended
  <1>2. call[t].count \in 0 .. MAX_COUNTER /\ 0 \in 0 .. MAX_COUNTER
    BY FilesAssumption DEF TypeOK, Call
  <1>3. counter' \in 0 .. MAX_COUNTER
    BY <1>2
    DEF TypeOK, Step, OpenLookup, OpenTake, OpenNoDescriptor, OpenInode, OpenType, OpenOther,
        Opens, OpenRtc, DirOpen, OpenLooksAgain, FileRead, DirReadFind, DirReadLoad,
        DirReadStore, DirReadCopy, RtcWrite, Close, RtcClose, Faults, Execute, RestartRoot,
        Halt, HaltFaults, Halts, Ended
  <1>4. call[t].entry \in Entries \cup {NoEntry}
    BY DEF TypeOK, Call
  <1>5. counter < Len(Direntries) => Direntries[counter + 1] \in Entries
    BY FilesAssumption DEF TypeOK, Entries, Index
  <1>6. dentry' \in Entries \cup {NoEntry}
    BY <1>4, <1>5
    DEF TypeOK, Step, OpenLookup, OpenTake, OpenNoDescriptor, OpenInode, OpenType, OpenOther,
        Opens, OpenRtc, DirOpen, OpenLooksAgain, FileRead, DirReadFind, DirReadLoad,
        DirReadStore, DirReadCopy, RtcWrite, Close, RtcClose, Faults, Execute, RestartRoot,
        Halt, HaltFaults, Halts, Ended
  <1>7. raced' \subseteq Term
    BY DEF TypeOK, Overtakes, Step, OpenLookup, OpenTake, OpenNoDescriptor, OpenInode,
        OpenType, OpenOther, Opens, OpenRtc, DirOpen, OpenLooksAgain, FileRead, DirReadFind,
        DirReadLoad, DirReadStore, DirReadCopy, RtcWrite, Close, RtcClose, Faults, Execute,
        RestartRoot, Halt, HaltFaults, Halts, Ended
  <1>8. owed' \in [Term -> SUBSET Names]
    <2>1. \E names \in SUBSET Names : owed' = [owed EXCEPT ![t] = names]
      <3>1. owed \in [Term -> SUBSET Names] /\ owed[t] \in SUBSET Names
        BY DEF TypeOK
      <3>2. owed = [owed EXCEPT ![t] = owed[t]]
        BY <3>1
      <3>3. owed[t] \ {dentry.name} \in SUBSET Names /\ Names \in SUBSET Names /\ {} \in SUBSET Names
        BY <3>1
      <3>4. \/ UNCHANGED owed
            \/ owed' = [owed EXCEPT ![t] = Names]
            \/ owed' = [owed EXCEPT ![t] = {}]
            \/ owed' = [owed EXCEPT ![t] = @ \ {dentry.name}]
        BY DEF Step, OpenLookup, OpenTake, OpenNoDescriptor, OpenInode, OpenType,
           OpenOther, Opens, OpenRtc, DirOpen, OpenLooksAgain, FileRead, DirReadFind,
           DirReadLoad, DirReadStore, DirReadCopy, RtcWrite, Close, RtcClose, Faults, Execute,
           RestartRoot, Halt, HaltFaults, Halts, Ended
      <3> QED BY <3>1, <3>2, <3>3, <3>4
    <2> QED BY <2>1 DEF TypeOK
  <1>9. lister' \in Term \cup {Nobody}
    BY DEF TypeOK, UsesInfo, Step, OpenLookup, OpenTake, OpenNoDescriptor, OpenInode,
        OpenType, OpenOther, Opens, OpenRtc, DirOpen, OpenLooksAgain, FileRead, DirReadFind,
        DirReadLoad, DirReadStore, DirReadCopy, RtcWrite, Close, RtcClose, Faults, Execute,
        RestartRoot, Halt, HaltFaults, Halts, Ended
  <1> QED BY <1>1, <1>3, <1>6, <1>7, <1>8, <1>9

\* The steps that store a descriptor of the running process store a descriptor.
LEMMA StoresType ==
  ASSUME TypeOK, NEW t \in Term, OpenTake(t) \/ OpenInode(t) \/ OpenType(t) \/ OpenOther(t)
  PROVE  /\ UNCHANGED <<depth, rtc_fd_idx>>
         /\ \E k \in Fd, fd \in Descriptor :
              SetFd(t, k, fd) /\ (OpenTake(t) \/ k = call[t].fd)
  <1>1. call[t].fd \in Fd /\ Taken(t) \in Descriptor
    BY TakenType
  <1>2. file_dentry.inode \in Inodes
    BY EntriesType DEF TypeOK
  <1>3. CASE OpenTake(t)
    <2>1. PICK k \in Unused(t) : SetFd(t, k, [Table(t)[k] EXCEPT !.used = TRUE])
      BY <1>3 DEF OpenTake
    <2>2. k \in Fd /\ Table(t)[k] \in Descriptor
      BY TableType DEF Unused
    <2>3. [Table(t)[k] EXCEPT !.used = TRUE] \in Descriptor
      BY <2>2 DEF Descriptor
    <2> QED BY <1>3, <2>1, <2>2, <2>3 DEF OpenTake
  <1>4. CASE OpenInode(t)
    <2>1. [Taken(t) EXCEPT !.inode = file_dentry.inode] \in Descriptor
      BY <1>1, <1>2 DEF Descriptor
    <2> QED BY <1>1, <1>4, <2>1 DEF OpenInode, Opens
  <1>5. ASSUME OpenType(t) \/ OpenOther(t)
        PROVE  \E fd \in Descriptor, place \in CallAt : Opens(t, fd, place)
    <2>1. \A op \in Types : [Taken(t) EXCEPT !.op = op] \in Descriptor
      BY <1>1 DEF Descriptor
    <2>2. "rtc" \in Types /\ (IF file_dentry.filetype = "dir" THEN "dir" ELSE "file") \in Types
          /\ "opened" \in CallAt /\ "other" \in CallAt
      BY DEF Types, CallAt
    <2>3. CASE OpenOther(t)
      BY <2>1, <2>2, <2>3 DEF OpenOther
    <2>4. CASE OpenType(t)
      BY <1>1, <2>1, <2>2, <2>4 DEF OpenType
    <2> QED BY <1>5, <2>3, <2>4
  <1>6. CASE OpenType(t) \/ OpenOther(t)
    BY <1>1, <1>5, <1>6 DEF Opens
  <1> QED BY <1>3, <1>4, <1>6

\* What the steps of one process do to the tables.
LEMMA TablesStep ==
  ASSUME TypeOK, AllSound, OpensAtStart, OpensAbove2, NEW t \in Term, Step(t)
  PROVE  /\ AllSound'
         /\ depth' \in [Term -> Depth]
         /\ fd_array' \in [Term -> [Depth -> [Fd -> Descriptor]]]
         /\ rtc_fd_idx' \in [Term -> [Depth -> Given \cup {None}]]
  <1>0. /\ \A u \in Term \ {t} : call'[u] = call[u]
        /\ call \in [Term -> Call] /\ call[t] \in Call
        /\ depth \in [Term -> Depth]
        /\ fd_array \in [Term -> [Depth -> [Fd -> Descriptor]]]
        /\ rtc_fd_idx \in [Term -> [Depth -> Given \cup {None}]]
    BY CallStep DEF TypeOK
  <1>1. CASE /\ UNCHANGED <<depth, fd_array, rtc_fd_idx>>
             /\ ~Bound(t) \/ depth[t] = 1
    BY <1>0, <1>1, OtherSound
  <1>2. ASSUME \/ \E name \in Names : OpenLookup(t, name)
               \/ OpenNoDescriptor(t) \/ OpenRtc(t) \/ DirOpen(t) \/ OpenLooksAgain(t)
               \/ Faults(t) \/ DirReadFind(t) \/ DirReadLoad(t) \/ DirReadStore(t)
               \/ DirReadCopy(t) \/ RestartRoot(t)
        PROVE  /\ UNCHANGED <<depth, fd_array, rtc_fd_idx>>
               /\ ~Bound(t) \/ depth[t] = 1
    BY <1>2
    DEF Bound, Typing, OpenLookup, OpenNoDescriptor, OpenRtc, DirOpen, OpenLooksAgain,
        Faults, DirReadFind, DirReadLoad, DirReadStore, DirReadCopy, RestartRoot
  <1>3. CASE OpenTake(t) \/ OpenInode(t) \/ OpenType(t) \/ OpenOther(t)
    <2>1. AllSound'
      BY <1>0, <1>3, OpenTakeSound, OpenInodeSound, OpenTypeSound
    <2>2. fd_array' \in [Term -> [Depth -> [Fd -> Descriptor]]]
      BY <1>3, StoresType, SetFdEffect
    <2> QED BY <1>0, <1>3, <2>1, <2>2, StoresType
  <1>4. CASE \E k \in Fd : Close(t, k)
    BY <1>0, <1>4, CloseSound DEF Close
  <1>5. CASE RtcClose(t) \/ \E k \in Fd : RtcWrite(t, k)
    <2>1. UNCHANGED <<depth, fd_array>>
      BY <1>5 DEF RtcClose, RtcWrite
    <2> QED BY <1>0, <1>5, <2>1, RtcIdxSound
  <1>6. CASE \E k \in Fd, nbytes \in 1 .. 2 : FileRead(t, k, nbytes)
    BY <1>0, <1>6, FileReadSound DEF FileRead
  <1>7. CASE \E name \in Names : Execute(t, name)
    BY <1>7, ExecuteIs, ExecuteSound
  <1>8. CASE Halt(t)
    BY <1>0, <1>8, HaltIs, HaltSound
  <1>9. CASE HaltFaults(t)
    BY <1>0, <1>9, HaltFaultsSound DEF HaltFaults
  <1> QED
    BY <1>0, <1>1, <1>2, <1>3, <1>4, <1>5, <1>6, <1>7, <1>8, <1>9 DEF Step

\* Types survive every step, and so does what is said of the tables.
LEMMA TypeStep ==
  ASSUME Tables, OpensAtStart, OpensAbove2, [Next]_vars
  PROVE  TypeOK' /\ Tables'
  <1>0. TypeOK /\ AllSound
    BY TablesAreSound DEF Tables
  <1>1. CASE UNCHANGED vars
    <2>1. TypeOK'
      BY <1>0, <1>1 DEF vars, TypeOK
    <2>2. AllSound'
      BY <1>0, <1>1 DEF vars, AllSound, Sound, HalfOpen, Typing
    <2> QED BY <2>1, <2>2, SoundAreTables, PTL
  <1>2. ASSUME NEW t \in Term, Step(t) PROVE TypeOK' /\ Tables'
    <2>1. AllSound'
      BY <1>0, <1>2, TablesStep
    <2>2. TypeOK'
      BY <1>0, <1>2, TablesStep, CallStep, GlobalsStep DEF TypeOK
    <2> QED BY <2>1, <2>2, SoundAreTables, PTL
  <1>3. CASE Tick
    <2>1. TypeOK'
      BY <1>0, <1>3, TickIs DEF TypeOK
    <2>2. AllSound'
      BY <1>0, <1>3, TickSound
    <2> QED BY <2>1, <2>2, SoundAreTables, PTL
  <1> QED BY <1>1, <1>2, <1>3 DEF Next

-----------------------------------------------------------------------------
(* The descriptor a call is about *)

\* Only the named descriptor changes.
LEMMA SetFdFrame ==
  ASSUME TypeOK, NEW t \in Term, NEW k \in Fd, NEW fd, SetFd(t, k, fd)
  PROVE  \A u \in Term, d \in Depth, j \in Fd :
           ~(u = t /\ d = depth[t] /\ j = k) => fd_array'[u][d][j] = fd_array[u][d][j]
  BY DEF TypeOK, SetFd

\* A step of one terminal's process leaves the other terminals' tables alone.
LEMMA OthersTables ==
  ASSUME TypeOK, AllSound, NEW t \in Term, Step(t), NEW u \in Term \ {t}
  PROVE  /\ depth'[u] = depth[u]
         /\ \A d \in Depth : rtc_fd_idx'[u][d] = rtc_fd_idx[u][d]
         /\ \A d \in Depth, j \in Fd : fd_array'[u][d][j] = fd_array[u][d][j]
  <1>0. /\ depth \in [Term -> Depth]
        /\ rtc_fd_idx \in [Term -> [Depth -> Given \cup {None}]]
    BY DEF TypeOK
  <1>1. CASE UNCHANGED <<depth, fd_array, rtc_fd_idx>>
    BY <1>1
  <1>2. ASSUME NEW k \in Fd, NEW fd, SetFd(t, k, fd), UNCHANGED <<depth, rtc_fd_idx>>
        PROVE  /\ depth'[u] = depth[u]
               /\ \A d \in Depth : rtc_fd_idx'[u][d] = rtc_fd_idx[u][d]
               /\ \A d \in Depth, j \in Fd : fd_array'[u][d][j] = fd_array[u][d][j]
    BY <1>2, SetFdFrame
  <1>3. CASE OpenTake(t) \/ OpenInode(t) \/ OpenType(t) \/ OpenOther(t)
    BY <1>2, <1>3, StoresType
  <1>4. CASE \E k \in Fd, nbytes \in 1 .. 2 : FileRead(t, k, nbytes)
    BY <1>2, <1>4 DEF FileRead
  <1>5. CASE \E k \in Fd : Close(t, k)
    <2>1. PICK k \in Fd : Close(t, k)
      BY <1>5
    <2>2. UNCHANGED <<depth, rtc_fd_idx>>
      BY <2>1 DEF Close
    <2> QED BY <1>1, <1>2, <2>1, <2>2, CloseIs
  <1>6. ASSUME NEW name \in Names, Execute(t, name)
        PROVE  /\ depth'[u] = depth[u]
               /\ \A d \in Depth : rtc_fd_idx'[u][d] = rtc_fd_idx[u][d]
               /\ \A d \in Depth, j \in Fd : fd_array'[u][d][j] = fd_array[u][d][j]
    <2>1. CASE UNCHANGED <<depth, fd_array, rtc_fd_idx>>
      BY <2>1
    <2>2. CASE \A v \in Term, d \in Depth :
                 /\ fd_array'[v][d] = IF v = t /\ d = depth[t] + 1 THEN FreshTable
                                      ELSE fd_array[v][d]
                 /\ rtc_fd_idx'[v][d] = IF v = t /\ d = depth[t] + 1 THEN None
                                        ELSE rtc_fd_idx[v][d]
      BY <1>6, <2>2, ExecuteIs
    <2> QED BY <1>6, <2>1, <2>2, ExecuteIs
  <1>7. CASE Halt(t)
    BY <1>7, HaltIs
  <1>8. CASE HaltFaults(t)
    BY <1>0, <1>8 DEF HaltFaults
  <1>9. CASE RtcClose(t) \/ \E k \in Fd : RtcWrite(t, k)
    BY <1>0, <1>9 DEF RtcClose, RtcWrite
  <1> QED
    BY <1>1, <1>3, <1>4, <1>5, <1>6, <1>7, <1>8, <1>9
    DEF Step, OpenLookup, OpenNoDescriptor, OpenRtc, DirOpen, OpenLooksAgain, Faults,
        DirReadFind, DirReadLoad, DirReadStore, DirReadCopy, RestartRoot

\* The steps after which a call is about a descriptor.
LEMMA CallGoes ==
  ASSUME TypeOK, NEW t \in Term, Step(t),
         ~OpenTake(t), ~OpenInode(t), ~OpenType(t), ~OpenOther(t), ~DirOpen(t),
         ~\E k \in Fd : Close(t, k)
  PROVE  \/ call'[t].at \in {"idle", "load", "store", "copy", "fault", "hung"}
         \/ call'[t].at = "take" /\ \E name \in Names : OpenLookup(t, name)
  <1>0. call \in [Term -> Call] /\ call[t] \in Call
    BY DEF TypeOK
  <1>1. CASE UNCHANGED call /\ call[t].at = "idle"
    BY <1>1
  <1>2. CASE call' = [call EXCEPT ![t] = Idle]
    BY <1>0, <1>2, IdleType
  <1>3. ASSUME NEW name \in Names, OpenLookup(t, name) PROVE call'[t].at = "take"
    BY <1>0, <1>3, EntryType, NewCallType DEF OpenLookup
  <1>4. ASSUME DirReadFind(t) \/ DirReadLoad(t) \/ DirReadStore(t) \/ Faults(t)
        PROVE  call'[t].at \in {"load", "store", "copy", "fault"}
    BY <1>0, <1>4 DEF DirReadFind, DirReadLoad, DirReadStore, Faults, Call
  <1>5. HaltFaults(t) => call'[t].at = "hung"
    BY <1>0, IdleType DEF HaltFaults, Call
  <1> QED
    BY <1>1, <1>2, <1>3, <1>4, <1>5
    DEF Step, OpenNoDescriptor, OpenRtc, OpenLooksAgain, FileRead, DirReadCopy,
        RtcWrite, RtcClose, Execute, RestartRoot, Halt, Halts

\* open() and close() never work on a standard descriptor.
LEMMA OpensAbove2Step ==
  ASSUME TypeOK, AllSound, OpensAbove2, NEW t \in Term, Step(t)
  PROVE  OpensAbove2'
  <1>0. /\ call \in [Term -> Call] /\ call[t] \in Call
        /\ \A u \in Term \ {t} : call'[u] = call[u]
    BY CallStep DEF TypeOK
  <1>1. CASE call'[t].fd >= 2
    BY <1>0, <1>1 DEF OpensAbove2, Typing
  <1>2. CASE call'[t].at \in {"idle", "take", "load", "store", "copy", "fault", "hung"}
    BY <1>0, <1>2 DEF OpensAbove2, Typing
  <1>3. CASE OpenTake(t)
    <2>1. PICK k \in Unused(t) : call' = [call EXCEPT ![t].at = "inode", ![t].fd = k]
      BY <1>3 DEF OpenTake
    <2>2. k >= 2
      BY TopSound DEF Unused
    <2>3. call'[t].fd = k
      BY <1>0, <2>1 DEF Call
    <2> QED BY <1>1, <2>2, <2>3
  <1>4. CASE OpenInode(t) \/ OpenType(t) \/ OpenOther(t) \/ DirOpen(t)
    <2>1. call[t].at \in {"inode", "type", "other", "opened"} /\ call'[t].fd = call[t].fd
      BY <1>0, <1>4 DEF OpenInode, OpenType, OpenOther, Opens, DirOpen, Call
    <2> QED BY <1>1, <2>1 DEF OpensAbove2, Typing
  <1>5. CASE \E k \in Fd : Close(t, k)
    <2>1. CASE UNCHANGED call
      BY <2>1 DEF OpensAbove2, Typing
    <2> QED BY <1>1, <1>2, <1>5, <2>1, CloseIs
  <1> QED BY <1>2, <1>3, <1>4, <1>5, CallGoes

\* What open() finds in the descriptor it has taken.
StartsWell(t) ==
    Typing(t) =>
        /\ Taken(t).used
        /\ depth[t] > 1 => /\ rtc_fd_idx[t][depth[t]] # call[t].fd
                           /\ ~Taken(t).late => Taken(t).pos = 0

\* Another process's step leaves an open() and its descriptor alone.
LEMMA TakenOfOthers ==
  ASSUME TypeOK, AllSound, NEW t \in Term, Step(t), NEW u \in Term \ {t}
  PROVE  /\ call'[u] = call[u] /\ depth'[u] = depth[u] /\ Taken(u)' = Taken(u)
         /\ rtc_fd_idx'[u][depth[u]] = rtc_fd_idx[u][depth[u]]
  <1>1. call'[u] = call[u] /\ call[u].fd \in Fd /\ depth[u] \in Depth
    BY CallStep, TakenType
  <1>2. /\ depth'[u] = depth[u]
        /\ rtc_fd_idx'[u][depth[u]] = rtc_fd_idx[u][depth[u]]
        /\ fd_array'[u][depth[u]][call[u].fd] = fd_array[u][depth[u]][call[u].fd]
    BY <1>1, OthersTables
  <1> QED BY <1>1, <1>2 DEF Taken, Table

\* The descriptor open() has before it and after one of its stores.
LEMMA OpenStores ==
  ASSUME TypeOK, NEW t \in Term, NEW fd \in Descriptor, NEW place \in CallAt,
         Opens(t, fd, place)
  PROVE  /\ call'[t].at = place /\ call'[t].fd = call[t].fd /\ call'[t].entry = call[t].entry
         /\ Taken(t)' = fd
         /\ UNCHANGED <<depth, rtc_fd_idx, file_dentry, raced>>
  <1>1. call'[t].at = place /\ call'[t].fd = call[t].fd /\ call'[t].entry = call[t].entry
    BY TakenType DEF Opens, TypeOK, Call
  <1>2. call[t].fd \in Fd /\ SetFd(t, call[t].fd, fd) /\ UNCHANGED depth
    BY TakenType DEF Opens
  <1>3. fd_array'[t][depth[t]][call[t].fd] = fd
    BY <1>2, SetFdEffect
  <1> QED BY <1>1, <1>2, <1>3 DEF Taken, Table, Opens

\* What open() takes, and what it makes of it.
LEMMA OpenTakes ==
  ASSUME TypeOK, AllSound, NEW t \in Term, OpenTake(t)
  PROVE  /\ call'[t].at = "inode" /\ call'[t].entry = call[t].entry
         /\ Taken(t)'.used /\ StartsWell(t)'
         /\ UNCHANGED <<depth, file_dentry, raced>>
  <1>1. PICK k \in Unused(t) :
          /\ SetFd(t, k, [Table(t)[k] EXCEPT !.used = TRUE])
          /\ call' = [call EXCEPT ![t].at = "inode", ![t].fd = k]
    BY DEF OpenTake
  <1>2. k \in Fd /\ ~Table(t)[k].used
    BY DEF Unused
  <1>3. Table(t)[k] \in Descriptor /\ Sound(t, depth[t], k) /\ depth[t] \in Depth
    BY <1>2, TopSound
  <1> DEFINE fd == [Table(t)[k] EXCEPT !.used = TRUE]
  <1>4. /\ fd \in Descriptor /\ fd.used /\ fd.pos = Table(t)[k].pos
        /\ (fd.late <=> Table(t)[k].late)
    BY <1>3 DEF Descriptor
  <1>5. SetFd(t, k, fd)
    BY <1>1
  <1> HIDE DEF fd
  <1>6. call'[t].at = "inode" /\ call'[t].fd = k /\ call'[t].entry = call[t].entry
    BY <1>1, TakenType DEF TypeOK, Call
  <1>7. UNCHANGED <<depth, rtc_fd_idx, file_dentry, raced>> /\ call[t].at = "take"
    BY DEF OpenTake
  <1>8. Taken(t)' = fd
    <2>1. fd_array'[t][depth[t]][k] = fd
      BY <1>2, <1>4, <1>5, SetFdEffect
    <2> QED BY <1>6, <1>7, <2>1 DEF Taken, Table
  <1>9. ~fd.late => fd.pos = 0
    BY <1>2, <1>3, <1>4 DEF Sound, Table
  <1>10. depth[t] > 1 => rtc_fd_idx[t][depth[t]] # k
    BY <1>2, <1>3, <1>7 DEF Sound, Table, Depth
  <1>11. StartsWell(t)'
    BY <1>4, <1>6, <1>7, <1>8, <1>9, <1>10 DEF StartsWell
  <1> QED BY <1>4, <1>6, <1>7, <1>8, <1>11

\* Its stores leave the use and the position alone.
LEMMA StartsOn ==
  ASSUME TypeOK, NEW t \in Term, Typing(t), StartsWell(t),
         NEW fd \in Descriptor, NEW place \in CallAt, Opens(t, fd, place),
         fd.used = Taken(t).used, fd.pos = Taken(t).pos, fd.late = Taken(t).late
  PROVE  StartsWell(t)'
  <1>1. Taken(t)' = fd /\ call'[t].fd = call[t].fd /\ UNCHANGED <<depth, rtc_fd_idx>>
    BY OpenStores
  <1>2. /\ Taken(t)'.used
        /\ depth'[t] > 1 => /\ rtc_fd_idx'[t][depth'[t]] # call'[t].fd
                            /\ ~Taken(t)'.late => Taken(t)'.pos = 0
    BY <1>1 DEF StartsWell
  <1> QED BY <1>2 DEF StartsWell

\* An open() starts with an unused descriptor, and keeps it as it is but for
\* its own stores.
LEMMA OpensAtStartStep ==
  ASSUME TypeOK, AllSound, OpensAtStart, NEW t \in Term, Step(t)
  PROVE  OpensAtStart'
  <1>0. \A u \in Term : StartsWell(u)
    BY DEF OpensAtStart, StartsWell
  <1>1. ASSUME NEW u \in Term \ {t} PROVE StartsWell(u)'
    BY <1>0, <1>1, TakenOfOthers DEF StartsWell, Typing
  <1>2. SUFFICES StartsWell(t)'
    BY <1>1 DEF OpensAtStart, StartsWell
  <1>3. Taken(t) \in Descriptor /\ "type" \in CallAt /\ "other" \in CallAt
    BY TakenType DEF CallAt
  <1>4. CASE OpenInode(t)
    <2> DEFINE fd == [Taken(t) EXCEPT !.inode = file_dentry.inode]
    <2>1. file_dentry.inode \in Inodes
      BY EntriesType DEF TypeOK
    <2>2. /\ fd \in Descriptor /\ fd.used = Taken(t).used
          /\ fd.pos = Taken(t).pos /\ fd.late = Taken(t).late
      BY <1>3, <2>1 DEF Descriptor
    <2>3. Typing(t) /\ Opens(t, fd, "type")
      BY <1>4 DEF OpenInode, Typing
    <2> HIDE DEF fd
    <2> QED BY <1>0, <1>3, <2>2, <2>3, StartsOn
  <1>5. CASE Typing(t) /\ Opens(t, Taken(t), "other")
    BY <1>0, <1>3, <1>5, StartsOn
  <1>6. CASE ~Typing(t)'
    BY <1>6 DEF StartsWell, Typing
  <1>7. \A fd, place : Opens(t, fd, place) => call' = [call EXCEPT ![t].at = place]
    BY DEF Opens
  <1>8. CASE OpenType(t) \/ OpenOther(t)
    <2>1. CASE call'[t].at = "opened"
      BY <1>6, <2>1 DEF Typing
    <2>2. \A place : call' = [call EXCEPT ![t].at = place] => call'[t].at = place
      BY DEF TypeOK, Call
    <2> QED BY <1>5, <1>7, <1>8, <2>1, <2>2 DEF OpenType, OpenOther, Typing
  <1>9. CASE DirOpen(t)
    <2>1. call'[t].at = "lookup"
      BY <1>9 DEF DirOpen, TypeOK, Call
    <2> QED BY <1>6, <2>1 DEF Typing
  <1>10. CASE \E k \in Fd : Close(t, k)
    <2>1. call[t].at = "idle"
      BY <1>10 DEF Close
    <2>2. UNCHANGED call \/ call'[t].at \in {"idle", "fault", "close"}
      BY <1>10, CloseIs
    <2> QED BY <1>6, <2>1, <2>2 DEF Typing
  <1>11. CASE call'[t].at \in {"idle", "take", "load", "store", "copy", "fault", "hung"}
    BY <1>6, <1>11 DEF Typing
  <1> QED BY <1>4, <1>8, <1>9, <1>10, <1>11, CallGoes, OpenTakes

\* No tick comes near it.
LEMMA OpensAtStartTick ==
  ASSUME TypeOK, OpensAtStart, Tick
  PROVE  OpensAtStart'
  <1> SUFFICES ASSUME NEW t \in Term, Typing(t)
               PROVE  /\ Taken(t)'.used
                      /\ depth[t] > 1 => /\ rtc_fd_idx[t][depth[t]] # call[t].fd
                                         /\ ~Taken(t)'.late => Taken(t)'.pos = 0
    BY TickIs DEF OpensAtStart, Typing
  <1>1. call[t].fd \in Fd /\ depth[t] \in Depth /\ UNCHANGED <<depth, call>>
    BY TakenType, TickIs
  <1>2. Taken(t)' = fd_array'[t][depth[t]][call[t].fd]
    BY <1>1 DEF Taken, Table
  <1>3. Taken(t)'.used = Taken(t).used
    BY <1>1, <1>2, TickIs, TakenType
  <1>4. rtc_fd_idx[t][depth[t]] # call[t].fd => Taken(t)' = Taken(t)
    BY <1>1, <1>2, TickIs, TakenType DEF Counted
  <1> QED BY <1>3, <1>4 DEF OpensAtStart

-----------------------------------------------------------------------------
(* open() *)

\* Nobody is taken off raced but the terminal that steps, and the entry an
\* open() waits to use changes only with the terminal in raced.
LEMMA OvertakenIsRaced ==
  ASSUME TypeOK, NEW t \in Term, Step(t), NEW u \in Term \ {t}, u \notin raced'
  PROVE  u \notin raced /\ (Opening(u) => file_dentry' = file_dentry)
  BY DEF Overtakes, Step, OpenLookup, OpenTake, OpenNoDescriptor, OpenInode, OpenType,
     OpenOther, Opens, OpenRtc, DirOpen, OpenLooksAgain, FileRead, DirReadFind, DirReadLoad,
     DirReadStore, DirReadCopy, RtcWrite, Close, RtcClose, Faults, Execute, RestartRoot,
     Halt, HaltFaults, Halts, Ended

\* What an undisturbed open() has at each of its steps.
OpenInOrder(t) ==
    t \notin raced =>
        /\ Opening(t) => file_dentry = call[t].entry
        /\ call[t].at \in {"type", "other"} => Taken(t).inode = call[t].entry.inode
        /\ call[t].at = "other" => call[t].entry.filetype # "rtc"
        /\ call[t].at = "opened" => OpensTheNameAsked(t)

\* Another terminal's step leaves an open() in order, or the terminal in raced.
LEMMA OpenOfOthers ==
  ASSUME TypeOK, AllSound, NEW t \in Term, Step(t), NEW u \in Term \ {t}, OpenInOrder(u)
  PROVE  OpenInOrder(u)'
  <1>1. call'[u] = call[u] /\ Taken(u)' = Taken(u)
    BY TakenOfOthers
  <1>2. ASSUME u \notin raced'
        PROVE  u \notin raced /\ (Opening(u) => file_dentry' = file_dentry)
    BY <1>2, OvertakenIsRaced
  <1>3. Opening(u)' <=> Opening(u)
    BY <1>1 DEF Opening, Typing
  <1> QED BY <1>1, <1>2, <1>3 DEF OpenInOrder, OpensTheNameAsked

\* The three steps of open() that store what it found in file_dentry.
LEMMA OpenTyping ==
  ASSUME TypeOK, NEW t \in Term, StartsWell(t), OpenInOrder(t),
         OpenInode(t) \/ OpenType(t) \/ OpenOther(t)
  PROVE  OpenInOrder(t)'
  <1>0. Taken(t) \in Descriptor /\ file_dentry.filetype \in Types /\ file_dentry.inode \in Inodes
        /\ "type" \in CallAt /\ "other" \in CallAt /\ "opened" \in CallAt
    BY TakenType, EntriesType DEF TypeOK, CallAt
  <1>1. /\ Typing(t) /\ Opening(t) /\ Taken(t).used
        /\ t \notin raced => file_dentry = call[t].entry
    BY DEF OpenInode, OpenType, OpenOther, Typing, Opening, StartsWell, OpenInOrder
  <1>2. CASE OpenInode(t)
    <2> DEFINE fd == [Taken(t) EXCEPT !.inode = file_dentry.inode]
    <2>1. fd \in Descriptor /\ fd.inode = file_dentry.inode /\ Opens(t, fd, "type")
      BY <1>0, <1>2 DEF OpenInode, Descriptor
    <2> HIDE DEF fd
    <2>2. /\ call'[t].at = "type" /\ call'[t].entry = call[t].entry /\ Taken(t)' = fd
          /\ UNCHANGED <<file_dentry, raced>>
      BY <1>0, <2>1, OpenStores
    <2> QED BY <1>1, <2>1, <2>2 DEF OpenInOrder
  <1>3. ASSUME NEW op \in Types, Opens(t, [Taken(t) EXCEPT !.op = op], "opened"),
               t \notin raced => op = call[t].entry.filetype,
               call[t].at \in {"type", "other"}
        PROVE  OpenInOrder(t)'
    <2> DEFINE fd == [Taken(t) EXCEPT !.op = op]
    <2>1. /\ fd \in Descriptor /\ fd.inode = Taken(t).inode /\ fd.op = op
          /\ fd.used = Taken(t).used /\ Opens(t, fd, "opened")
      BY <1>0, <1>3 DEF Descriptor
    <2> HIDE DEF fd
    <2>2. /\ call'[t].at = "opened" /\ call'[t].entry = call[t].entry /\ Taken(t)' = fd
          /\ UNCHANGED <<file_dentry, raced>>
      BY <1>0, <2>1, OpenStores
    <2>3. t \notin raced => OpensTheNameAsked(t)'
      BY <1>1, <1>3, <2>1, <2>2 DEF OpenInOrder, OpensTheNameAsked
    <2> QED BY <2>2, <2>3 DEF OpenInOrder, Opening, Typing
  <1>4. CASE OpenType(t)
    <2>1. CASE file_dentry.filetype = "rtc"
      BY <1>0, <1>1, <1>3, <1>4, <2>1 DEF OpenType, Types
    <2>2. CASE file_dentry.filetype # "rtc"
      <3>1. Opens(t, Taken(t), "other") /\ call[t].at = "type"
        BY <1>4, <2>2 DEF OpenType
      <3>2. /\ call'[t].at = "other" /\ call'[t].entry = call[t].entry /\ Taken(t)' = Taken(t)
            /\ UNCHANGED <<file_dentry, raced>>
        BY <1>0, <3>1, OpenStores
      <3> QED BY <1>1, <2>2, <3>1, <3>2 DEF OpenInOrder
    <2> QED BY <2>1, <2>2
  <1>5. CASE OpenOther(t)
    <2> DEFINE op == IF file_dentry.filetype = "dir" THEN "dir" ELSE "file"
    <2>1. call[t].at = "other" /\ op \in Types /\ Opens(t, [Taken(t) EXCEPT !.op = op], "opened")
      BY <1>5 DEF OpenOther, Types
    <2>2. t \notin raced => op = call[t].entry.filetype
      BY <1>0, <1>1, <2>1 DEF OpenInOrder, Types
    <2> HIDE DEF op
    <2> QED BY <1>3, <2>1, <2>2
  <1> QED BY <1>2, <1>4, <1>5

\* Each step of open() keeps it in order.
LEMMA OpenOfItself ==
  ASSUME TypeOK, AllSound, NEW t \in Term, Step(t), StartsWell(t), OpenInOrder(t)
  PROVE  OpenInOrder(t)'
  <1>0. /\ call \in [Term -> Call] /\ call[t] \in Call
    BY DEF TypeOK
  <1>1. CASE call'[t].at \notin {"take", "inode", "type", "other", "opened"}
    BY <1>1 DEF OpenInOrder, Opening, Typing
  <1>2. ASSUME NEW name \in Names, OpenLookup(t, name)
        PROVE  OpenInOrder(t)'
    <2>1. call'[t].at = "take" /\ call'[t].entry = Entry(name)
      BY <1>0, <1>2, EntryType, NewCallType DEF OpenLookup
    <2> QED BY <1>2, <2>1 DEF OpenInOrder, OpenLookup
  <1>3. CASE OpenTake(t)
    <2>1. call[t].at = "take" /\ Opening(t)
      BY <1>3 DEF OpenTake, Opening
    <2> QED BY <1>3, <2>1, OpenTakes DEF OpenInOrder
  <1>4. CASE OpenInode(t) \/ OpenType(t) \/ OpenOther(t)
    BY <1>4, OpenTyping
  <1>5. DirOpen(t) => call'[t].at = "lookup"
    BY <1>0 DEF DirOpen, Call
  <1>6. CASE \E k \in Fd : Close(t, k)
    <2>1. call[t].at = "idle"
      BY <1>6 DEF Close
    <2>2. UNCHANGED call \/ call'[t].at \in {"idle", "fault", "close"}
      BY <1>6, CloseIs
    <2> QED BY <1>1, <2>1, <2>2
  <1>7. \/ call'[t].at \in {"idle", "load", "store", "copy", "fault", "hung"}
        \/ \E name \in Names : OpenLookup(t, name)
        \/ OpenTake(t) \/ OpenInode(t) \/ OpenType(t) \/ OpenOther(t) \/ DirOpen(t)
        \/ \E k \in Fd : Close(t, k)
    BY CallGoes
  <1> QED BY <1>1, <1>2, <1>3, <1>4, <1>5, <1>6, <1>7

\* So an open() that is not in raced is in order.
LEMMA OpenStep ==
  ASSUME TypeOK, AllSound, OpensAtStart, EntryWaits, OpensUnlessRaced, [Next]_vars
  PROVE  EntryWaits' /\ OpensUnlessRaced'
  <1>1. \A t \in Term : OpenInOrder(t) /\ StartsWell(t)
    BY DEF EntryWaits, OpensUnlessRaced, OpenInOrder, OpensAtStart, StartsWell
  <1>2. \A u \in Term : OpenInOrder(u)'
    <2>1. CASE UNCHANGED vars
      BY <1>1, <2>1 DEF vars, OpenInOrder, Opening, Typing, Taken, Table, OpensTheNameAsked
    <2>2. ASSUME NEW t \in Term, Step(t) PROVE \A u \in Term : OpenInOrder(u)'
      BY <1>1, <2>2, OpenOfOthers, OpenOfItself
    <2>3. CASE Tick
      <3>1. ASSUME NEW u \in Term
            PROVE  /\ Taken(u)'.used = Taken(u).used /\ Taken(u)'.op = Taken(u).op
                   /\ Taken(u)'.inode = Taken(u).inode
                   /\ UNCHANGED <<raced, file_dentry, call>>
        <4>1. Taken(u)' = fd_array'[u][depth[u]][call[u].fd]
          BY <2>3, TickIs DEF Taken, Table
        <4> QED BY <2>3, <4>1, TickIs, TakenType
      <3> QED BY <1>1, <3>1 DEF OpenInOrder, Opening, Typing, OpensTheNameAsked
    <2> QED BY <2>1, <2>2, <2>3 DEF Next
  <1> QED BY <1>2 DEF EntryWaits, OpensUnlessRaced, OpenInOrder

-----------------------------------------------------------------------------
(* Directory listings *)

\* The entries from the count on, as the names owed.
Following(n) == {Direntries[m].name : m \in {j \in Index : j > n}}

\* From the start, every name is owed.
LEMMA FollowingNone == Following(0) = Names
  <1>1. \A m \in Index : m > 0
    BY DEF Index
  <1> QED BY <1>1 DEF Following, Names

\* Without the next entry's name they are the entries after it.
LEMMA FollowingNext ==
  ASSUME NEW n \in Index
  PROVE  Following(n - 1) \ {Direntries[n].name} = Following(n)
  <1>1. \A m \in Index : m > n - 1 <=> m > n \/ m = n
    BY DEF Index
  <1>2. \A m \in Index : Direntries[m].name = Direntries[n].name => m = n
    BY FilesAssumption
  <1>3. ~(n > n)
    BY DEF Index
  <1> QED BY <1>1, <1>2, <1>3 DEF Following

\* What the terminal alone in using info knows at each step of a listing.
ListInOrder(t) ==
    lister = t =>
        /\ call[t].at \in {"load", "store"} => /\ counter + 1 \in Index
                                               /\ dentry = Direntries[counter + 1]
        /\ call[t].at = "store" => call[t].count = counter + 1
        /\ call[t].at = "copy" => /\ counter \in Index
                                  /\ dentry = Direntries[counter]
                                  /\ owed[t] = Following(counter - 1)
        /\ call[t].at # "copy" => owed[t] = Following(counter)

\* The names ListsInOrderAlone speaks of.
LEMMA OwedNames ==
  ASSUME NEW n \in Nat, NEW copying \in BOOLEAN
  PROVE  {Direntries[k].name : k \in {m \in Index : m > n \/ (m = n /\ copying)}}
           = IF copying THEN Following(n - 1) ELSE Following(n)
  <1>1. \A m \in Index : (m > n \/ m = n) <=> m > n - 1
    BY DEF Index
  <1> QED BY <1>1 DEF Following

\* Whoever uses info otherwise ends the other terminal's being alone with it.
LEMMA ListOfOthers ==
  ASSUME TypeOK, NEW t \in Term, Step(t), NEW u \in Term \ {t}, ListInOrder(u)
  PROVE  ListInOrder(u)'
  <1>0. /\ call'[u] = call[u] /\ u # t
        /\ owed \in [Term -> SUBSET Names]
    BY CallStep DEF TypeOK
  <1>1. u # Nobody
    BY NobodyIsNoTerm
  <1>2. ASSUME lister' = u
        PROVE  lister = u /\ UNCHANGED <<counter, dentry>>
    BY <1>0, <1>1, <1>2
    DEF UsesInfo, Step, OpenLookup, OpenTake, OpenNoDescriptor, OpenInode, OpenType, OpenOther,
        Opens, OpenRtc, DirOpen, OpenLooksAgain, FileRead, DirReadFind, DirReadLoad,
        DirReadStore, DirReadCopy, RtcWrite, Close, RtcClose, Faults, Execute, RestartRoot,
        Halt, HaltFaults, Halts, Ended
  <1>3. owed'[u] = owed[u]
    BY <1>0
    DEF Step, OpenLookup, OpenTake, OpenNoDescriptor, OpenInode, OpenType, OpenOther,
        Opens, OpenRtc, DirOpen, OpenLooksAgain, FileRead, DirReadFind, DirReadLoad,
        DirReadStore, DirReadCopy, RtcWrite, Close, RtcClose, Faults, Execute, RestartRoot,
        Halt, HaltFaults, Halts, Ended
  <1> QED BY <1>0, <1>2, <1>3 DEF ListInOrder

\* The listing terminal's own steps keep its listing in order.
LEMMA ListOfItself ==
  ASSUME TypeOK, AllSound, NEW t \in Term, Step(t), ListInOrder(t)
  PROVE  ListInOrder(t)'
  <1>0. /\ call \in [Term -> Call] /\ call[t] \in Call
        /\ owed \in [Term -> SUBSET Names]
        /\ counter \in Nat /\ Len(Direntries) \in Nat
        /\ t # Nobody
    BY NobodyIsNoTerm, FilesAssumption DEF TypeOK
  <1>1. CASE \E name \in Names : OpenLookup(t, name)
    <2>0. PICK name \in Names : OpenLookup(t, name)
      BY <1>1
    <2>1. call'[t].at = "take" /\ call[t].at = "idle"
      BY <1>0, <2>0, EntryType, NewCallType DEF OpenLookup
    <2> QED BY <1>1, <2>1 DEF OpenLookup, ListInOrder
  <1>2. CASE OpenTake(t)
    <2>1. call'[t].at = "inode" /\ call[t].at = "take"
      BY <1>0, <1>2 DEF OpenTake, Call
    <2> QED BY <1>2, <2>1 DEF OpenTake, ListInOrder
  <1>3. CASE OpenInode(t) \/ OpenType(t) \/ OpenOther(t)
    <2>1. /\ call'[t].at \in {"type", "other", "opened"}
          /\ call[t].at \in {"inode", "type", "other"}
      BY <1>0, <1>3 DEF OpenInode, OpenType, OpenOther, Opens, Call
    <2>2. UNCHANGED <<counter, dentry, owed, lister>>
      BY <1>3 DEF OpenInode, OpenType, OpenOther, Opens
    <2> QED BY <2>1, <2>2 DEF ListInOrder
  <1>4. CASE OpenNoDescriptor(t) \/ OpenRtc(t)
    <2>1. call'[t].at = "idle" /\ call[t].at \in {"take", "opened"}
      BY <1>0, <1>4, IdleType DEF OpenNoDescriptor, OpenRtc
    <2> QED BY <1>4, <2>1 DEF OpenNoDescriptor, OpenRtc, ListInOrder
  <1>5. CASE DirOpen(t)
    <2>1. call'[t].at = "lookup" /\ counter' = 0 /\ owed'[t] = Names
      BY <1>0, <1>5 DEF DirOpen, Call
    <2> QED BY <2>1, FollowingNone DEF ListInOrder
  <1>6. CASE OpenLooksAgain(t)
    <2>1. call'[t].at = "idle" /\ call[t].at \in {"lookup", "opened"}
      BY <1>0, <1>6, IdleType DEF OpenLooksAgain
    <2>2. lister' = t => lister = t
      BY <1>0, <1>6 DEF OpenLooksAgain, UsesInfo
    <2> QED BY <1>6, <2>1, <2>2 DEF OpenLooksAgain, ListInOrder
  <1>7. CASE \/ \E k \in Fd, nbytes \in 1 .. 2 : FileRead(t, k, nbytes)
             \/ RtcClose(t) \/ Faults(t) \/ \E k \in Fd : Close(t, k) \/ RtcWrite(t, k)
    <2>1. UNCHANGED <<counter, dentry, owed, lister>>
      BY <1>7 DEF FileRead, RtcClose, Faults, Close, RtcWrite
    <2>2. \/ UNCHANGED call
          \/ call[t].at \in {"idle", "close"} /\ call'[t].at \in {"idle", "fault", "close"}
      <3>1. CASE RtcClose(t) \/ Faults(t)
        BY <1>0, <3>1, IdleType DEF RtcClose, Faults, Call
      <3>2. CASE \E k \in Fd : Close(t, k)
        <4>1. call[t].at = "idle"
          BY <3>2 DEF Close
        <4> QED BY <3>2, <4>1, CloseIs
      <3> QED BY <1>7, <3>1, <3>2 DEF FileRead, RtcWrite
    <2> QED BY <2>1, <2>2 DEF ListInOrder
  <1>8. CASE DirReadFind(t)
    <2>1. call'[t].at = "load" /\ call[t].at = "idle"
      BY <1>0, <1>8 DEF DirReadFind, Call
    <2>2. lister' = t => lister = t
      BY <1>0, <1>8 DEF DirReadFind, UsesInfo
    <2>3. /\ counter' + 1 \in Index /\ dentry' = Direntries[counter' + 1]
          /\ counter' = counter /\ owed' = owed
      BY <1>0, <1>8 DEF DirReadFind, Index
    <2> QED BY <2>1, <2>2, <2>3 DEF ListInOrder
  <1>9. CASE DirReadLoad(t)
    <2>1. call'[t].at = "store" /\ call[t].at = "load" /\ call'[t].count = counter + 1
      BY <1>0, <1>9 DEF DirReadLoad, Call
    <2> QED BY <1>9, <2>1 DEF DirReadLoad, ListInOrder
  <1>10. CASE DirReadStore(t)
    <2>1. call'[t].at = "copy" /\ call[t].at = "store" /\ counter' = call[t].count
      BY <1>0, <1>10 DEF DirReadStore, Call
    <2>2. lister' = t => lister = t
      BY <1>0, <1>10 DEF DirReadStore, UsesInfo
    <2>3. (counter + 1) - 1 = counter
      BY <1>0
    <2> QED BY <1>10, <2>1, <2>2, <2>3 DEF DirReadStore, ListInOrder
  <1>11. CASE DirReadCopy(t)
    <2>1. call'[t].at = "idle" /\ call[t].at = "copy"
      BY <1>0, <1>11, IdleType DEF DirReadCopy
    <2>2. owed'[t] = owed[t] \ {dentry.name}
      BY <1>0, <1>11 DEF DirReadCopy
    <2>3. counter \in Index => Following(counter - 1) \ {Direntries[counter].name}
                                 = Following(counter)
      BY FollowingNext
    <2> QED BY <1>11, <2>1, <2>2, <2>3 DEF DirReadCopy, ListInOrder
  <1>12. CASE \E name \in Names : Execute(t, name)
    <2>1. CASE UNCHANGED <<owed, lister>>
      BY <1>12, <2>1 DEF Execute, ListInOrder
    <2>2. CASE lister' = IF lister = t THEN Nobody ELSE lister
      BY <1>0, <2>2 DEF ListInOrder
    <2> QED BY <1>12, <2>1, <2>2 DEF Execute
  <1>13. CASE RestartRoot(t) \/ Halt(t) \/ HaltFaults(t)
    <2>1. lister' = IF lister = t THEN Nobody ELSE lister
      BY <1>13 DEF RestartRoot, Halt, HaltFaults, Halts, Ended
    <2> QED BY <1>0, <2>1 DEF ListInOrder
  <1> QED
    BY <1>1, <1>2, <1>3, <1>4, <1>5, <1>6, <1>7, <1>8, <1>9, <1>10, <1>11, <1>12,
       <1>13
    DEF Step

\* So the listing of the terminal alone in using info is in order.
LEMMA ListStep ==
  ASSUME TypeOK, AllSound, ReadAlone, ListsInOrderAlone, [Next]_vars, TypeOK'
  PROVE  ReadAlone' /\ ListsInOrderAlone'
  <1>1. \A t \in Term : ListInOrder(t)
    <2> SUFFICES ASSUME NEW t \in Term, lister = t PROVE ListInOrder(t)
      BY DEF ListInOrder
    <2>1. owed[t] = {Direntries[n].name : n \in {m \in Index :
                        m > counter \/ (m = counter /\ call[t].at = "copy")}}
      BY DEF ListsInOrderAlone
    <2>2. counter \in Nat /\ (call[t].at = "copy") \in BOOLEAN
      BY DEF TypeOK
    <2>3. owed[t] = IF call[t].at = "copy" THEN Following(counter - 1)
                                           ELSE Following(counter)
      BY <2>1, <2>2, OwedNames, Zenon
    <2> QED BY <2>3 DEF ListInOrder, ReadAlone
  <1>2. \A u \in Term : ListInOrder(u)'
    <2>1. CASE UNCHANGED vars
      BY <1>1, <2>1 DEF vars, ListInOrder
    <2>2. ASSUME NEW t \in Term, Step(t) PROVE \A u \in Term : ListInOrder(u)'
      BY <1>1, <2>2, ListOfOthers, ListOfItself
    <2>3. CASE Tick
      BY <1>1, <2>3, TickIs DEF ListInOrder
    <2> QED BY <2>1, <2>2, <2>3 DEF Next
  <1>3. counter' \in Nat
    BY DEF TypeOK
  <1> QED BY <1>2, <1>3, OwedNames DEF ListInOrder, ReadAlone, ListsInOrderAlone

-----------------------------------------------------------------------------
(* The theorems *)

\* The inductive invariant holds at the start ...
LEMMA InitIInv == Init => IInv
  <1> SUFFICES ASSUME Init PROVE IInv
    OBVIOUS
  <1>1. \A t \in Term, d \in Depth : fd_array[t][d] = FreshTable
    BY DEF Init
  <1>2. \A t \in Term : depth[t] = 1 /\ call[t] = Idle /\ call[t].at = "idle"
    BY IdleType DEF Init
  <1>3. TypeOK
    <2>1. depth \in [Term -> Depth]
      BY FilesAssumption DEF Init, Depth
    <2>2. file_dentry \in Entries
      BY EntryType, FilesAssumption DEF Init
    <2>3. counter \in 0 .. MAX_COUNTER
      BY FilesAssumption DEF Init
    <2>4. call \in [Term -> Call]
      BY IdleType DEF Init
    <2>5. dentry \in Entries \cup {NoEntry} /\ raced \subseteq Term
          /\ owed \in [Term -> SUBSET Names] /\ lister \in Term \cup {Nobody}
      BY DEF Init
    <2>6. fd_array \in [Term -> [Depth -> [Fd -> Descriptor]]]
      BY FreshType DEF Init
    <2>7. rtc_fd_idx \in [Term -> [Depth -> Given \cup {None}]]
      BY DEF Init
    <2> QED BY <2>1, <2>2, <2>3, <2>4, <2>5, <2>6, <2>7 DEF TypeOK
  <1>4. AllSound
    <2> SUFFICES ASSUME NEW t \in Term, NEW d \in Depth, NEW k \in Fd PROVE Sound(t, d, k)
      BY DEF AllSound
    <2>1. fd_array[t][d][k] = FreshTable[k] /\ FreshTable[k].pos = 0
      BY <1>1, FreshType
    <2>2. k < 2 => FreshTable[k] = Std
      BY DEF FreshTable
    <2>3. ~(1 < d /\ d <= depth[t])
      BY <1>2 DEF Depth
    <2> QED BY <2>1, <2>2, <2>3 DEF Sound
  <1>5. Tables
    BY <1>3, <1>4, SoundAreTables
  <1>6. OpensAtStart /\ OpensAbove2 /\ EntryWaits /\ OpensUnlessRaced
    BY <1>2 DEF OpensAtStart, OpensAbove2, EntryWaits, Opening, Typing, OpensUnlessRaced
  <1>7. ReadAlone /\ ListsInOrderAlone
    BY NobodyIsNoTerm DEF Init, ReadAlone, ListsInOrderAlone
  <1> QED BY <1>5, <1>6, <1>7 DEF Tables, IInv

\* ... and every step keeps it.
LEMMA StepIInv == IInv /\ [Next]_vars => IInv'
  <1> SUFFICES ASSUME IInv, [Next]_vars PROVE IInv'
    OBVIOUS
  <1>0. Tables /\ TypeOK /\ AllSound
    BY TablesAreSound DEF IInv, Tables
  <1>1. TypeOK' /\ Tables'
    BY <1>0, TypeStep DEF IInv
  <1>2. OpensAtStart' /\ OpensAbove2'
    <2>1. CASE UNCHANGED vars
      BY <2>1 DEF vars, IInv, OpensAtStart, OpensAbove2, Typing, Taken, Table
    <2>2. ASSUME NEW t \in Term, Step(t) PROVE OpensAtStart' /\ OpensAbove2'
      BY <1>0, <2>2, OpensAtStartStep, OpensAbove2Step DEF IInv
    <2>3. CASE Tick
      <3>1. UNCHANGED call
        BY <2>3 DEF Tick
      <3>2. OpensAbove2'
        BY <3>1 DEF IInv, OpensAbove2, Typing
      <3> QED BY <1>0, <2>3, <3>2, OpensAtStartTick DEF IInv
    <2> QED BY <2>1, <2>2, <2>3 DEF Next
  <1>3. EntryWaits' /\ OpensUnlessRaced'
    BY <1>0, OpenStep DEF IInv
  <1>4. ReadAlone' /\ ListsInOrderAlone'
    BY <1>0, <1>1, ListStep DEF IInv
  <1> QED BY <1>1, <1>2, <1>3, <1>4 DEF IInv, Tables

\* Every step of every interleaving of the terminals' calls, of the halts and
\* Ctrl-C's in them and of the RTC's ticks keeps IInv.
THEOREM Invariance == Spec => []IInv
  BY InitIInv, StepIInv, PTL DEF Spec

\* Tables, globals and calls stay well formed, and the handler counts in no
\* process's standard input or output.
THEOREM TypeCorrect == Spec => []TypeOK
  <1>1. IInv => TypeOK
    BY DEF IInv
  <1> QED BY <1>1, Invariance, PTL

\* No read and no tick moves the position of a regular file past its end,
\* but for a descriptor that a tick found between the stores of close() and
\* those of a root shell.
THEOREM PositionsStayInFiles == Spec => []PositionsWithinFile
  <1>1. IInv => PositionsWithinFile
    BY DEF IInv
  <1> QED BY <1>1, Invariance, PTL

\* No process ever loses its standard input and output.
THEOREM StdStreamsStay == Spec => []StdStreams
  <1>1. IInv => StdStreams
    BY DEF IInv
  <1> QED BY <1>1, Invariance, PTL

\* An open() that no other terminal's lookup overtakes sets its descriptor up
\* for the file it was asked for.
THEOREM OpensWhatWasAsked == Spec => []OpensUnlessRaced
  <1>1. IInv => OpensUnlessRaced
    BY DEF IInv
  <1> QED BY <1>1, Invariance, PTL

\* A listing nobody disturbs gives every directory entry once, in order.
THEOREM ListsEveryEntry == Spec => []ListsInOrderAlone
  <1>1. IInv => ListsInOrderAlone
    BY DEF IInv
  <1> QED BY <1>1, Invariance, PTL

\* A descriptor in use without operations belongs to an open() in progress or
\* to a root shell, of which Ctrl-C ended an open(): execute() gives none on.
THEOREM HalfOpensStayInRoots == Spec => []HalfOpenInRootsOnly
  <1>1. IInv => HalfOpenInRootsOnly
    BY DEF IInv
  <1> QED BY <1>1, Invariance, PTL

\* What one step may do to the descriptors of a waiting process.
WaitingStep ==
    \A t \in Term, d \in Depth, k \in Fd :
        (d < depth[t] /\ fd_array'[t][d][k] # fd_array[t][d][k]) =>
            \/ /\ d = depth'[t]
               /\ ~fd_array'[t][d][k].used
               /\ Table(t)[k].used
            \/ /\ k = rtc_fd_idx[t][d]
               /\ fd_array'[t][d][k].used = fd_array[t][d][k].used
               /\ fd_array'[t][d][k].op = fd_array[t][d][k].op
               /\ fd_array'[t][d][k].inode = fd_array[t][d][k].inode

\* Only halt() touches a waiting process's table, and only to close, and only
\* the handler moves a position in it.
LEMMA WaitingStepHolds ==
  ASSUME IInv, [Next]_vars PROVE WaitingStep
  <1> SUFFICES ASSUME NEW u \in Term, NEW d \in Depth, NEW j \in Fd,
                      d < depth[u], fd_array'[u][d][j] # fd_array[u][d][j]
               PROVE  \/ /\ d = depth'[u]
                         /\ ~fd_array'[u][d][j].used
                         /\ Table(u)[j].used
                      \/ /\ j = rtc_fd_idx[u][d]
                         /\ fd_array'[u][d][j].used = fd_array[u][d][j].used
                         /\ fd_array'[u][d][j].op = fd_array[u][d][j].op
                         /\ fd_array'[u][d][j].inode = fd_array[u][d][j].inode
    BY DEF WaitingStep
  <1>0. /\ TypeOK /\ AllSound /\ depth[u] \in Nat /\ d \in Nat
        /\ fd_array[u][d][j] \in Descriptor
    <2>1. TypeOK /\ AllSound
      BY TablesAreSound DEF IInv, Tables
    <2>2. depth[u] \in Depth /\ fd_array[u][d][j] \in Descriptor
      BY <2>1 DEF TypeOK
    <2> QED BY <2>1, <2>2 DEF Depth
  <1>1. CASE Tick
    <2>1. /\ Counted(u, d, j)
          /\ fd_array'[u][d][j].used = fd_array[u][d][j].used
          /\ fd_array'[u][d][j].op = fd_array[u][d][j].op
          /\ fd_array'[u][d][j].inode = fd_array[u][d][j].inode
      BY <1>0, <1>1, TickIs
    <2> QED BY <2>1 DEF Counted
  <1>2. ASSUME NEW t \in Term, Step(t)
        PROVE  d = depth'[u] /\ ~fd_array'[u][d][j].used /\ Table(u)[j].used
    <2>1. u = t
      BY <1>0, <1>2, OthersTables
    <2>2. ~\E k \in Fd : \E fd : SetFd(t, k, fd)
      <3> SUFFICES ASSUME NEW k \in Fd, NEW fd, SetFd(t, k, fd) PROVE FALSE
        OBVIOUS
      <3>1. d = depth[t]
        BY <1>0, <2>1, SetFdFrame
      <3> QED BY <1>0, <2>1, <3>1
    <2>3. ~\E k \in Fd : Close(t, k)
      <3> SUFFICES ASSUME NEW k \in Fd, Close(t, k) PROVE FALSE
        OBVIOUS
      <3>1. UNCHANGED fd_array \/ SetFd(t, k, Reset(Table(t)[k]))
        BY <1>0, CloseIs
      <3> QED BY <2>2, <3>1
    <2>4. ~\E name \in Names : Execute(t, name)
      <3> SUFFICES ASSUME NEW name \in Names, Execute(t, name) PROVE FALSE
        OBVIOUS
      <3>1. fd_array'[t][d] # fd_array[t][d]
        BY <2>1
      <3>2. d # depth[t] + 1
        BY <1>0, <2>1
      <3> QED BY <1>0, <3>1, <3>2, ExecuteIs
    <2>5. ~(OpenTake(t) \/ OpenInode(t) \/ OpenType(t) \/ OpenOther(t))
      BY <1>0, <2>2, StoresType
    <2>6. Halt(t)
      BY <1>2, <2>2, <2>3, <2>4, <2>5
      DEF Step, OpenLookup, OpenNoDescriptor, OpenRtc, DirOpen, OpenLooksAgain, FileRead,
          RtcWrite, RtcClose, Faults, DirReadFind, DirReadLoad, DirReadStore, DirReadCopy,
          RestartRoot, HaltFaults
    <2>7. d = depth[t] - 1 /\ j \in AlsoClosed(t)
      BY <1>0, <2>1, <2>6, HaltIs
    <2>8. fd_array'[u][d][j] = Reset(fd_array[u][d][j]) /\ depth'[u] = d
      BY <1>0, <2>1, <2>6, <2>7, HaltIs
    <2> QED BY <1>0, <2>1, <2>7, <2>8, ResetEffect DEF AlsoClosed
  <1> QED BY <1>1, <1>2 DEF Next, vars

\* A process that waits for its child loses no descriptor, but for those its
\* child's halt() closes by mistake.
THEOREM WaitingKeepsItsFiles == Spec => WaitingLosesOnlyTheChilds
  <1>1. IInv /\ [Next]_vars => [WaitingStep]_vars
    BY WaitingStepHolds
  <1>2. Spec => [][WaitingStep]_vars
    BY <1>1, Invariance, PTL DEF Spec
  <1> QED BY <1>2 DEF WaitingLosesOnlyTheChilds, WaitingStep

-----------------------------------------------------------------------------
(* The bytes of a read.                                                       *)

\* A set of numbers has a least one, which is what Min gives.
LEMMA MinIs ==
  ASSUME NEW S \in SUBSET Nat, S # {}
  PROVE  Min(S) \in S /\ \A y \in S : Min(S) <= y
  <1>1. PICK m \in S : \A k \in S : ~(<<k, m>> \in OpToRel(<, Nat))
    BY WFMin, NatLessThanWellFounded, Zenon
  <1>2. \A k \in S : ~(k < m)
    BY <1>1 DEF OpToRel
  <1>3. \A k \in S : m <= k
    BY <1>2
  <1> QED BY <1>3, Zenon DEF Min

\* Nothing but the least is that.
LEMMA MinOnly ==
  ASSUME NEW S \in SUBSET Nat, NEW m \in S, \A y \in S : m <= y
  PROVE  Min(S) = m
  <1>1. Min(S) \in S /\ Min(S) <= m
    BY MinIs
  <1>2. m <= Min(S)
    BY <1>1
  <1>3. m \in Nat /\ Min(S) \in Nat
    BY <1>1
  <1> QED BY <1>1, <1>2, <1>3

\* Division as a file's offsets need it.
LEMMA DivMod ==
  ASSUME NEW b \in Nat \ {0}, NEW a \in Nat
  PROVE  /\ a \div b \in Nat /\ a % b \in 0 .. b - 1
         /\ a = b * (a \div b) + (a % b)
  <1>1. a \div b \in Int /\ a % b \in 0 .. b - 1 /\ a = b * (a \div b) + (a % b)
    OBVIOUS
  <1>2. ASSUME a \div b < 0 PROVE FALSE
    <2> DEFINE q == a \div b
    <2>1. q \in Int /\ q + 1 <= 0
      BY <1>1, <1>2
    <2> HIDE DEF q
    <2>2. b * (q + 1) <= 0
      BY <2>1
    <2>3. b * (q + 1) = b * q + b
      BY <2>1
    <2>4. a = b * q + (a % b) /\ a % b < b /\ a % b \in Int /\ b * q \in Int
      BY <1>1, <2>1 DEF q
    <2> QED BY <2>2, <2>3, <2>4
  <1> QED BY <1>1, <1>2

LEMMA DivModOnly ==
  ASSUME NEW b \in Nat \ {0}, NEW p \in Nat, NEW q \in Nat,
         NEW r \in 0 .. b - 1, NEW s \in 0 .. b - 1, b * p + r = b * q + s
  PROVE  p = q /\ r = s
  <1>1. ASSUME NEW x \in Nat, NEW y \in Nat, NEW v \in 0 .. b - 1, NEW w \in 0 .. b - 1,
               b * x + v = b * y + w, x < y
        PROVE  FALSE
    <2>1. x + 1 <= y
      BY <1>1
    <2>2. b * (x + 1) <= b * y
      BY <2>1
    <2>3. b * (x + 1) = b * x + b /\ b * x \in Int /\ b * y \in Int
      OBVIOUS
    <2> QED BY <1>1, <2>2, <2>3
  <1>2. ~(p < q)
    BY <1>1
  <1>3. ~(q < p)
    BY <1>1
  <1>4. p = q
    BY <1>2, <1>3
  <1>5. b * p = b * q /\ b * p \in Int
    BY <1>4
  <1> QED BY <1>4, <1>5

\* Offsets that stay in a block have its number, and lie in it as far apart.
LEMMA SameBlock ==
  ASSUME NEW b \in Nat \ {0}, NEW a \in Nat, NEW j \in Nat, (a % b) + j < b
  PROVE  (a + j) \div b = a \div b /\ (a + j) % b = (a % b) + j
  <1> DEFINE q == a \div b
             r == a % b
             p == (a + j) \div b
             s == (a + j) % b
  <1>1. q \in Nat /\ r \in 0 .. b - 1 /\ a = b * q + r
    BY DivMod
  <1>2. p \in Nat /\ s \in 0 .. b - 1 /\ a + j = b * p + s
    <2>1. a + j \in Nat
      OBVIOUS
    <2> QED BY <2>1, DivMod
  <1>3. r + j \in 0 .. b - 1
    BY <1>1
  <1> HIDE DEF q, r, p, s
  <1>4. b * q \in Int /\ b * p \in Int
    BY <1>1, <1>2
  <1>5. b * p + s = b * q + (r + j)
    BY <1>1, <1>2, <1>4
  <1>6. p = q /\ s = r + j
    BY <1>1, <1>2, <1>3, <1>5, DivModOnly
  <1> QED BY <1>6 DEF p, q, r, s

\* One turn of the loop reads something, and stays in block, file and request.
LEMMA TurnReads ==
  ASSUME NEW size \in Nat, NEW offset \in Nat, offset < size,
         NEW length \in Nat \ {0}
  PROVE  LET n == BytesToRead(size, offset, length)
         IN  /\ n \in 1 .. length /\ n <= size - offset
             /\ (offset % DATA_BLOCK_SIZE) + n <= DATA_BLOCK_SIZE
  <1> DEFINE n == BytesToRead(size, offset, length)
             r == offset % DATA_BLOCK_SIZE
             S == {DATA_BLOCK_SIZE - r, size - offset, length}
  <1>1. DATA_BLOCK_SIZE \in Nat \ {0} /\ r \in 0 .. DATA_BLOCK_SIZE - 1
    BY DivMod, ReadDataAssumption
  <1> HIDE DEF r
  <1>2. /\ DATA_BLOCK_SIZE - r \in Nat \ {0} /\ size - offset \in Nat \ {0}
        /\ S \in SUBSET Nat /\ S # {}
    BY <1>1
  <1>3. n = Min(S)
    BY Zenon DEF BytesToRead, r
  <1>4. n \in S /\ n <= DATA_BLOCK_SIZE - r /\ n <= size - offset /\ n <= length
    BY <1>2, <1>3, MinIs
  <1>5. n \in Nat \ {0}
    BY <1>2, <1>4
  <1> HIDE DEF n
  <1>6. n \in 1 .. length /\ n <= size - offset /\ r + n <= DATA_BLOCK_SIZE
    BY <1>1, <1>4, <1>5
  <1> QED BY <1>6 DEF n, r

Byte == Nat \X Nat

\* An inode that lists a block, good or bad, for every byte of its file.
WholeInode(inode) ==
    /\ inode.length \in Nat
    /\ inode.data_block_idx \in [Blocks(inode.length) -> Nat]

LEMMA BytesOfFile ==
  ASSUME NEW inode, WholeInode(inode)
  PROVE  FileBytes(inode) \in [1 .. inode.length -> Byte]
  <1> DEFINE size == inode.length
             D == DATA_BLOCK_SIZE
  <1>1. size \in Nat /\ inode.data_block_idx \in [Blocks(size) -> Nat] /\ D \in Nat \ {0}
    BY ReadDataAssumption DEF WholeInode
  <1>2. ASSUME NEW k \in 1 .. size
        PROVE  (k - 1) \div D \in Blocks(size) /\ (k - 1) % D \in Nat
    <2> DEFINE q == (k - 1) \div D
               r == (k - 1) % D
    <2>1. k - 1 \in Nat /\ k - 1 < size
      BY <1>1
    <2>2. q \in Nat /\ r \in 0 .. D - 1 /\ k - 1 = D * q + r
      BY <1>1, <2>1, DivMod
    <2> HIDE DEF q, r
    <2>3. q * D = D * q /\ q * D \in Int
      BY <1>1, <2>2
    <2>4. q <= q * D
      <3>1. 1 <= D
        BY <1>1
      <3> QED BY <1>1, <2>2, <3>1
    <2>5. q * D < size /\ q \in 0 .. size /\ r \in Nat
      BY <1>1, <2>1, <2>2, <2>3, <2>4
    <2> QED BY <2>5 DEF Blocks, q, r
  <1>3. \A k \in 1 .. size :
          <<inode.data_block_idx[(k - 1) \div D], (k - 1) % D>> \in Byte
    BY <1>1, <1>2 DEF Byte
  <1> QED BY <1>3, Zenon DEF FileBytes

\* A part of the file, byte for byte.
LEMMA PartIs ==
  ASSUME NEW inode, WholeInode(inode), NEW from \in Nat, NEW end \in Nat,
         from <= end, end <= inode.length
  PROVE  /\ Part(inode, from, end) \in Seq(Byte)
         /\ Len(Part(inode, from, end)) = end - from
         /\ \A k \in 1 .. end - from :
              Part(inode, from, end)[k]
                = <<inode.data_block_idx[(from + k - 1) \div DATA_BLOCK_SIZE],
                    (from + k - 1) % DATA_BLOCK_SIZE>>
  <1> DEFINE F == FileBytes(inode)
  <1>1. inode.length \in Nat /\ F \in [1 .. inode.length -> Byte]
    BY BytesOfFile DEF WholeInode
  <1>2. \A k \in 1 .. inode.length :
          F[k] = <<inode.data_block_idx[(k - 1) \div DATA_BLOCK_SIZE],
                   (k - 1) % DATA_BLOCK_SIZE>>
    BY Zenon DEF FileBytes
  <1> HIDE DEF F
  <1>3. from + 1 \in Int /\ \A i \in from + 1 .. end : i \in 1 .. inode.length
    BY <1>1
  <1>4. \A i \in from + 1 .. end : F[i] \in Byte
    BY <1>1, <1>3
  <1>5. /\ SubSeq(F, from + 1, end) \in Seq(Byte)
        /\ Len(SubSeq(F, from + 1, end))
             = (IF from + 1 <= end THEN end - (from + 1) + 1 ELSE 0)
        /\ \A k \in 1 .. end - (from + 1) + 1 :
             SubSeq(F, from + 1, end)[k] = F[(from + 1) + k - 1]
    BY <1>3, <1>4, SubSeqProperties
  <1>6. /\ end - (from + 1) + 1 = end - from
        /\ (IF from + 1 <= end THEN end - (from + 1) + 1 ELSE 0) = end - from
    OBVIOUS
  <1>7. ASSUME NEW k \in 1 .. end - from
        PROVE  SubSeq(F, from + 1, end)[k]
                = <<inode.data_block_idx[(from + k - 1) \div DATA_BLOCK_SIZE],
                    (from + k - 1) % DATA_BLOCK_SIZE>>
    <2>1. /\ (from + 1) + k - 1 = from + k /\ from + k \in 1 .. inode.length
          /\ (from + k) - 1 = from + k - 1
      BY <1>1
    <2>2. SubSeq(F, from + 1, end)[k] = F[from + k]
      BY <1>5, <1>6, <2>1, Zenon
    <2>3. F[from + k] = <<inode.data_block_idx[(from + k - 1) \div DATA_BLOCK_SIZE],
                          (from + k - 1) % DATA_BLOCK_SIZE>>
      BY <1>2, <2>1, Zenon
    <2> QED BY <2>2, <2>3, Zenon
  <1> QED BY <1>5, <1>6, <1>7, Zenon DEF Part, F

LEMMA BlockBytesAre ==
  ASSUME NEW block \in Nat, NEW from \in Nat, NEW n \in Nat
  PROVE  /\ BlockBytes(block, from, n) \in Seq(Byte)
         /\ Len(BlockBytes(block, from, n)) = n
         /\ \A k \in 1 .. n : BlockBytes(block, from, n)[k] = <<block, from + k - 1>>
  <1> DEFINE B == BlockBytes(block, from, n)
  <1>1. \A k \in 1 .. n : from + k - 1 \in Nat
    OBVIOUS
  <1>2. B \in [1 .. n -> Byte] /\ \A k \in 1 .. n : B[k] = <<block, from + k - 1>>
    BY <1>1 DEF BlockBytes, Byte
  <1> HIDE DEF B
  <1>3. B \in Seq(Byte)
    BY <1>2, SeqDef
  <1>4. Len(B) = n
    BY <1>2, <1>3, LenProperties
  <1> QED BY <1>2, <1>3, <1>4 DEF B

\* What one turn reads is the beginning of the part.
LEMMA PartSplits ==
  ASSUME NEW inode, WholeInode(inode), NEW from \in Nat, NEW end \in Nat,
         end <= inode.length, NEW n \in 1 .. end - from,
         (from % DATA_BLOCK_SIZE) + n <= DATA_BLOCK_SIZE
  PROVE  LET block == inode.data_block_idx[from \div DATA_BLOCK_SIZE]
         IN  /\ block \in Nat
             /\ Part(inode, from, end)
                  = BlockBytes(block, from % DATA_BLOCK_SIZE, n)
                      \o Part(inode, from + n, end)
  <1> DEFINE D == DATA_BLOCK_SIZE
             r == from % D
             block == inode.data_block_idx[from \div D]
             P == Part(inode, from, end)
             B == BlockBytes(block, r, n)
             R == Part(inode, from + n, end)
  <1>1. D \in Nat \ {0} /\ r \in 0 .. D - 1
    BY ReadDataAssumption, DivMod
  <1>2. /\ n \in Nat /\ n >= 1 /\ from + n \in Nat /\ from + n <= end /\ from <= end
    OBVIOUS
  <1>3. /\ P \in Seq(Byte) /\ Len(P) = end - from
        /\ \A k \in 1 .. end - from :
             P[k] = <<inode.data_block_idx[(from + k - 1) \div D], (from + k - 1) % D>>
    BY <1>2, PartIs
  <1>4. /\ R \in Seq(Byte) /\ Len(R) = end - (from + n)
        /\ \A k \in 1 .. end - (from + n) :
             R[k] = <<inode.data_block_idx[((from + n) + k - 1) \div D],
                      ((from + n) + k - 1) % D>>
    BY <1>2, PartIs
  <1>5. block \in Nat
    <2>1. 1 \in 1 .. end - from /\ from + 1 - 1 = from
      BY <1>2
    <2>2. P[1] \in Byte
      BY <1>3, <2>1
    <2>3. P[1] = <<block, r>>
      BY <1>3, <2>1, Zenon
    <2> QED BY <2>2, <2>3 DEF Byte
  <1>6. /\ B \in Seq(Byte) /\ Len(B) = n
        /\ \A k \in 1 .. n : B[k] = <<block, r + k - 1>>
    <2>1. block \in Nat /\ r \in Nat /\ n \in Nat
      BY <1>1, <1>2, <1>5
    <2> HIDE DEF block, r
    <2> QED BY <2>1, BlockBytesAre
  <1> HIDE DEF P, B, R
  <1>7. /\ B \o R \in Seq(Byte) /\ Len(B \o R) = Len(B) + Len(R)
        /\ \A i \in 1 .. Len(B) + Len(R) :
             (B \o R)[i] = IF i <= Len(B) THEN B[i] ELSE R[i - Len(B)]
    <2>1. B \in Seq(Byte) /\ R \in Seq(Byte)
      BY <1>4, <1>6, Zenon
    <2> QED BY <2>1, ConcatProperties
  <1>8. Len(B) + Len(R) = end - from
    BY <1>2, <1>4, <1>6
  <1>9. ASSUME NEW i \in 1 .. end - from PROVE P[i] = (B \o R)[i]
    <2>1. CASE i <= n
      <3>1. i - 1 \in Nat /\ r + (i - 1) < D /\ i \in 1 .. n
        BY <1>1, <1>2, <2>1
      <3>2. (from + (i - 1)) \div D = from \div D /\ (from + (i - 1)) % D = r + (i - 1)
        BY <1>1, <3>1, SameBlock
      <3>3. from + (i - 1) = from + i - 1 /\ r + (i - 1) = r + i - 1
        BY <1>1
      <3>4. P[i] = <<block, r + i - 1>>
        BY <1>3, <3>2, <3>3, Zenon
      <3>5. (B \o R)[i] = B[i]
        BY <1>6, <1>7, <1>8, <2>1, Zenon
      <3> QED BY <1>6, <3>1, <3>4, <3>5, Zenon
    <2>2. CASE ~(i <= n)
      <3>1. i - n \in 1 .. end - (from + n) /\ (from + n) + (i - n) - 1 = from + i - 1
        BY <1>2, <2>2
      <3>2. (B \o R)[i] = R[i - n]
        BY <1>6, <1>7, <1>8, <2>2, Zenon
      <3> QED BY <1>3, <1>4, <3>1, <3>2, Zenon
    <2> QED BY <2>1, <2>2
  <1>10. Len(P) = Len(B \o R) /\ \A i \in 1 .. Len(P) : P[i] = (B \o R)[i]
    BY <1>3, <1>7, <1>8, <1>9
  <1>11. P = B \o R
    BY <1>3, <1>7, <1>10, SeqEqual
  <1> QED BY <1>5, <1>11 DEF P, B, R

LEMMA BadIs ==
  ASSUME NEW part \in Seq(Byte)
  PROVE  /\ Bad(part) = {k \in 1 .. Len(part) : part[k][1] >= data_count}
         /\ Bad(part) \in SUBSET Nat
  <1>1. DOMAIN part = 1 .. Len(part)
    BY LenProperties
  <1>2. Bad(part) = {k \in 1 .. Len(part) : part[k][1] >= data_count}
    BY <1>1, Zenon DEF Bad
  <1> QED BY <1>2

\* A part that starts with a bad block gives nothing.
LEMMA OutcomeOfBadStart ==
  ASSUME NEW part \in Seq(Byte), Len(part) >= 1, part[1][1] >= data_count
  PROVE  Outcome(part) = [bytes_read |-> -1, buf |-> << >>]
  <1>1. Len(part) \in Nat
    BY LenProperties
  <1>2. 1 \in Bad(part) /\ \A y \in Bad(part) : 1 <= y
    BY <1>1, BadIs
  <1>3. Min(Bad(part)) = 1
    BY <1>2, BadIs, MinOnly
  <1>4. SubSeq(part, 1, Min(Bad(part)) - 1) = << >>
    <2>1. Min(Bad(part)) - 1 = 0
      BY <1>3
    <2>2. SubSeq(part, 1, 0) = << >>
      BY SubSeqEmpty
    <2> QED BY <2>1, <2>2, Zenon
  <1>5. Bad(part) # {}
    BY <1>2
  <1> QED BY <1>4, <1>5, Zenon DEF Outcome

\* Good blocks before a part are read first.
LEMMA OutcomeOfGoodStart ==
  ASSUME NEW a \in Seq(Byte), NEW b \in Seq(Byte),
         \A k \in 1 .. Len(a) : ~(a[k][1] >= data_count)
  PROVE  Outcome(a \o b) =
           [bytes_read |-> IF Outcome(b).bytes_read = -1 THEN -1
                           ELSE Len(a) + Outcome(b).bytes_read,
            buf |-> a \o Outcome(b).buf]
  <1> DEFINE c == a \o b
  <1>1. Len(a) \in Nat /\ Len(b) \in Nat
    BY LenProperties
  <1>2. /\ c \in Seq(Byte) /\ Len(c) = Len(a) + Len(b)
        /\ \A i \in 1 .. Len(a) + Len(b) :
             c[i] = IF i <= Len(a) THEN a[i] ELSE b[i - Len(a)]
    BY ConcatProperties
  <1> HIDE DEF c
  <1>3. \A k \in 1 .. Len(b) :
          /\ Len(a) + k \in 1 .. Len(a) + Len(b)
          /\ c[Len(a) + k] = b[k]
    <2> TAKE k \in 1 .. Len(b)
    <2>1. /\ Len(a) + k \in 1 .. Len(a) + Len(b) /\ ~(Len(a) + k <= Len(a))
          /\ (Len(a) + k) - Len(a) = k
      BY <1>1
    <2>2. c[Len(a) + k] = b[(Len(a) + k) - Len(a)]
      BY <1>2, <2>1, Zenon
    <2> QED BY <2>1, <2>2
  <1>4. ASSUME NEW i \in Bad(c)
        PROVE  i - Len(a) \in Bad(b)
    <2>1. i \in 1 .. Len(a) + Len(b) /\ c[i][1] >= data_count
      BY <1>2, BadIs
    <2>2. ~(i <= Len(a))
      <3>1. ASSUME i <= Len(a) PROVE FALSE
        <4>1. i \in 1 .. Len(a) /\ c[i] = a[i]
          BY <1>1, <1>2, <2>1, <3>1
        <4> QED BY <2>1, <4>1
      <3> QED BY <3>1
    <2>3. i - Len(a) \in 1 .. Len(b) /\ c[i] = b[i - Len(a)]
      BY <1>1, <1>2, <2>1, <2>2
    <2> QED BY <2>1, <2>3, BadIs
  <1>5. ASSUME NEW k \in Bad(b)
        PROVE  Len(a) + k \in Bad(c)
    <2>1. k \in 1 .. Len(b) /\ b[k][1] >= data_count
      BY BadIs
    <2>2. Len(a) + k \in 1 .. Len(c) /\ c[Len(a) + k] = b[k]
      BY <1>2, <1>3, <2>1
    <2> QED BY <1>2, <2>1, <2>2, BadIs
  <1>6. CASE Bad(b) = {}
    <2>1. Bad(c) = {}
      BY <1>4, <1>6
    <2>2. Outcome(b) = [bytes_read |-> Len(b), buf |-> b]
      BY <1>6, Zenon DEF Outcome
    <2>3. Outcome(c) = [bytes_read |-> Len(c), buf |-> c]
      BY <2>1, Zenon DEF Outcome
    <2>4. Outcome(b).bytes_read = Len(b) /\ Outcome(b).buf = b /\ Len(b) # -1
      BY <1>1, <2>2
    <2> QED BY <1>2, <2>3, <2>4 DEF c
  <1>7. CASE Bad(b) # {}
    <2> DEFINE m == Min(Bad(b))
               g == SubSeq(b, 1, m - 1)
    <2>1. /\ m \in Bad(b) /\ \A y \in Bad(b) : m <= y
          /\ m \in 1 .. Len(b)
      BY <1>7, MinIs, BadIs
    <2> HIDE DEF m
    <2>2. Min(Bad(c)) = Len(a) + m
      <3>1. Len(a) + m \in Bad(c)
        BY <1>5, <2>1
      <3>2. ASSUME NEW y \in Bad(c) PROVE Len(a) + m <= y
        <4>1. m <= y - Len(a) /\ y \in Nat
          BY <1>2, <1>4, <2>1, BadIs
        <4> QED BY <1>1, <2>1, <4>1
      <3> QED BY <1>2, <3>1, <3>2, BadIs, MinOnly
    <2>3. /\ g \in Seq(Byte) /\ Len(g) = m - 1
          /\ \A i \in 1 .. m - 1 : g[i] = b[i]
      <3>1. m - 1 \in Int /\ m - 1 - 1 + 1 = m - 1
            /\ (IF 1 <= m - 1 THEN m - 1 - 1 + 1 ELSE 0) = m - 1
        BY <2>1
      <3>2. \A i \in 1 .. m - 1 : b[i] \in Byte /\ 1 + i - 1 = i
        BY <1>1, <2>1
      <3>3. /\ g \in Seq(Byte)
            /\ Len(g) = (IF 1 <= m - 1 THEN m - 1 - 1 + 1 ELSE 0)
            /\ \A i \in 1 .. m - 1 - 1 + 1 : g[i] = b[1 + i - 1]
        BY <3>1, <3>2, SubSeqProperties
      <3> HIDE DEF g
      <3> QED BY <3>1, <3>2, <3>3
    <2> HIDE DEF g
    <2>4. /\ a \o g \in Seq(Byte) /\ Len(a \o g) = Len(a) + (m - 1)
          /\ \A i \in 1 .. Len(a) + (m - 1) :
               (a \o g)[i] = IF i <= Len(a) THEN a[i] ELSE g[i - Len(a)]
      <3>1. /\ a \o g \in Seq(Byte) /\ Len(a \o g) = Len(a) + Len(g)
            /\ \A i \in 1 .. Len(a) + Len(g) :
                 (a \o g)[i] = IF i <= Len(a) THEN a[i] ELSE g[i - Len(a)]
        BY <2>3, ConcatProperties
      <3> QED BY <2>3, <3>1, Zenon
    <2> DEFINE h == SubSeq(c, 1, Len(a) + m - 1)
               n == Len(a) + m - 1
    <2>5. /\ h \in Seq(Byte) /\ Len(h) = n
          /\ \A i \in 1 .. n : h[i] = c[i]
      <3>1. n \in Nat /\ n - 1 + 1 = n /\ (IF 1 <= n THEN n - 1 + 1 ELSE 0) = n
            /\ n <= Len(a) + Len(b)
        BY <1>1, <2>1
      <3> HIDE DEF n
      <3>2. \A i \in 1 .. n : c[i] \in Byte /\ 1 + i - 1 = i
        BY <1>2, <3>1
      <3>3. /\ SubSeq(c, 1, n) \in Seq(Byte)
            /\ Len(SubSeq(c, 1, n)) = (IF 1 <= n THEN n - 1 + 1 ELSE 0)
            /\ \A i \in 1 .. n - 1 + 1 : SubSeq(c, 1, n)[i] = c[1 + i - 1]
        BY <3>1, <3>2, SubSeqProperties
      <3> QED BY <3>1, <3>2, <3>3 DEF n
    <2> HIDE DEF h
    <2>6. n = Len(a) + (m - 1) /\ n \in Nat /\ n <= Len(a) + Len(b)
      BY <1>1, <2>1
    <2> HIDE DEF n
    <2>7. ASSUME NEW i \in 1 .. n PROVE h[i] = (a \o g)[i]
      <3>1. i \in 1 .. Len(a) + Len(b) /\ h[i] = c[i]
        BY <2>5, <2>6
      <3>2. CASE i <= Len(a)
        BY <1>2, <2>4, <2>6, <3>1, <3>2
      <3>3. CASE ~(i <= Len(a))
        <4>1. i - Len(a) \in 1 .. m - 1
          BY <1>1, <2>1, <2>6, <3>3
        <4>2. c[i] = b[i - Len(a)]
          BY <1>2, <3>1, <3>3
        <4>3. (a \o g)[i] = g[i - Len(a)]
          BY <2>4, <2>6, <3>3
        <4> QED BY <2>3, <3>1, <4>1, <4>2, <4>3
      <3> QED BY <3>2, <3>3
    <2>8. h = a \o g
      <3>1. Len(h) = Len(a \o g) /\ \A i \in 1 .. Len(h) : h[i] = (a \o g)[i]
        BY <2>4, <2>5, <2>6, <2>7
      <3> QED BY <2>4, <2>5, <3>1, SeqEqual
    <2>9. Outcome(b) = [bytes_read |-> -1, buf |-> g]
      BY <1>7, Zenon DEF Outcome, g, m
    <2>10. Outcome(c) = [bytes_read |-> -1, buf |-> h]
      <3>1. Bad(c) # {}
        BY <1>5, <2>1
      <3>2. Outcome(c) = [bytes_read |-> -1, buf |-> SubSeq(c, 1, Min(Bad(c)) - 1)]
        BY <3>1, Zenon DEF Outcome
      <3>3. SubSeq(c, 1, Min(Bad(c)) - 1) = h
        <4>1. Min(Bad(c)) - 1 = Len(a) + m - 1
          BY <1>1, <2>1, <2>2
        <4> QED BY <4>1, Zenon DEF h
      <3> QED BY <3>2, <3>3, Zenon
    <2>11. Outcome(b).bytes_read = -1 /\ Outcome(b).buf = g
      BY <2>9
    <2> QED BY <2>8, <2>10, <2>11 DEF c
  <1> QED BY <1>6, <1>7

\* One turn of read_data's loop, and all that is read from there on.
Turn(inode, start, count, copy, length) ==
    IF length = 0 THEN [bytes_read |-> 0, buf |-> << >>]
    ELSE LET offset == start + (count - length)
             block  == inode.data_block_idx[offset \div DATA_BLOCK_SIZE]
             n      == BytesToRead(inode.length, offset, length)
             rest   == copy[length - n]
         IN  IF block >= data_count THEN [bytes_read |-> -1, buf |-> << >>]
             ELSE [bytes_read |-> IF rest.bytes_read = -1 THEN -1
                                  ELSE n + rest.bytes_read,
                   buf |-> BlockBytes(block, offset % DATA_BLOCK_SIZE, n) \o rest.buf]

RestOf(inode, end, length) == Outcome(Part(inode, end - length, end))

LEMMA EmptyOutcome == Outcome(<< >>) = [bytes_read |-> 0, buf |-> << >>]
  <1>1. << >> \in Seq(Byte) /\ Len(<< >>) = 0
    BY EmptySeq
  <1>2. Bad(<< >>) = {}
    <2> DEFINE e == << >>
    <2>1. Bad(e) = {k \in 1 .. Len(e) : e[k][1] >= data_count} /\ Len(e) = 0
      BY <1>1, BadIs
    <2> HIDE DEF e
    <2>2. 1 .. Len(e) = {}
      BY <2>1
    <2>3. Bad(e) = {}
      BY <2>1, <2>2
    <2> QED BY <2>3 DEF e
  <1> QED BY <1>1, <1>2, Zenon DEF Outcome

\* A turn after which the rest is read as it should be reads all it should.
LEMMA TurnIsRest ==
  ASSUME NEW inode, WholeInode(inode), NEW start \in Nat, NEW count \in Nat,
         start + count <= inode.length, NEW length \in 0 .. count, NEW copy,
         \A l \in 0 .. count : l < length => copy[l] = RestOf(inode, start + count, l)
  PROVE  Turn(inode, start, count, copy, length) = RestOf(inode, start + count, length)
  <1> DEFINE end == start + count
             offset == start + (count - length)
             P == Part(inode, offset, end)
             R(l) == RestOf(inode, end, l)
  <1>0. /\ inode.length \in Nat /\ end \in Nat /\ end <= inode.length
        /\ offset \in Nat /\ offset <= end /\ end - length = offset /\ end - offset = length
    BY DEF WholeInode
  <1>1. R(length) = Outcome(P)
    BY <1>0, Zenon DEF RestOf
  <1>2. CASE length = 0
    <2>1. P = << >>
      <3>1. offset + 1 \in Int /\ end \in Int /\ end < offset + 1
        BY <1>0, <1>2
      <3> HIDE DEF offset, end
      <3>2. SubSeq(FileBytes(inode), offset + 1, end) = << >>
        BY <3>1, SubSeqEmpty
      <3> QED BY <3>2, Zenon DEF Part
    <2>2. Turn(inode, start, count, copy, length) = [bytes_read |-> 0, buf |-> << >>]
      BY <1>2, Zenon DEF Turn
    <2> QED BY <1>1, <2>1, <2>2, EmptyOutcome
  <1>3. CASE length # 0
    <2> DEFINE block == inode.data_block_idx[offset \div DATA_BLOCK_SIZE]
               r     == offset % DATA_BLOCK_SIZE
               n     == BytesToRead(inode.length, offset, length)
               B     == BlockBytes(block, r, n)
               Q     == Part(inode, offset + n, end)
               rest  == copy[length - n]
    <2>1. offset < inode.length /\ length \in Nat \ {0}
      BY <1>0, <1>3
    <2>2. n \in 1 .. length /\ r + n <= DATA_BLOCK_SIZE
      <3> HIDE DEF offset
      <3> QED BY <1>0, <2>1, TurnReads
    <2>3. block \in Nat /\ P = B \o Q
      <3>1. n \in 1 .. end - offset
        BY <1>0, <2>2, Zenon
      <3> HIDE DEF offset, end, n
      <3> QED BY <1>0, <2>2, <3>1, PartSplits, ZenonT(60)
    <2>4. r \in Nat /\ n \in Nat
      <3>1. DATA_BLOCK_SIZE \in Nat \ {0}
        BY ReadDataAssumption
      <3> HIDE DEF offset, n
      <3>2. r \in 0 .. DATA_BLOCK_SIZE - 1
        BY <1>0, <3>1, DivMod
      <3> QED BY <2>2, <3>1, <3>2
    <2>5. /\ B \in Seq(Byte) /\ Len(B) = n
          /\ \A k \in 1 .. n : B[k] = <<block, r + k - 1>>
      <3> HIDE DEF block, r, n
      <3> QED BY <2>3, <2>4, BlockBytesAre
    <2>6. Q \in Seq(Byte)
      <3>1. offset + n \in Nat /\ offset + n <= end
        BY <1>0, <2>2, <2>4
      <3> HIDE DEF offset, end, n
      <3> QED BY <1>0, <3>1, PartIs
    <2>7. rest = Outcome(Q)
      <3>1. length - n \in 0 .. count /\ length - n < length /\ end - (length - n) = offset + n
        BY <1>0, <2>2, <2>4
      <3>2. rest = RestOf(inode, end, length - n)
        BY <3>1
      <3> QED BY <3>1, <3>2, Zenon DEF RestOf
    <2>8. Turn(inode, start, count, copy, length) =
            IF block >= data_count THEN [bytes_read |-> -1, buf |-> << >>]
            ELSE [bytes_read |-> IF rest.bytes_read = -1 THEN -1 ELSE n + rest.bytes_read,
                  buf |-> B \o rest.buf]
      BY <1>3, Zenon DEF Turn
    <2> HIDE DEF block, r, n, B, Q, rest, P
    <2>9. CASE block >= data_count
      <3>1. 1 \in 1 .. n
        BY <2>2, <2>4
      <3>2. P \in Seq(Byte) /\ Len(P) >= 1 /\ P[1] = B[1]
        <4>1. /\ B \o Q \in Seq(Byte) /\ Len(B \o Q) = Len(B) + Len(Q)
              /\ \A i \in 1 .. Len(B) + Len(Q) :
                   (B \o Q)[i] = IF i <= Len(B) THEN B[i] ELSE Q[i - Len(B)]
          BY <2>5, <2>6, ConcatProperties
        <4>2. Len(Q) \in Nat /\ Len(B) >= 1
          BY <2>4, <2>5, <2>6, <3>1, LenProperties
        <4>3. 1 \in 1 .. Len(B) + Len(Q) /\ 1 <= Len(B) /\ Len(B) + Len(Q) >= 1
          BY <2>4, <2>5, <4>2
        <4>4. (B \o Q)[1] = B[1] /\ Len(B \o Q) >= 1
          BY <4>1, <4>3
        <4> QED BY <2>3, <4>1, <4>4
      <3>3. P[1][1] = block
        BY <2>5, <3>1, <3>2
      <3>4. Outcome(P) = [bytes_read |-> -1, buf |-> << >>]
        BY <2>9, <3>2, <3>3, OutcomeOfBadStart
      <3> QED BY <1>1, <2>8, <2>9, <3>4, Zenon
    <2>10. CASE ~(block >= data_count)
      <3>1. \A k \in 1 .. Len(B) : ~(B[k][1] >= data_count)
        BY <2>5, <2>10
      <3>2. Outcome(B \o Q) =
              [bytes_read |-> IF Outcome(Q).bytes_read = -1 THEN -1
                              ELSE Len(B) + Outcome(Q).bytes_read,
               buf |-> B \o Outcome(Q).buf]
        BY <2>5, <2>6, <3>1, OutcomeOfGoodStart
      <3> QED BY <1>1, <2>3, <2>5, <2>7, <2>8, <2>10, <3>2, Zenon
    <2> QED BY <2>9, <2>10
  <1> QED BY <1>2, <1>3

\* The loop reads all of it.
LEMMA CopyFromIs ==
  ASSUME NEW inode, WholeInode(inode), NEW start \in Nat, NEW count \in Nat,
         start + count <= inode.length
  PROVE  CopyFrom(inode, start, count) = Outcome(Part(inode, start, start + count))
  <1> DEFINE T(copy, length) == Turn(inode, start, count, copy, length)
             R(length) == RestOf(inode, start + count, length)
             G == [length \in 0 .. count |-> R(length)]
             C == CHOOSE copy : copy = [length \in 0 .. count |-> T(copy, length)]
  <1>1. CopyFrom(inode, start, count) = C[count]
    BY Zenon DEF CopyFrom, Turn
  <1>2. ASSUME NEW copy, NEW length \in 0 .. count,
               \A l \in 0 .. count : l < length => copy[l] = R(l)
        PROVE  T(copy, length) = R(length)
    <2> HIDE DEF T, R
    <2> QED BY <1>2, TurnIsRest DEF T, R
  <1> HIDE DEF T, R
  <1>3. G = [length \in 0 .. count |-> T(G, length)]
    <2>1. \A l \in 0 .. count : G[l] = R(l)
      OBVIOUS
    <2> HIDE DEF G
    <2>2. \A length \in 0 .. count : T(G, length) = R(length)
      BY <1>2, <2>1
    <2>3. G = [length \in 0 .. count |-> R(length)]
      BY Zenon DEF G
    <2> QED BY <2>2, <2>3, Zenon
  <1>4. C = [length \in 0 .. count |-> T(C, length)]
    <2> HIDE DEF G
    <2> QED BY <1>3, Zenon
  <1> HIDE DEF C, G
  <1>5. \A length \in 0 .. count : C[length] = T(C, length)
    BY <1>4, Zenon
  <1>6. \A length \in 0 .. count : C[length] = R(length)
    <2> DEFINE other == {length \in 0 .. count : C[length] # R(length)}
    <2>1. ASSUME other # {} PROVE FALSE
      <3>1. other \in SUBSET Nat
        OBVIOUS
      <3> DEFINE m == Min(other)
      <3> HIDE DEF other, m
      <3>2. m \in other /\ \A y \in other : m <= y
        BY <2>1, <3>1, MinIs, Zenon DEF m
      <3>3. m \in 0 .. count /\ C[m] # R(m)
        BY <3>2, Zenon DEF other
      <3>4. ASSUME NEW l \in 0 .. count, l < m PROVE C[l] = R(l)
        <4>1. ~(m <= l)
          BY <3>3, <3>4
        <4> QED BY <3>2, <4>1, Zenon DEF other
      <3>5. C[m] = R(m)
        BY <1>2, <1>5, <3>3, <3>4
      <3> QED BY <3>3, <3>5
    <2> QED BY <2>1
  <1>7. count \in 0 .. count /\ (start + count) - count = start
    OBVIOUS
  <1>8. C[count] = R(count)
    BY <1>6, <1>7
  <1> QED BY <1>1, <1>7, <1>8, Zenon DEF R, RestOf

\* read_data reads what the file has there, for every offset and length and
\* every arrangement of the file's blocks on the disk.
THEOREM ReadDataReadsTheFile ==
  ASSUME NEW inode, WholeInode(inode), NEW offset \in Nat, NEW length \in Nat
  PROVE  ReadsTheFile(inode, offset, length)
  <1> DEFINE size == inode.length
             end == Min({offset + length, size})
  <1>1. size \in Nat
    BY DEF WholeInode
  <1>2. end \in {offset + length, size} /\ end <= offset + length /\ end <= size
    <2> DEFINE S == {offset + length, size}
    <2>1. S \in SUBSET Nat /\ S # {}
      BY <1>1
    <2>2. Min(S) \in S /\ \A y \in S : Min(S) <= y
      BY <2>1, MinIs
    <2> QED BY <2>2
  <1> HIDE DEF end
  <1>3. CASE offset >= size
    <2>1. read_data(inode, offset, length) = [bytes_read |-> 0, buf |-> << >>]
      BY <1>3, Zenon DEF read_data
    <2>2. offset + 1 \in Int /\ end \in Int /\ end < offset + 1
      BY <1>1, <1>2, <1>3
    <2>3. Part(inode, offset, end) = << >>
      <3>1. SubSeq(FileBytes(inode), offset + 1, end) = << >>
        BY <2>2, SubSeqEmpty
      <3> QED BY <3>1, Zenon DEF Part
    <2> QED BY <2>1, <2>3, EmptyOutcome, Zenon DEF ReadsTheFile, end
  <1>4. CASE ~(offset >= size)
    <2> DEFINE count == Min({length, size - offset})
    <2>1. /\ count \in {length, size - offset} /\ count <= length
          /\ count <= size - offset /\ size - offset \in Nat
      <3> DEFINE S == {length, size - offset}
      <3>1. S \in SUBSET Nat /\ S # {} /\ size - offset \in Nat
        BY <1>1, <1>4
      <3>2. Min(S) \in S /\ \A y \in S : Min(S) <= y
        BY <3>1, MinIs
      <3> QED BY <3>1, <3>2
    <2> HIDE DEF count
    <2>2. count \in Nat /\ offset + count = end /\ offset + count <= size
      BY <1>1, <1>2, <1>4, <2>1
    <2>3. read_data(inode, offset, length) = CopyFrom(inode, offset, count)
      BY <1>4, Zenon DEF read_data, count
    <2>4. CopyFrom(inode, offset, count) = Outcome(Part(inode, offset, offset + count))
      BY <2>2, CopyFromIs
    <2> QED BY <2>2, <2>3, <2>4, Zenon DEF ReadsTheFile, end
  <1> QED BY <1>3, <1>4

\* The inodes on a disk are whole.
LEMMA OnDiskIsWhole ==
  ASSUME NEW i \in Inodes, NEW inode \in OnDisk(i)
  PROVE  WholeInode(inode) /\ inode.length = FileLength[i] /\ FileLength[i] \in Nat
  <1>1. /\ inode.length = FileLength[i]
        /\ inode.data_block_idx \in [Blocks(FileLength[i]) -> 0 .. data_count]
    BY DEF OnDisk
  <1>2. FileLength[i] \in Nat
    <2>1. FileLength \in [Inodes -> Nat]
      BY FilesAssumption, Zenon
    <2> QED BY <2>1
  <1>3. 0 .. data_count \subseteq Nat
    BY ReadDataAssumption
  <1>4. inode.data_block_idx \in [Blocks(inode.length) -> Nat]
    BY <1>1, <1>3
  <1> QED BY <1>1, <1>2, <1>4 DEF WholeInode

\* However the reads of a process have moved a position, the next one gives the
\* file's bytes from there, and moves it as Files says.
LEMMA ReadIsExact == TypeOK => ReadDataIsExact
  <1> SUFFICES ASSUME TypeOK, NEW t \in Term, NEW k \in Fd, NEW n \in ReadLengths,
                      NEW inode \in OnDisk(Table(t)[k].inode)
               PROVE  LET got  == read_data(inode, Table(t)[k].pos, n).bytes_read
                          left == inode.length - Table(t)[k].pos
                      IN  /\ ReadsTheFile(inode, Table(t)[k].pos, n)
                          /\ got # -1 => got = IF left > 0 THEN Least(left, n) ELSE 0
    BY Zenon DEF ReadDataIsExact
  <1> DEFINE pos  == Table(t)[k].pos
             size == inode.length
             end  == Min({pos + n, size})
             part == Part(inode, pos, end)
  <1>1. Table(t)[k].inode \in Inodes /\ pos \in Nat
    BY DEF TypeOK, Table, Descriptor
  <1>2. WholeInode(inode) /\ size \in Nat /\ n \in Nat
    BY <1>1, OnDiskIsWhole, FileContentsAssumption
  <1> HIDE DEF pos
  <1>3. ReadsTheFile(inode, pos, n)
    BY <1>1, <1>2, ReadDataReadsTheFile
  <1>4. CASE pos >= size
    <2>1. read_data(inode, pos, n) = [bytes_read |-> 0, buf |-> << >>]
      BY <1>4, Zenon DEF read_data
    <2>2. ~(size - pos > 0)
      BY <1>1, <1>2, <1>4
    <2>3. read_data(inode, pos, n).bytes_read = 0
      BY <2>1
    <2> QED BY <1>3, <2>2, <2>3, Zenon DEF pos
  <1>5. CASE ~(pos >= size)
    <2>1. /\ end \in {pos + n, size} /\ end <= pos + n /\ end <= size
      <3> DEFINE S == {pos + n, size}
      <3>1. S \in SUBSET Nat /\ S # {}
        BY <1>1, <1>2
      <3>2. Min(S) \in S /\ \A y \in S : Min(S) <= y
        BY <3>1, MinIs
      <3> QED BY <3>2
    <2>2. read_data(inode, pos, n) = Outcome(part)
      BY <1>3, Zenon DEF ReadsTheFile
    <2> HIDE DEF end
    <2>3. /\ end \in Nat /\ pos <= end
          /\ end - pos = IF size - pos > 0 THEN Least(size - pos, n) ELSE 0
      BY <1>1, <1>2, <1>5, <2>1 DEF Least
    <2>4. Len(part) = end - pos
      BY <1>1, <1>2, <2>1, <2>3, PartIs
    <2> HIDE DEF part
    <2>5. Outcome(part).bytes_read = -1 \/ Outcome(part).bytes_read = Len(part)
      BY DEF Outcome
    <2> QED BY <1>3, <2>2, <2>3, <2>4, <2>5, Zenon DEF pos
  <1> QED BY <1>4, <1>5

\* Every read of a file returns the file's bytes from the position on, or -1.
THEOREM ReadsTheFilesBytes == Spec => []ReadDataIsExact
  BY ReadIsExact, TypeCorrect, PTL

-----------------------------------------------------------------------------
(* The tests of ece391syserr.                                                 *)

LEMMA TableSize == MAX_FILES \in Nat /\ MAX_FILES > 2
  BY FilesAssumption, Zenon

\* Calls that fail for a process with no descriptors but the first two.
Refused ==
         [sys : {"read"}, arg : Int \ {0}]
    \cup [sys : {"write"}, arg : Int \ {1}]
    \cup [sys : {"close"}, arg : Int]
    \cup [sys : {"vidmap"}, arg : {0, PAGE_SIZE_4MB}]
    \cup [sys : {"number"}, arg : Int \ (1 .. 10)]
    \cup [sys : {"open"}, name : {"helloo", "shel", ""}]

LEMMA RefusedFail ==
  ASSUME StdStreams, TypeOK, Unused(Tester) = Fd \ {0, 1},
         NEW c \in Refused, c.sys # "open"
  PROVE  Fails(Tester, c)
  <1>1. CASE c \in [sys : {"read"}, arg : Int \ {0}]
    <2>1. c.sys = "read" /\ ReadFails(Tester, c.arg)
      BY <1>1 DEF ReadFails, Unused
    <2> QED BY <2>1 DEF Fails
  <1>2. CASE c \in [sys : {"write"}, arg : Int \ {1}]
    <2>1. c.sys = "write" /\ WriteFails(Tester, c.arg)
      BY <1>2 DEF WriteFails, Unused
    <2> QED BY <2>1 DEF Fails
  <1>3. CASE c \in [sys : {"close"}, arg : Int]
    <2>1. c.sys = "close" /\ CloseFails(Tester, c.arg)
      BY <1>3, TableSize DEF CloseFails, Unused, Fd
    <2> QED BY <2>1 DEF Fails
  <1>4. CASE c \in [sys : {"vidmap"}, arg : {0, PAGE_SIZE_4MB}]
    <2>1. c.sys = "vidmap" /\ VidmapFails(c.arg)
      BY <1>4, SMT DEF VidmapFails, USER_MEM_START_VIR, PAGE_SIZE_4MB
    <2> QED BY <2>1 DEF Fails
  <1>5. CASE c \in [sys : {"number"}, arg : Int \ (1 .. 10)]
    <2>1. c.sys = "number" /\ NumberFails(c.arg)
      BY <1>5 DEF NumberFails
    <2> QED BY <2>1 DEF Fails
  <1>6. CASE c \in [sys : {"open"}, name : {"helloo", "shel", ""}]
    BY <1>6
  <1> QED BY <1>1, <1>2, <1>3, <1>4, <1>5, <1>6 DEF Refused

\* A name that is not in the boot block.
LEMMA UnknownNames ==
  ASSUME NEW c \in Refused, c.sys = "open"
  PROVE  c.name \notin Names
  <1>1. c.name \in {"helloo", "shel", ""}
    BY DEF Refused
  <1> QED BY <1>1, SyserrAssumption

\* The calls of all tests but one are calls that fail.
LEMMA TestsAreRefused ==
  /\ Len(Test) = 8 /\ OpenLots = 3
  /\ \A n \in 1 .. 8 : n # OpenLots => Test[n] \in Seq(Refused)
  /\ Test[OpenLots] = err_open_lots
  <1>1. ASSUME NEW sys \in {"read", "write", "close"}, NEW arg \in Int,
               sys = "read" => arg # 0, sys = "write" => arg # 1
        PROVE  Sys(sys, arg) \in Seq(Refused)
    <2>1. [sys |-> sys, arg |-> arg] \in Refused
      BY <1>1 DEF Refused
    <2> QED BY <2>1 DEF Sys
  <1>2. ASSUME NEW arg \in {0, PAGE_SIZE_4MB} PROVE Sys("vidmap", arg) \in Seq(Refused)
    <2>1. [sys |-> "vidmap", arg |-> arg] \in Refused
      BY DEF Refused
    <2> QED BY <2>1 DEF Sys
  <1>3. ASSUME NEW arg \in Int \ (1 .. 10) PROVE Sys("number", arg) \in Seq(Refused)
    <2>1. [sys |-> "number", arg |-> arg] \in Refused
      BY DEF Refused
    <2> QED BY <2>1 DEF Sys
  <1>4. ASSUME NEW sys \in {"read", "write", "close"}, NEW from \in {0, 2},
               sys # "close" => from = 2
        PROVE  Each(sys, from) \in Seq(Refused)
    <2>1. MAX_FILES - from \in Nat
      BY TableSize
    <2>2. \A k \in 1 .. MAX_FILES - from : [sys |-> sys, arg |-> from + k - 1] \in Refused
      <3> SUFFICES ASSUME NEW k \in 1 .. MAX_FILES - from
                   PROVE  [sys |-> sys, arg |-> from + k - 1] \in Refused
        OBVIOUS
      <3>1. /\ from + k - 1 \in Int /\ from = 2 => from + k - 1 >= 2
        BY TableSize
      <3> QED BY <1>4, <3>1 DEF Refused
    <2>3. Each(sys, from) \in [1 .. MAX_FILES - from -> Refused]
      BY <2>2 DEF Each
    <2> QED BY <2>1, <2>3, SeqDef
  <1>5. \A a, b \in Seq(Refused) : a \o b \in Seq(Refused)
    BY ConcatProperties
  <1>6. /\ NEG \in Int /\ NEG # 0 /\ NEG # 1 /\ NEG \notin 1 .. 10
        /\ BIG \in Int /\ BIG # 0 /\ BIG # 1 /\ BIG \notin 1 .. 10
    BY SMT DEF NEG, BIG
  <1>7. err_neg_fd \in Seq(Refused) /\ err_big_fd \in Seq(Refused)
    <2>1. \A sys \in {"read", "write", "close"} : \A arg \in {NEG, BIG} :
            Sys(sys, arg) \in Seq(Refused)
      BY <1>1, <1>6, Zenon
    <2>2. /\ Sys("read", NEG) \in Seq(Refused) /\ Sys("read", BIG) \in Seq(Refused)
          /\ Sys("write", NEG) \in Seq(Refused) /\ Sys("write", BIG) \in Seq(Refused)
          /\ Sys("close", NEG) \in Seq(Refused) /\ Sys("close", BIG) \in Seq(Refused)
      BY <2>1, Zenon
    <2> QED BY <1>5, <2>2, Zenon DEF err_neg_fd, err_big_fd
  <1>8. err_open \in Seq(Refused)
    <2>1. \A k \in 1 .. 3 : [sys |-> "open", name |-> <<"helloo", "shel", "">>[k]] \in Refused
      <3>1. \A k \in 1 .. 3 : <<"helloo", "shel", "">>[k] \in {"helloo", "shel", ""}
        <4>1. \A k \in 1 .. 3 : k = 1 \/ k = 2 \/ k = 3
          OBVIOUS
        <4>2. /\ <<"helloo", "shel", "">>[1] = "helloo"
              /\ <<"helloo", "shel", "">>[2] = "shel"
              /\ <<"helloo", "shel", "">>[3] = ""
          OBVIOUS
        <4> QED BY <4>1, <4>2, Zenon
      <3> QED BY <3>1 DEF Refused
    <2>2. err_open \in [1 .. 3 -> Refused]
      BY <2>1 DEF err_open
    <2> QED BY <2>2, SeqDef
  <1>9. err_unopened \in Seq(Refused)
    <2>1. /\ Each("close", 0) \in Seq(Refused) /\ Each("read", 2) \in Seq(Refused)
          /\ Each("write", 2) \in Seq(Refused)
      BY <1>4
    <2> QED BY <1>5, <2>1, Zenon DEF err_unopened
  <1>10. err_vidmap \in Seq(Refused) /\ err_stdin_out \in Seq(Refused)
    <2>1. /\ Sys("vidmap", 0) \in Seq(Refused)
          /\ Sys("vidmap", PAGE_SIZE_4MB) \in Seq(Refused)
      BY <1>2, Zenon
    <2>2. Sys("write", 0) \in Seq(Refused) /\ Sys("read", 1) \in Seq(Refused)
      BY <1>1
    <2>3. err_vidmap = Sys("vidmap", 0) \o Sys("vidmap", PAGE_SIZE_4MB)
      BY SMT DEF err_vidmap, PAGE_SIZE_4MB
    <2> QED BY <1>5, <2>1, <2>2, <2>3, Zenon DEF err_stdin_out
  <1>11. err_syscall_num \in Seq(Refused)
    <2>1. NEG \in Int \ (1 .. 10) /\ BIG \in Int \ (1 .. 10) /\ 0 \in Int \ (1 .. 10)
      BY <1>6
    <2>2. /\ Sys("number", BIG) \in Seq(Refused) /\ Sys("number", NEG) \in Seq(Refused)
          /\ Sys("number", 0) \in Seq(Refused)
      BY <1>3, <2>1, Zenon
    <2> QED BY <1>5, <2>2, Zenon DEF err_syscall_num
  <1>12. /\ Len(Test) = 8 /\ Test[1] = err_neg_fd /\ Test[2] = err_big_fd
         /\ Test[3] = err_open_lots /\ Test[4] = err_open /\ Test[5] = err_unopened
         /\ Test[6] = err_vidmap /\ Test[7] = err_stdin_out /\ Test[8] = err_syscall_num
    BY DEF Test
  <1>13. \A n \in 1 .. 8 : n = 1 \/ n = 2 \/ n = 3 \/ n = 4 \/ n = 5 \/ n = 6 \/ n = 7 \/ n = 8
    OBVIOUS
  <1> QED BY <1>7, <1>8, <1>9, <1>10, <1>11, <1>12, <1>13 DEF OpenLots

\* The other test opens as often as there are descriptors but one, and closes
\* each of them but the first two.
LEMMA LotsAre ==
  /\ Len(err_open_lots) = (MAX_FILES - 1) + (MAX_FILES - 2)
  /\ \A k \in 1 .. MAX_FILES - 1 : err_open_lots[k] = [sys |-> "open", name |-> "."]
  /\ \A j \in 1 .. MAX_FILES - 2 :
       err_open_lots[(MAX_FILES - 1) + j] = [sys |-> "close", arg |-> j + 1]
  <1> DEFINE opens  == [k \in 1 .. MAX_FILES - 1 |-> [sys |-> "open", name |-> "."]]
             closes == Each("close", 2)
             S == [sys : {"open"}, name : {"."}] \cup [sys : {"close"}, arg : Int]
  <1>1. MAX_FILES - 1 \in Nat /\ MAX_FILES - 2 \in Nat
    BY TableSize
  <1>2. opens \in Seq(S) /\ Len(opens) = MAX_FILES - 1
    <2>1. opens \in [1 .. MAX_FILES - 1 -> S]
      OBVIOUS
    <2> HIDE DEF opens, S
    <2>2. opens \in Seq(S)
      BY <1>1, <2>1, SeqDef
    <2> QED BY <1>1, <2>1, <2>2, LenProperties
  <1>3. closes \in [1 .. MAX_FILES - 2 -> S]
        /\ \A j \in 1 .. MAX_FILES - 2 : closes[j] = [sys |-> "close", arg |-> j + 1]
    <2>1. \A j \in 1 .. MAX_FILES - 2 : 2 + j - 1 = j + 1 /\ j + 1 \in Int
      OBVIOUS
    <2> QED BY <2>1 DEF Each
  <1>4. closes \in Seq(S) /\ Len(closes) = MAX_FILES - 2
    <2> HIDE DEF closes, S
    <2>1. closes \in Seq(S)
      BY <1>1, <1>3, SeqDef
    <2> QED BY <1>1, <1>3, <2>1, LenProperties
  <1>5. err_open_lots = opens \o closes
    BY DEF err_open_lots
  <1>6. \A k \in 1 .. MAX_FILES - 1 : opens[k] = [sys |-> "open", name |-> "."]
    OBVIOUS
  <1> HIDE DEF opens, closes, S
  <1>7. /\ Len(opens \o closes) = Len(opens) + Len(closes)
        /\ \A k \in 1 .. Len(opens) + Len(closes) :
             (opens \o closes)[k] = IF k <= Len(opens) THEN opens[k]
                                    ELSE closes[k - Len(opens)]
    BY <1>2, <1>4, ConcatProperties
  <1>8. \A k \in 1 .. MAX_FILES - 1 : /\ k \in 1 .. Len(opens) + Len(closes)
                                      /\ k <= Len(opens)
    BY <1>1, <1>2, <1>4
  <1>9. \A j \in 1 .. MAX_FILES - 2 :
          /\ (MAX_FILES - 1) + j \in 1 .. Len(opens) + Len(closes)
          /\ ~((MAX_FILES - 1) + j <= Len(opens))
          /\ ((MAX_FILES - 1) + j) - Len(opens) = j
    BY <1>1, <1>2, <1>4
  <1>10. Len(err_open_lots) = (MAX_FILES - 1) + (MAX_FILES - 2)
    BY <1>2, <1>4, <1>5, <1>7
  <1>11. \A k \in 1 .. MAX_FILES - 1 : err_open_lots[k] = [sys |-> "open", name |-> "."]
    BY <1>5, <1>6, <1>7, <1>8, Zenon
  <1>12. ASSUME NEW j \in 1 .. MAX_FILES - 2
         PROVE  err_open_lots[(MAX_FILES - 1) + j] = [sys |-> "close", arg |-> j + 1]
    <2>1. err_open_lots[(MAX_FILES - 1) + j] = closes[((MAX_FILES - 1) + j) - Len(opens)]
      BY <1>5, <1>7, <1>9, Zenon
    <2> QED BY <1>3, <1>9, <2>1, Zenon
  <1> QED BY <1>10, <1>11, <1>12

LEMMA TesterIs == Tester \in Term /\ Fd \ {0, 1} = 2 .. MAX_FILES - 1
  BY FilesAssumption DEF Tester, Term, Fd

\* A test starts where the one before it has left the table whole.
LEMMA TestBegins ==
  ASSUME call[Tester].at = "idle", made = 0, cnt = 0, Unused(Tester) = Fd \ {0, 1}
  PROVE  LotsSoFar /\ Quiet
  <1>1. 0 \in 0 .. MAX_FILES - 2 /\ 0 + 2 = 2 /\ 0 \in Nat
    BY TableSize
  <1> QED BY <1>1, TesterIs, Zenon DEF LotsSoFar, Quiet

\* The current call, in each of the two cases.
LEMMA ThisIs ==
  ASSUME tests \in Seq(1 .. 8), tests # << >>, made \in Nat, made < Len(Current)
  PROVE  /\ Head(tests) # OpenLots => This \in Refused
         /\ Head(tests) = OpenLots =>
              /\ Current = err_open_lots
              /\ made < MAX_FILES - 1 => This = [sys |-> "open", name |-> "."]
              /\ made >= MAX_FILES - 1 =>
                   /\ made - (MAX_FILES - 2) \in 1 .. MAX_FILES - 2
                   /\ This = [sys |-> "close", arg |-> (made - (MAX_FILES - 2)) + 1]
  <1>1. Head(tests) \in 1 .. 8
    BY HeadTailProperties
  <1>2. CASE Head(tests) # OpenLots
    <2>1. Current \in Seq(Refused)
      BY <1>1, <1>2, TestsAreRefused DEF Current
    <2>2. made + 1 \in 1 .. Len(Current) /\ Current \in [1 .. Len(Current) -> Refused]
      BY <2>1, LenProperties
    <2> QED BY <1>2, <2>2 DEF This
  <1>3. CASE Head(tests) = OpenLots
    <2>1. Current = err_open_lots
      BY <1>3, TestsAreRefused DEF Current
    <2>2. made < (MAX_FILES - 1) + (MAX_FILES - 2)
      BY <2>1, LotsAre
    <2>3. made < MAX_FILES - 1 => made + 1 \in 1 .. MAX_FILES - 1
      BY TableSize
    <2>4. made >= MAX_FILES - 1 =>
            /\ made - (MAX_FILES - 2) \in 1 .. MAX_FILES - 2
            /\ made + 1 = (MAX_FILES - 1) + (made - (MAX_FILES - 2))
      BY <2>2, TableSize
    <2> QED BY <1>3, <2>1, <2>3, <2>4, LotsAre DEF This
  <1> QED BY <1>2, <1>3

\* Every step of the tests and the other terminals is one of Files.
LEMMA SysStepIsStep ==
  ASSUME SysInv, [SysNext]_sysvars
  PROVE  [Next]_vars
  <1>0. ASSUME ~Hung, NEW t \in Term, Step(t) PROVE Next
    BY <1>0 DEF Next
  <1>1. ASSUME NEW select \in 0 .. 9, Start(select) PROVE Step(Tester)
    BY <1>1, FilesAssumption DEF Start, Step
  <1>2. ASSUME CallClose PROVE Step(Tester)
    <2>1. /\ Running /\ OpensLots /\ tests \in Seq(1 .. 8) /\ made < Len(Current)
          /\ This.sys = "close" /\ Close(Tester, This.arg)
      BY <1>2 DEF CallClose, Calls, OpensLots, SysInv
    <2>2. made \in Nat /\ tests # << >> /\ Head(tests) = OpenLots
      BY <2>1, TableSize DEF SysInv, LotsSoFar, OpensLots
    <2>3. This.arg \in Fd
      <3>1. CASE made < MAX_FILES - 1
        <4>1. This = [sys |-> "open", name |-> "."]
          BY <2>1, <2>2, <3>1, ThisIs
        <4> QED BY <2>1, <4>1
      <3>2. CASE made >= MAX_FILES - 1
        <4>1. /\ made - (MAX_FILES - 2) \in 1 .. MAX_FILES - 2
              /\ This = [sys |-> "close", arg |-> (made - (MAX_FILES - 2)) + 1]
          BY <2>1, <2>2, <3>2, ThisIs
        <4>2. (made - (MAX_FILES - 2)) + 1 \in Fd
          BY <4>1, <2>2, TableSize DEF Fd
        <4> QED BY <4>1, <4>2
      <3> QED BY <2>2, <3>1, <3>2, TableSize
    <2> QED BY <2>1, <2>3 DEF Step
  <1>3. ASSUME CallOpen \/ OpenFails \/ OpenGoesOn \/ CloseGoesOn \/ Ends
        PROVE  Step(Tester)
    BY <1>3 DEF CallOpen, OpenFails, OpenGoesOn, CloseGoesOn, Ends, Step
  <1>4. ASSUME CallExpectsFailure \/ CallOpenUnknown \/ TestEnds PROVE UNCHANGED vars
    BY <1>4, Zenon DEF CallExpectsFailure, CallOpenUnknown, TestEnds
  <1>5. ASSUME OtherTerminal PROVE \E t \in Term : Step(t)
    BY <1>5 DEF OtherTerminal
  <1>6. ASSUME UNCHANGED sysvars PROVE UNCHANGED vars
    BY <1>6 DEF sysvars
  <1>7. ASSUME ~Hung, TickGoesOn PROVE Next
    BY <1>7 DEF TickGoesOn, Next
  <1> QED BY <1>0, <1>1, <1>2, <1>3, <1>4, <1>5, <1>6, <1>7, TesterIs, Zenon DEF SysNext

\* What leaves terminal 0's table, call and the program's state alone.
LEMMA SysInvKept ==
  ASSUME SysInv, IInv', call'[Tester] = call[Tester], UNCHANGED prog,
         depth'[Tester] = depth[Tester],
         \A k \in Fd : fd_array'[Tester][depth[Tester]][k].used
                         = fd_array[Tester][depth[Tester]][k].used
  PROVE  SysInv'
  <1>1. Unused(Tester)' = Unused(Tester)
    BY DEF Unused, Table
  <1>2. tests' = tests /\ made' = made /\ cnt' = cnt /\ fail' = fail
    BY DEF prog
  <1>3. (Running <=> Running') /\ (OpensLots <=> OpensLots')
    BY <1>2, Zenon DEF Running, OpensLots
  <1>4. LotsSoFar => LotsSoFar'
    BY <1>1, <1>2, Zenon DEF LotsSoFar, Typing
  <1>5. Quiet => Quiet'
    BY <1>1, <1>2, Zenon DEF Quiet
  <1> QED BY <1>2, <1>3, <1>4, <1>5, Zenon DEF SysInv

\* How a step changes which descriptors are unused.
LEMMA SetFdUnused ==
  ASSUME TypeOK, NEW t \in Term, NEW k \in Fd, NEW fd, SetFd(t, k, fd), depth'[t] = depth[t]
  PROVE  /\ fd.used => Unused(t)' = Unused(t) \ {k}
         /\ ~fd.used => Unused(t)' = Unused(t) \cup {k}
  <1>1. Table(t)' = [Table(t) EXCEPT ![k] = fd] /\ Table(t) \in [Fd -> Descriptor]
    BY DEF TypeOK, SetFd, Table
  <1> QED BY <1>1 DEF Unused

LEMMA CloseUnused ==
  ASSUME TypeOK, AllSound, NEW t \in Term, NEW k \in Fd, k >= 2, Close(t, k)
  PROVE  Unused(t)' = Unused(t) \cup {k}
  <1>0. UNCHANGED depth /\ Table(t)[k] \in Descriptor
    BY TopSound DEF Close
  <1>1. CASE Table(t)[k].used
    <2>1. SetFd(t, k, Reset(Table(t)[k])) /\ ~Reset(Table(t)[k]).used
      <3>1. ~Reset(Table(t)[k]).used
        BY <1>0, ResetEffect
      <3> QED BY <1>1, <3>1, CloseIs
    <2> QED BY <1>0, <2>1, SetFdUnused
  <1>2. CASE ~Table(t)[k].used
    <2>1. UNCHANGED fd_array /\ k \in Unused(t)
      BY <1>2, CloseIs DEF Unused
    <2> QED BY <1>0, <2>1 DEF Unused, Table
  <1> QED BY <1>1, <1>2

LEMMA MadeIs ==
  ASSUME SysInv, Running
  PROVE  made \in Nat /\ (OpensLots => LotsSoFar) /\ (~OpensLots => Quiet)
  <1>1. (OpensLots => LotsSoFar) /\ (~OpensLots => Quiet)
    BY Zenon DEF SysInv
  <1>2. LotsSoFar => made \in Nat
    BY TableSize DEF LotsSoFar
  <1>3. Quiet => made \in Nat
    BY DEF Quiet
  <1> QED BY <1>1, <1>2, <1>3

\* What all calls of the tests have in common.
LEMMA CallsAre ==
  ASSUME SysInv, Calls
  PROVE  /\ Running /\ call[Tester].at = "idle"
         /\ tests \in Seq(1 .. 8) /\ tests # << >>
         /\ made \in Nat /\ made < Len(Current)
         /\ (Head(tests) = OpenLots <=> OpensLots)
  BY MadeIs DEF SysInv, Calls, OpensLots

LEMMA CallExpectsFailureInv ==
  ASSUME SysInv, IInv', CallExpectsFailure
  PROVE  SysInv'
  <1>1. /\ Calls /\ This.sys # "open" /\ Head(tests) # OpenLots
        /\ made' = made + 1 /\ fail' = (IF Fails(Tester, This) THEN fail ELSE 2)
        /\ depth' = depth /\ fd_array' = fd_array /\ call' = call
        /\ tests' = tests /\ cnt' = cnt
    BY Zenon DEF CallExpectsFailure, vars
  <1>2. ~OpensLots /\ Quiet /\ Running
    BY <1>1, CallsAre, MadeIs, Zenon DEF OpensLots
  <1>3. This \in Refused
    BY <1>1, CallsAre, ThisIs
  <1>4. Fails(Tester, This)
    BY <1>1, <1>2, <1>3, RefusedFail, Zenon DEF Quiet, SysInv, IInv
  <1>5. Unused(Tester)' = Unused(Tester)
    BY <1>1, Zenon DEF Unused, Table
  <1>6. Quiet'
    <2>1. made' \in Nat
      BY <1>1, <1>2 DEF Quiet
    <2> QED BY <1>1, <1>2, <1>5, <2>1, Zenon DEF Quiet
  <1>7. ~OpensLots'
    BY <1>1, <1>2, Zenon DEF OpensLots
  <1> QED BY <1>1, <1>4, <1>6, <1>7, Zenon DEF SysInv

LEMMA CallOpenUnknownInv ==
  ASSUME SysInv, IInv', CallOpenUnknown
  PROVE  SysInv'
  <1>1. /\ Calls /\ This.sys = "open" /\ This.name \notin Names
        /\ made' = made + 1
        /\ depth' = depth /\ fd_array' = fd_array /\ call' = call
        /\ tests' = tests /\ cnt' = cnt /\ fail' = fail
    BY Zenon DEF CallOpenUnknown, vars
  <1>2. ~OpensLots
    <2>1. ASSUME OpensLots PROVE FALSE
      <3>1. Head(tests) = OpenLots
        BY <2>1 DEF OpensLots
      <3>2. made < MAX_FILES - 1 \/ made >= MAX_FILES - 1
        BY <1>1, CallsAre, TableSize
      <3>3. This = [sys |-> "open", name |-> "."]
            \/ This = [sys |-> "close", arg |-> (made - (MAX_FILES - 2)) + 1]
        BY <1>1, <3>1, <3>2, CallsAre, ThisIs
      <3>4. This.name = "."
        BY <1>1, <3>3
      <3> QED BY <1>1, <3>4, SyserrAssumption
    <2> QED BY <2>1
  <1>3. Quiet /\ Running
    BY <1>1, <1>2, CallsAre, MadeIs, Zenon
  <1>4. Unused(Tester)' = Unused(Tester)
    BY <1>1, Zenon DEF Unused, Table
  <1>5. Quiet'
    <2>1. made' \in Nat
      BY <1>1, <1>3 DEF Quiet
    <2> QED BY <1>1, <1>3, <1>4, <2>1, Zenon DEF Quiet
  <1>6. ~OpensLots'
    BY <1>1, <1>2, Zenon DEF OpensLots
  <1> QED BY <1>1, <1>5, <1>6, Zenon DEF SysInv

LEMMA CallOpenInv ==
  ASSUME SysInv, IInv', CallOpen
  PROVE  SysInv'
  <1>1. /\ Calls /\ This.sys = "open" /\ This.name \in Names
        /\ OpenLookup(Tester, This.name) /\ made' = made + 1
        /\ depth' = depth /\ fd_array' = fd_array
        /\ tests' = tests /\ cnt' = cnt /\ fail' = fail
    BY Zenon DEF CallOpen, OpenLookup
  <1>2. /\ Running /\ call[Tester].at = "idle" /\ made \in Nat /\ made < Len(Current)
        /\ tests \in Seq(1 .. 8) /\ tests # << >>
    BY <1>1, CallsAre
  <1>3. Head(tests) = OpenLots
    <2>1. ASSUME Head(tests) # OpenLots PROVE FALSE
      BY <1>1, <1>2, <2>1, ThisIs, UnknownNames
    <2> QED BY <2>1
  <1>4. OpensLots /\ LotsSoFar
    BY <1>2, <1>3, MadeIs, Zenon DEF OpensLots
  <1>5. made < MAX_FILES - 1
    <2>1. ASSUME made >= MAX_FILES - 1 PROVE FALSE
      <3>1. This = [sys |-> "close", arg |-> (made - (MAX_FILES - 2)) + 1]
        BY <1>2, <1>3, <2>1, ThisIs
      <3> QED BY <1>1, <3>1
    <2> QED BY <1>2, <2>1, TableSize
  <1>6. /\ made \in 0 .. MAX_FILES - 2 /\ cnt = 0
        /\ Unused(Tester) = made + 2 .. MAX_FILES - 1
    BY <1>2, <1>4, <1>5, TableSize DEF LotsSoFar
  <1>7. call'[Tester].at = "take"
    <2>1. call' = [call EXCEPT ![Tester] = [Idle EXCEPT !.at = "take",
                                                        !.entry = Entry(This.name)]]
      BY <1>1, Zenon DEF OpenLookup
    <2>2. Entry(This.name) \in Entries
      BY <1>1, EntryType
    <2>3. [Idle EXCEPT !.at = "take", !.entry = Entry(This.name)].at = "take"
      BY <2>2, NewCallType, Zenon
    <2>4. Tester \in DOMAIN call
      BY TesterIs DEF SysInv, IInv, TypeOK
    <2> QED BY <2>1, <2>3, <2>4, Zenon
  <1>8. Unused(Tester)' = Unused(Tester)
    BY <1>1, Zenon DEF Unused, Table
  <1>9. made' \in 1 .. MAX_FILES - 1 /\ made' + 1 = made + 2
    BY <1>1, <1>6, TableSize
  <1>10. LotsSoFar'
    BY <1>1, <1>6, <1>7, <1>8, <1>9, Zenon DEF LotsSoFar
  <1>11. OpensLots'
    BY <1>1, <1>4, Zenon DEF OpensLots
  <1> QED BY <1>1, <1>10, <1>11, Zenon DEF SysInv

LEMMA CallCloseInv ==
  ASSUME SysInv, IInv', CallClose
  PROVE  SysInv'
  <1>0. TypeOK /\ AllSound /\ Tester \in Term
    BY TablesAreSound, TesterIs DEF SysInv, IInv, Tables
  <1>1. /\ Calls /\ This.sys = "close" /\ Head(tests) = OpenLots
        /\ Close(Tester, This.arg) /\ made' = made + 1
        /\ depth' = depth
        /\ tests' = tests /\ cnt' = cnt /\ fail' = fail
    BY Zenon DEF CallClose, Close
  <1>2. /\ Running /\ call[Tester].at = "idle" /\ made \in Nat /\ made < Len(Current)
        /\ tests \in Seq(1 .. 8) /\ tests # << >>
    BY <1>1, CallsAre
  <1>3. OpensLots /\ LotsSoFar
    BY <1>1, <1>2, MadeIs, Zenon DEF OpensLots
  <1>4. made >= MAX_FILES - 1
    <2>1. ASSUME made < MAX_FILES - 1 PROVE FALSE
      <3>1. This = [sys |-> "open", name |-> "."]
        BY <1>1, <1>2, <2>1, ThisIs
      <3> QED BY <1>1, <3>1
    <2> QED BY <1>2, <2>1, TableSize
  <1> DEFINE j == made - (MAX_FILES - 2)
  <1>5. j \in 1 .. MAX_FILES - 2 /\ This.arg = j + 1
    BY <1>1, <1>2, <1>4, ThisIs
  <1>6. cnt = 1 /\ Unused(Tester) = 2 .. j
    BY <1>2, <1>3, <1>4, TableSize DEF LotsSoFar
  <1>7. j + 1 \in Fd /\ j + 1 >= 2
    BY <1>2, <1>5, TableSize DEF Fd
  <1>8. Unused(Tester)' = Unused(Tester) \cup {j + 1}
    BY <1>0, <1>1, <1>5, <1>7, CloseUnused
  <1>9. /\ made' - (MAX_FILES - 2) = j + 1
        /\ made' \in MAX_FILES - 1 .. (MAX_FILES - 1) + (MAX_FILES - 2)
    BY <1>1, <1>2, <1>4, <1>5, TableSize
  <1>10. (2 .. j) \cup {j + 1} = 2 .. j + 1
    BY <1>5, <1>7, <1>2, TableSize
  <1>11. Unused(Tester)' = 2 .. made' - (MAX_FILES - 2)
    <2> HIDE DEF j
    <2> QED BY <1>6, <1>8, <1>9, <1>10
  <1>14. call'[Tester].at \in {"idle", "close"}
    <2> DEFINE k == j + 1
    <2>1. k \in Fd /\ k >= 2 /\ Close(Tester, k)
      BY <1>1, <1>5, <1>7
    <2> HIDE DEF k
    <2>2. depth[Tester] \in Depth /\ 1 < depth[Tester] /\ depth[Tester] <= depth[Tester]
      BY <1>0, <1>2 DEF Running, TypeOK, Depth
    <2>3. Table(Tester)[k].used => Table(Tester)[k].op # "none"
      <3>1. HalfOpenInRootsOnly
        BY DEF SysInv, IInv
      <3>2. ~HalfOpen(Tester, depth[Tester], k)
        BY <1>0, <1>2, <2>1, <2>2, <3>1 DEF HalfOpenInRootsOnly, Typing
      <3> QED BY <3>2 DEF HalfOpen, Table
    <2>4. CASE Table(Tester)[k].used
      <3>1. call'[Tester].at = "idle" \/ call'[Tester].at = "close"
        <4> HIDE DEF j
        <4> QED BY <1>0, <2>1, <2>3, <2>4, CloseIs
      <3> QED BY <3>1
    <2>5. CASE ~Table(Tester)[k].used
      BY <1>0, <1>2, <2>1, <2>5, CloseIs
    <2> QED BY <2>4, <2>5
  <1>12. LotsSoFar'
    BY <1>1, <1>2, <1>6, <1>9, <1>11, <1>14, Zenon DEF LotsSoFar
  <1>13. OpensLots'
    BY <1>1, <1>3, Zenon DEF OpensLots
  <1> QED BY <1>1, <1>12, <1>13, Zenon DEF SysInv

\* An open in progress is one of err_open_lots.
LEMMA OpenIsOfLots ==
  ASSUME SysInv, Running, call[Tester].at # "idle"
  PROVE  OpensLots /\ LotsSoFar
  <1>1. ~Quiet
    BY DEF Quiet
  <1> QED BY <1>1, MadeIs, Zenon

LEMMA OpenFailsInv ==
  ASSUME SysInv, IInv', OpenFails
  PROVE  SysInv'
  <1>1. /\ call[Tester].at = "take" /\ Unused(Tester) = {} /\ cnt' = cnt + 1
        /\ call' = [call EXCEPT ![Tester] = Idle]
        /\ depth' = depth /\ fd_array' = fd_array
        /\ tests' = tests /\ made' = made /\ fail' = fail
    BY Zenon DEF OpenFails, OpenNoDescriptor
  <1>2. Running' = Running /\ OpensLots' = OpensLots /\ Unused(Tester)' = Unused(Tester)
    BY <1>1, Zenon DEF Running, OpensLots, Unused, Table
  <1>3. CASE Running
    <2>1. OpensLots /\ LotsSoFar
      BY <1>1, <1>3, OpenIsOfLots
    <2>2. /\ made \in 1 .. MAX_FILES - 1 /\ cnt = 0
          /\ Unused(Tester) = made + 1 .. MAX_FILES - 1
      BY <1>1, <2>1 DEF LotsSoFar, Typing
    <2>3. made = MAX_FILES - 1
      <3>1. ASSUME made # MAX_FILES - 1 PROVE FALSE
        <4>1. made + 1 \in made + 1 .. MAX_FILES - 1
          BY <2>2, <3>1, TableSize
        <4> QED BY <1>1, <2>2, <4>1
      <3> QED BY <3>1
    <2>4. /\ made \in MAX_FILES - 1 .. (MAX_FILES - 1) + (MAX_FILES - 2)
          /\ 2 .. made - (MAX_FILES - 2) = {} /\ cnt' = 1
      BY <1>1, <2>2, <2>3, TableSize
    <2>5. call'[Tester].at = "idle"
      <3>1. Tester \in DOMAIN call
        BY TesterIs DEF SysInv, IInv, TypeOK
      <3> QED BY <1>1, <3>1, IdleType, Zenon
    <2>6. LotsSoFar'
      BY <1>1, <1>2, <2>4, <2>5, Zenon DEF LotsSoFar
    <2> QED BY <1>1, <1>2, <2>1, <2>6, Zenon DEF SysInv
  <1> QED BY <1>1, <1>2, <1>3, Zenon DEF SysInv

\* open()'s stores into its descriptor do not change whether it is in use.
LEMMA OpenStoresWhat ==
  ASSUME TypeOK, NEW t \in Term, OpenInode(t) \/ OpenType(t) \/ OpenOther(t)
  PROVE  \E fd \in Descriptor, place \in {"type", "other", "opened"} :
           Opens(t, fd, place) /\ fd.used = Taken(t).used
  <1>1. /\ Taken(t) \in Descriptor
        /\ \A op \in Types : /\ [Taken(t) EXCEPT !.op = op] \in Descriptor
                             /\ [Taken(t) EXCEPT !.op = op].used = Taken(t).used
    BY TakenType DEF Descriptor
  <1>2. CASE OpenInode(t)
    <2>1. file_dentry.inode \in Inodes
      BY EntriesType DEF TypeOK
    <2>2. /\ [Taken(t) EXCEPT !.inode = file_dentry.inode] \in Descriptor
          /\ [Taken(t) EXCEPT !.inode = file_dentry.inode].used = Taken(t).used
      BY <1>1, <2>1 DEF Descriptor
    <2> QED BY <1>2, <2>2 DEF OpenInode
  <1>3. "rtc" \in Types /\ (IF file_dentry.filetype = "dir" THEN "dir" ELSE "file") \in Types
    BY DEF Types
  <1>4. CASE OpenType(t)
    BY <1>1, <1>3, <1>4 DEF OpenType
  <1>5. CASE OpenOther(t)
    BY <1>1, <1>3, <1>5 DEF OpenOther
  <1> QED BY <1>2, <1>4, <1>5

LEMMA OpenGoesOnInv ==
  ASSUME SysInv, IInv', OpenGoesOn
  PROVE  SysInv'
  <1>1. /\ tests' = tests /\ made' = made /\ cnt' = cnt /\ fail' = fail
        /\ depth' = depth
        /\ \/ call[Tester].at = "take" /\ OpenTake(Tester)
           \/ call[Tester].at \in {"inode", "type", "other", "opened", "lookup"}
    BY DEF OpenGoesOn, OpenTake, OpenInode, OpenType, OpenOther, Opens, OpenRtc, DirOpen,
           OpenLooksAgain, prog
  <1>2. Running' = Running /\ OpensLots' = OpensLots
    BY <1>1, Zenon DEF Running, OpensLots
  <1>3. CASE Running
    <2>1. OpensLots /\ LotsSoFar
      BY <1>1, <1>3, OpenIsOfLots
    <2>2. /\ TypeOK /\ Tester \in Term /\ Tester \in DOMAIN call /\ call[Tester] \in Call
          /\ call \in [Term -> Call]
      BY TesterIs DEF SysInv, IInv, TypeOK
    <2>3. CASE OpenTake(Tester)
      <3>1. PICK k \in Unused(Tester) :
              /\ \A m \in Unused(Tester) : k <= m
              /\ SetFd(Tester, k, [Table(Tester)[k] EXCEPT !.used = TRUE])
              /\ call' = [call EXCEPT ![Tester].at = "inode", ![Tester].fd = k]
        BY <2>3 DEF OpenTake
      <3>2. /\ made \in 1 .. MAX_FILES - 1 /\ cnt = 0
            /\ Unused(Tester) = made + 1 .. MAX_FILES - 1
        BY <2>1, <2>3 DEF LotsSoFar, OpenTake, Typing
      <3>3. k = made + 1 /\ made \in 1 .. MAX_FILES - 2
        <4>1. k \in made + 1 .. MAX_FILES - 1
          BY <3>1, <3>2
        <4>2. made + 1 \in made + 1 .. MAX_FILES - 1
          BY <3>2, <4>1, TableSize
        <4>3. k <= made + 1
          BY <3>1, <3>2, <4>2
        <4> QED BY <3>2, <4>1, <4>3, TableSize
      <3>4. k \in Fd /\ Table(Tester)[k] \in Descriptor
        BY <2>2, TableType DEF Unused
      <3>5. Unused(Tester)' = Unused(Tester) \ {k}
        <4> DEFINE fd == [Table(Tester)[k] EXCEPT !.used = TRUE]
        <4>1. fd.used
          BY <3>4 DEF Descriptor
        <4> HIDE DEF fd
        <4>2. SetFd(Tester, k, fd)
          BY <3>1 DEF fd
        <4> QED BY <1>1, <2>2, <3>4, <4>1, <4>2, SetFdUnused
      <3>6. (made + 1 .. MAX_FILES - 1) \ {made + 1} = made + 2 .. MAX_FILES - 1
        BY <3>2, TableSize
      <3>7. call'[Tester].at = "inode"
        BY <2>2, <3>1 DEF Call
      <3>8. Unused(Tester)' = made + 2 .. MAX_FILES - 1
        BY <3>2, <3>3, <3>5, <3>6, Zenon
      <3>9. Typing(Tester)'
        BY <3>7 DEF Typing
      <3>10. LotsSoFar'
        BY <1>1, <3>2, <3>3, <3>8, <3>9, Zenon DEF LotsSoFar
      <3> QED BY <1>1, <1>2, <2>1, <3>10, Zenon DEF SysInv
    <2>4. ASSUME ~OpenTake(Tester)
          PROVE  /\ Unused(Tester)' = Unused(Tester)
                 /\ call'[Tester].at \in {"type", "other", "opened", "lookup", "idle"}
      <3>1. CASE OpenInode(Tester) \/ OpenType(Tester) \/ OpenOther(Tester)
        <4>1. PICK fd \in Descriptor, place \in {"type", "other", "opened"} :
                Opens(Tester, fd, place) /\ fd.used = Taken(Tester).used
          BY <2>2, <3>1, OpenStoresWhat
        <4>2. /\ call[Tester].fd \in Fd /\ SetFd(Tester, call[Tester].fd, fd)
              /\ Table(Tester) \in [Fd -> Descriptor]
          BY <2>2, <4>1, TakenType, TableType DEF Opens
        <4>3. fd.used <=> call[Tester].fd \notin Unused(Tester)
          BY <4>1, <4>2 DEF Unused, Taken
        <4>4. Unused(Tester)' = Unused(Tester)
          <5>1. /\ fd.used => Unused(Tester)' = Unused(Tester) \ {call[Tester].fd}
                /\ ~fd.used => Unused(Tester)' = Unused(Tester) \cup {call[Tester].fd}
            BY <1>1, <2>2, <4>2, SetFdUnused
          <5> QED BY <4>3, <5>1
        <4>5. call'[Tester].at = place
          BY <2>2, <4>1 DEF Opens, Call
        <4> QED BY <4>4, <4>5
      <3>2. CASE OpenRtc(Tester) \/ OpenLooksAgain(Tester)
        <4>1. fd_array' = fd_array /\ call' = [call EXCEPT ![Tester] = Idle]
          BY <3>2 DEF OpenRtc, OpenLooksAgain
        <4>2. Unused(Tester)' = Unused(Tester)
          BY <1>1, <4>1, Zenon DEF Unused, Table
        <4>3. call'[Tester].at = "idle"
          BY <2>2, <4>1, IdleType, Zenon
        <4> QED BY <4>2, <4>3
      <3>3. CASE DirOpen(Tester)
        <4>1. fd_array' = fd_array /\ call' = [call EXCEPT ![Tester].at = "lookup"]
          BY <3>3 DEF DirOpen
        <4>2. Unused(Tester)' = Unused(Tester)
          BY <1>1, <4>1, Zenon DEF Unused, Table
        <4>3. call'[Tester].at = "lookup"
          BY <2>2, <4>1 DEF Call
        <4> QED BY <4>2, <4>3
      <3> QED BY <2>4, <3>1, <3>2, <3>3 DEF OpenGoesOn
    <2>5. CASE ~OpenTake(Tester)
      <3>1. /\ made \in 1 .. MAX_FILES - 2 /\ cnt = 0
            /\ Unused(Tester) = made + 2 .. MAX_FILES - 1
        BY <1>1, <2>1, <2>5 DEF LotsSoFar
      <3>2. made \in 0 .. MAX_FILES - 2
        BY <3>1
      <3>3. /\ Unused(Tester)' = Unused(Tester)
            /\ \/ call'[Tester].at = "idle"
               \/ Typing(Tester)' \/ call'[Tester].at \in {"opened", "lookup"}
        BY <2>4, <2>5 DEF Typing
      <3>4. LotsSoFar'
        BY <1>1, <3>1, <3>2, <3>3, Zenon DEF LotsSoFar
      <3> QED BY <1>1, <1>2, <2>1, <3>4, Zenon DEF SysInv
    <2> QED BY <2>3, <2>5
  <1> QED BY <1>1, <1>2, <1>3, Zenon DEF SysInv

LEMMA TestEndsInv ==
  ASSUME SysInv, IInv', TestEnds
  PROVE  SysInv'
  <1>1. /\ Running /\ call[Tester].at = "idle" /\ tests # << >> /\ made = Len(Current)
        /\ tests' = Tail(tests) /\ made' = 0 /\ cnt' = 0
        /\ fail' = (IF Head(tests) = OpenLots /\ cnt # 1 THEN 2 ELSE fail)
        /\ depth' = depth /\ fd_array' = fd_array /\ call' = call
    BY Zenon DEF TestEnds, vars
  <1>2. tests \in Seq(1 .. 8) /\ fail = 0
    BY DEF SysInv
  <1>3. tests' \in Seq(1 .. 8)
    BY <1>1, <1>2, HeadTailProperties
  <1>4. Unused(Tester) = Fd \ {0, 1} /\ (Head(tests) = OpenLots => cnt = 1)
    <2>1. CASE Head(tests) = OpenLots
      <3>1. LotsSoFar
        BY <1>1, <2>1, MadeIs, Zenon DEF OpensLots
      <3>2. made = (MAX_FILES - 1) + (MAX_FILES - 2)
        BY <1>1, <2>1, TestsAreRefused, LotsAre DEF Current
      <3>3. cnt = 1 /\ Unused(Tester) = 2 .. made - (MAX_FILES - 2)
        BY <1>1, <3>1, <3>2, TableSize DEF LotsSoFar
      <3>4. made - (MAX_FILES - 2) = MAX_FILES - 1
        BY <3>2, TableSize
      <3> QED BY <3>3, <3>4, TesterIs
    <2>2. CASE Head(tests) # OpenLots
      BY <1>1, <2>2, MadeIs, Zenon DEF OpensLots, Quiet
    <2> QED BY <2>1, <2>2
  <1>5. fail' = 0
    BY <1>1, <1>2, <1>4
  <1>6. Unused(Tester)' = Fd \ {0, 1}
    BY <1>1, <1>4, Zenon DEF Unused, Table
  <1>7. LotsSoFar' /\ Quiet'
    <2>1. call[Tester].at = "idle" /\ made = 0 /\ cnt = 0 /\ Unused(Tester) = Fd \ {0, 1}
            => LotsSoFar /\ Quiet
      BY TestBegins
    <2>2. (call[Tester].at = "idle" /\ made = 0 /\ cnt = 0 /\ Unused(Tester) = Fd \ {0, 1}
            => LotsSoFar /\ Quiet)'
      BY TestBegins, PTL
    <2> QED BY <1>1, <1>6, <2>2, Zenon
  <1> QED BY <1>1, <1>3, <1>5, <1>7, Zenon DEF SysInv

\* The tests that main's switch chooses are tests there are.
LEMMA SelectedType ==
  ASSUME NEW select \in 0 .. 9
  PROVE  Selected(select) \in Seq(1 .. 8)
  <1>1. Len(Test) = 8
    BY TestsAreRefused
  <1>2. CASE select = 0
    <2>1. [k \in 1 .. 8 |-> k] \in Seq(1 .. 8)
      <3>1. [k \in 1 .. 8 |-> k] \in [1 .. 8 -> 1 .. 8]
        OBVIOUS
      <3>2. 8 \in Nat
        OBVIOUS
      <3> QED BY <3>1, <3>2, SeqDef
    <2>2. Selected(select) = [k \in 1 .. 8 |-> k]
      BY <1>1, <1>2 DEF Selected
    <2> QED BY <2>1, <2>2
  <1>3. CASE select \in 1 .. 8
    <2>1. Selected(select) = <<select>>
      BY <1>1, <1>3 DEF Selected
    <2> QED BY <1>3, <2>1
  <1>4. CASE select = 9
    <2>1. Selected(select) = << >>
      BY <1>1, <1>4 DEF Selected
    <2> QED BY <2>1, EmptySeq
  <1> QED BY <1>2, <1>3, <1>4

\* The program starts with the table execute() gives it, and nothing found.
LEMMA StartInv ==
  ASSUME SysInv, IInv', NEW select \in 0 .. 9, Start(select)
  PROVE  SysInv'
  <1>1. PICK name \in Programs : Execute(Tester, name)
    BY DEF Start
  <1>2. /\ depth[Tester] = 1 /\ depth'[Tester] > 1
        /\ tests' = Selected(select) /\ made' = 0 /\ cnt' = 0 /\ fail' = 0
    BY DEF Start, Running, SysInv
  <1>3. /\ TypeOK /\ name \in Names /\ Tester \in Term
        /\ depth' \in [Term -> Depth]
    BY TesterIs, FilesAssumption DEF SysInv, IInv, TypeOK
  <1>4. /\ depth'[Tester] = 2
        /\ \A d \in Depth : d = 2 => fd_array'[Tester][d] = FreshTable
    BY <1>1, <1>2, <1>3, ExecuteIs
  <1>5. 2 \in Depth
    <2>1. MAX_DEPTH \in Nat /\ MAX_DEPTH > 1
      BY SyserrAssumption, FilesAssumption, Zenon
    <2> QED BY <2>1 DEF Depth
  <1>6. Table(Tester)' = FreshTable
    <2>1. fd_array'[Tester][2] = FreshTable
      BY <1>4, <1>5
    <2> QED BY <1>4, <2>1, Zenon DEF Table
  <1>7. Unused(Tester)' = Fd \ {0, 1}
    <2>1. \A k \in Fd : FreshTable[k].used <=> k \in {0, 1}
      <3>1. \A k \in Fd : FreshTable[k] = IF k < 2 THEN Std ELSE Closed
        BY DEF FreshTable
      <3>2. \A k \in Fd : k < 2 <=> k \in {0, 1}
        BY TableSize DEF Fd
      <3>3. Std.used /\ ~Closed.used
        BY FreshType DEF Closed
      <3> QED BY <3>1, <3>2, <3>3
    <2>2. Unused(Tester)' = {k \in Fd : ~FreshTable[k].used}
      BY <1>6, Zenon DEF Unused
    <2> QED BY <2>1, <2>2
  <1>8. call'[Tester].at = "idle"
    BY <1>1 DEF Execute
  <1>9. LotsSoFar' /\ Quiet'
    <2>1. call[Tester].at = "idle" /\ made = 0 /\ cnt = 0 /\ Unused(Tester) = Fd \ {0, 1}
            => LotsSoFar /\ Quiet
      BY TestBegins
    <2>2. (call[Tester].at = "idle" /\ made = 0 /\ cnt = 0 /\ Unused(Tester) = Fd \ {0, 1}
            => LotsSoFar /\ Quiet)'
      BY TestBegins, PTL
    <2> QED BY <1>2, <1>7, <1>8, <2>2, Zenon
  <1>10. tests' \in Seq(1 .. 8)
    BY <1>2, SelectedType, Zenon
  <1>11. depth'[Tester] \in {1, 2}
    BY <1>4
  <1> QED BY <1>2, <1>9, <1>10, <1>11, Zenon DEF SysInv

\* halt() returns to the shell.
LEMMA EndsInv ==
  ASSUME SysInv, IInv', Ends
  PROVE  SysInv'
  <1>1. /\ depth[Tester] = 2 /\ Halt(Tester) /\ tests' = << >> /\ fail' = 0
    BY DEF Ends, Running, SysInv
  <1>2. TypeOK /\ Tester \in Term
    BY TesterIs DEF SysInv, IInv
  <1>3. depth'[Tester] = 1
    BY <1>1, <1>2 DEF Halt, TypeOK
  <1>4. ~Running'
    BY <1>3 DEF Running
  <1>5. tests' \in Seq(1 .. 8) /\ depth'[Tester] \in {1, 2}
    BY <1>1, <1>3, EmptySeq
  <1> QED BY <1>1, <1>4, <1>5, Zenon DEF SysInv

\* The other terminals' processes have tables and calls of their own.
LEMMA OtherTerminalInv ==
  ASSUME SysInv, IInv', OtherTerminal
  PROVE  SysInv'
  <1>1. PICK t \in Term \ {Tester} : Step(t)
    BY DEF OtherTerminal
  <1>2. TypeOK /\ AllSound /\ Tester \in Term \ {t} /\ depth[Tester] \in Depth
    BY TesterIs, TableType, TablesAreSound DEF SysInv, IInv, Tables
  <1>3. /\ depth'[Tester] = depth[Tester]
        /\ \A k \in Fd : fd_array'[Tester][depth[Tester]][k].used
                           = fd_array[Tester][depth[Tester]][k].used
    BY <1>1, <1>2, OthersTables
  <1>4. call'[Tester] = call[Tester]
    BY <1>1, <1>2, CallStep
  <1>5. UNCHANGED prog
    BY DEF OtherTerminal
  <1> QED BY <1>3, <1>4, <1>5, SysInvKept

\* Neither have ticks anything to do with what is in use.
LEMMA TickGoesOnInv ==
  ASSUME SysInv, IInv', TickGoesOn
  PROVE  SysInv'
  <1>1. TypeOK /\ Tick /\ UNCHANGED prog /\ Tester \in Term /\ depth[Tester] \in Depth
    BY TesterIs, TableType DEF TickGoesOn, SysInv, IInv
  <1>2. /\ UNCHANGED <<depth, call>>
        /\ \A k \in Fd : fd_array'[Tester][depth[Tester]][k].used
                           = fd_array[Tester][depth[Tester]][k].used
    BY <1>1, TickIs
  <1> QED BY <1>1, <1>2, SysInvKept

\* rtc_close() ends the close() it belongs to.
LEMMA CloseGoesOnInv ==
  ASSUME SysInv, IInv', CloseGoesOn
  PROVE  SysInv'
  <1>1. /\ tests' = tests /\ made' = made /\ cnt' = cnt /\ fail' = fail
        /\ depth' = depth /\ fd_array' = fd_array /\ call[Tester].at = "close"
        /\ call' = [call EXCEPT ![Tester] = Idle]
    BY DEF CloseGoesOn, RtcClose, prog
  <1>2. Running' = Running /\ OpensLots' = OpensLots /\ Unused(Tester)' = Unused(Tester)
    BY <1>1, Zenon DEF Running, OpensLots, Unused, Table
  <1>3. CASE Running
    <2>1. OpensLots /\ LotsSoFar
      BY <1>1, <1>3, OpenIsOfLots
    <2>2. /\ cnt = 1 /\ made \in MAX_FILES - 1 .. (MAX_FILES - 1) + (MAX_FILES - 2)
          /\ Unused(Tester) = 2 .. made - (MAX_FILES - 2)
      BY <1>1, <2>1 DEF LotsSoFar, Typing
    <2>3. call'[Tester].at = "idle"
      <3>1. Tester \in DOMAIN call
        BY TesterIs DEF SysInv, IInv, TypeOK
      <3> QED BY <1>1, <3>1, IdleType, Zenon
    <2>4. LotsSoFar'
      BY <1>1, <1>2, <2>2, <2>3, Zenon DEF LotsSoFar
    <2> QED BY <1>1, <1>2, <2>1, <2>4, Zenon DEF SysInv
  <1> QED BY <1>1, <1>2, <1>3, Zenon DEF SysInv

LEMMA SysInitInv == SysInit => SysInv
  <1> SUFFICES ASSUME SysInit PROVE SysInv
    OBVIOUS
  <1>1. IInv /\ tests = << >> /\ fail = 0
    BY InitIInv DEF SysInit
  <1>2. depth[Tester] = 1
    BY TesterIs DEF SysInit, Init
  <1>3. ~Running
    BY <1>2 DEF Running
  <1>4. tests \in Seq(1 .. 8) /\ depth[Tester] \in {1, 2}
    BY <1>1, <1>2, EmptySeq
  <1> QED BY <1>1, <1>3, <1>4, Zenon DEF SysInv

LEMMA SysStepInv == SysInv /\ [SysNext]_sysvars => SysInv'
  <1> SUFFICES ASSUME SysInv, [SysNext]_sysvars PROVE SysInv'
    OBVIOUS
  <1>1. IInv'
    BY SysStepIsStep, StepIInv, Zenon DEF SysInv
  <1>2. ASSUME NEW select \in 0 .. 9, Start(select) PROVE SysInv'
    BY <1>1, <1>2, StartInv
  <1>3. CASE CallExpectsFailure
    BY <1>1, <1>3, CallExpectsFailureInv
  <1>4. CASE CallClose
    BY <1>1, <1>4, CallCloseInv
  <1>5. CASE CallOpenUnknown
    BY <1>1, <1>5, CallOpenUnknownInv
  <1>6. CASE CallOpen
    BY <1>1, <1>6, CallOpenInv
  <1>7. CASE OpenFails
    BY <1>1, <1>7, OpenFailsInv
  <1>8. CASE OpenGoesOn
    BY <1>1, <1>8, OpenGoesOnInv
  <1>9. CASE TestEnds
    BY <1>1, <1>9, TestEndsInv
  <1>10. CASE Ends
    BY <1>1, <1>10, EndsInv
  <1>11. CASE OtherTerminal
    BY <1>1, <1>11, OtherTerminalInv
  <1>12. CASE UNCHANGED sysvars
    <2>1. /\ call' = call /\ depth' = depth /\ fd_array' = fd_array /\ UNCHANGED prog
      BY <1>12 DEF sysvars, vars
    <2> QED BY <1>1, <2>1, SysInvKept
  <1>13. CASE CloseGoesOn
    BY <1>1, <1>13, CloseGoesOnInv
  <1>14. CASE TickGoesOn
    BY <1>1, <1>14, TickGoesOnInv
  <1> QED BY <1>2, <1>3, <1>4, <1>5, <1>6, <1>7, <1>8, <1>9, <1>10, <1>11, <1>12, <1>13,
             <1>14, Zenon
          DEF SysNext

\* The strengthened invariant of ece391syserr and what runs beside it.
THEOREM SysInvariance == SysSpec => []SysInv
  BY SysInitInv, SysStepInv, PTL DEF SysSpec

\* ece391syserr finds nothing wrong, whatever tests it runs in whatever order
\* and whatever the other terminals do with their files.
THEOREM TestsFindNothing == SysSpec => []TestsPass
  <1>1. SysInv => TestsPass
    BY Zenon DEF SysInv, TestsPass
  <1> QED BY <1>1, SysInvariance, PTL

\* Every test starts with a whole table: the one before it has given back all
\* it opened.
THEOREM TestsLeaveAWholeTable == SysSpec => []TestsCleanUp
  <1>1. SysInv => TestsCleanUp
    <2> SUFFICES ASSUME SysInv, Running, call[Tester].at = "idle", made = 0
                 PROVE  Unused(Tester) = Fd \ {0, 1}
      BY DEF TestsCleanUp
    <2>1. (OpensLots => LotsSoFar) /\ (~OpensLots => Quiet)
      BY Zenon DEF SysInv
    <2>2. ASSUME LotsSoFar PROVE Unused(Tester) = 2 .. MAX_FILES - 1
      BY <2>2, TableSize DEF LotsSoFar
    <2>3. ASSUME Quiet PROVE Unused(Tester) = Fd \ {0, 1}
      BY <2>3 DEF Quiet
    <2> QED BY <2>1, <2>2, <2>3, TesterIs
  <1> QED BY <1>1, SysInvariance, PTL
=============================================================================
