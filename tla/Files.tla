------------------------------- MODULE Files -------------------------------
(***************************************************************************)
(* The descriptor tables and the file system calls of processes that the   *)
(* PIT preempts.  System calls run with interrupts on, so between any two  *)
(* steps of one terminal's process the processes of the other terminals    *)
(* may run.  A descriptor table belongs to one process, but open() and     *)
(* execute() share the global file_dentry, and every directory listing     *)
(* shares info.counter and info.dentry.  The RTC interrupt counts in the   *)
(* file_pos of a descriptor of every process that has written to an rtc    *)
(* (module Rtc has the counting itself).                                   *)
(*                                                                         *)
(* A process is <<t, d>>: the d-th of terminal t's chain, the shell first. *)
(* Only the last one of a chain runs; the others wait in execute().        *)
(***************************************************************************)
EXTENDS Integers, Sequences, FiniteSets

CONSTANTS NTERMS,        \* terminals
          MAX_DEPTH,     \* bound: processes a terminal's chain may have
          MAX_FILES,     \* descriptors of a process (8 in syscall.h)
          MAX_COUNTER,   \* bound: the count of directory entries listed
          MAX_POS,       \* bound: the ticks counted in a descriptor
          Direntries,    \* boot block: [name, filetype, inode] in order
          FileLength     \* [inode -> bytes]; the executables are in Programs
CONSTANT  Programs       \* names whose file has the ELF magic

Term  == 0 .. NTERMS - 1
Fd    == 0 .. MAX_FILES - 1
Given == 2 .. MAX_FILES - 1            \* what open() can give
None  == -1
Depth == 1 .. MAX_DEPTH
Index == 1 .. Len(Direntries)
Names == {Direntries[n].name : n \in Index}
Types == {"rtc", "dir", "file"}
Inodes == DOMAIN FileLength

ASSUME FilesAssumption ==
    /\ NTERMS \in Nat \ {0} /\ MAX_DEPTH \in Nat \ {0}
    /\ MAX_FILES \in Nat /\ MAX_FILES > 2
    /\ MAX_COUNTER \in Nat /\ MAX_COUNTER >= Len(Direntries)
    /\ MAX_POS \in Nat
    /\ \A n \in Index : /\ Direntries[n].filetype \in Types
                        /\ Direntries[n].inode \in Inodes
    /\ \A n, m \in Index : Direntries[n].name = Direntries[m].name => n = m
    /\ FileLength \in [Inodes -> Nat]
    /\ 0 \in Inodes                       \* what a blank descriptor names
    /\ Programs \subseteq Names /\ Programs # {}

VARIABLES
    depth,         \* [Term -> Depth]: the running process of each terminal
    fd_array,      \* [Term -> [Depth -> [Fd -> descriptor]]], in the PCBs
    rtc_fd_idx,    \* [Term -> [Depth -> the descriptor ticks count in, or None]]
    file_dentry,   \* global: the directory entry open() and execute() found
    counter,       \* info.counter: the next entry a directory read returns
    dentry,        \* info.dentry: the entry a directory read is returning
    call,          \* [Term -> where in a system call its process is]
    raced,         \* terminals whose open() another one's lookup overtook
    owed,          \* [Term -> names dir_read has still to give since dir_open]
    lister         \* the terminal alone in using info since its dir_open

vars == <<depth, fd_array, rtc_fd_idx, file_dentry, counter, dentry, call,
          raced, owed, lister>>

NoEntry == [name |-> "", filetype |-> "rtc", inode |-> 0]   \* zeroed memory
Nobody  == NTERMS

\* A descriptor: op is the operation table, a pointer in the code ("none" is
\* NULL); late is history: a tick has counted in it while it was unused.
Closed == [used |-> FALSE, inode |-> 0, pos |-> 0, op |-> "none", late |-> FALSE]
Std    == [Closed EXCEPT !.used = TRUE, !.op = "std"]

FreshTable == [k \in Fd |-> IF k < 2 THEN Std ELSE Closed]

\* A terminal's call in progress: its next step and what it holds in registers.
Idle == [at |-> "idle", entry |-> NoEntry, fd |-> 0, count |-> 0]

Table(t) == fd_array[t][depth[t]]
SetFd(t, k, fd) == fd_array' = [fd_array EXCEPT ![t][depth[t]][k] = fd]

\* read_dentry_by_name
Entry(name) == Direntries[CHOOSE n \in Index : Direntries[n].name = name]

\* A lookup overwrites the entry another terminal's open() has still to use.
Typing(t)  == call[t].at \in {"inode", "type", "other"}
Opening(t) == call[t].at = "take" \/ Typing(t)
Overtakes(t) == raced' = (raced \cup {u \in Term \ {t} : Opening(u)}) \ {t}

\* A use of info by t ends another terminal's being alone with it.
UsesInfo(t) == lister' = IF lister = t THEN t ELSE Nobody

-----------------------------------------------------------------------------
(* open *)

OpenLookup(t, name) ==
    /\ call[t].at = "idle"
    /\ file_dentry' = Entry(name)
    /\ call' = [call EXCEPT ![t] = [Idle EXCEPT !.at = "take", !.entry = Entry(name)]]
    /\ Overtakes(t)
    /\ UNCHANGED <<depth, fd_array, rtc_fd_idx, counter, dentry, owed, lister>>

Unused(t) == {k \in Fd : ~Table(t)[k].used}

\* The lowest unused descriptor.  Its file_pos is what the last close(), or a
\* tick after that, has left there.
OpenTake(t) ==
    /\ call[t].at = "take"
    /\ \E k \in Unused(t) :
         /\ \A j \in Unused(t) : k <= j
         /\ SetFd(t, k, [Table(t)[k] EXCEPT !.used = TRUE])
         /\ call' = [call EXCEPT ![t].at = "inode", ![t].fd = k]
    /\ UNCHANGED <<depth, rtc_fd_idx, file_dentry, counter, dentry, raced, owed, lister>>

OpenNoDescriptor(t) ==
    /\ call[t].at = "take"
    /\ Unused(t) = {}
    /\ call' = [call EXCEPT ![t] = Idle]
    /\ raced' = raced \ {t}
    /\ UNCHANGED <<depth, fd_array, rtc_fd_idx, file_dentry, counter, dentry, owed, lister>>

\* The rest of open() is of the descriptor it has taken: a step that stores
\* into it and goes on at the given place.
Opens(t, fd, place) ==
    /\ SetFd(t, call[t].fd, fd)
    /\ call' = [call EXCEPT ![t].at = place]
    /\ UNCHANGED <<depth, rtc_fd_idx, file_dentry, counter, dentry, raced, owed, lister>>
Taken(t) == Table(t)[call[t].fd]

\* It gets the inode of whatever file_dentry holds, ...
OpenInode(t) ==
    /\ call[t].at = "inode"
    /\ Opens(t, [Taken(t) EXCEPT !.inode = file_dentry.inode], "type")

\* ... and the operations of its type, of which file_dentry is asked twice.
OpenType(t) ==
    /\ call[t].at = "type"
    /\ IF file_dentry.filetype = "rtc"
       THEN Opens(t, [Taken(t) EXCEPT !.op = "rtc"], "opened")
       ELSE Opens(t, Taken(t), "other")

\* Mutant: what is not the rtc is a regular file.
OpenOtherFilesOnly(t) ==
    /\ call[t].at = "other"
    /\ Opens(t, [Taken(t) EXCEPT !.op = "file"], "opened")

OpenOther(t) ==
    /\ call[t].at = "other"
    /\ Opens(t, [Taken(t) EXCEPT
                   !.op = IF file_dentry.filetype = "dir" THEN "dir" ELSE "file"], "opened")

\* rtc_open sets the period (module Rtc).
OpenRtc(t) ==
    /\ call[t].at = "opened"
    /\ Taken(t).op = "rtc"
    /\ call' = [call EXCEPT ![t] = Idle]
    /\ raced' = raced \ {t}
    /\ UNCHANGED <<depth, fd_array, rtc_fd_idx, file_dentry, counter, dentry, owed, lister>>

\* Mutant: the listing goes on where it was.
DirOpenKeepsCount(t) ==
    /\ call[t].at = "opened"
    /\ Taken(t).op = "dir"
    /\ owed' = [owed EXCEPT ![t] = Names]
    /\ lister' = t
    /\ call' = [call EXCEPT ![t].at = "lookup"]
    /\ UNCHANGED <<depth, fd_array, rtc_fd_idx, file_dentry, counter, dentry, raced>>

\* dir_open rewinds the one listing there is, ...
DirOpen(t) ==
    /\ call[t].at = "opened"
    /\ Taken(t).op = "dir"
    /\ counter' = 0
    /\ owed' = [owed EXCEPT ![t] = Names]
    /\ lister' = t
    /\ call' = [call EXCEPT ![t].at = "lookup"]
    /\ UNCHANGED <<depth, fd_array, rtc_fd_idx, file_dentry, dentry, raced>>

\* ... and, like file_open, looks the name up again, into info.dentry.
OpenLooksAgain(t) ==
    /\ \/ call[t].at = "lookup"
       \/ call[t].at = "opened" /\ Taken(t).op = "file"
    /\ dentry' = call[t].entry
    /\ UsesInfo(t)
    /\ call' = [call EXCEPT ![t] = Idle]
    /\ raced' = raced \ {t}
    /\ UNCHANGED <<depth, fd_array, rtc_fd_idx, file_dentry, counter, owed>>

-----------------------------------------------------------------------------
(* read *)

Least(a, b) == IF a <= b THEN a ELSE b

\* file_read: the position moves by what read_data returned.  (A tick that
\* counts in a root shell's regular file may come between read_data and that.)
FileRead(t, k, nbytes) ==
    LET fd   == Table(t)[k]
        left == FileLength[fd.inode] - fd.pos
    IN  /\ call[t].at = "idle"
        /\ fd.used /\ fd.op = "file"
        /\ SetFd(t, k, [fd EXCEPT !.pos = @ + (IF left > 0 THEN Least(left, nbytes)
                                               ELSE 0)])
        /\ UNCHANGED <<depth, rtc_fd_idx, file_dentry, counter, dentry, call, raced, owed, lister>>

Directories(t) == {k \in Fd : Table(t)[k].used /\ Table(t)[k].op = "dir"}

\* dir_read: find the entry, or give up when the count is past the last, ...
DirReadFind(t) ==
    /\ call[t].at = "idle"
    /\ Directories(t) # {}
    /\ counter < Len(Direntries)
    /\ dentry' = Direntries[counter + 1]
    /\ call' = [call EXCEPT ![t].at = "load"]
    /\ UsesInfo(t)
    /\ UNCHANGED <<depth, fd_array, rtc_fd_idx, file_dentry, counter, raced, owed>>

\* ... count it, a load and a store in the unoptimised build: a store that
\* comes after another terminal's dir_open brings the old count back, so that
\* the count may pass the number of entries, each such race by one more, ...
DirReadLoad(t) ==
    /\ call[t].at = "load"
    /\ counter < MAX_COUNTER
    /\ call' = [call EXCEPT ![t].at = "store", ![t].count = counter + 1]
    /\ UNCHANGED <<depth, fd_array, rtc_fd_idx, file_dentry, counter, dentry, raced, owed, lister>>

DirReadStore(t) ==
    /\ call[t].at = "store"
    /\ counter' = call[t].count
    /\ call' = [call EXCEPT ![t].at = "copy", ![t].count = 0]
    /\ UsesInfo(t)
    /\ UNCHANGED <<depth, fd_array, rtc_fd_idx, file_dentry, dentry, raced, owed>>

\* ... and copy the name out of info.dentry.
DirReadCopy(t) ==
    /\ call[t].at = "copy"
    /\ owed' = [owed EXCEPT ![t] = @ \ {dentry.name}]
    /\ call' = [call EXCEPT ![t] = Idle]
    /\ UNCHANGED <<depth, fd_array, rtc_fd_idx, file_dentry, counter, dentry, raced, lister>>

-----------------------------------------------------------------------------
(* The rtc: rtc_write, and the handler of its interrupt *)

RtcWrite(t, k) ==
    /\ call[t].at = "idle"
    /\ Table(t)[k].used /\ Table(t)[k].op = "rtc"
    /\ rtc_fd_idx' = [rtc_fd_idx EXCEPT ![t][depth[t]] = k]
    /\ UNCHANGED <<depth, fd_array, file_dentry, counter, dentry, call, raced, owed, lister>>

Counted(t, d, k) == d <= depth[t] /\ rtc_fd_idx[t][d] = k

\* One tick more, or none when the period is reached.
AfterTick(fd, reached) ==
    [fd EXCEPT !.pos = IF reached THEN 0 ELSE @ + 1, !.late = @ \/ ~fd.used]

\* rtc_handler, on every process there is, running or waiting.  When a count
\* reaches its period is left open, but for the bound of the count.
Tick ==
    /\ \E reached \in SUBSET {p \in Term \X Depth : rtc_fd_idx[p[1]][p[2]] # None} :
         /\ \A t \in Term, d \in Depth, k \in Fd :
              Counted(t, d, k) => <<t, d>> \in reached \/ fd_array[t][d][k].pos < MAX_POS
         /\ fd_array' = [t \in Term |-> [d \in Depth |-> [k \in Fd |->
                IF Counted(t, d, k) THEN AfterTick(fd_array[t][d][k], <<t, d>> \in reached)
                                    ELSE fd_array[t][d][k]]]]
    /\ UNCHANGED <<depth, rtc_fd_idx, file_dentry, counter, dentry, call, raced, owed, lister>>

-----------------------------------------------------------------------------
(* close, execute, halt *)

Reset(fd) == [fd EXCEPT !.used = FALSE, !.inode = 0, !.pos = 0, !.late = FALSE]

\* Mutant: standard input and output can be closed.
AfterCloseAny(table, k) ==
    IF table[k].used THEN [table EXCEPT ![k] = Reset(@)] ELSE table

\* A table after close(k), up to the call of the operation's own close: of
\* those dir_close and file_close change nothing, and rtc_close no table.
AfterClose(table, k) ==
    IF k >= 2 /\ table[k].used THEN [table EXCEPT ![k] = Reset(@)] ELSE table

\* Where close(k) goes on: into rtc_close, or to return; with no operations
\* it faults, and the fault's handler keeps the process for ever.  (Its stores
\* are one step: for a tick the last two may as well change places, and after
\* Ctrl-C the stores between them would be a root shell's, on its own table.)
Close(t, k) ==
    /\ call[t].at = "idle"
    /\ fd_array' = [fd_array EXCEPT ![t][depth[t]] = AfterClose(@, k)]
    /\ call' = IF k < 2 \/ ~Table(t)[k].used THEN call
               ELSE CASE Table(t)[k].op = "rtc" ->
                           [call EXCEPT ![t].at = "close", ![t].fd = k]
                      [] Table(t)[k].op = "none" -> [call EXCEPT ![t].at = "fault"]
                      [] OTHER -> call
    /\ UNCHANGED <<depth, rtc_fd_idx, file_dentry, counter, dentry, raced, owed, lister>>

\* Mutant: the handler still finds the descriptor.
RtcCloseKeepsIdx(t) ==
    /\ call[t].at = "close"
    /\ call' = [call EXCEPT ![t] = Idle]
    /\ UNCHANGED <<depth, fd_array, rtc_fd_idx, file_dentry, counter, dentry, raced, owed, lister>>

RtcClose(t) ==
    /\ call[t].at = "close"
    /\ rtc_fd_idx' = [rtc_fd_idx EXCEPT ![t][depth[t]] = None]
    /\ call' = [call EXCEPT ![t] = Idle]
    /\ UNCHANGED <<depth, fd_array, file_dentry, counter, dentry, raced, owed, lister>>

\* read() and write() of a descriptor that has no operations.
Faults(t) ==
    /\ call[t].at = "idle"
    /\ \E k \in Fd : Table(t)[k].used /\ Table(t)[k].op = "none"
    /\ call' = [call EXCEPT ![t].at = "fault"]
    /\ UNCHANGED <<depth, fd_array, rtc_fd_idx, file_dentry, counter, dentry, raced, owed, lister>>

\* Mutant: the new process finds the table the last one of its pid left.
ExecuteKeepsTable(t, name) ==
    /\ call[t].at = "idle"
    /\ file_dentry' = Entry(name)
    /\ Overtakes(t)
    /\ name \in Programs /\ depth[t] < MAX_DEPTH
    /\ depth' = [depth EXCEPT ![t] = @ + 1]
    /\ owed' = [owed EXCEPT ![t] = {}]
    /\ lister' = IF lister = t THEN Nobody ELSE lister
    /\ rtc_fd_idx' = [rtc_fd_idx EXCEPT ![t][depth[t] + 1] = None]
    /\ UNCHANGED <<fd_array, counter, dentry, call>>

\* execute() runs with interrupts off.  It has overwritten file_dentry even
\* when the file is not a program or every pid is taken, and then fails.
Execute(t, name) ==
    /\ call[t].at = "idle"
    /\ file_dentry' = Entry(name)
    /\ Overtakes(t)
    /\ \/ UNCHANGED <<depth, fd_array, rtc_fd_idx, owed, lister>>
       \/ /\ name \in Programs
          /\ depth[t] < MAX_DEPTH
          /\ depth' = [depth EXCEPT ![t] = @ + 1]
          /\ fd_array' = [fd_array EXCEPT ![t][depth[t] + 1] = FreshTable]
          /\ rtc_fd_idx' = [rtc_fd_idx EXCEPT ![t][depth[t] + 1] = None]
          /\ owed' = [owed EXCEPT ![t] = {}]
          /\ lister' = IF lister = t THEN Nobody ELSE lister
    /\ UNCHANGED <<counter, dentry, call>>

\* Mutant: halt() closes every number, in use by the child or not.
ClosedAllNumbers(given, current) == [k \in Fd |-> AfterClose(current, k)[k]]

\* The current table after close() of every number the given one has in use.
ClosedAll(given, current) ==
    [k \in Fd |-> IF given[k].used THEN AfterClose(current, k)[k] ELSE current[k]]

\* halt(), by system call or by Ctrl-C at any point of another call, which ends
\* with its open() and its listing.
Ended(t) ==
    /\ raced' = raced \ {t}
    /\ owed' = [owed EXCEPT ![t] = {}]
    /\ lister' = IF lister = t THEN Nobody ELSE lister
    /\ UNCHANGED <<file_dentry, counter, dentry>>
Halts(t) == call' = [call EXCEPT ![t] = Idle] /\ Ended(t)

\* Mutant: a root shell halts like any other process.
RestartRootPops(t) ==
    /\ depth[t] = 1
    /\ depth' = [depth EXCEPT ![t] = @ - 1]
    /\ UNCHANGED <<fd_array, rtc_fd_idx>>
    /\ Halts(t)

\* A root shell starts again with its PCB as it is.
RestartRoot(t) ==
    /\ depth[t] = 1
    /\ UNCHANGED <<depth, fd_array, rtc_fd_idx>>
    /\ Halts(t)

\* What close() of the child's numbers finds in use in the parent's table.
AlsoClosed(t) == {k \in Given : Table(t)[k].used /\ fd_array[t][depth[t] - 1][k].used}
ParentHas(t, op) == \E k \in AlsoClosed(t) : fd_array[t][depth[t] - 1][k].op = op

\* The terminal's pid is the parent's before the loop that closes the child's
\* descriptors, with interrupts off, and close() and rtc_close look the PCB up
\* by that pid.
Halt(t) ==
    /\ depth[t] > 1
    /\ ~ParentHas(t, "none")
    /\ depth' = [depth EXCEPT ![t] = @ - 1]
    /\ fd_array' = [fd_array EXCEPT ![t][depth[t] - 1] = ClosedAll(Table(t), @)]
    /\ rtc_fd_idx' = [rtc_fd_idx EXCEPT ![t][depth[t] - 1] =
                         IF ParentHas(t, "rtc") THEN None ELSE @]
    /\ Halts(t)

\* A descriptor of the parent that has no operations: the fault comes with
\* interrupts off, and nothing runs any more that could see what the loop has
\* closed before.
HaltFaults(t) ==
    /\ depth[t] > 1
    /\ ParentHas(t, "none")
    /\ depth' = [depth EXCEPT ![t] = @ - 1]
    /\ call' = [call EXCEPT ![t] = [Idle EXCEPT !.at = "hung"]]
    /\ UNCHANGED <<fd_array, rtc_fd_idx>>
    /\ Ended(t)

Hung == \E t \in Term : call[t].at = "hung"

-----------------------------------------------------------------------------
Init ==
    /\ depth = [t \in Term |-> 1]
    /\ fd_array = [t \in Term |-> [d \in Depth |-> FreshTable]]
    /\ rtc_fd_idx = [t \in Term |-> [d \in Depth |-> None]]
    /\ file_dentry \in {Entry(name) : name \in Programs}   \* the last shell's
    /\ counter = 0
    /\ dentry = NoEntry
    /\ call = [t \in Term |-> Idle]
    /\ raced = {}
    /\ owed = [t \in Term |-> {}]
    /\ lister = Nobody

Step(t) ==
    \/ \E name \in Names : OpenLookup(t, name) \/ Execute(t, name)
    \/ OpenTake(t) \/ OpenNoDescriptor(t) \/ OpenInode(t) \/ OpenType(t) \/ OpenOther(t)
    \/ OpenRtc(t) \/ DirOpen(t) \/ OpenLooksAgain(t)
    \/ \E k \in Fd : Close(t, k) \/ RtcWrite(t, k)
    \/ RtcClose(t) \/ Faults(t)
    \/ \E k \in Fd, nbytes \in 1 .. 2 : FileRead(t, k, nbytes)
    \/ DirReadFind(t) \/ DirReadLoad(t) \/ DirReadStore(t) \/ DirReadCopy(t)
    \/ RestartRoot(t) \/ Halt(t) \/ HaltFaults(t)

Next ==
    \/ ~Hung /\ Tick
    \/ ~Hung /\ \E t \in Term : Step(t)
    \/ Hung /\ UNCHANGED vars

Spec == Init /\ [][Next]_vars

-----------------------------------------------------------------------------
(* Properties *)

CallAt == {"idle", "take", "inode", "type", "other", "opened", "lookup",
           "load", "store", "copy", "close", "fault", "hung"}
Entries == {Direntries[n] : n \in Index}
Descriptor == [used : BOOLEAN, inode : Inodes, pos : Nat,
               op : Types \cup {"none", "std"}, late : BOOLEAN]
Call == [at : CallAt, entry : Entries \cup {NoEntry}, fd : Fd,
         count : 0 .. MAX_COUNTER]

\* Every variable has its type: the running process is one of the chain, and
\* the handler counts in a descriptor that open() can give, never in standard
\* input or output.
TypeOK ==
    /\ depth \in [Term -> Depth]
    /\ fd_array \in [Term -> [Depth -> [Fd -> Descriptor]]]
    /\ rtc_fd_idx \in [Term -> [Depth -> Given \cup {None}]]
    /\ file_dentry \in Entries
    /\ counter \in 0 .. MAX_COUNTER
    /\ dentry \in Entries \cup {NoEntry}
    /\ call \in [Term -> Call]
    /\ raced \subseteq Term
    /\ owed \in [Term -> SUBSET Names]
    /\ lister \in Term \cup {Nobody}

\* No process of a chain, running or waiting for a child, ever loses the two
\* descriptors execute() opened for it, though a child's halt() calls close()
\* on its parent's table for every number the child has in use.
StdStreams ==
    \A t \in Term, d \in Depth :
        d <= depth[t] => fd_array[t][d][0] = Std /\ fd_array[t][d][1] = Std

\* A process that waits for its child keeps every descriptor as it is, except
\* that the child's halt() may close those whose number the child had in use,
\* and that the handler counts in the position of the one rtc_fd_idx names.
WaitingLosesOnlyTheChilds ==
    [][\A t \in Term, d \in Depth, k \in Fd :
         (d < depth[t] /\ fd_array'[t][d][k] # fd_array[t][d][k]) =>
            \/ /\ d = depth'[t]
               /\ ~fd_array'[t][d][k].used
               /\ Table(t)[k].used
            \/ /\ k = rtc_fd_idx[t][d]
               /\ fd_array'[t][d][k].used = fd_array[t][d][k].used
               /\ fd_array'[t][d][k].op = fd_array[t][d][k].op
               /\ fd_array'[t][d][k].inode = fd_array[t][d][k].inode]_vars

\* No read and no tick moves the position of an open regular file past its
\* end: rtc_handler, which adds to positions without looking what they are,
\* never has a regular file's in its PCB.  Exempt are a descriptor that a tick
\* found between close()'s stores and rtc_close's, which open() hands out with
\* the count in it, and root shells, which keep rtc_fd_idx when Ctrl-C comes
\* in that place.
PositionsWithinFile ==
    \A t \in Term, d \in Depth, k \in Fd :
        LET fd == fd_array[t][d][k]
        IN  1 < d /\ d <= depth[t] /\ fd.used /\ fd.op = "file" /\ ~fd.late
              => fd.pos <= FileLength[fd.inode]

\* When open() has set up a descriptor, its inode and operations are those of
\* the name asked for, if no other terminal looked a name up meanwhile.
OpensTheNameAsked(t) ==
    /\ Taken(t).used
    /\ Taken(t).inode = call[t].entry.inode
    /\ Taken(t).op = call[t].entry.filetype
OpensUnlessRaced ==
    \A t \in Term : call[t].at = "opened" /\ t \notin raced => OpensTheNameAsked(t)

\* A descriptor that is in use and has no operations yet is the one its process
\* is opening; only a root shell, whose table halt() leaves as it is, may keep
\* such a descriptor of an open() that Ctrl-C ended.
HalfOpen(t, d, k) == fd_array[t][d][k].used /\ fd_array[t][d][k].op = "none"
HalfOpenInRootsOnly ==
    \A t \in Term, d \in Depth, k \in Fd :
        1 < d /\ d <= depth[t] /\ HalfOpen(t, d, k) =>
            d = depth[t] /\ Typing(t) /\ call[t].fd = k

\* A terminal that is alone in using info since its dir_open is given every
\* directory entry once and in order: what it is still owed is what follows
\* the count, and the entry its dir_read is about to copy.
ListsInOrderAlone ==
    \A t \in Term : lister = t =>
        owed[t] = {Direntries[n].name : n \in {m \in Index :
                       m > counter \/ (m = counter /\ call[t].at = "copy")}}

-----------------------------------------------------------------------------
(* The inductive invariant of the proofs: the properties above and what they *)
(* rest on.                                                                  *)

\* close() leaves the position at the start, where the next open() needs it;
\* only a tick takes it away from there.
UnusedAtStart ==
    \A t \in Term, d \in Depth, k \in Fd :
        ~fd_array[t][d][k].used /\ ~fd_array[t][d][k].late => fd_array[t][d][k].pos = 0

\* The handler counts in an open rtc or in one on its way out of close().
CountsInRtc ==
    \A t \in Term, d \in Depth, k \in Fd : 1 < d /\ Counted(t, d, k) =>
        /\ fd_array[t][d][k].op = "rtc"
        /\ \/ fd_array[t][d][k].used
           \/ d = depth[t] /\ call[t].at = "close" /\ call[t].fd = k

\* A descriptor that open() sets up is one it has taken; no tick counts in it,
\* and its position is still where it was before.
OpensAtStart ==
    \A t \in Term : Typing(t) =>
        /\ Taken(t).used
        /\ depth[t] > 1 => /\ rtc_fd_idx[t][depth[t]] # call[t].fd
                           /\ ~Taken(t).late => Taken(t).pos = 0

\* open() and close() work on a descriptor other than standard input and output.
OpensAbove2 ==
    \A t \in Term :
        Typing(t) \/ call[t].at \in {"opened", "lookup", "close"} => call[t].fd >= 2

\* Until it is overtaken, an open() finds its own entry in file_dentry, has
\* taken the inode from it, and has looked at the type.
EntryWaits ==
    \A t \in Term \ raced :
        /\ Opening(t) => file_dentry = call[t].entry
        /\ call[t].at \in {"type", "other"} => Taken(t).inode = call[t].entry.inode
        /\ call[t].at = "other" => call[t].entry.filetype # "rtc"

\* A dir_read of the terminal that is alone in using info still finds there
\* the entry it looked up and the count it started from.
ReadAlone ==
    \A t \in Term : lister = t =>
        /\ call[t].at \in {"load", "store"} => /\ counter + 1 \in Index
                                               /\ dentry = Direntries[counter + 1]
        /\ call[t].at = "store" => call[t].count = counter + 1
        /\ call[t].at = "copy" => counter \in Index /\ dentry = Direntries[counter]

IInv ==
    /\ TypeOK
    /\ UnusedAtStart
    /\ CountsInRtc
    /\ OpensAtStart
    /\ PositionsWithinFile
    /\ HalfOpenInRootsOnly
    /\ StdStreams
    /\ OpensAbove2
    /\ EntryWaits
    /\ OpensUnlessRaced
    /\ ReadAlone
    /\ ListsInOrderAlone
=============================================================================
