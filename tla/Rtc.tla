-------------------------------- MODULE Rtc --------------------------------
(***************************************************************************)
(* The virtual RTC of one process: the descriptors and RTC fields of its   *)
(* PCB, its rtc_open, rtc_read, rtc_write and close() calls, and the RTC   *)
(* interrupt handler, which may run between any two stores of a call.      *)
(* rtc_handler treats every process alike, so one stands for all; while    *)
(* the PIT runs other processes, this one takes no step and ticks go on.   *)
(* Ctrl-C may end any call at any step: a root shell starts again with its *)
(* PCB as it is, another process makes way for the next one of its pid.    *)
(* Descriptors carry the count of ticks in file_pos, which is where        *)
(* regular files, opened and closed by the same calls, keep their offset.  *)
(***************************************************************************)
EXTENDS Integers

CONSTANTS MAX_FILES,     \* descriptors of a process (8 in syscall.h)
          FREQ_MAX,      \* ticks per second (1024 in rtc.c)
          WRAP,          \* file_pos counts modulo this (2^32)
          FILE_LENGTH    \* bytes of a regular file

ASSUME RtcAssumption ==
    /\ MAX_FILES \in Nat /\ MAX_FILES > 2
    /\ FREQ_MAX \in Nat /\ FREQ_MAX >= 2
    /\ WRAP \in Nat /\ WRAP > FREQ_MAX \div 2
    /\ FILE_LENGTH \in 0 .. WRAP - 1

Fd      == 2 .. MAX_FILES - 1          \* what open() can give and close() take
None    == -1
Periods == 1 .. FREQ_MAX \div 2        \* what FREQ_MAX / f can be
Long    == FREQ_MAX \div 2             \* bound of the ghost clock since

VARIABLES
    fd_array,        \* [Fd -> [used, op, pos]]
    max_rtc_count,   \* ticks per interrupt; 0 when no rtc is open
    rtc_interrupt,   \* the flag rtc_read waits for
    rtc_fd_idx,      \* the descriptor whose file_pos counts, or None
    call,            \* the next step of the process's system call
    since,           \* ticks since an rtc_read last saw the flag, up to Long
    steady,          \* the flag was last set under the present settings
    cut,             \* Ctrl-C cut a close() short of resetting rtc_fd_idx
    raised           \* the flag has gone up during the rtc_read that waits

pcb  == <<fd_array, max_rtc_count, rtc_interrupt, rtc_fd_idx>>
vars == <<pcb, call, since, steady, cut, raised>>

Idle == [at |-> "idle", fd |-> None, f |-> 0]
Goto(place) == call' = [call EXCEPT !.at = place]
Return == call' = Idle

\* A change of the settings: how long ago the last interrupt was says nothing
\* of when the next one is due.
Resettled == since' = Long /\ steady' = FALSE

-----------------------------------------------------------------------------
(* The interrupt *)

\* Mutant: the count has to pass the period.
Passed(pos) == pos > max_rtc_count

Reached(pos) == pos = max_rtc_count

Tick ==
    /\ IF rtc_fd_idx = None
       THEN UNCHANGED <<pcb, steady, raised>>
       ELSE LET pos == (fd_array[rtc_fd_idx].pos + 1) % WRAP
            IN  /\ fd_array' = [fd_array EXCEPT ![rtc_fd_idx].pos =
                                   IF Reached(pos) THEN 0 ELSE pos]
                /\ rtc_interrupt' = IF Reached(pos) THEN 1 ELSE 0
                /\ steady' = (steady \/ Reached(pos))
                /\ raised' = (raised \/ (call.at = "read" /\ Reached(pos)))
                /\ UNCHANGED <<max_rtc_count, rtc_fd_idx>>
    /\ since' = IF since < Long THEN since + 1 ELSE Long
    /\ UNCHANGED <<call, cut>>

-----------------------------------------------------------------------------
(* open *)

\* open() takes the lowest unused descriptor.  Its file_pos is what the last
\* close(), or a tick after that, left there, ...
OpenTake ==
    LET unused == {k \in Fd : ~fd_array[k].used}
    IN  /\ call.at = "idle"
        /\ \E k \in unused :
             /\ \A j \in unused : k <= j
             /\ fd_array' = [fd_array EXCEPT ![k].used = TRUE]
             /\ call' = [Idle EXCEPT !.at = "type", !.fd = k]
        /\ UNCHANGED <<max_rtc_count, rtc_interrupt, rtc_fd_idx, since, steady, cut, raised>>

\* ... and its operations, until here, those of an earlier use or none.
OpenType(op) ==
    /\ call.at = "type"
    /\ fd_array' = [fd_array EXCEPT ![call.fd].op = op]
    /\ IF op = "rtc" THEN Goto("open") ELSE Return
    /\ UNCHANGED <<max_rtc_count, rtc_interrupt, rtc_fd_idx, since, steady, cut, raised>>

\* rtc_open: every tick counts, on whatever descriptor the process has written.
RtcOpen ==
    /\ call.at = "open"
    /\ max_rtc_count' = FREQ_MAX \div FREQ_MAX
    /\ Resettled
    /\ Return
    /\ UNCHANGED <<fd_array, rtc_interrupt, rtc_fd_idx, cut, raised>>

-----------------------------------------------------------------------------
(* rtc_write *)

IsRtc(k) == fd_array[k].used /\ fd_array[k].op = "rtc"

\* The descriptor first, ...
RtcWriteFd(k, f) ==
    /\ call.at = "idle"
    /\ IsRtc(k)
    /\ rtc_fd_idx' = k
    /\ call' = [at |-> "write", fd |-> k, f |-> f]
    /\ cut' = FALSE
    /\ Resettled
    /\ UNCHANGED <<fd_array, max_rtc_count, rtc_interrupt, raised>>

\* Mutant: the frequency is taken for the period.
RtcWriteFrequency ==
    /\ call.at = "write"
    /\ max_rtc_count' = call.f
    /\ Resettled
    /\ Return
    /\ UNCHANGED <<fd_array, rtc_interrupt, rtc_fd_idx, cut, raised>>

\* ... then its period.
RtcWriteCount ==
    /\ call.at = "write"
    /\ max_rtc_count' = FREQ_MAX \div call.f
    /\ Resettled
    /\ Return
    /\ UNCHANGED <<fd_array, rtc_interrupt, rtc_fd_idx, cut, raised>>

-----------------------------------------------------------------------------
(* rtc_read *)

RtcRead(k) ==
    /\ call.at = "idle"
    /\ IsRtc(k)
    /\ Goto("read")
    /\ raised' = FALSE
    /\ UNCHANGED <<pcb, since, steady, cut>>

\* The loop sees the flag ...
RtcReadSees ==
    /\ call.at = "read"
    /\ rtc_interrupt = 1
    /\ Goto("seen")
    /\ since' = IF steady THEN 0 ELSE Long
    /\ raised' = FALSE
    /\ UNCHANGED <<pcb, steady, cut>>

\* Mutant: the flag stays set.
RtcReadKeepsFlag ==
    /\ call.at = "seen"
    /\ Return
    /\ UNCHANGED <<pcb, since, steady, cut, raised>>

\* ... and the call takes it back.
RtcReadClears ==
    /\ call.at = "seen"
    /\ rtc_interrupt' = 0
    /\ Return
    /\ UNCHANGED <<fd_array, max_rtc_count, rtc_fd_idx, since, steady, cut, raised>>

-----------------------------------------------------------------------------
(* close, and the reads of a regular file *)

\* close() gives the descriptor back before it calls rtc_close.  Its stores
\* are one step: for the handler the last two may as well change places.  (A
\* call on a descriptor that has no operations faults: Files has that.)
Close(k) ==
    /\ call.at = "idle"
    /\ fd_array[k].used /\ fd_array[k].op # "none"
    /\ fd_array' = [fd_array EXCEPT ![k].used = FALSE, ![k].pos = 0]
    /\ IF fd_array[k].op = "rtc" THEN call' = [Idle EXCEPT !.at = "close", !.fd = k]
                                 ELSE UNCHANGED call
    /\ UNCHANGED <<max_rtc_count, rtc_interrupt, rtc_fd_idx, since, steady, cut, raised>>

\* rtc_close clears the PCB's fields one by one.
RtcCloseCount ==
    /\ call.at = "close"
    /\ max_rtc_count' = 0
    /\ Resettled
    /\ Goto("close_flag")
    /\ UNCHANGED <<fd_array, rtc_interrupt, rtc_fd_idx, cut, raised>>

RtcCloseFlag ==
    /\ call.at = "close_flag"
    /\ rtc_interrupt' = 0
    /\ Goto("close_idx")
    /\ UNCHANGED <<fd_array, max_rtc_count, rtc_fd_idx, since, steady, cut, raised>>

\* Mutant: the handler still finds the descriptor.
RtcCloseKeepsIdx ==
    /\ call.at = "close_idx"
    /\ Resettled
    /\ Return
    /\ UNCHANGED <<pcb, cut, raised>>

RtcCloseIdx ==
    /\ call.at = "close_idx"
    /\ rtc_fd_idx' = None
    /\ cut' = FALSE
    /\ Resettled
    /\ Return
    /\ UNCHANGED <<fd_array, max_rtc_count, rtc_interrupt, raised>>

FileRead(k) ==
    /\ call.at = "idle"
    /\ fd_array[k].used /\ fd_array[k].op = "file"
    /\ fd_array[k].pos < FILE_LENGTH
    /\ fd_array' = [fd_array EXCEPT ![k].pos = @ + 1]
    /\ UNCHANGED <<max_rtc_count, rtc_interrupt, rtc_fd_idx, call, since, steady, cut, raised>>

Closing(k) == call.at \in {"close", "close_flag", "close_idx"} /\ call.fd = k

Blank == [k \in Fd |-> [used |-> FALSE, op |-> "none", pos |-> 0]]

\* halt(), by system call or by Ctrl-C at any point of another call: a root
\* shell goes on with its PCB as that call left it; of another process the pid
\* is free, and the next process gets a PCB that execute() has set up.  (What
\* a child's halt() closes of its waiting parent, Close does without a tick.)
Halt ==
    /\ \/ /\ cut' = (cut \/ Closing(rtc_fd_idx))
          /\ UNCHANGED pcb
       \/ /\ fd_array' = Blank
          /\ max_rtc_count' = 0 /\ rtc_interrupt' = 0 /\ rtc_fd_idx' = None
          /\ cut' = FALSE
    /\ raised' = FALSE
    /\ Resettled
    /\ Return

-----------------------------------------------------------------------------
\* execute() leaves the PCB with no descriptor open and no rtc.
Init ==
    /\ fd_array = Blank
    /\ max_rtc_count = 0
    /\ rtc_interrupt = 0
    /\ rtc_fd_idx = None
    /\ call = Idle
    /\ since = Long
    /\ steady = FALSE
    /\ cut = FALSE
    /\ raised = FALSE

Call ==
    \/ OpenTake \/ OpenType("rtc") \/ OpenType("file") \/ RtcOpen
    \/ \E k \in Fd, f \in 2 .. FREQ_MAX : RtcWriteFd(k, f)
    \/ RtcWriteCount
    \/ \E k \in Fd : RtcRead(k) \/ Close(k) \/ FileRead(k)
    \/ RtcReadSees \/ RtcReadClears
    \/ RtcCloseCount \/ RtcCloseFlag \/ RtcCloseIdx

Next == Tick \/ Call \/ Halt

\* The RTC ticks, and the process gets the CPU again and again; nothing says
\* that it has it when the flag is set.
Fairness == WF_vars(Tick) /\ WF_vars(RtcReadSees) /\ WF_vars(RtcReadClears)

Spec == Init /\ [][Next]_vars /\ Fairness

-----------------------------------------------------------------------------
(* Properties *)

Steps == {"idle", "type", "open", "write", "read", "seen",
          "close", "close_flag", "close_idx"}

TypeOK ==
    /\ fd_array \in [Fd -> [used : BOOLEAN, op : {"none", "rtc", "file"},
                            pos : 0 .. WRAP - 1]]
    /\ max_rtc_count \in {0} \cup Periods
    /\ rtc_interrupt \in {0, 1}
    /\ rtc_fd_idx \in Fd \cup {None}
    /\ call \in [at : Steps, fd : Fd \cup {None}, f : 0 .. FREQ_MAX]
    /\ since \in 0 .. Long
    /\ steady \in BOOLEAN /\ cut \in BOOLEAN /\ raised \in BOOLEAN

\* The handler counts in an rtc descriptor, open or on its way out of close();
\* it never moves the offset of a regular file the process has open, unless
\* Ctrl-C restarted a root shell after close() had given the descriptor back
\* and before rtc_close had reset rtc_fd_idx.  That state ends with the next
\* rtc_write or whole rtc_close.
CountsInRtcOnly ==
    rtc_fd_idx # None /\ ~cut =>
        /\ fd_array[rtc_fd_idx].op = "rtc"
        /\ fd_array[rtc_fd_idx].used \/ Closing(rtc_fd_idx)

\* Once the settings have settled, and while the count is not a regular file's
\* offset as well, rtc_read never sees two interrupts closer than the period
\* last written, however its steps, the ticks and Ctrl-C interleave.
NeverFasterThanAsked ==
    call.at = "read" /\ rtc_interrupt = 1 /\ ~cut => since >= max_rtc_count

\* At the full rate the flag stays up once set, so a process that reads after
\* it has written always returns, without luck in when it gets the CPU.
FullRateReadReturns ==
    call.at = "read" /\ rtc_fd_idx # None /\ max_rtc_count = 1 ~> call.at = "idle"

\* rtc_read: blocks until the next RTC interrupt.  When one comes while the
\* process is blocked, it is still there when the process looks.
BlocksUntilNextInterrupt == call.at = "read" /\ raised => rtc_interrupt = 1

-----------------------------------------------------------------------------
(* The inductive invariant of the proofs: the safety properties above and    *)
(* what they rest on.                                                        *)

\* A call in progress on a descriptor knows what it was called with, and one
\* that opens a descriptor does not find the handler counting in it.
CallsOwnFd ==
    /\ call.at = "write" => call.fd \in Fd /\ IsRtc(call.fd) /\ call.f \in 2 .. FREQ_MAX
    /\ call.at \in {"type", "close", "close_flag", "close_idx"} => call.fd \in Fd
    /\ call.at = "type" => cut \/ rtc_fd_idx # call.fd

\* Since an rtc_read last saw the flag at least as many ticks have passed as
\* have been counted, and the flag is up only in the tick that starts a count.
CountsSinceRead ==
    /\ ~steady => since = Long
    /\ rtc_fd_idx # None /\ ~cut => fd_array[rtc_fd_idx].pos <= since \/ since = Long
    /\ steady /\ rtc_interrupt = 1 /\ rtc_fd_idx # None /\ ~cut
         => fd_array[rtc_fd_idx].pos = 0

\* The flag goes up a whole period after it was last seen, unless the read
\* that saw it has not yet taken it back.
FlagIsDue ==
    rtc_interrupt = 1 /\ call.at # "seen" /\ ~cut => since >= max_rtc_count

IInv ==
    /\ TypeOK
    /\ CallsOwnFd
    /\ CountsInRtcOnly
    /\ CountsSinceRead
    /\ FlagIsDue
=============================================================================
