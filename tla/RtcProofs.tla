----------------------------- MODULE RtcProofs -----------------------------
(***************************************************************************)
(* Proofs about the virtual RTC, for every number of descriptors, every    *)
(* tick rate and every width of the counter: IInv is inductive, and with   *)
(* it the handler counts in rtc descriptors only, but for a root shell     *)
(* restarted inside close(), and no rtc_read sees two interrupts closer    *)
(* than the period it asked for.  The liveness property of Rtc stays with  *)
(* TLC.                                                                    *)
(***************************************************************************)
EXTENDS Rtc, TLAPS

-----------------------------------------------------------------------------
(* Arithmetic *)

\* The ghost clock's bound is a period, and fits the counter.
LEMMA LongPositive == Long \in Nat /\ Long >= 1 /\ Long <= WRAP - 1
BY RtcAssumption DEF Long

\* rtc_open asks for an interrupt on every tick.
LEMMA DivSelf == FREQ_MAX \div FREQ_MAX = 1
BY RtcAssumption

\* What rtc_write computes is a period of at most half a second.
LEMMA DivBounds == \A f \in 2 .. FREQ_MAX : FREQ_MAX \div f \in Periods
<1> SUFFICES ASSUME NEW f \in 2 .. FREQ_MAX
             PROVE  FREQ_MAX \div f \in 1 .. FREQ_MAX \div 2
  BY DEF Periods
<1> DEFINE q == FREQ_MAX \div f
           r == FREQ_MAX % f
<1>1. q \in Int /\ r \in 0 .. f - 1 /\ FREQ_MAX = f * q + r
  BY RtcAssumption
<1>2. q >= 1
  BY <1>1, RtcAssumption
<1>3. q <= FREQ_MAX \div 2
  BY <1>1, <1>2, RtcAssumption
<1>4. QED
  BY <1>1, <1>2, <1>3, RtcAssumption

\* The counter goes up by one, or round.
LEMMA NextPos ==
    \A p \in 0 .. WRAP - 1 : (p + 1) % WRAP = IF p + 1 = WRAP THEN 0 ELSE p + 1
BY RtcAssumption

-----------------------------------------------------------------------------
(* The tables *)

Descriptor == [used : BOOLEAN, op : {"none", "rtc", "file"}, pos : 0 .. WRAP - 1]

\* What TypeOK says of one descriptor.
LEMMA DescriptorFields ==
    ASSUME TypeOK, NEW k \in Fd
    PROVE  /\ fd_array[k] \in Descriptor
           /\ fd_array[k].used \in BOOLEAN
           /\ fd_array[k].op \in {"none", "rtc", "file"}
           /\ fd_array[k].pos \in 0 .. WRAP - 1
BY DEF TypeOK, Descriptor

\* None is not a descriptor.
LEMMA NoneIsNoFd == None \notin Fd
BY RtcAssumption DEF None, Fd

-----------------------------------------------------------------------------
(* The inductive invariant *)

\* execute() leaves a state in which the invariant holds.
LEMMA InitIInv == Init => IInv
<1> SUFFICES ASSUME Init PROVE IInv
  OBVIOUS
<1> USE DEF Init, Idle, Blank
<1>1. 0 \in 0 .. WRAP - 1 /\ 0 \in 0 .. FREQ_MAX
  BY RtcAssumption
<1>2. TypeOK
  <2>1. [used |-> FALSE, op |-> "none", pos |-> 0] \in Descriptor
    BY <1>1 DEF Descriptor
  <2>2. fd_array \in [Fd -> Descriptor]
    BY <2>1
  <2>3. call \in [at : Steps, fd : Fd \cup {None}, f : 0 .. FREQ_MAX]
    BY <1>1 DEF Steps
  <2>4. since \in 0 .. Long
    BY LongPositive
  <2>5. QED
    BY <2>2, <2>3, <2>4 DEF TypeOK, Descriptor
<1>3. CallsOwnFd /\ CountsInRtcOnly /\ CountsSinceRead /\ FlagIsDue
  BY DEF CallsOwnFd, CountsInRtcOnly, CountsSinceRead, FlagIsDue
<1>4. QED
  BY <1>2, <1>3 DEF IInv

\* The interrupt handler counts a tick, raises the flag or takes it back.
LEMMA TickIInv == ASSUME IInv, Tick PROVE IInv'
<1>1. TypeOK /\ CallsOwnFd /\ CountsInRtcOnly /\ CountsSinceRead /\ FlagIsDue
  BY DEF IInv
<1>2. /\ since \in 0 .. Long
      /\ since' = IF since < Long THEN since + 1 ELSE Long
      /\ call' = call /\ cut' = cut
  BY <1>1 DEF Tick, TypeOK
<1>3. since' \in 0 .. Long /\ since' >= since
  BY <1>2, LongPositive
<1>4. CASE rtc_fd_idx = None
  <2>1. UNCHANGED <<pcb, steady, call, cut, raised>>
    BY <1>4 DEF Tick
  <2>2. TypeOK'
    BY <1>1, <1>3, <2>1 DEF TypeOK, pcb
  <2>3. CallsOwnFd' /\ CountsInRtcOnly'
    BY <1>1, <2>1 DEF CallsOwnFd, CountsInRtcOnly, IsRtc, Closing, pcb
  <2>4. CountsSinceRead'
    BY <1>1, <1>2, <1>4, <2>1 DEF CountsSinceRead, pcb
  <2>5. FlagIsDue'
    BY <1>1, <1>2, <1>3, <2>1, LongPositive DEF FlagIsDue, TypeOK, Periods, Long, pcb
  <2>6. QED
    BY <2>2, <2>3, <2>4, <2>5 DEF IInv
<1>5. CASE rtc_fd_idx # None
  <2> DEFINE k == rtc_fd_idx
             pos == (fd_array[k].pos + 1) % WRAP
             new == IF pos = max_rtc_count THEN 0 ELSE pos
  <2>1. k \in Fd
    BY <1>1, <1>5 DEF TypeOK
  <2>2. fd_array[k].pos \in 0 .. WRAP - 1
    BY <1>1, <2>1, DescriptorFields
  <2>3. pos \in 0 .. WRAP - 1 /\ pos <= fd_array[k].pos + 1
    BY <2>2, NextPos, RtcAssumption
  <2>4. new \in 0 .. WRAP - 1 /\ new <= pos
    <3>1. 0 \in 0 .. WRAP - 1 /\ 0 <= pos /\ pos <= pos
      BY <2>3, RtcAssumption
    <3>2. QED
      BY <2>3, <3>1, Zenon
  <2>5. fd_array' = [fd_array EXCEPT ![k] = [fd_array[k] EXCEPT !.pos = new]]
    BY <1>5, Zenon DEF Tick, Reached
  <2>6. /\ rtc_interrupt' = IF pos = max_rtc_count THEN 1 ELSE 0
        /\ steady' = (steady \/ pos = max_rtc_count)
        /\ raised' = (raised \/ (call.at = "read" /\ pos = max_rtc_count))
        /\ max_rtc_count' = max_rtc_count /\ rtc_fd_idx' = k
    BY <1>5 DEF Tick, Reached
  <2>7. max_rtc_count \in {0} \cup Periods /\ max_rtc_count \in 0 .. Long
    BY <1>1, LongPositive DEF TypeOK, Periods, Long
  <2>8. /\ fd_array' \in [Fd -> Descriptor]
        /\ fd_array'[k].pos = new
        /\ \A j \in Fd : fd_array'[j].used = fd_array[j].used /\ fd_array'[j].op = fd_array[j].op
    BY <1>1, <2>1, <2>4, <2>5 DEF TypeOK, Descriptor
  <2> HIDE DEF k, pos, new
  <2>9. TypeOK'
    <3>1. steady' \in BOOLEAN /\ raised' \in BOOLEAN
      BY <2>6
    <3>2. QED
      BY <1>1, <1>2, <1>3, <2>1, <2>6, <2>8, <3>1 DEF TypeOK, Descriptor
  <2>10. CallsOwnFd'
    BY <1>1, <1>2, <2>6, <2>8 DEF CallsOwnFd, IsRtc, k
  <2>11. CountsInRtcOnly'
    BY <1>1, <1>2, <2>1, <2>6, <2>8 DEF CountsInRtcOnly, Closing, k
  <2>12. CountsSinceRead'
    <3>1. ~steady' => since' = Long
      <4>1. ~steady => since = Long
        BY <1>1 DEF CountsSinceRead
      <4>2. ~steady' => ~steady
        BY <2>6, Zenon
      <4>3. since = Long => since' = Long
        BY <1>2, LongPositive
      <4>4. QED
        BY <4>1, <4>2, <4>3, Zenon
    <3>2. ~cut => fd_array[k].pos <= since \/ since = Long
      BY <1>1, <1>5 DEF CountsSinceRead, k
    <3>3. ~cut => new <= since' \/ since' = Long
      BY <1>2, <2>2, <2>3, <2>4, <3>2, LongPositive
    <3>4. steady' /\ rtc_interrupt' = 1 => new = 0
      BY <2>6 DEF new
    <3>5. QED
      BY <1>2, <2>6, <2>8, <3>1, <3>3, <3>4 DEF CountsSinceRead
  <2>13. FlagIsDue'
    <3>1. ~cut => fd_array[k].pos <= since \/ since = Long
      BY <1>1, <1>5 DEF CountsSinceRead, k
    <3>2. ~cut /\ rtc_interrupt' = 1 => since' >= max_rtc_count
      BY <1>2, <2>2, <2>3, <2>6, <2>7, <3>1, LongPositive
    <3>3. QED
      BY <1>2, <2>6, <3>2 DEF FlagIsDue
  <2>14. QED
    BY <2>9, <2>10, <2>11, <2>12, <2>13 DEF IInv
<1>6. QED
  BY <1>4, <1>5

\* The lowest unused descriptor is taken: none the handler counts in, unless a
\* close() was cut short.
LEMMA OpenTakeIInv == ASSUME IInv, OpenTake PROVE IInv'
<1>1. TypeOK /\ CallsOwnFd /\ CountsInRtcOnly /\ CountsSinceRead /\ FlagIsDue
  BY DEF IInv
<1>2. PICK k \in Fd : /\ ~fd_array[k].used
                      /\ fd_array' = [fd_array EXCEPT ![k].used = TRUE]
                      /\ call' = [Idle EXCEPT !.at = "type", !.fd = k]
  BY DEF OpenTake
<1>3. /\ call.at = "idle"
      /\ UNCHANGED <<max_rtc_count, rtc_interrupt, rtc_fd_idx, since, steady, cut, raised>>
  BY DEF OpenTake
<1>4. /\ call' \in [at : Steps, fd : Fd \cup {None}, f : 0 .. FREQ_MAX]
      /\ call'.at = "type" /\ call'.fd = k
  <2>1. 0 \in 0 .. FREQ_MAX
    BY RtcAssumption
  <2>2. QED
    BY <1>2, <2>1 DEF Idle, Steps
<1>5. /\ fd_array' \in [Fd -> Descriptor]
      /\ \A j \in Fd : /\ fd_array'[j].pos = fd_array[j].pos
                       /\ fd_array'[j].op = fd_array[j].op
                       /\ fd_array[j].used => fd_array'[j].used
  <2>1. fd_array \in [Fd -> Descriptor]
    BY <1>1 DEF TypeOK, Descriptor
  <2>2. QED
    BY <1>2, <2>1 DEF Descriptor
<1>6. rtc_fd_idx # None => rtc_fd_idx \in Fd
  BY <1>1 DEF TypeOK
<1>7. cut \/ rtc_fd_idx # k
  BY <1>1, <1>2, <1>3, NoneIsNoFd DEF CountsInRtcOnly, Closing
<1>8. TypeOK'
  BY <1>1, <1>3, <1>4, <1>5 DEF TypeOK, Descriptor
<1>9. CallsOwnFd'
  BY <1>3, <1>4, <1>7 DEF CallsOwnFd
<1>10. CountsInRtcOnly'
  BY <1>1, <1>3, <1>5, <1>6 DEF CountsInRtcOnly, Closing
<1>11. CountsSinceRead' /\ FlagIsDue'
  BY <1>1, <1>3, <1>4, <1>5, <1>6 DEF CountsSinceRead, FlagIsDue
<1>12. QED
  BY <1>8, <1>9, <1>10, <1>11 DEF IInv

\* ... so its operations, when they are set, are not those of the descriptor
\* the handler counts in.
LEMMA OpenTypeIInv == ASSUME IInv, NEW op \in {"rtc", "file"}, OpenType(op) PROVE IInv'
<1>1. TypeOK /\ CallsOwnFd /\ CountsInRtcOnly /\ CountsSinceRead /\ FlagIsDue
  BY DEF IInv
<1> DEFINE k == call.fd
<1>2. /\ call.at = "type" /\ k \in Fd /\ (cut \/ rtc_fd_idx # k)
      /\ fd_array' = [fd_array EXCEPT ![k].op = op]
      /\ UNCHANGED <<max_rtc_count, rtc_interrupt, rtc_fd_idx, since, steady, cut, raised>>
  BY <1>1 DEF OpenType, CallsOwnFd
<1>3. call' = Idle \/ call' = [call EXCEPT !.at = "open"]
  BY DEF OpenType, Goto, Return
<1>4. /\ call' \in [at : Steps, fd : Fd \cup {None}, f : 0 .. FREQ_MAX]
      /\ call'.at \in {"idle", "open"}
  <2>1. 0 \in 0 .. FREQ_MAX
    BY RtcAssumption
  <2>2. QED
    BY <1>1, <1>3, <2>1 DEF TypeOK, Steps, Idle
<1>5. /\ fd_array' \in [Fd -> Descriptor]
      /\ \A j \in Fd : /\ fd_array'[j].pos = fd_array[j].pos
                       /\ j # k => fd_array'[j] = fd_array[j]
  <2>1. fd_array \in [Fd -> Descriptor]
    BY <1>1 DEF TypeOK, Descriptor
  <2>2. QED
    BY <1>2, <2>1 DEF Descriptor
<1>6. rtc_fd_idx # None => rtc_fd_idx \in Fd
  BY <1>1 DEF TypeOK
<1>7. TypeOK'
  BY <1>1, <1>2, <1>4, <1>5 DEF TypeOK, Descriptor
<1>8. CallsOwnFd'
  BY <1>4 DEF CallsOwnFd
<1>9. CountsInRtcOnly'
  BY <1>1, <1>2, <1>5, <1>6 DEF CountsInRtcOnly, Closing
<1>10. CountsSinceRead' /\ FlagIsDue'
  BY <1>1, <1>2, <1>5, <1>6 DEF CountsSinceRead, FlagIsDue
<1>11. QED
  BY <1>7, <1>8, <1>9, <1>10 DEF IInv

\* A new period, or none: it may be due at once, however long it is.
LEMMA NewCountIInv ==
    ASSUME IInv, call.at \in {"open", "write", "close"},
           max_rtc_count' \in {0} \cup Periods, since' = Long, steady' = FALSE,
           UNCHANGED <<fd_array, rtc_interrupt, rtc_fd_idx, cut, raised>>,
           \/ call.at \in {"open", "write"} /\ call' = Idle
           \/ call.at = "close" /\ call' = [call EXCEPT !.at = "close_flag"]
    PROVE  IInv'
<1>1. TypeOK /\ CallsOwnFd /\ CountsInRtcOnly /\ CountsSinceRead /\ FlagIsDue
  BY DEF IInv
<1>2. Long \in 0 .. Long /\ 0 \in 0 .. FREQ_MAX
  BY LongPositive, RtcAssumption
<1>3. TypeOK'
  <2>1. call' \in [at : Steps, fd : Fd \cup {None}, f : 0 .. FREQ_MAX]
    BY <1>1, <1>2 DEF TypeOK, Steps, Idle
  <2>2. QED
    BY <1>1, <1>2, <2>1 DEF TypeOK
<1>4. /\ call'.at \in {"idle", "close_flag"}
      /\ call.at = "close" => call'.at = "close_flag" /\ call'.fd = call.fd
  BY <1>1 DEF Idle, TypeOK
<1>5. CallsOwnFd'
  BY <1>1, <1>4 DEF CallsOwnFd, Idle
<1>6. CountsInRtcOnly'
  BY <1>1, <1>4 DEF CountsInRtcOnly, Closing
<1>7. CountsSinceRead'
  BY DEF CountsSinceRead
<1>8. FlagIsDue'
  <2>1. Long >= max_rtc_count'
    BY LongPositive DEF Periods, Long
  <2>2. QED
    BY <2>1 DEF FlagIsDue
<1>9. QED
  BY <1>3, <1>5, <1>6, <1>7, <1>8 DEF IInv

\* rtc_write begins: another descriptor counts.
LEMMA WriteFdIInv ==
    ASSUME IInv, NEW k \in Fd, NEW f \in 2 .. FREQ_MAX, RtcWriteFd(k, f)
    PROVE  IInv'
<1>1. TypeOK
  BY DEF IInv
<1>2. /\ call' = [at |-> "write", fd |-> k, f |-> f]
      /\ rtc_fd_idx' = k /\ since' = Long /\ steady' = FALSE /\ cut' = FALSE
      /\ UNCHANGED <<fd_array, max_rtc_count, rtc_interrupt, raised>>
      /\ fd_array[k].used /\ fd_array[k].op = "rtc"
  BY DEF RtcWriteFd, Resettled, IsRtc
<1>3. TypeOK'
  <2>1. f \in 0 .. FREQ_MAX /\ Long \in 0 .. Long
    BY RtcAssumption, LongPositive
  <2>2. QED
    BY <1>1, <1>2, <2>1 DEF TypeOK, Steps
<1>4. CallsOwnFd' /\ CountsInRtcOnly' /\ CountsSinceRead'
  BY <1>2 DEF CallsOwnFd, CountsInRtcOnly, CountsSinceRead, IsRtc
<1>5. FlagIsDue'
  <2>1. Long >= max_rtc_count
    BY <1>1, LongPositive DEF TypeOK, Periods, Long
  <2>2. QED
    BY <1>2, <2>1 DEF FlagIsDue
<1>6. QED
  BY <1>3, <1>4, <1>5 DEF IInv

\* The steps of rtc_read: it waits, sees the flag, takes it back.
LEMMA ReadIInv ==
    ASSUME IInv, \/ \E k \in Fd : RtcRead(k)
                 \/ RtcReadSees
                 \/ RtcReadClears
    PROVE  IInv'
<1>1. TypeOK /\ CallsOwnFd /\ CountsInRtcOnly /\ CountsSinceRead /\ FlagIsDue
  BY DEF IInv
<1>2. 0 \in 0 .. FREQ_MAX /\ 0 \in 0 .. Long /\ Long \in 0 .. Long
  BY RtcAssumption, LongPositive
<1>3. CASE \E k \in Fd : RtcRead(k)
  <2>1. /\ call.at = "idle" /\ call' = [call EXCEPT !.at = "read"]
        /\ UNCHANGED <<fd_array, max_rtc_count, rtc_interrupt, rtc_fd_idx, since, steady, cut>>
        /\ raised' = FALSE
    BY <1>3 DEF RtcRead, Goto, pcb
  <2>2. TypeOK' /\ call'.at = "read"
    BY <1>1, <2>1 DEF TypeOK, Steps
  <2>3. CallsOwnFd' /\ CountsInRtcOnly' /\ CountsSinceRead' /\ FlagIsDue'
    BY <1>1, <2>1, <2>2
       DEF CallsOwnFd, CountsInRtcOnly, CountsSinceRead, FlagIsDue, Closing
  <2>4. QED
    BY <2>2, <2>3 DEF IInv
<1>4. CASE RtcReadSees
  <2>1. /\ call.at = "read" /\ call' = [call EXCEPT !.at = "seen"] /\ rtc_interrupt = 1
        /\ since' = IF steady THEN 0 ELSE Long
        /\ UNCHANGED <<fd_array, max_rtc_count, rtc_interrupt, rtc_fd_idx, steady, cut>>
        /\ raised' = FALSE
    BY <1>4 DEF RtcReadSees, Goto, pcb
  <2>2. TypeOK' /\ call'.at = "seen"
    BY <1>1, <1>2, <2>1 DEF TypeOK, Steps
  <2>3. CallsOwnFd' /\ CountsInRtcOnly' /\ FlagIsDue'
    BY <1>1, <2>1, <2>2 DEF CallsOwnFd, CountsInRtcOnly, FlagIsDue, Closing
  <2>4. CountsSinceRead'
    <3>1. rtc_fd_idx # None /\ steady /\ ~cut => fd_array[rtc_fd_idx].pos = 0
      BY <1>1, <2>1 DEF CountsSinceRead
    <3>2. QED
      BY <2>1, <3>1 DEF CountsSinceRead
  <2>5. QED
    BY <2>2, <2>3, <2>4 DEF IInv
<1>5. CASE RtcReadClears
  <2>1. /\ call.at = "seen" /\ call' = Idle /\ rtc_interrupt' = 0
        /\ UNCHANGED <<fd_array, max_rtc_count, rtc_fd_idx, since, steady, cut, raised>>
    BY <1>5 DEF RtcReadClears, Return
  <2>2. TypeOK'
    BY <1>1, <1>2, <2>1 DEF TypeOK, Steps, Idle
  <2>3. CallsOwnFd' /\ CountsInRtcOnly' /\ CountsSinceRead' /\ FlagIsDue'
    BY <1>1, <2>1
       DEF CallsOwnFd, CountsInRtcOnly, CountsSinceRead, FlagIsDue, Closing, Idle
  <2>4. QED
    BY <2>2, <2>3 DEF IInv
<1>6. QED
  BY <1>3, <1>4, <1>5

\* close() gives the descriptor back before rtc_close: the handler may go on
\* counting in it, but only while the call is still in progress.
LEMMA CloseIInv == ASSUME IInv, NEW k \in Fd, Close(k) PROVE IInv'
<1>1. TypeOK /\ CallsOwnFd /\ CountsInRtcOnly /\ CountsSinceRead /\ FlagIsDue
  BY DEF IInv
<1>2. /\ call.at = "idle"
      /\ fd_array' = [fd_array EXCEPT ![k].used = FALSE, ![k].pos = 0]
      /\ IF fd_array[k].op = "rtc" THEN call' = [Idle EXCEPT !.at = "close", !.fd = k]
                                   ELSE call' = call
      /\ UNCHANGED <<max_rtc_count, rtc_interrupt, rtc_fd_idx, since, steady, cut, raised>>
  BY DEF Close
<1>3. /\ fd_array' \in [Fd -> Descriptor]
      /\ fd_array'[k].pos = 0 /\ fd_array'[k].op = fd_array[k].op
      /\ \A j \in Fd : j # k => fd_array'[j] = fd_array[j]
  <2>1. fd_array \in [Fd -> Descriptor]
    BY <1>1 DEF TypeOK, Descriptor
  <2>2. 0 \in 0 .. WRAP - 1
    BY LongPositive, RtcAssumption
  <2>3. QED
    BY <1>2, <2>1, <2>2 DEF Descriptor
<1>4. /\ call' \in [at : Steps, fd : Fd \cup {None}, f : 0 .. FREQ_MAX]
      /\ call'.at \in {"idle", "close"}
      /\ fd_array[k].op = "rtc" => call'.at = "close" /\ call'.fd = k
      /\ fd_array[k].op # "rtc" => call' = call
  <2>1. 0 \in 0 .. FREQ_MAX
    BY RtcAssumption
  <2>2. QED
    BY <1>1, <1>2, <2>1 DEF TypeOK, Steps, Idle
<1>5. TypeOK'
  BY <1>1, <1>2, <1>3, <1>4 DEF TypeOK, Descriptor
<1>6. CallsOwnFd'
  BY <1>2, <1>4 DEF CallsOwnFd
<1>7. CountsInRtcOnly'
  BY <1>1, <1>2, <1>3, <1>4 DEF CountsInRtcOnly, Closing, TypeOK
<1>8. CountsSinceRead'
  <2>1. ~steady' => since' = Long
    BY <1>1, <1>2 DEF CountsSinceRead
  <2>2. 0 <= since
    BY <1>1, LongPositive DEF TypeOK
  <2>3. QED
    BY <1>1, <1>2, <1>3, <2>1, <2>2 DEF CountsSinceRead, TypeOK
<1>9. FlagIsDue'
  BY <1>1, <1>2, <1>4 DEF FlagIsDue
<1>10. QED
  BY <1>5, <1>6, <1>7, <1>8, <1>9 DEF IInv

\* rtc_close goes on: the flag, ...
LEMMA CloseFlagIInv == ASSUME IInv, RtcCloseFlag PROVE IInv'
<1>1. TypeOK /\ CallsOwnFd /\ CountsInRtcOnly /\ CountsSinceRead /\ FlagIsDue
  BY DEF IInv
<1>2. /\ call.at = "close_flag" /\ call' = [call EXCEPT !.at = "close_idx"]
      /\ rtc_interrupt' = 0
      /\ UNCHANGED <<fd_array, max_rtc_count, rtc_fd_idx, since, steady, cut, raised>>
  BY DEF RtcCloseFlag, Goto
<1>3. TypeOK' /\ call'.at = "close_idx" /\ call'.fd = call.fd
  BY <1>1, <1>2 DEF TypeOK, Steps
<1>4. CallsOwnFd' /\ CountsInRtcOnly' /\ CountsSinceRead' /\ FlagIsDue'
  BY <1>1, <1>2, <1>3
     DEF CallsOwnFd, CountsInRtcOnly, CountsSinceRead, FlagIsDue, Closing
<1>5. QED
  BY <1>3, <1>4 DEF IInv

\* ... and the descriptor.
LEMMA CloseIdxIInv == ASSUME IInv, RtcCloseIdx PROVE IInv'
<1>1. TypeOK
  BY DEF IInv
<1>2. /\ call' = Idle /\ rtc_fd_idx' = None /\ since' = Long /\ steady' = FALSE
      /\ cut' = FALSE
      /\ UNCHANGED <<fd_array, max_rtc_count, rtc_interrupt, raised>>
  BY DEF RtcCloseIdx, Return, Resettled
<1>3. TypeOK'
  <2>1. 0 \in 0 .. FREQ_MAX /\ Long \in 0 .. Long
    BY RtcAssumption, LongPositive
  <2>2. QED
    BY <1>1, <1>2, <2>1 DEF TypeOK, Steps, Idle
<1>4. CallsOwnFd' /\ CountsInRtcOnly' /\ CountsSinceRead'
  BY <1>2 DEF CallsOwnFd, CountsInRtcOnly, CountsSinceRead, Idle
<1>5. FlagIsDue'
  <2>1. Long >= max_rtc_count
    BY <1>1, LongPositive DEF TypeOK, Periods, Long
  <2>2. QED
    BY <1>2, <2>1 DEF FlagIsDue
<1>6. QED
  BY <1>3, <1>4, <1>5 DEF IInv

\* A regular file's position is none the handler counts in, unless a close()
\* was cut short.
LEMMA FileReadIInv == ASSUME IInv, NEW k \in Fd, FileRead(k) PROVE IInv'
<1>1. TypeOK /\ CallsOwnFd /\ CountsInRtcOnly /\ CountsSinceRead /\ FlagIsDue
  BY DEF IInv
<1>2. /\ call.at = "idle" /\ fd_array[k].op = "file" /\ fd_array[k].pos < FILE_LENGTH
      /\ fd_array' = [fd_array EXCEPT ![k].pos = fd_array[k].pos + 1]
      /\ UNCHANGED <<max_rtc_count, rtc_interrupt, rtc_fd_idx, call, since, steady, cut, raised>>
  BY DEF FileRead
<1>3. /\ fd_array' \in [Fd -> Descriptor]
      /\ \A j \in Fd : /\ fd_array'[j].used = fd_array[j].used
                       /\ fd_array'[j].op = fd_array[j].op
                       /\ j # k => fd_array'[j] = fd_array[j]
  <2>1. fd_array \in [Fd -> Descriptor]
    BY <1>1 DEF TypeOK, Descriptor
  <2>2. fd_array[k].pos + 1 \in 0 .. WRAP - 1
    BY <1>1, <1>2, DescriptorFields, RtcAssumption
  <2>3. QED
    BY <1>2, <2>1, <2>2 DEF Descriptor
<1>4. (rtc_fd_idx # None => rtc_fd_idx \in Fd) /\ (cut \/ rtc_fd_idx # k)
  BY <1>1, <1>2, NoneIsNoFd DEF CountsInRtcOnly, TypeOK
<1>5. TypeOK'
  BY <1>1, <1>2, <1>3 DEF TypeOK, Descriptor
<1>6. CallsOwnFd' /\ CountsInRtcOnly'
  BY <1>1, <1>2, <1>3, <1>4 DEF CallsOwnFd, CountsInRtcOnly, Closing
<1>7. CountsSinceRead' /\ FlagIsDue'
  BY <1>1, <1>2, <1>3, <1>4 DEF CountsSinceRead, FlagIsDue
<1>8. QED
  BY <1>5, <1>6, <1>7 DEF IInv

\* Ctrl-C keeps the PCB of a root shell, and notes whether it cut a close()
\* short of its last store; any other process makes way for a new PCB.
LEMMA HaltIInv == ASSUME IInv, Halt PROVE IInv'
<1>1. TypeOK /\ CallsOwnFd /\ CountsInRtcOnly /\ CountsSinceRead /\ FlagIsDue
  BY DEF IInv
<1>2. /\ call' = Idle /\ since' = Long /\ steady' = FALSE /\ raised' = FALSE
  BY DEF Halt, Resettled, Return
<1>3. /\ call' \in [at : Steps, fd : Fd \cup {None}, f : 0 .. FREQ_MAX]
      /\ since' \in 0 .. Long /\ call'.at = "idle"
  <2>1. 0 \in 0 .. FREQ_MAX /\ Long \in 0 .. Long
    BY RtcAssumption, LongPositive
  <2>2. QED
    BY <1>2, <2>1 DEF Idle, Steps
<1>4. CallsOwnFd'
  BY <1>3 DEF CallsOwnFd
<1>5. CASE cut' = (cut \/ Closing(rtc_fd_idx)) /\ UNCHANGED pcb
  <2>1. UNCHANGED <<fd_array, max_rtc_count, rtc_interrupt, rtc_fd_idx>>
    BY <1>5 DEF pcb
  <2>2. cut' \in BOOLEAN /\ (~cut' => ~cut /\ ~Closing(rtc_fd_idx))
    BY <1>1, <1>5 DEF TypeOK
  <2>3. TypeOK'
    BY <1>1, <1>2, <1>3, <2>1, <2>2 DEF TypeOK
  <2>4. CountsInRtcOnly'
    BY <1>1, <2>1, <2>2 DEF CountsInRtcOnly
  <2>5. CountsSinceRead'
    BY <1>2 DEF CountsSinceRead
  <2>6. FlagIsDue'
    <3>1. Long >= max_rtc_count
      BY <1>1, LongPositive DEF TypeOK, Periods, Long
    <3>2. QED
      BY <1>2, <2>1, <3>1 DEF FlagIsDue
  <2>7. QED
    BY <1>4, <2>3, <2>4, <2>5, <2>6 DEF IInv
<1>6. CASE /\ fd_array' = Blank
           /\ max_rtc_count' = 0 /\ rtc_interrupt' = 0 /\ rtc_fd_idx' = None
           /\ cut' = FALSE
  <2>1. fd_array' \in [Fd -> Descriptor]
    <3>1. 0 \in 0 .. WRAP - 1
      BY LongPositive, RtcAssumption
    <3>2. QED
      BY <1>6, <3>1 DEF Descriptor, Blank
  <2>2. TypeOK'
    BY <1>2, <1>3, <1>6, <2>1 DEF TypeOK, Descriptor
  <2>3. CountsInRtcOnly' /\ CountsSinceRead' /\ FlagIsDue'
    BY <1>2, <1>6 DEF CountsInRtcOnly, CountsSinceRead, FlagIsDue
  <2>4. QED
    BY <1>4, <2>2, <2>3 DEF IInv
<1>7. QED
  BY <1>5, <1>6 DEF Halt

\* Every step of the call and the handler keeps the invariant.
LEMMA NextIInv == IInv /\ [Next]_vars => IInv'
<1> SUFFICES ASSUME IInv, [Next]_vars PROVE IInv'
  OBVIOUS
<1>1. CASE Tick
  BY <1>1, TickIInv
<1>2. CASE OpenTake \/ OpenType("rtc") \/ OpenType("file")
  BY <1>2, OpenTakeIInv, OpenTypeIInv
<1>3. CASE RtcOpen
  <2>1. max_rtc_count' \in Periods
    BY <1>3, DivSelf, LongPositive DEF RtcOpen, Periods, Long
  <2>2. QED
    BY <1>3, <2>1, NewCountIInv DEF RtcOpen, Resettled, Return
<1>4. CASE \E k \in Fd, f \in 2 .. FREQ_MAX : RtcWriteFd(k, f)
  BY <1>4, WriteFdIInv
<1>5. CASE RtcWriteCount
  <2>1. call.f \in 2 .. FREQ_MAX
    BY <1>5 DEF RtcWriteCount, IInv, CallsOwnFd
  <2>2. max_rtc_count' \in Periods
    BY <1>5, <2>1, DivBounds DEF RtcWriteCount
  <2>3. QED
    BY <1>5, <2>2, NewCountIInv DEF RtcWriteCount, Resettled, Return
<1>6. CASE (\E k \in Fd : RtcRead(k)) \/ RtcReadSees \/ RtcReadClears
  BY <1>6, ReadIInv
<1>7. CASE \E k \in Fd : Close(k)
  BY <1>7, CloseIInv
<1>8. CASE \E k \in Fd : FileRead(k)
  BY <1>8, FileReadIInv
<1>9. CASE RtcCloseCount
  BY <1>9, NewCountIInv DEF RtcCloseCount, Resettled, Goto
<1>10. CASE RtcCloseFlag
  BY <1>10, CloseFlagIInv
<1>11. CASE RtcCloseIdx
  BY <1>11, CloseIdxIInv
<1>12. CASE Halt
  BY <1>12, HaltIInv
<1>13. CASE UNCHANGED vars
  BY <1>13 DEF vars, pcb, IInv, TypeOK, CallsOwnFd, CountsInRtcOnly, CountsSinceRead,
               FlagIsDue, Closing, IsRtc
<1>14. QED
  BY <1>1, <1>2, <1>3, <1>4, <1>5, <1>6, <1>7, <1>8, <1>9, <1>10, <1>11, <1>12, <1>13
     DEF Next, Call

-----------------------------------------------------------------------------
(* Theorems *)

\* Every reachable state of the calls and the handler satisfies the inductive
\* invariant.
THEOREM Invariance == Spec => []IInv
BY InitIInv, NextIInv, PTL DEF Spec

\* The descriptors, the settings and the call in progress stay well formed:
\* no count leaves the counter's range, every period is one rtc_write can ask.
THEOREM TypeCorrect == Spec => []TypeOK
<1>1. IInv => TypeOK
  BY DEF IInv
<1>2. QED
  BY <1>1, Invariance, PTL

\* However ticks and Ctrl-C fall between the stores of open, rtc_write and
\* close, the handler counts in an rtc descriptor and never moves a regular
\* file's offset, unless a root shell was restarted between close()'s freeing
\* of the descriptor and rtc_close's reset of rtc_fd_idx.
THEOREM HandlerCountsInRtcOnly == Spec => []CountsInRtcOnly
<1>1. IInv => CountsInRtcOnly
  BY DEF IInv
<1>2. QED
  BY <1>1, Invariance, PTL

\* However ticks and Ctrl-C fall between the steps of rtc_read, it never sees
\* two interrupts closer than the period the process asked for, except while
\* the handler counts in what may be a regular file's offset.
THEOREM ReadsNoFasterThanAsked == Spec => []NeverFasterThanAsked
<1>1. IInv => NeverFasterThanAsked
  BY DEF IInv, FlagIsDue, NeverFasterThanAsked
<1>2. QED
  BY <1>1, Invariance, PTL
=============================================================================
