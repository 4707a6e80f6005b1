-------------------------- MODULE ProcessesProofs --------------------------
(***************************************************************************)
(* TLAPS proofs for Processes, for every number of terminals and pids: IInv *)
(* is inductive, the properties the runs check follow from it, and the       *)
(* terminals' processes are the stacks of TerminalStacks.                    *)
(***************************************************************************)
EXTENDS ProcessesRefinement, SequenceTheorems, FiniteSetTheorems,
        WellFoundedInduction, TLAPS

-----------------------------------------------------------------------------
(* Facts about the operators. *)

\* Interrupt frames go on one of the kernel stacks.
LEMMA FrameStackType == ASSUME TypeOK PROVE FrameStack \in Stack
  BY DEF TypeOK, FrameStack, Context

\* What a switch saves is a context, taken where the CPU is.
LEMMA SavedCpuType ==
  ASSUME TypeOK
  PROVE  /\ SavedCpu \in Context
         /\ SavedCpu.at = cpu.at
         /\ SavedCpu.stk = FrameStack
         /\ SavedCpu.ret = cpu.ret
  <1>1. cpu = [at |-> cpu.at, stk |-> cpu.stk, ret |-> cpu.ret]
    BY DEF TypeOK, Context
  <1>2. SavedCpu = [at |-> cpu.at, stk |-> FrameStack, ret |-> cpu.ret]
    BY <1>1 DEF SavedCpu
  <1> QED BY <1>2, FrameStackType DEF TypeOK, Context

\* At builds a context outside the "halt" window.
LEMMA AtType ==
  ASSUME NEW place \in Places, NEW stk \in Stack
  PROVE  /\ At(place, stk) \in Context
         /\ At(place, stk).at = place
         /\ At(place, stk).stk = stk
         /\ At(place, stk).ret = None
  BY DEF At, Context

\* A fault leaves the CPU in the fault handler.
LEMMA HangType ==
  ASSUME TypeOK, Hang
  PROVE  cpu' \in Context /\ cpu'.at = "hung"
  BY DEF TypeOK, Hang, Context, Places

\* Zero is a terminal and a pid.
LEMMA ZeroInRange == 0 \in Term /\ 0 \in Pid
  BY SizesAssumption DEF Term, Pid

\* None is no pid and no stack.
LEMMA NoneIsNoPid == \A p \in Pid : p # None /\ p \in Stack
  BY SizesAssumption DEF Pid, None, Stack

\* The round robin stays among the terminals.
LEMMA NextTermInRange ==
  ASSUME NEW t \in Term PROVE NextTerm(t) \in Term
  BY SizesAssumption DEF Term, NextTerm

\* Only suspended terminals' frames can be overwritten.
LEMMA OverlaidType == Overlaid \subseteq Term \ {active_term_idx}
  BY DEF Overlaid

-----------------------------------------------------------------------------
(* Type correctness *)

\* execute() keeps every PCB, table and register well formed.
LEMMA StartProcessType ==
  ASSUME TypeOK, HaltHasTarget,
         NEW p \in Pid, NEW t \in Term, NEW stk \in Stack,
         NEW kctx \in [Pid -> Context], NEW window \in Windows \ {"halt"},
         \A q \in Pid : kctx[q].at = "halt" => kctx[q].ret # None,
         StartProcess(p, t, stk, kctx, window)
  PROVE  /\ pid_status' \in [Pid -> {0, 1}]
         /\ schedule' \in [Term -> Pid \cup {None}]
         /\ parent_pid' \in [Pid -> Pid \cup {None}]
         /\ kernel_ctx' \in [Pid -> Context]
         /\ exe_ctx' \in [Pid -> Stack]
         /\ esp0' \in Stack
         /\ user_page' \in Pid \cup {None}
         /\ cpu' \in Context
         /\ HaltHasTarget'
  <1>1. window \in Places /\ "syscall" \in Places
    BY DEF Windows, Places
  <1>2. At("syscall", stk) \in Context /\ At("syscall", stk).at # "halt"
    BY <1>1, AtType
  <1>3. At(window, stk) \in Context /\ At(window, stk).at # "halt"
    BY <1>1, AtType
  <1>4. cpu' \in Context /\ cpu'.at # "halt"
    BY <1>3 DEF StartProcess
  <1>5. /\ kernel_ctx' \in [Pid -> Context]
        /\ \A q \in Pid : kernel_ctx'[q].at = "halt" => kernel_ctx'[q].ret # None
    BY <1>2 DEF StartProcess
  <1> QED BY <1>4, <1>5 DEF StartProcess, TypeOK, HaltHasTarget, Stack

\* Every action keeps the types.
LEMMA TypeStep ==
  ASSUME TypeOK, HaltHasTarget, [Next]_vars
  PROVE  TypeOK' /\ HaltHasTarget'
  <1>f. FrameStack \in Stack
    BY FrameStackType
  <1>p. /\ "user" \in Places /\ "syscall" \in Places /\ "halt" \in Places
        /\ "start" \in Places /\ "iret" \in Places
    BY DEF Places, Windows
  <1>s. /\ SavedCpu \in Context
        /\ SavedCpu.at = "halt" => SavedCpu.ret # None
    BY SavedCpuType DEF HaltHasTarget
  <1>c. clobbered \cup Overlaid \subseteq Term
    BY OverlaidType DEF TypeOK
  <1>b. ASSUME NEW idx \in Term
        PROVE  /\ BootCtx(idx) \in [Pid -> Context]
               /\ \A q \in Pid :
                    BootCtx(idx)[q].at = "halt" => BootCtx(idx)[q].ret # None
    BY <1>s DEF BootCtx, TypeOK, HaltHasTarget
  <1>1. CASE PitBoot
    <2>1. i + 1 \in Term /\ i' = i + 1 /\ active_term_idx' = i + 1
      BY <1>1, SizesAssumption DEF PitBoot, TypeOK, Term
    <2>2. clobbered' \subseteq Term
      BY <1>1, <1>c DEF PitBoot, Push
    <2>3. PICK p \in Pid :
            StartProcess(p, i + 1, FrameStack, BootCtx(i + 1), "start")
      BY <1>1 DEF PitBoot
    <2>4. i' \in -1 .. NTERMS - 1
      BY <2>1, SizesAssumption DEF Term
    <2>5. "start" \in Windows \ {"halt"}
      BY DEF Windows
    <2>6. /\ BootCtx(i + 1) \in [Pid -> Context]
          /\ \A q \in Pid : BootCtx(i + 1)[q].at = "halt"
                              => BootCtx(i + 1)[q].ret # None
      BY <1>b, <2>1
    <2>7. /\ pid_status' \in [Pid -> {0, 1}]
          /\ schedule' \in [Term -> Pid \cup {None}]
          /\ parent_pid' \in [Pid -> Pid \cup {None}]
          /\ kernel_ctx' \in [Pid -> Context]
          /\ exe_ctx' \in [Pid -> Stack]
          /\ esp0' \in Stack
          /\ user_page' \in Pid \cup {None}
          /\ cpu' \in Context
          /\ HaltHasTarget'
      BY <2>1, <2>3, <2>5, <2>6, <1>f, StartProcessType
    <2> QED BY <2>1, <2>2, <2>4, <2>7 DEF TypeOK
  <1>2. CASE PitBootFails
    <2>1. i + 1 \in Term /\ i' \in -1 .. NTERMS - 1
      BY <1>2, SizesAssumption DEF PitBootFails, TypeOK, Term
    <2>2. clobbered' \subseteq Term
      BY <1>2, <1>c DEF PitBootFails, TypeOK
    <2> QED BY <1>2, <1>b, <2>1, <2>2 DEF PitBootFails, TypeOK, HaltHasTarget
  <1>3. CASE PitBootFault
    <2>1. i' \in -1 .. NTERMS - 1
      BY <1>3, SizesAssumption DEF PitBootFault
    <2>2. cpu' \in Context /\ cpu'.at = "hung"
      BY <1>3, HangType DEF PitBootFault
    <2> QED BY <1>3, <1>c, <2>1, <2>2 DEF PitBootFault, Push, TypeOK, HaltHasTarget
  <1>4. CASE PitSwitch
    <2>1. NextTerm(active_term_idx) \in Term
      BY NextTermInRange DEF TypeOK
    <2> DEFINE from == schedule[active_term_idx]
               to   == schedule[NextTerm(active_term_idx)]
    <2>2. from \in Pid /\ to \in Pid
      BY <1>4, <2>1 DEF PitSwitch, TypeOK
    <2>3. /\ kernel_ctx' \in [Pid -> Context]
          /\ \A q \in Pid : kernel_ctx'[q].at = "halt" => kernel_ctx'[q].ret # None
      BY <1>4, <1>s, <2>2 DEF PitSwitch, TypeOK, HaltHasTarget
    <2>4. cpu' = kernel_ctx'[to] \/ Hang
      BY <1>4 DEF PitSwitch, Resume
    <2>5. cpu' \in Context /\ (cpu'.at = "halt" => cpu'.ret # None)
      BY <2>2, <2>3, <2>4, HangType
    <2>6. clobbered' \subseteq Term
      BY <1>4, <1>c DEF PitSwitch
    <2> QED BY <1>4, <2>1, <2>2, <2>3, <2>5, <2>6
            DEF PitSwitch, SwitchTo, TypeOK, HaltHasTarget, Stack
  <1>5. CASE PitSwitchFault
    <2>1. NextTerm(active_term_idx) \in Term
      BY NextTermInRange DEF TypeOK
    <2>2. cpu' \in Context /\ cpu'.at = "hung"
      BY <1>5, HangType DEF PitSwitchFault
    <2>3. /\ kernel_ctx' \in [Pid -> Context]
          /\ \A q \in Pid : kernel_ctx'[q].at = "halt" => kernel_ctx'[q].ret # None
      BY <1>5, <1>s DEF PitSwitchFault, TypeOK, HaltHasTarget
    <2> QED BY <1>5, <1>c, <2>1, <2>2, <2>3
            DEF PitSwitchFault, Push, TypeOK, HaltHasTarget
  <1>6. CASE EnterKernel \/ LeaveKernel \/ Iret
    <2>1. cpu' = At("syscall", esp0) \/ cpu' = At("user", esp0)
      BY <1>6 DEF EnterKernel, LeaveKernel, Iret
    <2>2. esp0 \in Stack
      BY DEF TypeOK
    <2>3. cpu' \in Context /\ cpu'.at # "halt"
      BY <2>1, <2>2, <1>p, AtType
    <2> QED BY <1>6, <1>c, <2>3
            DEF EnterKernel, LeaveKernel, Iret, Push, TypeOK, HaltHasTarget
  <1>7. CASE Execute
    <2>1. PICK p \in Pid :
            StartProcess(p, active_term_idx, cpu.stk, kernel_ctx, "iret")
      BY <1>7 DEF Execute
    <2>2. "iret" \in Windows \ {"halt"} /\ cpu.stk \in Stack
      BY DEF Windows, TypeOK, Context
    <2>3. /\ pid_status' \in [Pid -> {0, 1}]
          /\ schedule' \in [Term -> Pid \cup {None}]
          /\ parent_pid' \in [Pid -> Pid \cup {None}]
          /\ kernel_ctx' \in [Pid -> Context]
          /\ exe_ctx' \in [Pid -> Stack]
          /\ esp0' \in Stack
          /\ user_page' \in Pid \cup {None}
          /\ cpu' \in Context
          /\ HaltHasTarget'
      BY <2>1, <2>2, StartProcessType DEF TypeOK, HaltHasTarget
    <2> QED BY <1>7, <1>c, <2>3 DEF Execute, Push, TypeOK
  <1>8. ASSUME NEW stk \in Stack, Halt(stk)
        PROVE  TypeOK' /\ HaltHasTarget'
    <2>1. CASE RestartShell(stk)
      <3>1. cpu' = At("start", stk) \/ cpu' = At("iret", stk)
        BY <2>1 DEF RestartShell
      <3>2. cpu' \in Context /\ cpu'.at # "halt"
        BY <3>1, <1>p, AtType
      <3> QED BY <1>8, <1>c, <2>1, <3>2
              DEF Halt, RestartShell, Push, TypeOK, HaltHasTarget
    <2>2. CASE ReturnToParent(stk)
      <3> DEFINE curr   == schedule[active_term_idx]
                 parent == parent_pid[curr]
      <3>1. curr \in Pid /\ parent \in Pid
        BY <1>8, <2>2 DEF Halt, ReturnToParent, TypeOK
      <3>2. cpu' = [at |-> "halt", stk |-> stk, ret |-> exe_ctx[curr]]
        BY <2>2 DEF ReturnToParent
      <3>3. exe_ctx[curr] \in Stack /\ exe_ctx[curr] # None
        BY <3>1, NoneIsNoPid DEF TypeOK, Stack
      <3>4. cpu' \in Context /\ cpu'.ret # None
        BY <3>2, <3>3, <1>p DEF Context
      <3> QED BY <1>8, <1>c, <2>2, <3>1, <3>4
              DEF Halt, ReturnToParent, Push, TypeOK, HaltHasTarget, Stack
    <2> QED BY <1>8, <2>1, <2>2 DEF Halt
  <1>9. CASE HaltSyscall
    BY <1>8, <1>9 DEF HaltSyscall, TypeOK, Context
  <1>10. CASE CtrlC
    BY <1>8, <1>10, <1>f DEF CtrlC
  <1>11. CASE HaltReturn
    <2>1. cpu.ret \in Stack /\ cpu' = At("syscall", cpu.ret)
      BY <1>11 DEF HaltReturn, HaltHasTarget, TypeOK, Context
    <2>2. cpu' \in Context /\ cpu'.at # "halt"
      BY <2>1, <1>p, AtType
    <2> QED BY <1>11, <2>2 DEF HaltReturn, TypeOK, HaltHasTarget
  <1>12. CASE CtrlCFault
    <2>1. cpu' \in Context /\ cpu'.at = "hung"
      BY <1>12, HangType DEF CtrlCFault
    <2> QED BY <1>12, <1>c, <2>1 DEF CtrlCFault, Push, TypeOK, HaltHasTarget
  <1>13. CASE OtherIrq
    BY <1>13, <1>c DEF OtherIrq, Push, TypeOK, HaltHasTarget
  <1>14. CASE UNCHANGED vars
    BY <1>14 DEF vars, TypeOK, HaltHasTarget
  <1> QED BY <1>1, <1>2, <1>3, <1>4, <1>5, <1>6, <1>7, <1>9, <1>10, <1>11,
             <1>12, <1>13, <1>14 DEF Next, Pit, Hung
-----------------------------------------------------------------------------
(* The chains of processes *)

\* execute() adds a leaf to the terminal's chain.
LEMMA StartForest ==
  ASSUME TypeOK, ProcessForest,
         NEW p \in FreePids, NEW t \in Term, NEW stk, NEW kctx, NEW window,
         StartProcess(p, t, stk, kctx, window)
  PROVE  ProcessForest'
  <1> USE DEF TypeOK
  <1>1. p \in Pid /\ p \notin Running /\ p # None
    BY NoneIsNoPid DEF FreePids, Running
  <1>2. Running' = Running \cup {p}
    BY <1>1 DEF StartProcess, Running
  <1>3. \A u \in Term : schedule'[u] = IF u = t THEN p ELSE schedule[u]
    BY DEF StartProcess
  <1>4. \A q \in Pid : parent_pid'[q] = IF q = p THEN schedule[t] ELSE parent_pid[q]
    BY <1>1 DEF StartProcess
  <1>5. \A u \in Term : schedule[u] # p
    BY <1>1 DEF ProcessForest, ScheduledOnce
  <1>6. \A q \in Running : parent_pid[q] # p
    BY <1>1 DEF ProcessForest, OneChild
  <1>7. Running \subseteq Pid
    BY DEF Running
  <1>8. ScheduledOnce'
    BY <1>2, <1>3, <1>5 DEF ProcessForest, ScheduledOnce
  <1>9. OneChild'
    <2>1. \A q \in Running' : parent_pid'[q] # None => parent_pid'[q] \in Running'
      BY <1>1, <1>2, <1>4, <1>7 DEF ProcessForest, ScheduledOnce, OneChild
    <2>2. \A q, r \in Running' :
            parent_pid'[q] # None /\ q # r => parent_pid'[q] # parent_pid'[r]
      <3>1. \A q \in Running : schedule[t] # None => parent_pid[q] # schedule[t]
        BY DEF ProcessForest, OneChild
      <3>2. \A q, r \in Running :
              parent_pid[q] # None /\ q # r => parent_pid[q] # parent_pid[r]
        BY DEF ProcessForest, OneChild
      <3>3. \A q \in Running : q \in Pid /\ q # p
        BY <1>1, <1>7
      <3> SUFFICES ASSUME NEW q \in Running', NEW r \in Running',
                          parent_pid'[q] # None, q # r
                   PROVE  parent_pid'[q] # parent_pid'[r]
        OBVIOUS
      <3>4. CASE q = p
        BY <1>1, <1>2, <1>4, <3>1, <3>3, <3>4
      <3>5. CASE r = p
        BY <1>1, <1>2, <1>4, <3>1, <3>3, <3>5
      <3>6. CASE q # p /\ r # p
        BY <1>2, <1>4, <3>2, <3>3, <3>6
      <3> QED BY <3>4, <3>5, <3>6
    <2>3. \A q \in Running', u \in Term :
            schedule'[u] # None => parent_pid'[q] # schedule'[u]
      BY <1>1, <1>2, <1>3, <1>4, <1>5, <1>6, <1>7
         DEF ProcessForest, OneChild, ScheduledOnce
    <2> QED BY <2>1, <2>2, <2>3 DEF OneChild
  <1>10. NoOrphan'
    <2> SUFFICES ASSUME NEW q \in Running'
                 PROVE  \/ \E u \in Term : schedule'[u] = q
                        \/ \E r \in Running' : parent_pid'[r] = q
      BY DEF NoOrphan
    <2>1. CASE q = p
      BY <1>3, <2>1
    <2>2. CASE q # p /\ \E u \in Term : schedule[u] = q
      BY <1>1, <1>2, <1>3, <1>4, <2>2
    <2>3. CASE q # p /\ \E r \in Running : parent_pid[r] = q
      BY <1>1, <1>2, <1>4, <1>7, <2>3
    <2> QED BY <1>2, <2>1, <2>2, <2>3 DEF ProcessForest, NoOrphan
  <1> QED BY <1>8, <1>9, <1>10 DEF ProcessForest

\* halt() takes the leaf away and the parent is the leaf again.
LEMMA ReturnForest ==
  ASSUME TypeOK, ProcessForest, schedule[active_term_idx] # None,
         NEW stk, ReturnToParent(stk), UNCHANGED parent_pid
  PROVE  ProcessForest'
  <1> USE DEF TypeOK
  <1> DEFINE t      == active_term_idx
             curr   == schedule[t]
             parent == parent_pid[curr]
  <1>1. /\ curr \in Running /\ t \in Term /\ curr \in Pid
        /\ parent \in Running /\ parent # None /\ parent \in Pid
    BY DEF ProcessForest, ScheduledOnce, OneChild, ReturnToParent, Running
  <1>2. parent # curr
    BY <1>1 DEF ProcessForest, OneChild
  <1>3. Running' = Running \ {curr}
    BY <1>1 DEF ReturnToParent, Running
  <1>4. \A u \in Term : schedule'[u] = IF u = t THEN parent ELSE schedule[u]
    BY <1>1 DEF ReturnToParent
  <1>5. \A u \in Term : schedule[u] # parent
    BY <1>1 DEF ProcessForest, OneChild
  <1>6. \A q \in Running : parent_pid[q] # curr
    BY <1>1 DEF ProcessForest, OneChild
  <1>7. \A q \in Running : q # curr => parent_pid[q] # parent
    BY <1>1 DEF ProcessForest, OneChild
  <1> HIDE DEF curr, parent, t
  <1>8. ScheduledOnce'
    <2>1. \A u \in Term : schedule'[u] # None => schedule'[u] \in Running'
      <3>1. \A u \in Term : u # t /\ schedule[u] # None => schedule[u] # curr
        BY <1>1 DEF ProcessForest, ScheduledOnce, curr, t
      <3> QED BY <1>1, <1>2, <1>3, <1>4, <3>1 DEF ProcessForest, ScheduledOnce
    <2>2. \A u, v \in Term :
            schedule'[u] # None /\ u # v => schedule'[u] # schedule'[v]
      BY <1>4, <1>5 DEF ProcessForest, ScheduledOnce
    <2> QED BY <2>1, <2>2 DEF ScheduledOnce
  <1>9. OneChild'
    <2>1. \A q \in Running' : parent_pid[q] # None => parent_pid[q] \in Running'
      BY <1>3, <1>6 DEF ProcessForest, OneChild
    <2>2. \A q, r \in Running' :
            parent_pid[q] # None /\ q # r => parent_pid[q] # parent_pid[r]
      BY <1>3 DEF ProcessForest, OneChild
    <2>3. \A q \in Running', u \in Term :
            schedule'[u] # None => parent_pid[q] # schedule'[u]
      BY <1>3, <1>4, <1>7 DEF ProcessForest, OneChild
    <2> QED BY <2>1, <2>2, <2>3 DEF OneChild
  <1>10. NoOrphan'
    <2> SUFFICES ASSUME NEW q \in Running'
                 PROVE  \/ \E u \in Term : schedule'[u] = q
                        \/ \E r \in Running' : parent_pid[r] = q
      BY DEF NoOrphan
    <2>1. CASE q = parent
      BY <1>1, <1>4, <2>1
    <2>2. CASE q # parent /\ \E u \in Term : schedule[u] = q
      <3>1. PICK u \in Term : schedule[u] = q
        BY <2>2
      <3>2. u # t
        BY <1>3, <3>1 DEF curr, t
      <3> QED BY <1>4, <3>1, <3>2
    <2>3. CASE q # parent /\ \E r \in Running : parent_pid[r] = q
      BY <1>3, <2>3 DEF parent
    <2> QED BY <1>3, <2>1, <2>2, <2>3 DEF ProcessForest, NoOrphan
  <1> QED BY <1>8, <1>9, <1>10 DEF ProcessForest

\* No action breaks the chains.
LEMMA ForestStep ==
  ASSUME TypeOK, ProcessForest, [Next]_vars
  PROVE  ProcessForest'
  <1>1. CASE UNCHANGED <<pid_status, schedule, parent_pid>>
    BY <1>1 DEF ProcessForest, ScheduledOnce, OneChild, NoOrphan, Running
  <1>2. CASE PitBoot
    <2>1. i + 1 \in Term
      BY <1>2, SizesAssumption DEF PitBoot, TypeOK, Term
    <2> QED BY <1>2, <2>1, StartForest DEF PitBoot, LowestFree
  <1>3. CASE Execute
    BY <1>3, StartForest DEF Execute, LowestFree, TypeOK
  <1>4. ASSUME NEW stk, Halt(stk) PROVE ProcessForest'
    <2>1. CASE RestartShell(stk)
      BY <1>1, <1>4, <2>1 DEF Halt, RestartShell
    <2>2. CASE ReturnToParent(stk)
      BY <1>4, <2>2, ReturnForest DEF Halt
    <2> QED BY <1>4, <2>1, <2>2 DEF Halt
  <1> QED
    BY <1>1, <1>2, <1>3, <1>4
       DEF Next, Pit, PitBootFails, PitBootFault, PitSwitch, PitSwitchFault,
           EnterKernel, LeaveKernel, Iret, HaltSyscall, HaltReturn, CtrlC,
           CtrlCFault, OtherIrq, Hung, vars
-----------------------------------------------------------------------------
(* Stacks, pages and what is saved *)

\* The conjuncts of IInv that relate the CPU and the saved contexts to the
\* terminals' processes.
CpuInv ==
    /\ BootOrder
    /\ OwnAddressSpace
    /\ SuspendedWasRunning
    /\ FramesOnOwnStack
    /\ NoShellNoPid

\* A context that can be suspended as process p.
Suspendable(c, p) == c.at \notin {"boot", "hung"} /\ OnOwnStack(c, p)

\* A terminal with a process is past the idle loop.
LEMMA NotIdle ==
  ASSUME IInv, NEW t \in Term, schedule[t] # None
  PROVE  cpu.at # "boot" /\ i >= 0
  <1>1. t >= 0 /\ i \in -1 .. NTERMS - 1
    BY DEF Term, IInv, TypeOK
  <1>2. ~(t > i)
    BY DEF IInv, BootOrder
  <1> QED BY <1>1, <1>2, SizesAssumption DEF Term, IInv, BootOrder

\* Saving the running code leaves every terminal with a context of its own.
LEMMA SavedAll ==
  ASSUME IInv, cpu.at # "hung", schedule[active_term_idx] # None,
         NEW t \in Term, schedule[t] # None
  PROVE  Suspendable([kernel_ctx EXCEPT ![schedule[active_term_idx]] = SavedCpu]
                       [schedule[t]], schedule[t])
  <1> DEFINE a == active_term_idx
             k == [kernel_ctx EXCEPT ![schedule[a]] = SavedCpu]
  <1>1. a \in Term /\ schedule[a] \in Pid /\ schedule[t] \in Pid
    BY DEF IInv, TypeOK
  <1>2. CASE t = a
    <2>1. k[schedule[t]] = SavedCpu
      BY <1>1, <1>2 DEF IInv, TypeOK
    <2>2. cpu.at \notin {"boot", "hung"}
      BY <1>1, NotIdle
    <2>3. SavedCpu.at = cpu.at /\ SavedCpu.stk = FrameStack /\ SavedCpu.ret = cpu.ret
      BY SavedCpuType DEF IInv
    <2>4. CASE cpu.at = "user"
      BY <1>2, <2>1, <2>2, <2>3, <2>4
         DEF Suspendable, OnOwnStack, FrameStack, IInv, OwnAddressSpace
    <2>5. CASE cpu.at # "user"
      BY <1>2, <2>1, <2>2, <2>3, <2>5
         DEF Suspendable, OnOwnStack, FrameStack, IInv, FramesOnOwnStack
    <2> QED BY <2>4, <2>5
  <1>3. CASE t # a
    <2>1. schedule[t] # schedule[a]
      BY <1>1, <1>3 DEF IInv, ProcessForest, ScheduledOnce
    <2>2. k[schedule[t]] = kernel_ctx[schedule[t]]
      BY <1>1, <2>1 DEF IInv, TypeOK
    <2>3. t \in Term \ {active_term_idx}
      BY <1>3
    <2>4. kernel_ctx[schedule[t]].at \notin {"boot", "hung"}
      BY <2>3 DEF IInv, SuspendedWasRunning
    <2>5. OnOwnStack(kernel_ctx[schedule[t]], schedule[t])
      BY <2>3 DEF IInv, FramesOnOwnStack
    <2> QED BY <2>2, <2>4, <2>5 DEF Suspendable
  <1> QED BY <1>2, <1>3

\* Steps that move the CPU and nothing else.
LEMMA CpuOnly ==
  ASSUME IInv,
         UNCHANGED <<pid_status, schedule, parent_pid, kernel_ctx, exe_ctx,
                     active_term_idx, esp0, user_page>>,
         \/ i' = i
         \/ i' = i + 1 /\ cpu'.at = "hung",
         \/ cpu' = cpu
         \/ cpu'.at = "hung"
         \/ /\ cpu.at \notin {"boot", "hung"} /\ cpu'.at # "boot"
            /\ schedule[active_term_idx] # None /\ cpu'.at # "user"
                 => OnOwnStack(cpu', schedule[active_term_idx])
  PROVE  CpuInv'
  <1>1. i \in -1 .. NTERMS - 1
    BY DEF IInv, TypeOK
  <1>2. BootOrder'
    BY <1>1, SizesAssumption DEF IInv, BootOrder, Term
  <1>3. OwnAddressSpace'
    BY DEF IInv, OwnAddressSpace
  <1>4. SuspendedWasRunning'
    BY DEF IInv, SuspendedWasRunning
  <1>5. FramesOnOwnStack'
    BY DEF IInv, FramesOnOwnStack, OnOwnStack, Running
  <1>6. NoShellNoPid'
    BY DEF IInv, NoShellNoPid, FreePids
  <1> QED BY <1>2, <1>3, <1>4, <1>5, <1>6 DEF CpuInv
\* execute(), called for terminal t with every other terminal suspendable.
LEMMA StartCpu ==
  ASSUME IInv,
         NEW p \in FreePids, NEW t \in Term, NEW stk \in Stack,
         NEW kctx \in [Pid -> Context], NEW window \in {"start", "iret"},
         StartProcess(p, t, stk, kctx, window),
         active_term_idx' = t,
         \A u \in Term : u > i' => schedule'[u] = None,
         \A u \in Term \ {t} :
            schedule[u] # None => Suspendable(kctx[schedule[u]], schedule[u]),
         schedule[t] # None => stk = schedule[t]
  PROVE  CpuInv'
  <1>1. p \in Pid /\ p \notin Running /\ p # None
    BY NoneIsNoPid DEF FreePids, Running
  <1>2. window \in Places
    BY DEF Places, Windows
  <1>3. cpu'.at = window /\ schedule'[t] = p /\ esp0' = p /\ user_page' = p
    BY <1>2, AtType DEF StartProcess, IInv, TypeOK
  <1>4. BootOrder'
    BY <1>3 DEF BootOrder
  <1>5. OwnAddressSpace'
    BY <1>3 DEF OwnAddressSpace
  <1>6. \A u \in Term \ {t} :
          /\ schedule'[u] = schedule[u]
          /\ schedule[u] # None =>
               Suspendable(kernel_ctx'[schedule'[u]], schedule'[u])
    <2> SUFFICES ASSUME NEW u \in Term \ {t}
                 PROVE  /\ schedule'[u] = schedule[u]
                        /\ schedule[u] # None =>
                             Suspendable(kernel_ctx'[schedule'[u]], schedule'[u])
      OBVIOUS
    <2>1. schedule'[u] = schedule[u]
      BY DEF StartProcess, IInv, TypeOK
    <2>2. schedule[u] # None => schedule[u] \in Pid /\ schedule[u] # p
      BY <1>1 DEF IInv, TypeOK, ProcessForest, ScheduledOnce
    <2>3. schedule[u] # None => kernel_ctx'[schedule[u]] = kctx[schedule[u]]
      BY <1>1, <2>2 DEF StartProcess
    <2> QED BY <2>1, <2>3
  <1>7. SuspendedWasRunning'
    BY <1>6 DEF SuspendedWasRunning, Suspendable
  <1>8. FramesOnOwnStack'
    <2>1. \A u \in Term \ {active_term_idx'} :
            schedule'[u] # None => OnOwnStack(kernel_ctx'[schedule'[u]], schedule'[u])
      BY <1>6 DEF Suspendable
    <2>2. OnOwnStack(cpu', schedule'[t])
      BY <1>3 DEF OnOwnStack
    <2>3. \A q \in Running' : parent_pid'[q] # None => exe_ctx'[q] = parent_pid'[q]
      <3>1. Running' = Running \cup {p}
        BY <1>1 DEF StartProcess, Running, IInv, TypeOK
      <3>2. \A q \in Pid : /\ parent_pid'[q] = IF q = p THEN schedule[t] ELSE parent_pid[q]
                           /\ exe_ctx'[q] = IF q = p THEN stk ELSE exe_ctx[q]
        BY <1>1 DEF StartProcess, IInv, TypeOK
      <3>3. \A q \in Running : q \in Pid /\ q # p
        BY <1>1 DEF Running
      <3> QED BY <1>1, <3>1, <3>2, <3>3 DEF IInv, FramesOnOwnStack
    <2> QED BY <2>1, <2>2, <2>3 DEF FramesOnOwnStack
  <1>9. NoShellNoPid'
    BY <1>1, <1>3 DEF NoShellNoPid
  <1> QED BY <1>4, <1>5, <1>7, <1>8, <1>9 DEF CpuInv

\* halt() of a process with a parent.
LEMMA ReturnCpu ==
  ASSUME IInv, schedule[active_term_idx] # None, NEW stk, ReturnToParent(stk),
         UNCHANGED <<parent_pid, kernel_ctx, exe_ctx, active_term_idx, i>>
  PROVE  CpuInv'
  <1> DEFINE t      == active_term_idx
             curr   == schedule[t]
             parent == parent_pid[curr]
  <1>1. /\ t \in Term /\ curr \in Pid /\ curr \in Running
        /\ parent # None /\ parent \in Pid
    BY DEF IInv, TypeOK, ProcessForest, ScheduledOnce, ReturnToParent
  <1>2. /\ schedule' = [schedule EXCEPT ![t] = parent]
        /\ esp0' = parent /\ user_page' = parent
        /\ cpu' = [at |-> "halt", stk |-> stk, ret |-> exe_ctx[curr]]
        /\ pid_status' = [pid_status EXCEPT ![curr] = 0]
    BY DEF ReturnToParent
  <1>3. exe_ctx[curr] = parent
    BY <1>1 DEF IInv, FramesOnOwnStack
  <1>4. schedule'[t] = parent /\ \A u \in Term \ {t} : schedule'[u] = schedule[u]
    BY <1>1, <1>2 DEF IInv, TypeOK
  <1> HIDE DEF parent, curr
  <1>5. BootOrder'
    BY <1>1, <1>2, <1>4 DEF IInv, BootOrder, curr
  <1>6. OwnAddressSpace'
    BY <1>2, <1>4 DEF OwnAddressSpace
  <1>7. SuspendedWasRunning'
    BY <1>4 DEF IInv, SuspendedWasRunning
  <1>8. Running' \subseteq Running
    BY <1>1, <1>2 DEF Running, IInv, TypeOK
  <1>9. FramesOnOwnStack'
    BY <1>2, <1>3, <1>4, <1>8 DEF IInv, FramesOnOwnStack, OnOwnStack
  <1>10. NoShellNoPid'
    BY <1>1, <1>4 DEF NoShellNoPid
  <1> QED BY <1>5, <1>6, <1>7, <1>9, <1>10 DEF CpuInv

\* Every action keeps the CPU and the saved contexts where they belong.
LEMMA CpuStep ==
  ASSUME IInv, [Next]_vars
  PROVE  CpuInv'
  <1>t. active_term_idx \in Term /\ i \in -1 .. NTERMS - 1 /\ TypeOK
    BY DEF IInv, TypeOK
  <1>f. FrameStack \in Stack
    BY FrameStackType DEF IInv
  <1>1. CASE PitBoot
    <2>1. PICK p \in FreePids :
            StartProcess(p, i + 1, FrameStack, BootCtx(i + 1), "start")
      BY <1>1 DEF PitBoot, LowestFree
    <2>2. /\ i + 1 \in Term /\ i' = i + 1 /\ active_term_idx' = i + 1
          /\ schedule[i + 1] = None
      BY <1>1, <1>t, SizesAssumption DEF PitBoot, Term, IInv, BootOrder
    <2>3. \A u \in Term : u > i' => schedule'[u] = None
      BY <1>t, <2>1, <2>2 DEF StartProcess, IInv, BootOrder, TypeOK, Term
    <2>4. BootCtx(i + 1) \in [Pid -> Context]
      BY SavedCpuType DEF BootCtx, IInv, TypeOK
    <2>5. \A u \in Term \ {i + 1} : schedule[u] # None
            => Suspendable(BootCtx(i + 1)[schedule[u]], schedule[u])
      <3>1. CASE i = -1
        BY <3>1 DEF IInv, BootOrder, Term
      <3>2. CASE i # -1
        <4>1. /\ BootCtx(i + 1)
                   = [kernel_ctx EXCEPT ![schedule[active_term_idx]] = SavedCpu]
              /\ schedule[active_term_idx] # None /\ cpu.at # "hung"
          BY <1>1, <1>t, <3>2 DEF PitBoot, BootCtx
        <4> QED BY <4>1, SavedAll
      <3> QED BY <3>1, <3>2
    <2> QED BY <1>f, <2>1, <2>2, <2>3, <2>4, <2>5, StartCpu
  <1>2. CASE PitBootFails
    <2>1. /\ i + 1 \in Term /\ i' = i + 1 /\ active_term_idx' = i + 1
          /\ schedule[i + 1] = None /\ cpu.at \notin {"boot", "hung"} /\ i >= 0
      BY <1>2, <1>t, NotIdle, SizesAssumption
         DEF PitBootFails, Term, IInv, BootOrder
    <2>2. kernel_ctx' = [kernel_ctx EXCEPT ![schedule[active_term_idx]] = SavedCpu]
      BY <1>2, <1>t, <2>1 DEF PitBootFails, BootCtx
    <2>3. \A u \in Term :
            schedule[u] # None => Suspendable(kernel_ctx'[schedule[u]], schedule[u])
      BY <1>2, <2>2, SavedAll DEF PitBootFails
    <2>4. BootOrder'
      BY <1>2, <1>t, <2>1 DEF PitBootFails, IInv, BootOrder, Term
    <2>5. OwnAddressSpace'
      BY <1>2, <2>1 DEF PitBootFails, OwnAddressSpace
    <2>6. SuspendedWasRunning'
      BY <1>2, <2>3 DEF PitBootFails, SuspendedWasRunning, Suspendable
    <2>7. FramesOnOwnStack'
      BY <1>2, <2>1, <2>3
         DEF PitBootFails, IInv, FramesOnOwnStack, Suspendable, Running
    <2>8. NoShellNoPid'
      BY <1>2 DEF PitBootFails, NoShellNoPid, FreePids
    <2> QED BY <2>4, <2>5, <2>6, <2>7, <2>8 DEF CpuInv
  <1>3. CASE PitSwitch
    <2> DEFINE from == schedule[active_term_idx]
               next == NextTerm(active_term_idx)
               to   == schedule[next]
    <2>1. /\ next \in Term /\ from # None /\ to # None /\ cpu.at # "hung"
          /\ active_term_idx' = next /\ esp0' = to /\ user_page' = to
          /\ kernel_ctx' = [kernel_ctx EXCEPT ![from] = SavedCpu]
          /\ cpu' = kernel_ctx'[to] \/ Hang
          /\ UNCHANGED <<pid_status, schedule, parent_pid, exe_ctx, i>>
      BY <1>3, <1>t, NextTermInRange DEF PitSwitch, SwitchTo, Resume
    <2> HIDE DEF from, next
    <2>2. \A u \in Term :
            schedule[u] # None => Suspendable(kernel_ctx'[schedule[u]], schedule[u])
      BY <2>1, SavedAll DEF from
    <2>3. cpu'.at = "hung" \/ Suspendable(cpu', to)
      BY <1>t, <2>1, <2>2, HangType
    <2>4. BootOrder'
      BY <2>1, <2>3 DEF IInv, BootOrder, Suspendable
    <2>5. OwnAddressSpace'
      BY <2>1 DEF OwnAddressSpace
    <2>6. SuspendedWasRunning'
      BY <2>1, <2>2 DEF SuspendedWasRunning, Suspendable
    <2>7. FramesOnOwnStack'
      BY <2>1, <2>2, <2>3
         DEF IInv, FramesOnOwnStack, Suspendable, OnOwnStack, Running
    <2>8. NoShellNoPid'
      BY <2>1 DEF NoShellNoPid
    <2> QED BY <2>4, <2>5, <2>6, <2>7, <2>8 DEF CpuInv
  <1>4. CASE PitSwitchFault
    <2>1. /\ cpu.at # "hung" /\ cpu'.at = "hung"
          /\ UNCHANGED <<pid_status, schedule, parent_pid, exe_ctx, i, esp0, user_page>>
      BY <1>4, <1>t, HangType DEF PitSwitchFault
    <2>2. \A u \in Term \ {active_term_idx'} :
            schedule[u] # None => Suspendable(kernel_ctx'[schedule[u]], schedule[u])
      <3>1. CASE schedule[active_term_idx] = None
        <4>1. \A u \in Term : schedule[u] # None => u # active_term_idx
          BY <3>1
        <4>2. kernel_ctx' = kernel_ctx
          BY <1>4, <3>1 DEF PitSwitchFault
        <4> QED BY <4>1, <4>2 DEF IInv, SuspendedWasRunning, FramesOnOwnStack, Suspendable
      <3>2. CASE schedule[active_term_idx] # None
        <4>1. kernel_ctx' = [kernel_ctx EXCEPT ![schedule[active_term_idx]] = SavedCpu]
          BY <1>4, <3>2 DEF PitSwitchFault
        <4> QED BY <2>1, <3>2, <4>1, SavedAll
      <3> QED BY <3>1, <3>2
    <2>3. BootOrder' /\ OwnAddressSpace' /\ NoShellNoPid'
      BY <2>1 DEF IInv, BootOrder, OwnAddressSpace, NoShellNoPid
    <2>4. SuspendedWasRunning'
      BY <2>1, <2>2 DEF SuspendedWasRunning, Suspendable
    <2>5. FramesOnOwnStack'
      BY <2>1, <2>2
         DEF IInv, FramesOnOwnStack, Suspendable, OnOwnStack, Running
    <2> QED BY <2>3, <2>4, <2>5 DEF CpuInv
  <1>5. CASE Execute
    <2>1. PICK p \in FreePids :
            StartProcess(p, active_term_idx, cpu.stk, kernel_ctx, "iret")
      BY <1>5 DEF Execute, LowestFree
    <2>2. /\ cpu.at = "syscall" /\ active_term_idx' = active_term_idx /\ i' = i
          /\ cpu.stk \in Stack /\ kernel_ctx \in [Pid -> Context]
      BY <1>5, <1>t DEF Execute, TypeOK, Context
    <2>3. schedule[active_term_idx] # None
      BY <2>1, <2>2 DEF IInv, NoShellNoPid
    <2>4. schedule[active_term_idx] = cpu.stk
      BY <2>2, <2>3 DEF IInv, FramesOnOwnStack, OnOwnStack
    <2>5. \A u \in Term : u > i' => schedule'[u] = None
      BY <1>t, <2>1, <2>2, <2>3 DEF StartProcess, IInv, BootOrder, TypeOK
    <2>6. \A u \in Term \ {active_term_idx} : schedule[u] # None
            => Suspendable(kernel_ctx[schedule[u]], schedule[u])
      BY DEF IInv, SuspendedWasRunning, FramesOnOwnStack, Suspendable
    <2> QED BY <1>t, <2>1, <2>2, <2>4, <2>5, <2>6, StartCpu
  <1>6. CASE EnterKernel \/ LeaveKernel \/ Iret \/ HaltReturn
    <2>1. \/ cpu' = At("syscall", esp0) /\ cpu.at = "user"
          \/ cpu' = At("user", esp0) /\ cpu.at \in {"syscall", "start", "iret"}
          \/ cpu' = At("syscall", cpu.ret) /\ cpu.at = "halt"
      BY <1>6 DEF EnterKernel, LeaveKernel, Iret, HaltReturn
    <2>2. /\ esp0 \in Stack
          /\ cpu.at = "halt" => cpu.ret \in Stack
          /\ "syscall" \in Places /\ "user" \in Places
      BY DEF IInv, TypeOK, HaltHasTarget, Context, Places
    <2>3. schedule[active_term_idx] # None /\ cpu'.at # "user"
            => OnOwnStack(cpu', schedule[active_term_idx])
      BY <2>1, <2>2, AtType DEF OnOwnStack, IInv, OwnAddressSpace, FramesOnOwnStack
    <2>4. cpu'.at # "boot" /\ cpu.at \notin {"boot", "hung"}
      BY <2>1, <2>2, AtType
    <2> QED BY <1>6, <2>3, <2>4, CpuOnly
            DEF EnterKernel, LeaveKernel, Iret, HaltReturn
  <1>7. ASSUME NEW stk \in Stack, Halt(stk), cpu.at # "hung" PROVE CpuInv'
    <2>1. schedule[active_term_idx] # None /\ cpu.at \notin {"boot", "hung"}
      BY <1>t, <1>7, NotIdle DEF Halt
    <2>2. CASE RestartShell(stk)
      <3>1. cpu' = At("start", stk) \/ cpu' = At("iret", stk)
        BY <2>2 DEF RestartShell
      <3>2. cpu'.at \in {"start", "iret"}
        BY <1>7, <3>1, AtType DEF Places, Windows
      <3> QED BY <1>7, <2>1, <2>2, <3>2, CpuOnly DEF Halt, RestartShell, OnOwnStack
    <2>3. CASE ReturnToParent(stk)
      BY <1>7, <2>1, <2>3, ReturnCpu DEF Halt
    <2> QED BY <1>7, <2>2, <2>3 DEF Halt
  <1>8. CASE HaltSyscall
    BY <1>7, <1>8, <1>t DEF HaltSyscall, TypeOK, Context
  <1>9. CASE CtrlC
    BY <1>7, <1>9, <1>f DEF CtrlC
  <1>10. CASE PitBootFault \/ CtrlCFault
    <2>1. cpu'.at = "hung"
      BY <1>10, <1>t, HangType DEF PitBootFault, CtrlCFault
    <2> QED BY <1>10, <2>1, CpuOnly DEF PitBootFault, CtrlCFault
  <1>11. CASE OtherIrq
    BY <1>11, CpuOnly DEF OtherIrq
  <1>12. CASE UNCHANGED vars
    BY <1>12, CpuOnly DEF vars
  <1> QED BY <1>1, <1>2, <1>3, <1>4, <1>5, <1>6, <1>8, <1>9, <1>10, <1>11, <1>12
          DEF Next, Pit, Hung
-----------------------------------------------------------------------------
(* The theorems *)

\* The boot state satisfies the inductive invariant.
LEMMA InitInv == Init => IInv
  <1> SUFFICES ASSUME Init PROVE IInv
    OBVIOUS
  <1>1. 0 \in Stack /\ "boot" \in Places
    BY ZeroInRange DEF Stack, Places
  <1>2. At("boot", 0) \in Context /\ At("boot", 0).at = "boot"
    BY <1>1, AtType
  <1>3. TypeOK
    BY <1>1, <1>2, ZeroInRange, SizesAssumption DEF Init, TypeOK
  <1>4. Running = {} /\ \A t \in Term : schedule[t] = None
    BY DEF Init, Running
  <1>5. HaltHasTarget
    BY <1>2 DEF Init, HaltHasTarget
  <1>6. BootOrder
    BY <1>4 DEF Init, BootOrder
  <1>7. ProcessForest
    BY <1>4 DEF ProcessForest, ScheduledOnce, OneChild, NoOrphan
  <1>8. OwnAddressSpace /\ NoShellNoPid
    BY <1>2 DEF Init, OwnAddressSpace, NoShellNoPid
  <1>9. SuspendedWasRunning /\ FramesOnOwnStack
    BY <1>3, <1>4 DEF SuspendedWasRunning, FramesOnOwnStack, TypeOK
  <1> QED BY <1>3, <1>5, <1>6, <1>7, <1>8, <1>9 DEF IInv

\* The inductive invariant holds in every reachable state: no interleaving of
\* system calls, Ctrl-C and timer ticks leaves it.
THEOREM Invariance == Spec => []IInv
  <1>1. IInv /\ [Next]_vars => IInv'
    <2> SUFFICES ASSUME IInv, [Next]_vars PROVE IInv'
      OBVIOUS
    <2>1. TypeOK' /\ HaltHasTarget'
      BY TypeStep DEF IInv
    <2>2. ProcessForest'
      BY ForestStep DEF IInv
    <2>3. CpuInv'
      BY CpuStep
    <2> QED BY <2>1, <2>2, <2>3 DEF IInv, CpuInv
  <1> QED BY InitInv, <1>1, PTL DEF Spec

\* Tables, PCBs and registers stay well formed.
THEOREM TypeCorrect == Spec => []TypeOK
  BY Invariance, PTL DEF IInv

\* Through every execute, halt, Ctrl-C and timer tick the pids form one chain
\* of waiting parents per terminal and none is lost.
THEOREM ProcessesFormForest == Spec => []ProcessForest
  BY Invariance, PTL DEF IInv

\* The code that has the CPU has its own page and enters the kernel on its
\* own stack.
THEOREM RunsInOwnAddressSpace == Spec => []OwnAddressSpace
  BY Invariance, PTL DEF IInv

\* Outside the windows every suspended terminal and every waiting execute()
\* is on the stack of the process it belongs to.
THEOREM FramesStayOnOwnStack == Spec => []FramesOnOwnStack
  BY Invariance, PTL DEF IInv

\* What a push overwrites, a window let it: in code or target.
LEMMA OverlaidNeedsWindow ==
  ASSUME IInv, cpu.at # "hung", schedule[active_term_idx] # None,
         NEW t \in Overlaid
  PROVE  cpu.at \in Windows \/ kernel_ctx[schedule[t]].at \in Windows
  <1> SUFFICES ASSUME cpu.at \notin Windows, kernel_ctx[schedule[t]].at \notin Windows
               PROVE  FALSE
    OBVIOUS
  <1> DEFINE a == active_term_idx
             c == kernel_ctx[schedule[t]]
  <1>1. /\ t \in Term \ {a} /\ a \in Term /\ schedule[t] # None
        /\ c.stk = FrameStack /\ c \in Context /\ cpu \in Context
    BY DEF Overlaid, IInv, TypeOK
  <1>2. cpu.at \in {"user", "syscall"}
    BY <1>1, NotIdle DEF Context, Places
  <1>3. FrameStack = schedule[a]
    BY <1>2 DEF FrameStack, IInv, OwnAddressSpace, FramesOnOwnStack, OnOwnStack
  <1>4. c.at \in {"user", "syscall"}
    BY <1>1 DEF IInv, SuspendedWasRunning, Context, Places
  <1>5. c.stk = schedule[t]
    BY <1>1, <1>4 DEF IInv, FramesOnOwnStack, OnOwnStack
  <1>6. schedule[t] # schedule[a]
    BY <1>1 DEF IInv, ProcessForest, ScheduledOnce
  <1> QED BY <1>1, <1>3, <1>5, <1>6

\* A suspended terminal's frames are overwritten only through a window or
\* after a shell that could not be started.
THEOREM OverwritesNeedWindow == Spec => OverwriteNeedsWindow
  <1> DEFINE Safe ==
               \A t \in clobbered' \ clobbered :
                  \/ cpu.at \in Windows
                  \/ kernel_ctx[schedule[t]].at \in Windows
                  \/ schedule[active_term_idx] = None
                  \/ schedule'[active_term_idx'] = None
  <1>1. ASSUME IInv, [Next]_vars PROVE [Safe]_vars
    <2>1. CASE UNCHANGED vars
      BY <2>1
    <2>2. CASE clobbered' \subseteq clobbered \cup Overlaid
               /\ cpu.at # "hung" /\ schedule[active_term_idx] # None
      BY <1>1, <2>2, OverlaidNeedsWindow
    <2>3. CASE schedule[active_term_idx] = None \/ schedule'[active_term_idx'] = None
      BY <2>3
    <2>4. CASE clobbered' \subseteq clobbered
      BY <2>4
    <2>5. CASE PitBoot
      <3>1. CASE i = -1
        <4>1. Overlaid = {}
          BY <1>1, <3>1 DEF IInv, BootOrder, Overlaid, Term
        <4> QED BY <2>4, <2>5, <4>1 DEF PitBoot, Push
      <3>2. CASE i # -1
        BY <2>2, <2>5, <3>2 DEF PitBoot, Push
      <3> QED BY <3>1, <3>2
    <2>6. CASE PitBootFails
      <3>1. /\ i + 1 \in Term /\ active_term_idx' = i + 1 /\ schedule' = schedule
        BY <1>1, <2>6, SizesAssumption DEF PitBootFails, IInv, TypeOK, Term
      <3>2. schedule[i + 1] = None
        BY <1>1, <3>1 DEF IInv, TypeOK, BootOrder, Term
      <3> QED BY <2>3, <3>1, <3>2
    <2>7. CASE PitSwitch
      BY <2>2, <2>7 DEF PitSwitch
    <2>8. CASE PitBootFault \/ CtrlCFault
      BY <2>3, <2>8 DEF PitBootFault, CtrlCFault
    <2>9. CASE PitSwitchFault
      <3>1. CASE schedule[active_term_idx] # None
        BY <2>2, <2>9, <3>1 DEF PitSwitchFault, Push
      <3> QED BY <2>3, <3>1
    <2>10. CASE EnterKernel \/ LeaveKernel \/ Iret \/ OtherIrq
      <3>1. CASE schedule[active_term_idx] # None
        BY <2>2, <2>10, <3>1 DEF EnterKernel, LeaveKernel, Iret, OtherIrq, Push
      <3>2. CASE schedule[active_term_idx] = None
        BY <2>3, <2>10, <3>2 DEF EnterKernel, LeaveKernel, Iret, OtherIrq
      <3> QED BY <3>1, <3>2
    <2>11. CASE Execute
      <3>1. FreePids # {} /\ cpu.at = "syscall"
        BY <2>11 DEF Execute, LowestFree
      <3>2. schedule[active_term_idx] # None
        BY <1>1, <3>1 DEF IInv, NoShellNoPid
      <3> QED BY <2>2, <2>11, <3>1, <3>2 DEF Execute, Push
    <2>12. CASE HaltSyscall \/ CtrlC
      BY <2>2, <2>12 DEF HaltSyscall, CtrlC, Halt, Push
    <2>13. CASE HaltReturn
      BY <2>4, <2>13 DEF HaltReturn
    <2> QED BY <1>1, <2>1, <2>5, <2>6, <2>7, <2>8, <2>9, <2>10, <2>11, <2>12, <2>13
            DEF Next, Pit, Hung
  <1> QED BY <1>1, Invariance, PTL DEF Spec, OverwriteNeedsWindow

-----------------------------------------------------------------------------
(* The terminals' processes form stacks. *)

\* A set of numbers has a least one.
LEMMA Least ==
  ASSUME NEW T \in SUBSET Nat, T # {}
  PROVE  \E m \in T : \A k \in T : m <= k
  <1>1. PICK m \in T : \A k \in T : ~(<<k, m>> \in OpToRel(<, Nat))
    BY WFMin, NatLessThanWellFounded, Zenon
  <1>2. \A k \in T : ~(k < m)
    BY <1>1 DEF OpToRel
  <1> QED BY <1>2

\* Numbers up to n, by induction.
LEMMA Induction ==
  ASSUME NEW n \in Nat, NEW T, 0 \in T, \A m \in 1 .. n : m - 1 \in T => m \in T
  PROVE  n \in T
  <1> DEFINE bad == {m \in 0 .. n : m \notin T}
  <1>1. ASSUME bad # {} PROVE FALSE
    <2>1. bad \in SUBSET Nat
      OBVIOUS
    <2>2. PICK m \in bad : \A k \in bad : m <= k
      BY <1>1, <2>1, Least, Zenon
    <2>3. m # 0 /\ m \in 0 .. n /\ m \notin T
      OBVIOUS
    <2>4. m \in 1 .. n /\ m - 1 \in 0 .. n /\ ~(m <= m - 1)
      BY <2>3
    <2>5. m - 1 \in T
      BY <2>2, <2>4
    <2> QED BY <2>3, <2>4, <2>5
  <1> QED BY <1>1

\* up lists a process, its parent, its parent's parent ... n times over.
Climbs(up, top, parent, n) ==
  up = [k \in 0 .. n |-> IF k = 0 THEN top
                         ELSE IF up[k - 1] = None THEN None ELSE parent[up[k - 1]]]

\* From any process, along any parent links, there is such a list.
LEMMA ClimbExists ==
  ASSUME NEW top \in Pid \cup {None}, NEW parent \in [Pid -> Pid \cup {None}],
         NEW n \in Nat
  PROVE  \E up \in [0 .. n -> Pid \cup {None}] : Climbs(up, top, parent, n)
  <1> DEFINE Has(m) == \E up \in [0 .. m -> Pid \cup {None}] : Climbs(up, top, parent, m)
             T == {m \in 0 .. n : Has(m)}
  <1> HIDE DEF Has
  <1>1. Has(0)
    <2> DEFINE up == [k \in 0 .. 0 |-> top]
    <2>1. up \in [0 .. 0 -> Pid \cup {None}] /\ Climbs(up, top, parent, 0)
      BY DEF Climbs
    <2> HIDE DEF up
    <2> QED BY <2>1 DEF Has
  <1>2. ASSUME NEW m \in 1 .. n, Has(m - 1) PROVE Has(m)
    <2>1. PICK old \in [0 .. m - 1 -> Pid \cup {None}] : Climbs(old, top, parent, m - 1)
      BY <1>2 DEF Has
    <2> DEFINE last == IF old[m - 1] = None THEN None ELSE parent[old[m - 1]]
               up == [k \in 0 .. m |-> IF k = m THEN last ELSE old[k]]
    <2>2. last \in Pid \cup {None}
      OBVIOUS
    <2> HIDE DEF last
    <2>3. up \in [0 .. m -> Pid \cup {None}]
      BY <2>2
    <2>4. \A k \in 0 .. m :
            up[k] = IF k = 0 THEN top
                    ELSE IF up[k - 1] = None THEN None ELSE parent[up[k - 1]]
      <3> SUFFICES ASSUME NEW k \in 0 .. m
                   PROVE  up[k] = IF k = 0 THEN top
                                  ELSE IF up[k - 1] = None THEN None ELSE parent[up[k - 1]]
        OBVIOUS
      <3>1. CASE k = m
        <4>1. k # 0 /\ up[k] = last /\ up[k - 1] = old[m - 1]
          BY <3>1
        <4> QED BY <4>1, <3>1 DEF last
      <3>2. CASE k # m
        <4>1. k \in 0 .. m - 1 /\ up[k] = old[k]
          BY <3>2
        <4>2. k # 0 => up[k - 1] = old[k - 1]
          BY <3>2
        <4>3. old[k] = IF k = 0 THEN top
                       ELSE IF old[k - 1] = None THEN None ELSE parent[old[k - 1]]
          BY <2>1, <4>1 DEF Climbs
        <4> QED BY <4>1, <4>2, <4>3
      <3> QED BY <3>1, <3>2
    <2>5. Climbs(up, top, parent, m)
      BY <2>3, <2>4 DEF Climbs
    <2> HIDE DEF up
    <2> QED BY <2>3, <2>5 DEF Has
  <1>3. 0 \in T /\ \A m \in 1 .. n : m - 1 \in T => m \in T
    BY <1>1, <1>2
  <1>4. n \in T
    <2> HIDE DEF T
    <2> QED BY <1>3, Induction
  <1> QED BY <1>4 DEF Has

\* So Ancestors is the list its definition describes.
LEMMA AncestorsClimb ==
  ASSUME TypeOK, NEW t \in Term
  PROVE  /\ Ancestors(t) \in [0 .. MAX_PID -> Pid \cup {None}]
         /\ Climbs(Ancestors(t), schedule[t], parent_pid, MAX_PID)
  <1>1. /\ schedule[t] \in Pid \cup {None} /\ parent_pid \in [Pid -> Pid \cup {None}]
        /\ MAX_PID \in Nat
    BY SizesAssumption DEF TypeOK
  <1>2. \E up \in [0 .. MAX_PID -> Pid \cup {None}] :
          Climbs(up, schedule[t], parent_pid, MAX_PID)
    BY <1>1, ClimbExists
  <1>3. Climbs(Ancestors(t), schedule[t], parent_pid, MAX_PID)
    BY <1>2, Zenon DEF Climbs, Ancestors
  <1> DEFINE up == Ancestors(t)
             Known(k) == up[k] \in Pid \cup {None}
  <1>4. \A k \in 0 .. MAX_PID :
          up[k] = IF k = 0 THEN schedule[t]
                  ELSE IF up[k - 1] = None THEN None ELSE parent_pid[up[k - 1]]
    BY <1>3, Zenon DEF Climbs
  <1>5. DOMAIN up = 0 .. MAX_PID /\ up = [k \in 0 .. MAX_PID |-> up[k]]
    BY <1>3 DEF Climbs
  <1> HIDE DEF up
  <1>6. ASSUME NEW k \in 0 .. MAX_PID PROVE Known(k)
    <2> DEFINE T == {m \in 0 .. k : Known(m)}
    <2>1. 0 \in T
      BY <1>1, <1>4
    <2>2. ASSUME NEW m \in 1 .. k, m - 1 \in T PROVE m \in T
      <3>1. m \in 0 .. MAX_PID /\ m # 0 /\ Known(m - 1)
        BY <2>2, <1>1
      <3> QED BY <1>1, <1>4, <3>1
    <2>3. k \in Nat
      OBVIOUS
    <2>4. k \in T
      <3> HIDE DEF T
      <3> QED BY <2>1, <2>2, <2>3, Induction
    <2> QED BY <2>4
  <1>7. up \in [0 .. MAX_PID -> Pid \cup {None}]
    BY <1>5, <1>6
  <1> QED BY <1>3, <1>7 DEF up

\* A climb along the parent links meets only processes that have a pid, and
\* none of them twice.
LEMMA AncestorsRun ==
  ASSUME TypeOK, ProcessForest, NEW t \in Term
  PROVE  \A k \in 0 .. MAX_PID : Ancestors(t)[k] \in Running \cup {None}
  <1> DEFINE up == Ancestors(t)
             Runs(k) == up[k] \in Running \cup {None}
  <1>1. \A k \in 0 .. MAX_PID :
          up[k] = IF k = 0 THEN schedule[t]
                  ELSE IF up[k - 1] = None THEN None ELSE parent_pid[up[k - 1]]
    BY AncestorsClimb, ZenonT(40) DEF Climbs
  <1> HIDE DEF up
  <1>2. ASSUME NEW k \in 0 .. MAX_PID PROVE Runs(k)
    <2> DEFINE T == {m \in 0 .. k : Runs(m)}
    <2>1. 0 \in T
      <3>1. 0 \in 0 .. MAX_PID /\ 0 \in 0 .. k
        BY SizesAssumption
      <3> QED BY <1>1, <3>1 DEF ProcessForest, ScheduledOnce
    <2>2. ASSUME NEW m \in 1 .. k, m - 1 \in T PROVE m \in T
      <3>1. m \in 0 .. MAX_PID /\ m # 0 /\ m \in 0 .. k /\ Runs(m - 1)
        BY <2>2, SizesAssumption
      <3>2. up[m] = IF up[m - 1] = None THEN None ELSE parent_pid[up[m - 1]]
        BY <1>1, <3>1
      <3> QED BY <3>1, <3>2 DEF ProcessForest, OneChild
    <2>3. k \in Nat
      OBVIOUS
    <2>4. k \in T
      <3> HIDE DEF T
      <3> QED BY <2>1, <2>2, <2>3, Induction
    <2> QED BY <2>4
  <1> QED BY <1>2 DEF up

LEMMA AncestorsDiffer ==
  ASSUME TypeOK, ProcessForest, NEW t \in Term,
         NEW k \in 0 .. MAX_PID, NEW m \in k + 1 .. MAX_PID, Ancestors(t)[m] # None
  PROVE  Ancestors(t)[k] # Ancestors(t)[m]
  <1> DEFINE up == Ancestors(t)
             Apart(n) == \A l \in n + 1 .. MAX_PID : up[l] # None => up[n] # up[l]
  <1>1. \A n \in 0 .. MAX_PID :
          up[n] = IF n = 0 THEN schedule[t]
                  ELSE IF up[n - 1] = None THEN None ELSE parent_pid[up[n - 1]]
    BY AncestorsClimb, ZenonT(40) DEF Climbs
  <1>2. \A n \in 0 .. MAX_PID : up[n] \in Running \cup {None}
    BY AncestorsRun
  <1> HIDE DEF up
  <1>3. Apart(0)
    <2> SUFFICES ASSUME NEW l \in 0 + 1 .. MAX_PID, up[l] # None PROVE up[0] # up[l]
      OBVIOUS
    <2>1. l \in 0 .. MAX_PID /\ l # 0 /\ l - 1 \in 0 .. MAX_PID /\ 0 \in 0 .. MAX_PID
      BY SizesAssumption
    <2>2. up[l - 1] \in Running /\ up[l] = parent_pid[up[l - 1]] /\ up[0] = schedule[t]
      BY <1>1, <1>2, <2>1
    <2> QED BY <2>2 DEF ProcessForest, OneChild
  <1>4. ASSUME NEW n \in 1 .. k, Apart(n - 1) PROVE Apart(n)
    <2> SUFFICES ASSUME NEW l \in n + 1 .. MAX_PID, up[l] # None PROVE up[n] # up[l]
      OBVIOUS
    <2>1. /\ l \in 0 .. MAX_PID /\ l # 0 /\ l - 1 \in 0 .. MAX_PID
          /\ n \in 0 .. MAX_PID /\ n # 0 /\ n - 1 \in 0 .. MAX_PID
          /\ l - 1 \in (n - 1) + 1 .. MAX_PID
      BY SizesAssumption
    <2>2. up[l - 1] \in Running /\ up[l] = parent_pid[up[l - 1]]
      BY <1>1, <1>2, <2>1
    <2>3. up[n - 1] # up[l - 1]
      BY <1>4, <2>1, <2>2, NoneIsNoPid DEF Running
    <2>4. CASE up[n - 1] = None
      BY <1>1, <2>1, <2>4
    <2>5. CASE up[n - 1] # None
      <3>1. up[n - 1] \in Running /\ up[n] = parent_pid[up[n - 1]]
        BY <1>1, <1>2, <2>1, <2>5
      <3> QED BY <2>2, <2>3, <3>1 DEF ProcessForest, OneChild
    <2> QED BY <2>4, <2>5
  <1> DEFINE T == {n \in 0 .. k : Apart(n)}
  <1>5. k \in T
    <2>1. 0 \in T /\ \A n \in 1 .. k : n - 1 \in T => n \in T
      BY <1>3, <1>4
    <2>2. k \in Nat
      OBVIOUS
    <2> HIDE DEF T
    <2> QED BY <2>1, <2>2, Induction
  <1> QED BY <1>5 DEF up

\* There are too few pids for a climb that does not end.
LEMMA AncestorsEnd ==
  ASSUME TypeOK, ProcessForest, NEW t \in Term
  PROVE  Ancestors(t)[MAX_PID] = None
  <1> DEFINE up == Ancestors(t)
  <1>1. \A k \in 0 .. MAX_PID :
          up[k] = IF k = 0 THEN schedule[t]
                  ELSE IF up[k - 1] = None THEN None ELSE parent_pid[up[k - 1]]
    BY AncestorsClimb, ZenonT(40) DEF Climbs
  <1>2. up \in [0 .. MAX_PID -> Pid \cup {None}]
    BY AncestorsClimb
  <1>3. \A k \in 0 .. MAX_PID : \A m \in k + 1 .. MAX_PID :
          up[m] # None => up[k] # up[m]
    BY AncestorsDiffer
  <1> HIDE DEF up
  <1>4. ASSUME NEW k \in 0 .. MAX_PID, up[k] = None PROVE up[MAX_PID] = None
    <2> DEFINE T == {n \in 0 .. MAX_PID - k : up[k + n] = None}
    <2>1. MAX_PID - k \in Nat /\ k + 0 = k /\ k + (MAX_PID - k) = MAX_PID
      BY SizesAssumption
    <2>2. 0 \in T
      BY <1>4, <2>1
    <2>3. ASSUME NEW n \in 1 .. MAX_PID - k, n - 1 \in T PROVE n \in T
      <3>1. /\ k + n \in 0 .. MAX_PID /\ k + n # 0 /\ (k + n) - 1 = k + (n - 1)
            /\ n \in 0 .. MAX_PID - k
        BY SizesAssumption
      <3>2. up[k + (n - 1)] = None
        BY <2>3
      <3> QED BY <1>1, <3>1, <3>2
    <2>4. MAX_PID - k \in T
      <3> HIDE DEF T
      <3> QED BY <2>1, <2>2, <2>3, Induction
    <2> QED BY <2>1, <2>4
  <1>5. ASSUME up[MAX_PID] # None PROVE FALSE
    <2>1. \A k \in 0 .. MAX_PID : up[k] \in Pid
      BY <1>2, <1>4, <1>5
    <2>2. up \in [0 .. MAX_PID -> Pid]
      BY <1>2, <2>1
    <2>3. /\ IsFiniteSet(0 .. MAX_PID) /\ Cardinality(0 .. MAX_PID) = MAX_PID + 1
          /\ IsFiniteSet(Pid) /\ Cardinality(Pid) = MAX_PID
      <3>1. 0 \in Int /\ MAX_PID \in Int /\ MAX_PID - 1 \in Int /\ MAX_PID >= 1
        BY SizesAssumption
      <3>2. /\ IsFiniteSet(0 .. MAX_PID)
            /\ Cardinality(0 .. MAX_PID) = IF 0 > MAX_PID THEN 0 ELSE MAX_PID - 0 + 1
        BY <3>1, FS_Interval
      <3>3. /\ IsFiniteSet(0 .. MAX_PID - 1)
            /\ Cardinality(0 .. MAX_PID - 1)
                 = IF 0 > MAX_PID - 1 THEN 0 ELSE (MAX_PID - 1) - 0 + 1
        BY <3>1, FS_Interval
      <3> QED BY <3>1, <3>2, <3>3 DEF Pid
    <2>4. PICK k, m \in 0 .. MAX_PID : k # m /\ up[k] = up[m]
      <3>1. Cardinality(Pid) < Cardinality(0 .. MAX_PID)
        BY <2>3, SizesAssumption
      <3> HIDE DEF up
      <3> QED BY <2>2, <2>3, <3>1, FS_PigeonHole, ZenonT(40)
    <2>5. \A n \in 0 .. MAX_PID : up[n] # None
      BY <2>1, NoneIsNoPid
    <2>6. CASE k < m
      <3>1. m \in k + 1 .. MAX_PID
        BY <2>6, SizesAssumption
      <3> QED BY <1>3, <2>4, <2>5, <3>1
    <2>7. CASE m < k
      <3>1. k \in m + 1 .. MAX_PID
        BY <2>7, SizesAssumption
      <3> QED BY <1>3, <2>4, <2>5, <3>1
    <2> QED BY <2>4, <2>6, <2>7, SizesAssumption
  <1> QED BY <1>5 DEF up

\* A terminal's processes from its shell up to the one it runs, each the parent
\* of the next.
IsChain(c, top, parent) ==
  /\ c \in Seq(Pid)
  /\ c = << >> => top = None
  /\ c # << >> => top = c[Len(c)] /\ parent[c[1]] = None
  /\ \A k \in 1 .. Len(c) - 1 : parent[c[k + 1]] = c[k]

\* ChainOf is such a chain, of running processes.
LEMMA ChainsAre ==
  IInv => \A t \in Term : /\ IsChain(ChainOf(t), schedule[t], parent_pid)
                          /\ \A k \in 1 .. Len(ChainOf(t)) : ChainOf(t)[k] \in Running
  <1> SUFFICES ASSUME IInv, NEW t \in Term
               PROVE  /\ IsChain(ChainOf(t), schedule[t], parent_pid)
                      /\ \A k \in 1 .. Len(ChainOf(t)) : ChainOf(t)[k] \in Running
    OBVIOUS
  <1> DEFINE up == Ancestors(t)
  <1>1. \A k \in 0 .. MAX_PID :
          up[k] = IF k = 0 THEN schedule[t]
                  ELSE IF up[k - 1] = None THEN None ELSE parent_pid[up[k - 1]]
    BY AncestorsClimb, ZenonT(40) DEF Climbs, IInv
  <1>2. \A k \in 0 .. MAX_PID : up[k] \in Running \cup {None}
    BY AncestorsRun, Zenon DEF IInv
  <1>3. up[MAX_PID] = None
    BY AncestorsEnd, Zenon DEF IInv
  <1>4. MAX_PID \in Nat
    BY SizesAssumption
  <1> DEFINE top == {n \in 0 .. MAX_PID : up[n] = None}
             alive == {n \in 0 .. MAX_PID : up[n] # None}
  <1>5. PICK d \in top : \A n \in top : d <= n
    <2>1. top \in SUBSET Nat /\ top # {}
      BY <1>3, <1>4
    <2> HIDE DEF top
    <2> QED BY <2>1, Least
  <1>6. d \in 0 .. MAX_PID /\ up[d] = None /\ \A n \in 0 .. d - 1 : up[n] \in Running
    <2>1. \A n \in 0 .. d - 1 : n \in 0 .. MAX_PID /\ ~(d <= n)
      BY <1>4, <1>5
    <2> QED BY <1>2, <1>5, <2>1
  <1>7. ASSUME NEW n \in d .. MAX_PID PROVE up[n] = None
    <2> DEFINE T == {m \in 0 .. n - d : up[d + m] = None}
    <2>1. n - d \in Nat /\ d + 0 = d /\ d + (n - d) = n
      BY <1>4, <1>6
    <2>2. 0 \in T
      BY <1>6, <2>1
    <2>3. ASSUME NEW m \in 1 .. n - d, m - 1 \in T PROVE m \in T
      <3>1. /\ d + m \in 0 .. MAX_PID /\ d + m # 0 /\ (d + m) - 1 = d + (m - 1)
            /\ m \in 0 .. n - d
        BY <1>4, <1>6
      <3>2. up[d + (m - 1)] = None
        BY <2>3
      <3> QED BY <1>1, <3>1, <3>2
    <2>4. n - d \in T
      <3> HIDE DEF T
      <3> QED BY <2>1, <2>2, <2>3, Induction
    <2> QED BY <2>1, <2>4
  <1>8. alive = 0 .. d - 1
    <2>1. \A n \in Running : n # None
      BY NoneIsNoPid DEF Running
    <2>2. \A n \in 0 .. MAX_PID : n \in 0 .. d - 1 \/ n \in d .. MAX_PID
      BY <1>4, <1>6
    <2>3. \A n \in 0 .. d - 1 : n \in 0 .. MAX_PID
      BY <1>4, <1>6
    <2> HIDE DEF up
    <2> QED BY <1>6, <1>7, <2>1, <2>2, <2>3
  <1>9. Cardinality(alive) = d
    <2>1. 0 \in Int /\ d - 1 \in Int /\ d \in Nat
      BY <1>4, <1>6
    <2>2. Cardinality(0 .. d - 1) = IF 0 > d - 1 THEN 0 ELSE (d - 1) - 0 + 1
      BY <2>1, FS_Interval
    <2> HIDE DEF alive
    <2> QED BY <1>8, <2>1, <2>2
  <1>10. ChainOf(t) = [k \in 1 .. d |-> up[d - k]]
    BY <1>9, Zenon DEF ChainOf
  <1> DEFINE c == [k \in 1 .. d |-> up[d - k]]
  <1> HIDE DEF up
  <1>11. \A k \in 1 .. d : d - k \in 0 .. d - 1 /\ c[k] = up[d - k] /\ c[k] \in Running
    BY <1>4, <1>6
  <1>12. c \in Seq(Pid) /\ Len(c) = d /\ d \in Nat
    <2>1. d \in Nat /\ c \in [1 .. d -> Pid]
      BY <1>4, <1>6, <1>11 DEF Running
    <2> HIDE DEF c
    <2>2. c \in Seq(Pid)
      BY <2>1, SeqDef
    <2> QED BY <2>1, <2>2, LenProperties
  <1>13. CASE d = 0
    <2>1. schedule[t] = None
      BY <1>1, <1>4, <1>6, <1>13
    <2>2. c = << >> /\ \A k \in 1 .. Len(c) : FALSE
      BY <1>12, <1>13, EmptySeq
    <2>3. ChainOf(t) = << >> /\ \A k \in 1 .. Len(ChainOf(t)) : FALSE
      BY <1>10, <2>2, Zenon
    <2>4. << >> \in Seq(Pid) /\ \A k \in 1 .. Len(<< >>) - 1 : FALSE
      BY EmptySeq
    <2> HIDE DEF c
    <2> QED BY <2>1, <2>3, <2>4, Zenon DEF IsChain
  <1>14. CASE d # 0
    <2>1. c # << >>
      BY <1>12, <1>14
    <2>2. schedule[t] = c[Len(c)]
      <3>1. d \in 1 .. d /\ d - d = 0 /\ 0 \in 0 .. MAX_PID
        BY <1>4, <1>12, <1>14
      <3>2. up[0] = schedule[t]
        BY <1>1, <3>1
      <3>3. c[d] = up[d - d]
        BY <1>11, <3>1
      <3> HIDE DEF c
      <3> QED BY <1>12, <3>1, <3>2, <3>3
    <2>3. parent_pid[c[1]] = None
      <3>1. 1 \in 1 .. d /\ d \in 0 .. MAX_PID /\ d - 1 \in 0 .. MAX_PID
        BY <1>4, <1>6, <1>12, <1>14
      <3>2. c[1] = up[d - 1] /\ up[d - 1] \in Running
        BY <1>11, <3>1
      <3>3. up[d] = parent_pid[up[d - 1]]
        BY <1>1, <1>14, <3>1, <3>2, NoneIsNoPid DEF Running
      <3> HIDE DEF c
      <3> QED BY <1>6, <3>2, <3>3
    <2>4. ASSUME NEW k \in 1 .. Len(c) - 1 PROVE parent_pid[c[k + 1]] = c[k]
      <3>1. /\ k \in 1 .. d /\ k + 1 \in 1 .. d /\ d - k \in 0 .. MAX_PID
            /\ d - k # 0 /\ (d - k) - 1 = d - (k + 1)
        BY <1>4, <1>6, <1>12
      <3>2. c[k] = up[d - k] /\ c[k + 1] = up[d - (k + 1)] /\ c[k + 1] \in Running
        BY <1>11, <3>1
      <3>3. up[d - k] = parent_pid[up[d - (k + 1)]]
        BY <1>1, <3>1, <3>2, NoneIsNoPid DEF Running
      <3> HIDE DEF c
      <3> QED BY <3>2, <3>3
    <2> HIDE DEF c
    <2>5. IsChain(c, schedule[t], parent_pid)
      BY <1>12, <2>1, <2>2, <2>3, <2>4 DEF IsChain
    <2>6. ChainOf(t) = c
      BY <1>10 DEF c
    <2> QED BY <1>11, <1>12, <2>5, <2>6
  <1> QED BY <1>13, <1>14

\* There is only one.
LEMMA ChainIsOne ==
  ASSUME NEW parent \in [Pid -> Pid \cup {None}], NEW top \in Pid \cup {None}, NEW c, NEW e,
         IsChain(c, top, parent), IsChain(e, top, parent), Len(c) <= Len(e)
  PROVE  c = e
  <1>1. /\ c \in Seq(Pid) /\ e \in Seq(Pid) /\ Len(c) \in Nat /\ Len(e) \in Nat
        /\ c \in [1 .. Len(c) -> Pid] /\ e \in [1 .. Len(e) -> Pid]
    BY LenProperties DEF IsChain
  <1>2. CASE c = << >>
    <2>1. ASSUME e # << >> PROVE FALSE
      <3>1. Len(e) \in 1 .. Len(e)
        BY <1>1, <2>1, EmptySeq
      <3>2. e[Len(e)] \in Pid /\ top = None /\ top = e[Len(e)]
        BY <1>1, <1>2, <2>1, <3>1 DEF IsChain
      <3> QED BY <3>2, NoneIsNoPid
    <2> QED BY <1>2, <2>1
  <1>3. CASE c # << >>
    <2>1. Len(c) >= 1 /\ Len(e) >= 1
      BY <1>1, <1>3, EmptySeq
    <2> DEFINE Same(n) == c[Len(c) - n] = e[Len(e) - n]
               T == {n \in 0 .. Len(c) - 1 : Same(n)}
    <2>2. Same(0)
      <3>1. e # << >> /\ Len(c) - 0 = Len(c) /\ Len(e) - 0 = Len(e)
        BY <1>1, <2>1, EmptySeq
      <3> QED BY <1>3, <3>1 DEF IsChain
    <2>3. ASSUME NEW n \in 1 .. Len(c) - 1, Same(n - 1) PROVE Same(n)
      <3>1. /\ Len(c) - n \in 1 .. Len(c) - 1 /\ Len(e) - n \in 1 .. Len(e) - 1
            /\ (Len(c) - n) + 1 = Len(c) - (n - 1) /\ (Len(e) - n) + 1 = Len(e) - (n - 1)
        BY <1>1
      <3>2. /\ parent[c[(Len(c) - n) + 1]] = c[Len(c) - n]
            /\ parent[e[(Len(e) - n) + 1]] = e[Len(e) - n]
        BY <3>1 DEF IsChain
      <3> QED BY <2>3, <3>1, <3>2
    <2>4. ASSUME NEW n \in 0 .. Len(c) - 1 PROVE Same(n)
      <3> DEFINE U == {m \in 0 .. n : Same(m)}
      <3>1. n \in Nat /\ 0 \in 0 .. n /\ \A m \in 1 .. n : m - 1 \in 0 .. n /\ m \in 0 .. n
                                                      /\ m \in 1 .. Len(c) - 1
        BY <1>1
      <3> HIDE DEF Same
      <3>2. 0 \in U /\ \A m \in 1 .. n : m - 1 \in U => m \in U
        BY <2>2, <2>3, <3>1
      <3>3. n \in U
        <4> HIDE DEF U
        <4> QED BY <3>1, <3>2, Induction
      <3> QED BY <3>3
    <2>5. Len(c) = Len(e)
      <3>1. ASSUME Len(c) < Len(e) PROVE FALSE
        <4>1. /\ Len(c) - 1 \in 0 .. Len(c) - 1 /\ Len(c) - (Len(c) - 1) = 1
              /\ Len(e) - (Len(c) - 1) = (Len(e) - Len(c)) + 1
              /\ Len(e) - Len(c) \in 1 .. Len(e) - 1
              /\ Len(e) - Len(c) \in 1 .. Len(e)
          BY <1>1, <2>1, <3>1
        <4>2. c[1] = e[(Len(e) - Len(c)) + 1]
          BY <2>4, <4>1
        <4>3. parent[c[1]] = None /\ parent[e[(Len(e) - Len(c)) + 1]] = e[Len(e) - Len(c)]
          BY <1>3, <4>1 DEF IsChain
        <4>4. e[Len(e) - Len(c)] \in Pid
          BY <1>1, <4>1
        <4> QED BY <4>2, <4>3, <4>4, NoneIsNoPid
      <3>2. Len(c) \in Nat /\ Len(e) \in Nat /\ Len(c) <= Len(e)
        BY <1>1
      <3> HIDE DEF Same, T
      <3> QED BY <3>1, <3>2
    <2>6. ASSUME NEW k \in 1 .. Len(c) PROVE c[k] = e[k]
      <3>1. Len(c) - k \in 0 .. Len(c) - 1 /\ Len(c) - (Len(c) - k) = k
        BY <1>1
      <3>2. c[Len(c) - (Len(c) - k)] = e[Len(e) - (Len(c) - k)]
        BY <2>4, <3>1
      <3> QED BY <2>5, <3>1, <3>2
    <2> QED BY <1>1, <2>5, <2>6, SeqEqual
  <1> QED BY <1>2, <1>3

\* Whatever is a chain of terminal t is ChainOf(t).
LEMMA ChainIs ==
  IInv => \A t \in Term : \A c : IsChain(c, schedule[t], parent_pid) => ChainOf(t) = c
  <1> SUFFICES ASSUME IInv, NEW t \in Term, NEW c, IsChain(c, schedule[t], parent_pid)
               PROVE  ChainOf(t) = c
    OBVIOUS
  <1>1. parent_pid \in [Pid -> Pid \cup {None}] /\ schedule[t] \in Pid \cup {None}
    BY DEF IInv, TypeOK
  <1>2. IsChain(ChainOf(t), schedule[t], parent_pid)
    BY ChainsAre
  <1>3. Len(c) \in Nat /\ Len(ChainOf(t)) \in Nat
    BY <1>2, LenProperties DEF IsChain
  <1>4. CASE Len(c) <= Len(ChainOf(t))
    BY <1>1, <1>2, <1>4, ChainIsOne
  <1>5. CASE Len(ChainOf(t)) <= Len(c)
    BY <1>1, <1>2, <1>5, ChainIsOne
  <1> QED BY <1>3, <1>4, <1>5

\* A process started on top of a chain makes it longer, a first one begins it.
LEMMA ChainGrows ==
  ASSUME NEW parent \in [Pid -> Pid \cup {None}], NEW top \in Pid \cup {None},
         NEW c, IsChain(c, top, parent),
         NEW p \in Pid, \A k \in 1 .. Len(c) : c[k] # p
  PROVE  IsChain(Append(c, p), p, [parent EXCEPT ![p] = top])
  <1> DEFINE links == [parent EXCEPT ![p] = top]
             a == Append(c, p)
  <1>1. c \in Seq(Pid) /\ Len(c) \in Nat /\ c \in [1 .. Len(c) -> Pid]
    BY LenProperties DEF IsChain
  <1>2. /\ a \in Seq(Pid) /\ Len(a) = Len(c) + 1 /\ a[Len(c) + 1] = p
        /\ \A k \in 1 .. Len(c) : a[k] = c[k]
    BY <1>1, AppendProperties
  <1>3. links[p] = top /\ \A q \in Pid : q # p => links[q] = parent[q]
    OBVIOUS
  <1>4. \A k \in 1 .. Len(c) : links[c[k]] = parent[c[k]]
    BY <1>1, <1>3
  <1> HIDE DEF a, links
  <1>5. a # << >> /\ p = a[Len(a)]
    BY <1>1, <1>2, EmptySeq
  <1>6. links[a[1]] = None
    <2>1. CASE c = << >>
      <3>1. top = None /\ a[1] = p
        BY <1>2, <2>1, EmptySeq DEF IsChain
      <3> QED BY <1>3, <3>1
    <2>2. CASE c # << >>
      <3>1. 1 \in 1 .. Len(c) /\ parent[c[1]] = None
        BY <1>1, <2>2, EmptySeq DEF IsChain
      <3> QED BY <1>2, <1>4, <3>1
    <2> QED BY <2>1, <2>2
  <1>7. ASSUME NEW k \in 1 .. Len(a) - 1 PROVE links[a[k + 1]] = a[k]
    <2>1. k \in 1 .. Len(c) /\ a[k] = c[k]
      BY <1>1, <1>2
    <2>2. CASE k = Len(c)
      <3>1. a[k + 1] = p /\ c # << >>
        BY <1>2, <2>1, <2>2, EmptySeq
      <3>2. top = c[Len(c)]
        BY <3>1 DEF IsChain
      <3> QED BY <1>3, <2>1, <2>2, <3>1, <3>2
    <2>3. CASE k # Len(c)
      <3>0. Len(c) \in Nat /\ k \in 1 .. Len(c)
        BY <1>1, <2>1
      <3>1. k \in 1 .. Len(c) - 1 /\ k + 1 \in 1 .. Len(c)
        BY <2>3, <3>0
      <3>2. parent[c[k + 1]] = c[k] /\ a[k + 1] = c[k + 1]
        BY <1>2, <3>1 DEF IsChain
      <3> QED BY <1>4, <2>1, <3>1, <3>2
    <2> QED BY <2>2, <2>3
  <1>8. IsChain(a, p, links)
    BY <1>2, <1>5, <1>6, <1>7 DEF IsChain
  <1> QED BY <1>8 DEF a, links

\* A process elsewhere leaves it as it is.
LEMMA ChainStays ==
  ASSUME NEW parent \in [Pid -> Pid \cup {None}], NEW top \in Pid \cup {None},
         NEW c, IsChain(c, top, parent),
         NEW p \in Pid, \A k \in 1 .. Len(c) : c[k] # p, NEW link
  PROVE  IsChain(c, top, [parent EXCEPT ![p] = link])
  <1> DEFINE links == [parent EXCEPT ![p] = link]
  <1>1. c \in Seq(Pid) /\ Len(c) \in Nat /\ c \in [1 .. Len(c) -> Pid]
    BY LenProperties DEF IsChain
  <1>2. \A k \in 1 .. Len(c) : links[c[k]] = parent[c[k]]
    BY <1>1
  <1> HIDE DEF links
  <1>3. c # << >> => 1 \in 1 .. Len(c)
    BY <1>1, EmptySeq
  <1>4. \A k \in 1 .. Len(c) - 1 : k + 1 \in 1 .. Len(c)
    BY <1>1
  <1>5. IsChain(c, top, links)
    BY <1>2, <1>3, <1>4 DEF IsChain
  <1> QED BY <1>5 DEF links

\* When the process on top ends, the rest is its parent's.
LEMMA ChainShrinks ==
  ASSUME NEW parent \in [Pid -> Pid \cup {None}], NEW top \in Pid,
         NEW c, IsChain(c, top, parent), parent[top] # None
  PROVE  Len(c) >= 2 /\ IsChain(Stacks!Front(c), parent[top], parent)
  <1>1. c \in Seq(Pid) /\ Len(c) \in Nat /\ c \in [1 .. Len(c) -> Pid]
    BY LenProperties DEF IsChain
  <1>2. c # << >> /\ top = c[Len(c)] /\ parent[c[1]] = None
    BY NoneIsNoPid DEF IsChain
  <1>3. Len(c) >= 2
    BY <1>1, <1>2, EmptySeq
  <1> DEFINE f == SubSeq(c, 1, Len(c) - 1)
  <1>4. Stacks!Front(c) = f
    BY DEF Stacks!Front
  <1>5. /\ f \in Seq(Pid) /\ Len(f) = Len(c) - 1
        /\ \A k \in 1 .. Len(c) - 1 : f[k] = c[k]
    <2>1. /\ 1 \in 1 .. Len(c) + 1 /\ Len(c) - 1 \in 0 .. Len(c)
          /\ (Len(c) - 1) - 1 + 1 = Len(c) - 1 /\ 1 <= Len(c) - 1
      BY <1>1, <1>3
    <2>2. /\ f \in Seq(Pid) /\ Len(f) = Len(c) - 1
          /\ \A k \in 1 .. Len(c) - 1 : f[k] = c[1 + k - 1]
      BY <1>1, <1>3, <2>1, SubSeqProperties
    <2>3. \A k \in 1 .. Len(c) - 1 : 1 + k - 1 = k
      OBVIOUS
    <2> HIDE DEF f
    <2> QED BY <2>2, <2>3
  <1> HIDE DEF f
  <1>6. f # << >> /\ f[Len(f)] = parent[top] /\ f[1] = c[1]
    <2>1. /\ Len(c) - 1 \in 1 .. Len(c) - 1 /\ 1 \in 1 .. Len(c) - 1
          /\ (Len(c) - 1) + 1 = Len(c)
      BY <1>1, <1>3
    <2>2. parent[c[(Len(c) - 1) + 1]] = c[Len(c) - 1]
      BY <2>1 DEF IsChain
    <2>3. f[Len(f)] = c[Len(c) - 1] /\ f[1] = c[1]
      BY <1>5, <2>1
    <2> QED BY <1>1, <1>2, <1>3, <1>5, <2>1, <2>2, <2>3, EmptySeq
  <1>7. ASSUME NEW k \in 1 .. Len(f) - 1 PROVE parent[f[k + 1]] = f[k]
    <2>1. k \in 1 .. Len(c) - 1 /\ k + 1 \in 1 .. Len(c) - 1
      BY <1>1, <1>5
    <2> QED BY <1>5, <2>1 DEF IsChain
  <1>8. IsChain(f, parent[top], parent)
    BY <1>2, <1>5, <1>6, <1>7 DEF IsChain
  <1> QED BY <1>3, <1>4, <1>8

-----------------------------------------------------------------------------
(* Every step is one of the stacks' steps. *)

StackOf == [t \in Term |-> ChainOf(t)]

OnlyChains ==
  \A t \in Term : /\ IsChain(ChainOf(t), schedule[t], parent_pid)
                  /\ \A k \in 1 .. Len(ChainOf(t)) : ChainOf(t)[k] \in Running
                  /\ \A c : IsChain(c, schedule[t], parent_pid) => ChainOf(t) = c

LEMMA ChainsOnly == IInv => OnlyChains
  BY ChainsAre, ChainIs, Zenon DEF OnlyChains

\* What leaves the terminals' pids and the parent links alone leaves the stacks.
LEMMA StacksStay ==
  ASSUME OnlyChains, OnlyChains', schedule' = schedule, parent_pid' = parent_pid
  PROVE  StackOf' = StackOf
  <1>1. ASSUME NEW t \in Term PROVE ChainOf(t)' = ChainOf(t)
    <2>1. IsChain(ChainOf(t), schedule[t], parent_pid)
      BY Zenon DEF OnlyChains
    <2>2. IsChain(ChainOf(t), schedule'[t], parent_pid')
      BY <2>1
    <2> QED BY <2>2, Zenon DEF OnlyChains
  <1> QED BY <1>1, Zenon DEF StackOf

\* A terminal without a process is one with an empty stack.
LEMMA EmptyStack ==
  ASSUME TypeOK, OnlyChains, NEW t \in Term
  PROVE  StackOf[t] = << >> <=> schedule[t] = None
  <1>1. IsChain(ChainOf(t), schedule[t], parent_pid) /\ StackOf[t] = ChainOf(t)
    BY Zenon DEF OnlyChains, StackOf
  <1> DEFINE c == ChainOf(t)
  <1>2. c \in Seq(Pid) /\ c # << >> => c[Len(c)] \in Pid
    <2> HIDE DEF c
    <2>1. ASSUME c \in Seq(Pid), c # << >> PROVE c[Len(c)] \in Pid
      <3>1. Len(c) \in 1 .. Len(c) /\ c \in [1 .. Len(c) -> Pid]
        BY <2>1, EmptySeq, LenProperties
      <3> QED BY <3>1
    <2> QED BY <2>1
  <1> QED BY <1>1, <1>2, NoneIsNoPid, Zenon DEF IsChain

\* A process that execute() starts goes on top of its terminal's stack.
LEMMA StacksGrow ==
  ASSUME TypeOK, OnlyChains, OnlyChains', NEW t \in Term, NEW p \in FreePids,
         schedule' = [schedule EXCEPT ![t] = p],
         parent_pid' = [parent_pid EXCEPT ![p] = schedule[t]]
  PROVE  /\ StackOf' = [StackOf EXCEPT ![t] = Append(@, p)]
         /\ \A u \in Term : \A k \in 1 .. Len(StackOf[u]) : StackOf[u][k] # p
  <1>1. /\ p \in Pid /\ p \notin Running
        /\ parent_pid \in [Pid -> Pid \cup {None}] /\ schedule \in [Term -> Pid \cup {None}]
    BY DEF TypeOK, FreePids, Running
  <1>2. \A u \in Term : /\ IsChain(ChainOf(u), schedule[u], parent_pid)
                        /\ \A k \in 1 .. Len(ChainOf(u)) : ChainOf(u)[k] # p
    BY <1>1, Zenon DEF OnlyChains
  <1>3. ChainOf(t)' = Append(ChainOf(t), p)
    <2>1. /\ schedule[t] \in Pid \cup {None} /\ schedule'[t] = p
          /\ \A k \in 1 .. Len(ChainOf(t)) : ChainOf(t)[k] # p
          /\ IsChain(ChainOf(t), schedule[t], parent_pid)
      BY <1>1, <1>2
    <2>2. IsChain(Append(ChainOf(t), p), p, [parent_pid EXCEPT ![p] = schedule[t]])
      BY <1>1, <2>1, ChainGrows
    <2>3. IsChain(Append(ChainOf(t), p), schedule'[t], parent_pid')
      BY <2>1, <2>2, Zenon
    <2> QED BY <2>3, Zenon DEF OnlyChains
  <1>4. ASSUME NEW u \in Term, u # t PROVE ChainOf(u)' = ChainOf(u)
    <2>1. /\ schedule[u] \in Pid \cup {None} /\ schedule'[u] = schedule[u]
          /\ \A k \in 1 .. Len(ChainOf(u)) : ChainOf(u)[k] # p
          /\ IsChain(ChainOf(u), schedule[u], parent_pid)
      BY <1>1, <1>2, <1>4
    <2>2. IsChain(ChainOf(u), schedule[u], [parent_pid EXCEPT ![p] = schedule[t]])
      BY <1>1, <2>1, ChainStays
    <2>3. IsChain(ChainOf(u), schedule'[u], parent_pid')
      BY <2>1, <2>2, Zenon
    <2> QED BY <2>3, Zenon DEF OnlyChains
  <1>5. StackOf' = [StackOf EXCEPT ![t] = Append(@, p)]
    BY <1>3, <1>4, Zenon DEF StackOf
  <1>6. \A u \in Term : StackOf[u] = ChainOf(u)
    BY Zenon DEF StackOf
  <1> QED BY <1>2, <1>5, <1>6, Zenon

\* halt() takes the process on top off it.
LEMMA StacksShrink ==
  ASSUME TypeOK, OnlyChains, OnlyChains', NEW t \in Term,
         schedule[t] # None, parent_pid[schedule[t]] # None,
         schedule' = [schedule EXCEPT ![t] = parent_pid[schedule[t]]],
         parent_pid' = parent_pid
  PROVE  /\ Len(StackOf[t]) >= 2
         /\ StackOf' = [StackOf EXCEPT ![t] = Stacks!Front(@)]
  <1>1. /\ schedule[t] \in Pid /\ schedule \in [Term -> Pid \cup {None}]
        /\ parent_pid \in [Pid -> Pid \cup {None}]
    BY DEF TypeOK
  <1>2. IsChain(ChainOf(t), schedule[t], parent_pid)
    BY Zenon DEF OnlyChains
  <1>3. /\ Len(ChainOf(t)) >= 2
        /\ IsChain(Stacks!Front(ChainOf(t)), parent_pid[schedule[t]], parent_pid)
    BY <1>1, <1>2, ChainShrinks
  <1>4. schedule'[t] = parent_pid[schedule[t]]
    BY <1>1
  <1>5. ChainOf(t)' = Stacks!Front(ChainOf(t))
    BY <1>3, <1>4, Zenon DEF OnlyChains
  <1>6. ASSUME NEW u \in Term, u # t PROVE ChainOf(u)' = ChainOf(u)
    <2>1. IsChain(ChainOf(u), schedule[u], parent_pid) /\ schedule'[u] = schedule[u]
      BY <1>1, <1>6, Zenon DEF OnlyChains
    <2> QED BY <2>1, Zenon DEF OnlyChains
  <1>7. StackOf[t] = ChainOf(t)
    BY Zenon DEF StackOf
  <1> QED BY <1>3, <1>5, <1>6, <1>7, Zenon DEF StackOf

\* Shells are started one after the other, and a terminal that could not get
\* one keeps the CPU until it faults.
LEMMA OrderStep ==
  ASSUME IInv, IInv', ShellsInOrder, [Next]_vars
  PROVE  ShellsInOrder'
  <1> USE SizesAssumption
  <1>1. /\ active_term_idx \in Term /\ i \in -1 .. NTERMS - 1
        /\ schedule \in [Term -> Pid \cup {None}] /\ cpu \in Context
        /\ \A t \in Term : t > i => schedule[t] = None
        /\ \A p \in Pid : p # None
    BY NoneIsNoPid DEF IInv, TypeOK, BootOrder
  <1>2. CASE cpu'.at = "hung"
    BY <1>2 DEF ShellsInOrder
  <1>3. CASE UNCHANGED <<schedule, i, active_term_idx>> /\ cpu.at # "hung"
    BY <1>3, Zenon DEF ShellsInOrder
  <1>4. CASE UNCHANGED vars
    BY <1>4, Zenon DEF ShellsInOrder, vars
  <1>5. CASE PitBoot
    <2>1. cpu.at # "hung" /\ i < NTERMS - 1 /\ (i = -1 \/ schedule[active_term_idx] # None)
          /\ i' = i + 1 /\ active_term_idx' = i + 1
      BY <1>5 DEF PitBoot
    <2>2. PICK p \in Pid : schedule' = [schedule EXCEPT ![i + 1] = p]
      BY <1>5 DEF PitBoot, StartProcess
    <2>3. \A t \in Term : t <= i => schedule[t] # None
      BY <1>1, <2>1 DEF ShellsInOrder, Term
    <2>4. \A t \in Term : t <= i + 1 => schedule'[t] # None
      BY <1>1, <2>1, <2>2, <2>3 DEF Term
    <2> QED BY <2>1, <2>4 DEF ShellsInOrder
  <1>6. CASE PitBootFails
    <2>1. cpu.at # "hung" /\ schedule[active_term_idx] # None
          /\ i' = i + 1 /\ active_term_idx' = i + 1 /\ schedule' = schedule
      BY <1>6 DEF PitBootFails
    <2>2. \A t \in Term : t <= i => schedule[t] # None
      BY <1>1, <2>1 DEF ShellsInOrder, Term
    <2> QED BY <1>1, <2>1, <2>2 DEF ShellsInOrder, Term
  <1>7. CASE PitSwitch
    <2>1. cpu.at # "hung" /\ i = NTERMS - 1 /\ i' = i /\ schedule' = schedule
          /\ schedule[active_term_idx] # None
      BY <1>7 DEF PitSwitch
    <2>2. \A t \in Term : t <= i => schedule[t] # None
      BY <1>1, <2>1 DEF ShellsInOrder, Term
    <2> QED BY <1>1, <2>1, <2>2 DEF ShellsInOrder
  <1>8. CASE PitBootFault \/ PitSwitchFault \/ CtrlCFault
    <2>1. Hang
      BY <1>8 DEF PitBootFault, PitSwitchFault, CtrlCFault
    <2> QED BY <1>2, <2>1, HangType DEF IInv
  <1>9. CASE Execute
    <2>1. cpu.at = "syscall" /\ i' = i /\ active_term_idx' = active_term_idx
      BY <1>9 DEF Execute
    <2>2. PICK p \in Pid : schedule' = [schedule EXCEPT ![active_term_idx] = p]
      BY <1>9 DEF Execute, StartProcess
    <2>3. \A t \in Term : schedule'[t] = None => schedule[t] = None
      BY <1>1, <2>2
    <2> QED BY <2>1, <2>3 DEF ShellsInOrder
  <1>10. CASE HaltSyscall \/ CtrlC
    <2>1. cpu.at # "hung" /\ i' = i /\ active_term_idx' = active_term_idx
      BY <1>10 DEF HaltSyscall, CtrlC, Halt
    <2>2. PICK stk : RestartShell(stk) \/ ReturnToParent(stk)
      BY <1>10 DEF HaltSyscall, CtrlC, Halt
    <2>3. \A t \in Term : schedule'[t] = None => schedule[t] = None
      <3>1. CASE RestartShell(stk)
        BY <3>1 DEF RestartShell
      <3>2. CASE ReturnToParent(stk)
        BY <1>1, <3>2 DEF ReturnToParent
      <3> QED BY <2>2, <3>1, <3>2
    <2> QED BY <2>1, <2>3 DEF ShellsInOrder
  <1>11. CASE EnterKernel \/ LeaveKernel \/ Iret \/ HaltReturn \/ OtherIrq
    BY <1>3, <1>11 DEF EnterKernel, LeaveKernel, Iret, HaltReturn, OtherIrq
  <1> QED BY <1>4, <1>5, <1>6, <1>7, <1>8, <1>9, <1>10, <1>11 DEF Next, Pit, Hung

\* A pid on no stack is one the stacks do not use.
LEMMA OnNoStack ==
  ASSUME OnlyChains, NEW p,
         \A t \in Term : \A k \in 1 .. Len(StackOf[t]) : StackOf[t][k] # p
  PROVE  p \notin Stacks!InUse
  <1>1. ASSUME NEW t \in Term PROVE p \notin Stacks!ToSet(StackOf[t])
    <2>1. StackOf[t] \in Seq(Pid)
      BY Zenon DEF OnlyChains, IsChain, StackOf
    <2>2. DOMAIN StackOf[t] = 1 .. Len(StackOf[t])
      BY <2>1, LenProperties
    <2> QED BY <2>2, Zenon DEF Stacks!ToSet
  <1> QED BY <1>1, Zenon DEF Stacks!InUse, Stacks!Terminals, StackOf, Term

\* A terminal's shell starts on an empty stack, the terminals before it having
\* theirs.
LEMMA BootIsStartShell ==
  ASSUME IInv, OnlyChains, OnlyChains', ShellsInOrder, PitBoot
  PROVE  \E p \in (0 .. MAX_PID - 1) \ Stacks!InUse : Stacks!StartShell(i + 1, p)
  <1> USE SizesAssumption
  <1>1. /\ active_term_idx \in Term /\ i \in -1 .. NTERMS - 1 /\ TypeOK
        /\ \A t \in Term : t > i => schedule[t] = None
    BY DEF IInv, TypeOK, BootOrder
  <1>2. cpu.at # "hung" /\ i < NTERMS - 1 /\ (i = -1 \/ schedule[active_term_idx] # None)
        /\ i' = i + 1 /\ active_term_idx' = i + 1
    BY DEF PitBoot
  <1>3. PICK p \in FreePids : /\ schedule' = [schedule EXCEPT ![i + 1] = p]
                              /\ parent_pid' = [parent_pid EXCEPT ![p] = schedule[i + 1]]
    BY DEF PitBoot, StartProcess, LowestFree
  <1>4. i + 1 \in Term /\ p \in Pid
    BY <1>1, <1>2 DEF Term, FreePids
  <1>5. \A t \in Term : schedule[t] = None <=> t >= i + 1
    BY <1>1, <1>2 DEF ShellsInOrder, Term
  <1>6. \A t \in Term : StackOf[t] = << >> <=> t >= i + 1
    BY <1>1, <1>5, EmptyStack, Zenon
  <1>7. /\ StackOf' = [StackOf EXCEPT ![i + 1] = Append(@, p)]
        /\ \A u \in Term : \A k \in 1 .. Len(StackOf[u]) : StackOf[u][k] # p
    BY <1>1, <1>3, <1>4, StacksGrow
  <1>8. StackOf' = [StackOf EXCEPT ![i + 1] = <<p>>]
    <2>1. StackOf[i + 1] = << >>
      BY <1>1, <1>4, <1>6
    <2>2. Append(<< >>, p) = <<p>>
      OBVIOUS
    <2> QED BY <1>7, <2>1, <2>2, Zenon
  <1>9. p \notin Stacks!InUse
    BY <1>7, OnNoStack, Zenon
  <1>10. Stacks!StartShell(i + 1, p)
    BY <1>2, <1>6, <1>8, Zenon DEF Stacks!StartShell, Stacks!Terminals, StackOf, Term
  <1> QED BY <1>4, <1>9, <1>10, Zenon DEF Pid

\* The process execute() starts goes on the stack of the terminal that runs.
LEMMA ExecuteIsRun ==
  ASSUME IInv, OnlyChains, OnlyChains', Execute
  PROVE  \E p \in (0 .. MAX_PID - 1) \ Stacks!InUse : Stacks!Run(p)
  <1>1. active_term_idx \in Term /\ active_term_idx' = active_term_idx /\ TypeOK
    BY DEF IInv, TypeOK, Execute
  <1>2. PICK p \in FreePids :
          /\ schedule' = [schedule EXCEPT ![active_term_idx] = p]
          /\ parent_pid' = [parent_pid EXCEPT ![p] = schedule[active_term_idx]]
    BY DEF Execute, StartProcess, LowestFree
  <1>3. schedule[active_term_idx] # None
    BY <1>2 DEF IInv, NoShellNoPid, Execute
  <1>4. StackOf[active_term_idx] # << >>
    BY <1>1, <1>3, EmptyStack
  <1>5. /\ StackOf' = [StackOf EXCEPT ![active_term_idx] = Append(@, p)]
        /\ \A u \in Term : \A k \in 1 .. Len(StackOf[u]) : StackOf[u][k] # p
    BY <1>1, <1>2, StacksGrow
  <1>6. Stacks!Run(p)
    BY <1>1, <1>4, <1>5, Zenon DEF Stacks!Run, StackOf
  <1>7. p \notin Stacks!InUse /\ p \in Pid
    BY <1>5, OnNoStack, Zenon DEF FreePids
  <1> QED BY <1>6, <1>7, Zenon DEF Pid

\* halt() of a shell leaves the stacks alone, of any other process it pops it.
LEMMA HaltIsReturn ==
  ASSUME IInv, OnlyChains, OnlyChains', NEW stk, Halt(stk)
  PROVE  Stacks!Return \/ (StackOf' = StackOf /\ active_term_idx' = active_term_idx)
  <1>1. /\ active_term_idx \in Term /\ active_term_idx' = active_term_idx /\ TypeOK
        /\ schedule[active_term_idx] # None /\ parent_pid' = parent_pid
    BY DEF IInv, TypeOK, Halt
  <1>2. CASE RestartShell(stk)
    <2>1. schedule' = schedule
      BY <1>2 DEF RestartShell
    <2> QED BY <1>1, <2>1, StacksStay
  <1>3. CASE ReturnToParent(stk)
    <2>1. /\ parent_pid[schedule[active_term_idx]] # None
          /\ schedule' = [schedule EXCEPT ![active_term_idx]
                                            = parent_pid[schedule[active_term_idx]]]
      BY <1>3 DEF ReturnToParent
    <2>2. /\ Len(StackOf[active_term_idx]) >= 2
          /\ StackOf' = [StackOf EXCEPT ![active_term_idx] = Stacks!Front(@)]
      BY <1>1, <2>1, StacksShrink
    <2> QED BY <1>1, <2>2, Zenon DEF Stacks!Return, StackOf
  <1> QED BY <1>2, <1>3 DEF Halt

\* A tick that starts no shell gives the CPU to the next terminal, or faults.
LEMMA TickIsTick ==
  ASSUME IInv, OnlyChains, OnlyChains', ShellsInOrder,
         PitBootFails \/ PitSwitch \/ PitSwitchFault
  PROVE  Stacks!Tick
  <1>1. /\ schedule' = schedule /\ parent_pid' = parent_pid /\ cpu.at # "hung"
    BY DEF PitBootFails, PitSwitch, PitSwitchFault
  <1>2. active_term_idx' = (active_term_idx + 1) % NTERMS
    <2>1. CASE PitBootFails
      <3>1. /\ active_term_idx \in Term /\ i \in -1 .. NTERMS - 2
            /\ active_term_idx' = i + 1 /\ schedule[active_term_idx] # None
        BY <2>1, SizesAssumption DEF IInv, TypeOK, PitBootFails
      <3>2. i # -1
        BY <3>1 DEF IInv, BootOrder, Term
      <3>3. active_term_idx = i /\ i + 1 \in 0 .. NTERMS - 1
        BY <1>1, <3>1, <3>2, SizesAssumption DEF ShellsInOrder
      <3>4. \A n \in 0 .. NTERMS - 1 : n % NTERMS = n
        BY SizesAssumption
      <3> QED BY <3>1, <3>3, <3>4
    <2>2. CASE PitSwitch \/ PitSwitchFault
      BY <2>2 DEF PitSwitch, PitSwitchFault, NextTerm
    <2> QED BY <2>1, <2>2
  <1>3. StackOf' = StackOf
    BY <1>1, StacksStay
  <1> QED BY <1>2, <1>3, Zenon DEF Stacks!Tick, StackOf

LEMMA StacksStep ==
  ASSUME IInv, OnlyChains, OnlyChains', ShellsInOrder, [Next]_vars
  PROVE  Stacks!Next \/ (StackOf' = StackOf /\ active_term_idx' = active_term_idx)
  <1>1. CASE UNCHANGED <<schedule, parent_pid, active_term_idx>>
    BY <1>1, StacksStay
  <1>2. CASE PitBoot
    <2>1. i + 1 \in Stacks!Terminals
      BY <1>2, SizesAssumption DEF IInv, TypeOK, PitBoot, Stacks!Terminals
    <2>2. \E p \in (0 .. MAX_PID - 1) \ Stacks!InUse : Stacks!StartShell(i + 1, p)
      BY <1>2, BootIsStartShell
    <2> QED BY <2>1, <2>2, Zenon DEF Stacks!Next
  <1>3. CASE PitBootFails \/ PitSwitch \/ PitSwitchFault
    BY <1>3, TickIsTick, Zenon DEF Stacks!Next
  <1>4. CASE Execute
    BY <1>4, ExecuteIsRun, Zenon DEF Stacks!Next
  <1>5. CASE HaltSyscall \/ CtrlC
    BY <1>5, HaltIsReturn, Zenon DEF HaltSyscall, CtrlC, Stacks!Next
  <1>6. CASE \/ PitBootFault \/ CtrlCFault \/ HaltReturn
             \/ EnterKernel \/ LeaveKernel \/ Iret \/ OtherIrq \/ UNCHANGED vars
    BY <1>1, <1>6, Zenon DEF PitBootFault, CtrlCFault, HaltReturn, EnterKernel, LeaveKernel, Iret,
                             OtherIrq, vars
  <1> QED BY <1>2, <1>3, <1>4, <1>5, <1>6, Zenon DEF Next, Pit, Hung

\* The pid table, the parent links and the terminals' pids implement one stack
\* of processes per terminal: every execute, halt, Ctrl-C and tick is a push, a
\* pop, a turn of the CPU or nothing.
THEOREM ProcessesImplementStacks == Spec => ImplementsStacks
  <1>1. Init => ShellsInOrder
    BY SizesAssumption DEF Init, ShellsInOrder, Term
  <1>2. Spec => []ShellsInOrder
    <2>1. IInv /\ IInv' /\ ShellsInOrder /\ [Next]_vars => ShellsInOrder'
      BY OrderStep
    <2> QED BY <1>1, <2>1, Invariance, PTL DEF Spec
  <1>3. Spec => []OnlyChains
    BY ChainsOnly, Invariance, PTL
  <1>4. Init => Stacks!Init
    <2> SUFFICES ASSUME Init PROVE Stacks!Init
      OBVIOUS
    <2>1. IInv /\ OnlyChains
      BY InitInv, ChainsOnly
    <2>2. \A t \in Term : schedule[t] = None
      BY DEF Init
    <2>3. \A t \in Term : StackOf[t] = << >>
      BY <2>1, <2>2, EmptyStack, Zenon DEF IInv
    <2>4. StackOf = [t \in Term |-> << >>]
      BY <2>3, Zenon DEF StackOf
    <2>5. active_term_idx = 0
      BY DEF Init
    <2> QED BY <2>4, <2>5, Zenon DEF Stacks!Init, Stacks!Terminals, StackOf, Term
  <1>5. IInv /\ OnlyChains /\ OnlyChains' /\ ShellsInOrder /\ [Next]_vars
          => [Stacks!Next]_<<[t \in Term |-> ChainOf(t)], active_term_idx>>
    BY StacksStep, Zenon DEF StackOf
  <1> QED BY <1>2, <1>3, <1>4, <1>5, Invariance, PTL
          DEF Spec, ImplementsStacks, Stacks!Spec
=============================================================================
