----------------------------- MODULE Processes -----------------------------
(***************************************************************************)
(* The process layer of the kernel: the pid table, the parent links in the *)
(* PCBs, the pid every terminal runs (schedule), the PIT's round robin     *)
(* over the terminals, execute, halt and the start of the three shells.    *)
(*                                                                         *)
(* One CPU runs the kernel and every process.  A step is the code that     *)
(* runs between two points at which an interrupt can be taken: cli..sti    *)
(* regions and interrupt gates are one step.  The points that matter are   *)
(* the two windows the code leaves open after sti and before it has left   *)
(* its stack:                                                              *)
(*   "iret"  execute() or the restart in halt(), between sti and iret      *)
(*           ("start" in the execute() a terminal's first shell comes      *)
(*           from, which runs on top of whatever the PIT interrupted);     *)
(*   "halt"  halt(), between sti and the switch to the parent's stack.     *)
(***************************************************************************)
EXTENDS Integers

CONSTANTS NTERMS,      \* terminals (3 in multi_term.h)
          MAX_PID      \* process slots (6 in syscall.h)

ASSUME SizesAssumption ==
    /\ NTERMS \in Nat \ {0}
    /\ MAX_PID \in Nat
    /\ MAX_PID >= NTERMS

Term == 0 .. NTERMS - 1
Pid  == 0 .. MAX_PID - 1
None == -1

VARIABLES
    pid_status,        \* 1 while the pid is taken
    schedule,          \* the pid each terminal runs, or None
    parent_pid,        \* PCB: the process that called execute, or None
    kernel_ctx,        \* PCB kernel_esp/kernel_ebp: what process_switch resumes
    exe_ctx,           \* PCB exe_esp/exe_ebp: the stack execute's frame is on
    active_term_idx,   \* the terminal whose process has the CPU
    i,                 \* pit.h: the last terminal whose shell was started
    esp0,              \* tss.esp0: the kernel stack taken from user mode
    user_page,         \* the pid whose 4 MB page is mapped at 128 MB
    cpu,               \* what the CPU runs, and on which kernel stack
    clobbered          \* terminals whose saved frames may be overwritten

vars == <<pid_status, schedule, parent_pid, kernel_ctx, exe_ctx,
          active_term_idx, i, esp0, user_page, cpu, clobbered>>

\* Kernel stacks are named by the pid whose 8 KB they are; the boot code
\* runs at the top of the same memory as process 0.
Stack == Pid

\* Where interrupted or running code is: the kernel's idle loop, user code, a
\* system call with interrupts on, one of the windows, or a fault taken with
\* interrupts off (the handlers loop forever).  ret is the stack a process in
\* the "halt" window is about to switch to.
Windows == {"start", "iret", "halt"}
Places  == {"boot", "user", "syscall", "hung"} \cup Windows
Context == [at : Places, stk : Stack, ret : Stack \cup {None}]

At(place, stk) == [at |-> place, stk |-> stk, ret |-> None]

-----------------------------------------------------------------------------
(* Stacks and saved frames. *)

\* The stack an interrupt or system call pushes its frame on: the CPU takes
\* esp0 when it leaves user mode and stays on its stack otherwise.
FrameStack == IF cpu.at = "user" THEN esp0 ELSE cpu.stk

\* What process_switch and init_terminal store for the interrupted code.
SavedCpu == [cpu EXCEPT !.stk = FrameStack]

\* The suspended terminals whose saved frames lie where the running code now
\* pushes.  The code in the "start" window is still below the frame of the
\* terminal it interrupted, so that frame is safe.
Overlaid ==
    {t \in Term \ {active_term_idx} :
        /\ schedule[t] # None
        /\ kernel_ctx[schedule[t]].stk = FrameStack
        /\ ~(cpu.at = "start" /\ t < active_term_idx)}

Push == clobbered' = clobbered \cup Overlaid

Hang == cpu' = [cpu EXCEPT !.at = "hung"]

-----------------------------------------------------------------------------
(* execute *)

FreePids == {p \in Pid : pid_status[p] = 0}

LowestFree(p) == p \in FreePids /\ \A q \in FreePids : p <= q

\* execute() from the pid search on, called on stack stk by the code that
\* runs as terminal t, with kctx the PCB contexts at the call: take the pid,
\* link it below the terminal's process, map its page, fill its PCB, and stop
\* in the window before iret.
StartProcess(p, t, stk, kctx, window) ==
    /\ pid_status' = [pid_status EXCEPT ![p] = 1]
    /\ parent_pid' = [parent_pid EXCEPT ![p] = schedule[t]]
    /\ schedule' = [schedule EXCEPT ![t] = p]
    /\ kernel_ctx' = [kctx EXCEPT ![p] = At("syscall", stk)]
    /\ exe_ctx' = [exe_ctx EXCEPT ![p] = stk]
    /\ user_page' = p
    /\ esp0' = p
    /\ cpu' = At(window, stk)

\* A system call that finds its file and a free pid.  (Every call that fails
\* is part of LeaveKernel.)
Execute ==
    /\ cpu.at = "syscall"
    /\ Push
    /\ \E p \in Pid :
         /\ LowestFree(p)
         /\ StartProcess(p, active_term_idx, cpu.stk, kernel_ctx, "iret")
    /\ UNCHANGED <<active_term_idx, i>>

-----------------------------------------------------------------------------
(* System call entry and exit, and the end of the iret window. *)

EnterKernel ==
    /\ cpu.at = "user"
    /\ Push
    /\ cpu' = At("syscall", esp0)
    /\ UNCHANGED <<pid_status, schedule, parent_pid, kernel_ctx, exe_ctx,
                   active_term_idx, i, esp0, user_page>>

LeaveKernel ==
    /\ cpu.at = "syscall"
    /\ Push
    /\ cpu' = At("user", esp0)
    /\ UNCHANGED <<pid_status, schedule, parent_pid, kernel_ctx, exe_ctx,
                   active_term_idx, i, esp0, user_page>>

Iret ==
    /\ cpu.at \in {"start", "iret"}
    /\ Push
    /\ cpu' = At("user", esp0)
    /\ UNCHANGED <<pid_status, schedule, parent_pid, kernel_ctx, exe_ctx,
                   active_term_idx, i, esp0, user_page>>

-----------------------------------------------------------------------------
(* halt *)

\* halt() of a terminal's root shell: back to its entry point.
RestartShell(stk) ==
    /\ parent_pid[schedule[active_term_idx]] = None
    /\ cpu' = At(IF cpu.at = "start" THEN "start" ELSE "iret", stk)
    /\ UNCHANGED <<pid_status, schedule, user_page, esp0>>

\* Mutant: the pid is never given back.
ReturnToParentKeepsPid(stk) ==
    LET curr   == schedule[active_term_idx]
        parent == parent_pid[curr]
    IN  /\ parent # None
        /\ UNCHANGED pid_status
        /\ schedule' = [schedule EXCEPT ![active_term_idx] = parent]
        /\ user_page' = parent
        /\ esp0' = parent
        /\ cpu' = [at |-> "halt", stk |-> stk, ret |-> exe_ctx[curr]]

\* Mutant: the stack comes from the parent's PCB.
ReturnToParentOfParent(stk) ==
    LET curr   == schedule[active_term_idx]
        parent == parent_pid[curr]
    IN  /\ parent # None
        /\ pid_status' = [pid_status EXCEPT ![curr] = 0]
        /\ schedule' = [schedule EXCEPT ![active_term_idx] = parent]
        /\ user_page' = parent
        /\ esp0' = parent
        /\ cpu' = [at |-> "halt", stk |-> stk, ret |-> exe_ctx[parent]]

\* Mutant: the terminal keeps the pid of the process that ended.
ReturnToParentKeepsSchedule(stk) ==
    LET curr   == schedule[active_term_idx]
        parent == parent_pid[curr]
    IN  /\ parent # None
        /\ pid_status' = [pid_status EXCEPT ![curr] = 0]
        /\ UNCHANGED schedule
        /\ user_page' = parent
        /\ esp0' = parent
        /\ cpu' = [at |-> "halt", stk |-> stk, ret |-> exe_ctx[curr]]

\* halt() of any other process: the pid is free, the parent is the
\* terminal's process again, and the CPU is left between sti and the switch
\* to the stack execute() was called on.
ReturnToParent(stk) ==
    LET curr   == schedule[active_term_idx]
        parent == parent_pid[curr]
    IN  /\ parent # None
        /\ pid_status' = [pid_status EXCEPT ![curr] = 0]
        /\ schedule' = [schedule EXCEPT ![active_term_idx] = parent]
        /\ user_page' = parent
        /\ esp0' = parent
        /\ cpu' = [at |-> "halt", stk |-> stk, ret |-> exe_ctx[curr]]

Halt(stk) ==
    /\ schedule[active_term_idx] # None
    /\ Push
    /\ RestartShell(stk) \/ ReturnToParent(stk)
    /\ UNCHANGED <<parent_pid, kernel_ctx, exe_ctx, active_term_idx, i>>

HaltSyscall == cpu.at = "syscall" /\ Halt(cpu.stk)

\* Ctrl-C: the keyboard interrupt calls halt(0) on the stack of whatever it
\* interrupted.
CtrlC == cpu.at # "hung" /\ Halt(FrameStack)

\* leave; ret on the parent's stack: execute() returns to the parent's
\* system call.
HaltReturn ==
    /\ cpu.at = "halt"
    /\ cpu' = At("syscall", cpu.ret)
    /\ UNCHANGED <<pid_status, schedule, parent_pid, kernel_ctx, exe_ctx,
                   active_term_idx, i, esp0, user_page, clobbered>>

\* Ctrl-C while the active terminal has no process: the PCB of pid -1 is not
\* mapped, and the page fault is taken with interrupts off.
CtrlCFault ==
    /\ cpu.at # "hung"
    /\ schedule[active_term_idx] = None
    /\ Push
    /\ Hang
    /\ UNCHANGED <<pid_status, schedule, parent_pid, kernel_ctx, exe_ctx,
                   active_term_idx, i, esp0, user_page>>

-----------------------------------------------------------------------------
(* The PIT *)

\* init_terminal(idx) stores the interrupted code in the PCB of the active
\* terminal's process, except for the first shell.
BootCtx(idx) ==
    IF idx = 0 THEN kernel_ctx
    ELSE [kernel_ctx EXCEPT ![schedule[active_term_idx]] = SavedCpu]

\* The next terminal's root shell.
PitBoot ==
    /\ cpu.at # "hung"
    /\ i < NTERMS - 1
    /\ i = -1 \/ schedule[active_term_idx] # None
    /\ i' = i + 1
    /\ active_term_idx' = i + 1
    /\ \E p \in Pid :
         /\ LowestFree(p)
         /\ StartProcess(p, i + 1, FrameStack, BootCtx(i + 1), "start")
    /\ Push

\* The same with every pid taken: execute() fails, the interrupted code goes
\* on as the new terminal, and the frame just stored for it is popped.
PitBootFails ==
    /\ cpu.at # "hung"
    /\ i < NTERMS - 1
    /\ schedule[active_term_idx] # None
    /\ FreePids = {}
    /\ i' = i + 1
    /\ active_term_idx' = i + 1
    /\ kernel_ctx' = BootCtx(i + 1)
    /\ clobbered' = clobbered \cup Overlaid \cup {active_term_idx}
    /\ UNCHANGED <<pid_status, schedule, parent_pid, exe_ctx, esp0, user_page, cpu>>

\* Mutant: the round starts over at the second terminal.
NextTermSkipsFirst(t) == IF t = NTERMS - 1 THEN 1 ELSE t + 1

NextTerm(t) == (t + 1) % NTERMS

\* Mutants: the stack of the process below; only the stack; only the page.
SwitchToStackBelow(to) == esp0' = to + 1 /\ user_page' = to
SwitchToStackOnly(to)  == esp0' = to /\ UNCHANGED user_page
SwitchToPageOnly(to)   == user_page' = to /\ UNCHANGED esp0

\* process_switch: esp0 and the user page of the process switched to.
SwitchTo(to) == esp0' = to /\ user_page' = to

\* Frames that were overwritten take the CPU anywhere: the outcomes kept are
\* that they are still good enough and that they are not.
Resume(to, damaged) ==
    \/ cpu' = kernel_ctx'[to]
    \/ damaged /\ Hang

\* Every later tick: save the active terminal's code, resume the next one's.
PitSwitch ==
    LET from == schedule[active_term_idx]
        next == NextTerm(active_term_idx)
        to   == schedule[next]
    IN  /\ cpu.at # "hung"
        /\ i = NTERMS - 1
        /\ from # None /\ to # None
        /\ active_term_idx' = next
        /\ kernel_ctx' = [kernel_ctx EXCEPT ![from] = SavedCpu]
        /\ SwitchTo(to)
        /\ Resume(to, next \in clobbered \cup Overlaid)
        /\ clobbered' = (clobbered \cup Overlaid) \ {next}
        /\ UNCHANGED <<pid_status, schedule, parent_pid, exe_ctx, i>>

\* A terminal without a process: its PCB is that of pid -1, which is not
\* mapped, and the page fault is taken with interrupts off.  init_terminal
\* faults on the terminal it interrupted ...
PitBootFault ==
    /\ cpu.at # "hung"
    /\ i \in 0 .. NTERMS - 2
    /\ schedule[active_term_idx] = None
    /\ Push /\ Hang
    /\ i' = i + 1
    /\ UNCHANGED <<pid_status, schedule, parent_pid, kernel_ctx, exe_ctx,
                   active_term_idx, esp0, user_page>>

\* ... and process_switch on either terminal of the switch.
PitSwitchFault ==
    LET from == schedule[active_term_idx]
        next == NextTerm(active_term_idx)
    IN  /\ cpu.at # "hung"
        /\ i = NTERMS - 1
        /\ from = None \/ schedule[next] = None
        /\ Push /\ Hang
        /\ active_term_idx' = next
        /\ kernel_ctx' = IF from = None THEN kernel_ctx
                         ELSE [kernel_ctx EXCEPT ![from] = SavedCpu]
        /\ UNCHANGED <<pid_status, schedule, parent_pid, exe_ctx, i, esp0,
                       user_page>>

Pit == PitBoot \/ PitBootFails \/ PitBootFault \/ PitSwitch \/ PitSwitchFault

\* Any other interrupt: an RTC tick, a key.  It returns where it came from.
OtherIrq ==
    /\ cpu.at # "hung"
    /\ Push
    /\ UNCHANGED <<pid_status, schedule, parent_pid, kernel_ctx, exe_ctx,
                   active_term_idx, i, esp0, user_page, cpu>>

\* The exception handlers never return.
Hung == cpu.at = "hung" /\ UNCHANGED vars

-----------------------------------------------------------------------------
Init ==
    /\ pid_status = [p \in Pid |-> 0]
    /\ schedule = [t \in Term |-> None]
    /\ parent_pid = [p \in Pid |-> 0]
    /\ kernel_ctx = [p \in Pid |-> At("boot", 0)]
    /\ exe_ctx = [p \in Pid |-> 0]
    /\ active_term_idx = 0
    /\ i = -1
    /\ esp0 = 0
    /\ user_page = None
    /\ cpu = At("boot", 0)
    /\ clobbered = {}

Next ==
    \/ Pit
    \/ EnterKernel \/ LeaveKernel
    \/ Execute \/ Iret
    \/ HaltSyscall \/ HaltReturn
    \/ CtrlC \/ CtrlCFault
    \/ OtherIrq
    \/ Hung

\* The PIT keeps ticking, and the kernel never masks it for good.
Fairness == WF_vars(Pit)

Spec == Init /\ [][Next]_vars /\ Fairness
-----------------------------------------------------------------------------
(* Properties *)

TypeOK ==
    /\ pid_status \in [Pid -> {0, 1}]
    /\ schedule \in [Term -> Pid \cup {None}]
    /\ parent_pid \in [Pid -> Pid \cup {None}]
    /\ kernel_ctx \in [Pid -> Context]
    /\ exe_ctx \in [Pid -> Stack]
    /\ active_term_idx \in Term
    /\ i \in -1 .. NTERMS - 1
    /\ esp0 \in Stack
    /\ user_page \in Pid \cup {None}
    /\ cpu \in Context
    /\ clobbered \subseteq Term

Running == {p \in Pid : pid_status[p] = 1}

\* Every terminal runs a process of its own.
ScheduledOnce ==
    /\ \A t \in Term : schedule[t] # None => schedule[t] \in Running
    /\ \A t, u \in Term : schedule[t] # None /\ t # u => schedule[t] # schedule[u]

\* A process that waits in execute() has exactly one child, and it is not
\* the one its terminal runs; a parent outlives its child.
OneChild ==
    /\ \A p \in Running : parent_pid[p] # None => parent_pid[p] \in Running
    /\ \A p, q \in Running :
         parent_pid[p] # None /\ p # q => parent_pid[p] # parent_pid[q]
    /\ \A p \in Running, t \in Term :
         schedule[t] # None => parent_pid[p] # schedule[t]

\* No pid leaks: whatever holds one is run by a terminal or waits for a child.
NoOrphan ==
    \A p \in Running : \/ \E t \in Term : schedule[t] = p
                       \/ \E q \in Running : parent_pid[q] = p

\* The pid table, the parent links and the terminals' pids form one chain of
\* waiting parents per terminal, through every execute, halt, Ctrl-C and tick.
ProcessForest == ScheduledOnce /\ OneChild /\ NoOrphan

\* The code that runs as a terminal has its process's page mapped and enters
\* the kernel on its process's stack, wherever the PIT or Ctrl-C caught it.
OwnAddressSpace ==
    cpu.at \notin {"boot", "hung"} /\ schedule[active_term_idx] # None
        => /\ esp0 = schedule[active_term_idx]
           /\ user_page = schedule[active_term_idx]

\* Code of process p in a system call is on p's stack, and a halt() that ends
\* in p is about to switch to it.
OnOwnStack(c, p) ==
    /\ c.at \in {"user", "syscall"} => c.stk = p
    /\ c.at = "halt" => c.ret = p

\* Outside the windows a suspended terminal's frames, and the frame of every
\* waiting execute(), are on the stack of the process they belong to.
FramesOnOwnStack ==
    /\ \A t \in Term \ {active_term_idx} :
         schedule[t] # None => OnOwnStack(kernel_ctx[schedule[t]], schedule[t])
    /\ schedule[active_term_idx] # None /\ cpu.at # "user"
         => OnOwnStack(cpu, schedule[active_term_idx])
    /\ \A p \in Running : parent_pid[p] # None => exe_ctx[p] = parent_pid[p]

\* A suspended terminal's frames are only ever overwritten through a window:
\* its own code or the code that pushes has passed sti and not yet left its
\* stack, or the running terminal is one whose shell could not be started.
OverwriteNeedsWindow ==
    [][\A t \in clobbered' \ clobbered :
         \/ cpu.at \in Windows
         \/ kernel_ctx[schedule[t]].at \in Windows
         \/ schedule[active_term_idx] = None
         \/ schedule'[active_term_idx'] = None]_vars

\* The PIT reaches every terminal again and again, unless the kernel faults.
RoundRobin == \A t \in Term : []<>(active_term_idx = t \/ cpu.at = "hung")

-----------------------------------------------------------------------------
(* The inductive invariant of the proofs: the properties above and what they *)
(* rest on.                                                                  *)

\* A halt window knows the stack it is about to switch to.
HaltHasTarget ==
    /\ cpu.at = "halt" => cpu.ret # None
    /\ \A p \in Pid : kernel_ctx[p].at = "halt" => kernel_ctx[p].ret # None

\* Shells are started in order, and the idle loop runs before the first one.
BootOrder ==
    /\ \A t \in Term : t > i => schedule[t] = None
    /\ cpu.at = "boot" => i = -1

\* What is suspended was running.
SuspendedWasRunning ==
    \A t \in Term \ {active_term_idx} :
        schedule[t] # None =>
            kernel_ctx[schedule[t]].at \notin {"boot", "hung"}

\* A terminal that has the CPU and no process is one whose shell found every
\* pid taken, and they still are.
NoShellNoPid ==
    schedule[active_term_idx] = None /\ cpu.at \notin {"boot", "hung"}
        => FreePids = {}

IInv ==
    /\ TypeOK
    /\ HaltHasTarget
    /\ BootOrder
    /\ ProcessForest
    /\ OwnAddressSpace
    /\ SuspendedWasRunning
    /\ FramesOnOwnStack
    /\ NoShellNoPid
=============================================================================
