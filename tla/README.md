# A TLA+ model of the kernel

This directory holds TLA+ modules that model the kernel in `src/student-distrib`,
TLC configurations that check them on small instances, and TLAPS proofs of what
matters most for instances of every size. The kernel is a small x86 kernel for
one CPU: three text terminals with a shell each, up to six processes, a
round-robin scheduler on the PIT, a read-only file system in memory, a
virtualised RTC, and ten system calls. Paths below are relative to
`src/student-distrib`.

Contents: [parts](#1-the-systems-parts), [modules](#2-the-modules),
[runs](#3-the-runs), [bounds](#4-bounds-and-views),
[fairness](#5-fairness), [proofs](#6-what-is-proved),
[findings](#7-where-code-and-comments-disagree),
[not modelled](#8-what-is-not-modelled), [plan](#9-plan).

## 1. The system's parts

| part | state it keeps | operations | what makes it correct |
|---|---|---|---|
| process layer (`syscall.c`, `syscall_linkage.S`) | `pid_status`, `schedule`, PCBs at fixed addresses (parent pid, saved `esp`/`ebp` of `execute` and of the scheduler), `tss.esp0`, the user page | `execute`, `halt`, restart of a root shell, return to the parent | one chain of waiting parents per terminal, no pid lost or shared; running code has its own page and kernel stack; nothing overwrites a frame somebody returns to |
| scheduler (`pit.c`, `multi_term.c`, `process_switch`) | `active_term_idx`, `i` | the three boot ticks that start the shells, `process_switch` on every later tick | every terminal gets the CPU again and again; what is resumed is what was suspended |
| descriptors and file calls (`syscall.c`, `filesystem.c`, `rtc.c`) | `fd_array` and `rtc_fd_idx` in each PCB; globals `file_dentry`, `info.counter`, `info.dentry` | `open`, `read`, `close`, directory listing | a process gets the file it asked for, keeps its descriptors, and lists every entry once |
| virtual RTC (`rtc.c`) | per PCB: `max_rtc_count`, `rtc_interrupt`, `rtc_fd_idx`; the count itself is `file_pos` of a descriptor | `rtc_handler`, `rtc_open/read/write/close` | interrupts at the rate asked for; the handler writes to rtc descriptors only |
| keyboard and terminal switch (`keyboard.c`, `multi_term.c`) | modifier and request flags, `scan_code`, `visible_term_idx`, the backup pages | `update_flags`, `halt_program`, `switch_terminal`, `terminal_switch` | every terminal's output lands on its own screen; a request acts when it is made |
| line input (`keyboard.c`, `terminal.c`) | `kbuf`, `cur_kuf_size`, `kbuf_entered`, `enter_flag` per terminal | `print_key`, `clear_screen`, `terminal_read` | the buffers are a line editor; a read returns a line of its own terminal, and returns |
| screen output (`lib.c`, `terminal.c`) | video memory, cursor per terminal | `terminal_write`, `putc`, `putc_diff`, `scroll`, `rmc` | a character is shown once, where the cursor is |
| `read_data` | none; walks inode and block numbers | copies bytes | returns the file's bytes from an offset |
| `vidmap`, paging (`page.c`, `syscall.c`) | page directory, one vidmap page table | `vidmap`; a switch leaves the mapping alone | a program draws on its own terminal |
| interrupts (`i8259.c`, `idt.c`, `linkage.S`, and where `pit.c`, `rtc.c`, `keyboard.c` acknowledge) | masks, lines requested and in service, gates, IF | `i8259_init`, `enable_irq`, `send_eoi`, the handlers' entries and exits, boot's order | whatever a handler does to stacks, later interrupts of every device are delivered |
| names and command lines (`filesystem.c`, `syscall.c`, string helpers of `lib.c`) | name fields of the boot block, the shell's buffer, `args` in the PCB, `info.counter` | `read_dentry_by_name`, `dir_read`, `execute`'s parsing, `getargs` | lookup, listing and execution agree on what a name is; a command's arguments are its own |
| user programs (`src/syscalls`): shell, `ls`, `cat`, `ece391syserr` | their buffers and counts | system calls | the calls' tests pass, whatever runs beside them |
| boot, page directory, stubs' registers | set once | | straight-line code |

**How they interact.** System calls come in through one trap gate
(`syscall_linkage.S`) and run with interrupts on; `execute`, parts of `halt`, and
the bodies of interrupt handlers run with them off. The PIT may therefore stop a
call between any two of its instructions and give the CPU to the process of
another terminal, which may make the same call. Two places turn interrupts back
on inside code that is still on a stack it is about to leave: `execute` before
its `iret` (`syscall.c:251`) and `halt` before it switches to the parent's stack
(`syscall.c:66`). A third does so in an interrupt handler: `terminal_switch`
(`multi_term.c:57`) in the middle of a keyboard interrupt. Ctrl-C calls
`halt(0)` inside the keyboard handler, on whatever stack was interrupted.

**What is hard.** No lock protects any of the globals: `file_dentry`,
`info.counter`, `scan_code` and `visible_term_idx` are read and used later. A
descriptor's `file_pos` has two meanings, and an interrupt handler writes it. A
PCB has two pairs of saved stack pointers and the pid table is freed before the
stack is. Nothing is persisted and nothing is sent, so there are no crashes to
recover from and no messages to lose. `PROJECT.json` lists the hazards line by
line.

## 2. The modules

| module | models | extends |
|---|---|---|
| `Processes` | pid table, PCB contexts, `execute`, `halt`, Ctrl-C, PIT | |
| `TerminalStacks` | abstract: a stack of processes per terminal | |
| `ProcessesRefinement` | `Processes` implements `TerminalStacks` | `Processes` |
| `MCProcesses` | view for TLC | `ProcessesRefinement` |
| `ProcessesProofs` | TLAPS proofs | `ProcessesRefinement` |
| `Files` | descriptor tables, `open`, `read`, `close`, `execute`, `halt`, and the RTC's ticks in them | |
| `MCFiles` | boot blocks and view for TLC | `Files` |
| `FilesProofs` | TLAPS proofs for `Files`, `FileContents`, `ReadData` and `Syserr` | `Syserr`, `FileContents` |
| `Rtc` | the virtual RTC of one process | |
| `RtcProofs` | TLAPS proofs | `Rtc` |
| `Console` | keyboard handler, terminal switch, whose screen is where | |
| `MCConsole` | view for TLC | `Console` |
| `ConsoleProofs` | TLAPS proofs | `Console` |
| `Terminal` | line buffers and `terminal_read` | |
| `LineEditor` | abstract: text, line, ready | |
| `MCTerminal` | view for TLC | `Terminal` |
| `TerminalProofs` | TLAPS proofs | `Terminal` |
| `Tty` | what a terminal shows, as a run of cells | |
| `Screen` | cells and cursors of video memory and the backup pages; output, echo, `vidmap`, switch | `Tty` |
| `MCScreen` | view for TLC | `Screen` |
| `ScreenProofs` | TLAPS proofs | `Screen` |
| `ReadData` | `read_data`, and a file as one sequence of bytes | |
| `FileContents` | `read_data` wherever a read of `Files` may start | `Files`, `ReadData` |
| `MCReadData` | files of two blocks | `MCFiles`, `FileContents` |
| `Syserr` | the test program `ece391syserr` on terminal 0, composed with every call of `Files` on the others | `Files` |
| `MCSyserr` | boot block, view and a bound on the other terminals | `MCFiles`, `Syserr` |
| `Shell` | a name's way from the directory or a typed line to `execute`, `getargs` and `open` | |
| `MCShell` | a directory and the lines typed | `Shell` |
| `ShellProofs` | TLAPS proofs | `Shell` |
| `Interrupts` | 8259s, IDT, IF, the handlers and the devices, from boot on | |
| `InterruptsProofs` | TLAPS proofs | `Interrupts` |

The modules are cut where the code shares little: a module keeps the state its
properties relate and takes from the others only what reaches that state.
`Processes` knows a system call as "in the kernel, interrupts on"; `Files`,
`Rtc`, `Terminal` and `Screen` model the calls and know the scheduler as "any
terminal's process may take the next step"; `Console`, `Terminal` and `Screen`
share `visible_term_idx`. The terminal switch is looked at three times: in
`Console` with nested handlers and requests but with a screen as one value, in
`Screen` with the cells and the cursor but without a key inside a switch, and
in `Terminal` as something that may happen at any time. `Interrupts` is below all
of them: it has no screens, pids or descriptors, only who acknowledges what on
which stack, and shows that the ticks, keys and periods the other modules take as
given do go on arriving.

**Granularity.** One step is the code between two points where an interrupt can
be taken and matter. A `cli`..`sti` region or the body of an interrupt gate is
one step. In code that runs with interrupts on, each read or write of shared
state is a step of its own; state that only the process itself touches is
written together with the shared access next to it. The build is unoptimised
(`Makefile`, no `-O`), so `info.counter += 1` is a load and a store and every
global is read when the C code names it. 
A few places are coarser than that:

* the copy of a directory entry (a `memcpy` of 64 bytes) is one step;
* the three stores of `close` (`syscall.c:373`-`375`) are one step: a tick between
  them leaves what one before or after all three leaves, and Ctrl-C between them can
  only be noticed in a root shell, which then has a descriptor in use with inode
  or position 0: no property that speaks of root shells depends on either;
* `file_read`'s call of `read_data` and the move of the position (`filesystem.c:240`,
  `242`) are one step: a tick counts in a regular file's position only in a root
  shell, which `PositionsWithinFile` exempts, and `ReadDataIsExact` holds from any
  position;
* the handler of a key that has switched terminals runs with interrupts on from
  `multi_term.c:57` to its `iret`. In `Console` the store to `visible_term_idx`, the
  remaining tests and `print_key` are one step: a key between them would be one
  more that overtakes a handler, after which no property of `Console` claims
  anything. In `Interrupts` the same stretch with its last EOI is one step: nothing is
  in service in it, so it does not matter where in it an interrupt comes. In
  `Screen` an echo is one step, also the rare one that such a handler makes (a key
  that finds a stale request for a switch);
* `vidmap` reads `visible_term_idx` (`syscall.c:428`) and stores the entry (`444`) in
  one step of `Screen`; a switch between the two leaves a mapping that is not the
  caller's page, as one after the store does, and the property exempts both.

### Processes

`cpu` says what the CPU runs (`at`) and on which kernel stack (`stk`); stacks
are named by the pid whose 8 KB they are. The places are the idle loop
(`"boot"`), user code, a system call, the windows (`"start"`, `"iret"`,
`"halt"`), and `"hung"`, an exception taken with interrupts off, whose handler
loops for ever. `kernel_ctx[p]` stands for `kernel_esp`/`kernel_ebp` together
with the frame they point to, `exe_ctx[p]` for `exe_esp`/`exe_ebp`. `Execute`,
`HaltSyscall`, `HaltReturn`, `Iret`, `CtrlC`, `PitBoot` and `PitSwitch` are the
code's paths; `PitBootFails`, `PitBootFault`, `PitSwitchFault` and `CtrlCFault`
its failing ones. `LeaveKernel` also stands for every call that fails, since a
failed call changes none of this state.

`clobbered` is a history variable: a terminal is in it when somebody has pushed
a frame onto the stack its saved frames are on. When such a terminal is resumed
the code's behaviour is undefined, and `Resume` lets it go on or hang.

### Files

A process is `<<t, d>>`, the `d`-th of terminal `t`'s chain, and only the last
one of a chain runs. `call[t]` is the next step of its system call. `open` is
`OpenLookup`, `OpenTake` (or `OpenNoDescriptor`), `OpenInode`, `OpenType` and
`OpenOther` (the two tests of the type, each of which reads `file_dentry` again),
and then the operation's own open: `OpenRtc`, `DirOpen` and `OpenLooksAgain`.
`dir_read` is `DirReadFind`, `DirReadLoad`, `DirReadStore`, `DirReadCopy`. `Execute`
runs with interrupts off and is one step.

`Tick` is `rtc_handler`: in every PCB that names a descriptor in `rtc_fd_idx` it adds
one to that descriptor's position, whatever the descriptor is, or sets it to 0 when
the period is reached. When that is the case is left open (`reached`); `Rtc` has the
periods. `RtcWrite` names a descriptor, and `RtcClose`, a step after `Close` has given the
descriptor back, takes the name away. `late` is a history flag of a descriptor: a
tick has counted in it while it was unused. `open` does not reset positions, so such
a descriptor starts where the tick left it.

Ctrl-C may come at any point of a call. `RestartRoot` abandons the call of a root
shell and leaves its PCB as it is, with a descriptor that is taken and has no
operations, or with `rtc_fd_idx` on one that is given back; `Halt` goes back to the
parent. The loop in `halt` that closes descriptors runs after `schedule` already names
the parent: `ClosedAll` applies the child's used numbers to the parent's table, as
`close` does. A call through the operations of a descriptor that has none faults
(`Faults`, `Close`): the handler of the exception loops, with interrupts on, so ticks
and Ctrl-C go on (`"fault"`). In `halt`'s loop interrupts are off, and the machine
stands still (`HaltFaults`, `Hung`); what the loop has closed before that is left out,
since nothing runs any more. `raced`, `owed` and `lister` are history variables for the
properties; no guard reads them.

### Rtc

`Tick` is `rtc_handler` for one process; the handler treats every PCB alike.
The stores of `rtc_write` and `rtc_close` are steps of their own, as are the
test and the reset of the flag in `rtc_read`, and `open`'s mark of the descriptor and
the store of its operations. The count is `fd_array[rtc_fd_idx].pos`, wraps at `WRAP`,
and shares the field with the offset of regular files, which `FileRead` moves. `Halt`
may come at any step of a call: a root shell begins anew with the PCB as the call
left it, any other process makes way for one with a new PCB. What a child's `halt`
closes of a waiting parent is `Close` and `rtc_close`'s steps without a tick between,
which the model also has. `since`, `steady`, `cut` and `raised` are history variables:
how long ago a read last saw the flag, whether the flag was last set under the
present settings, whether Ctrl-C has cut a `close` short of resetting `rtc_fd_idx`,
and whether the flag has gone up during the `rtc_read` that waits.

### Console

`KeyboardHandler(a, code)` is one keyboard interrupt while terminal `a` has the
CPU, up to its end or to the `sti` in `terminal_switch`; there it is pushed on
`handlers[a]`, since it waits on the stack of the code it interrupted, and
`KeyboardHandlerGoesOn(a)` continues the innermost one. `video` and `page[t]`
hold the name of the terminal whose screen is in video memory and in `t`'s page.

### Terminal

Keys act on the visible terminal. `terminal_read` of terminal `t` is
`ReadCall`, `ReadSeesLine` and `ReadSeesItself` (the two halves of the loop's
condition), `ReadCopies` (one turn of the copy) and `ReadReturns`. All of them
index by the *global* `visible_term_idx` where the code does. `calm` is a
history variable: the readers that no switch and no Enter came in the way of.
`kbuf_size - 1` characters fit in a line. `LineEditor` is what the buffers
implement, with the text as the first `cur_kuf_size` cells of `kbuf`, although
Backspace leaves the removed character in its cell.

### Screen and Tty

A page of `memory` is 4 KB of text memory together with the cursor that goes
with it: `screen_x`, `screen_y` for video memory, `terminal[t]`'s for `t`'s page.
`putc` and `putc_diff` are the same code on different pages (the second borrows
`screen_x` and `screen_y` with interrupts off), so one operator stands for both
and `PageOf` says where it applies. `Write` is one character of a
`terminal_write`: the loop runs with interrupts off, so in the code its
characters are consecutive; the model lets other steps in between as well,
which only adds behaviours.
`TerminalSwitch` runs up to the `sti`, `SwitchDone` is the handler going on;
output may come in between. `Vidmap` fills the one vidmap page table for its
caller; `Draw` is a later store of any program that has called it.

`Tty` says what a terminal should show without rows, pages or other terminals: a
run of cells and a place in it. `tty[t]`, `undisturbed` and `mixed` are history
variables; the model ends (`AtBound`) once output is known to be mixed up. No
code writes the backup pages before the first switch; `Init` takes them as
blank, as text memory is when the machine comes up, and as the code counts on.

### ReadData

`read_data` and its loop `CopyFrom` return the result and the bytes put into the
buffer; a byte is named by where it is on the disk. `ReadsTheFile` is the
reference: a part of the file as one sequence, up to a bad block. `CopyFrom`
recurses over the bytes left to read, since the offset moves as they do.
`FileContents` puts it under the reads of `Files`: for every inode the disk may
have for a descriptor's number (`OnDisk`), `ReadDataIsExact`.

### Syserr

The program is a list of calls per test. Calls the test compares with -1 are
evaluated (`ReadFails`, `WriteFails`, `CloseFails`, `VidmapFails`,
`NumberFails`: the calls' own guards, and the operation tables' constant
results) on the descriptor table as it is then; `err_open_lots` goes through
`open`'s and `close`'s steps of `Files`, with the other terminals in between.
`Start` is the shell's `execute` and the choice read; `Ends` is `halt`, at the end
or by Ctrl-C anywhere. `fail` is the program's own verdict.

### Shell

Buffers are functions from `1..n` to characters or NUL, and keep what nobody
overwrites. `Dentry` is a name field and the bytes behind it, `FieldLength` the
lookup's idea of its length, `DirRead` what `ls` gets. `Filename` is the word
`execute` looks up: its array has no room for a NUL behind a name of full length,
so the byte behind it (`junk`) may be any. Longer words overwrite `execute`'s
stack and are left out (`ShellAssumption`). A free process number is assumed;
`Processes` has the other case.

### Interrupts

A terminal's `stack` holds a frame for every handler interrupted on it, with how
far it got: `"start"` (nothing done), `"started"` (in `init_terminal`, left for the
new shell), `"switched"` (in `process_switch`), `"tail"` (behind the tick's `sti`),
`"window"` (behind `terminal_switch`'s). `base` says what is below them. A
handler's stretch with interrupts off is one step, its EOI included, since nothing can come in
between; `Take` is the CPU's acknowledge cycle and only happens with `IFlag` and
if the controllers deliver (`Delivers`: mask, priority, in service). A pending
interrupt is taken before the next instruction (`~Interrupted`). `halt_program`
drops every frame of the terminal, as `halt` drops the stack. Whether a saved
frame is still intact is `Processes`' question, and is not asked here.

## 3. The runs

| run | configuration | question | answer |
|---|---|---|---|
| `processes` | `Processes.cfg` | do ticks, calls and Ctrl-C in any order keep the process forest, address spaces and stacks? | yes; a saved frame is at risk only through the `sti` windows or after a failed boot (`OverwriteNeedsWindow`); refines `TerminalStacks` |
| `files` | `Files.cfg` | does `open` give the file asked for, and a listing every entry, with other terminals at work? | yes, unless another lookup, or another listing, comes in between |
| `file_chains` | `FilesChain.cfg` | what can a child and the ticks do to the descriptors of the processes that wait for it; where can reads, ticks and Ctrl-C leave a position or an `open` cut short, and what does a read return from there? | close those of the numbers it has in use, never 0 and 1, and count in the one named; past the file's end only where a tick found the descriptor between the stores of `close`, or in a root shell; half open in a root shell only; `read_data` is exact from every position |
| `rtc` | `Rtc.cfg` | does the handler stay within rtc descriptors and the rate within what was asked? | yes, unless a root shell was restarted inside `close`; and at the full rate a read always returns |
| `rtc_wakeup` | `RtcWakeup.cfg` | does a read that waits get the next interrupt? | not at a lower rate, see 7 |
| `console` | `Console.cfg` | are screens and keys kept apart? | yes, as long as no key overtakes a handler stopped in a switch |
| `screen` | `Screen.cfg` | does every terminal show its own output, on the screen or off it? | yes, unless a character comes inside a switch or through a `vidmap` mapping that is not its own any more |
| `terminal` | `Terminal.cfg` | are the buffers a line editor, and do reads get their lines? | yes for reads nobody disturbs; and a line somebody waits for is read |
| `syserr` | `Syserr.cfg` | do the repository's system call tests pass, in any order, again after Ctrl-C, beside other terminals? | yes |
| `shell` | `Shell.cfg` | do `ls`, the shell, `execute` and `cat` agree on names, and does a command get its own arguments? | yes; only a program whose name fills its field may be refused |
| `interrupts` | `Interrupts.cfg` | do interrupts go on being delivered, whatever the handlers do to stacks? | yes, unless an exception is taken with interrupts off |
| `read_race` | `TerminalRead.cfg` | does a read go on only with a line of its own terminal? | no, see 7 |

The properties by name:

* `ProcessForest` is `ScheduledOnce`, `OneChild` and `NoOrphan`: every pid in use
  is run by one terminal or waits for exactly one child.
* `OwnAddressSpace`: `esp0` and the user page are those of the process that has
  the CPU, wherever it was interrupted.
* `FramesOnOwnStack`: outside the windows a suspended terminal's frames, and the
  frame of every waiting `execute`, are on the stack of their own process.
* `OverwriteNeedsWindow`: an action property, which steps may damage a suspended
  terminal's frames.
* `RoundRobin`: every terminal is active again and again, unless the kernel faults.
* `StdStreams`, `WaitingLosesOnlyTheChilds`: what `halt`'s loop over the wrong
  table can and cannot do.
* `PositionsWithinFile`: no read and no tick moves the position of an open regular
  file past its end, although `rtc_handler` adds to positions without a look at what
  they are. Two cases are exempt, for in both it happens: a descriptor that a tick
  found between the stores of `close` and `rtc_close` and that `open` then hands out
  (`late`), and root shells, which keep `rtc_fd_idx` when Ctrl-C comes there.
* `HalfOpenInRootsOnly`: a descriptor in use without operations is one whose `open`
  is going on, or a root shell's; no program that is executed inherits one.
* `OpensUnlessRaced`, `ListsInOrderAlone`: correctness of `open` and of a listing
  relative to the interference named in `raced` and `lister`. Their absolute
  forms do not hold.
* `CountsInRtcOnly`: the descriptor the handler counts in is an rtc one, open or
  in the middle of its `close`, unless Ctrl-C has restarted a root shell in that
  `close` (`cut`). `NeverFasterThanAsked`: two reads never see interrupts closer than
  the period, with the same exception, as a file's reads then move the count.
  `FullRateReadReturns`: liveness.
* `BlocksUntilNextInterrupt`: when the flag has gone up while a read waits, it is up
  until the process has looked. The run shows that it is not.
* `ScreensStayApart`, `PrintsTheKeyRead`: relative to keys that overtake a
  stopped handler.
* `CalmReadGetsItsLine`: an undisturbed read returns its terminal's line, as much
  as it asked for. `LineIsRead`: liveness.
* `ScreensShowOwnOutput`: cells and cursor of every terminal are those of its own
  output and keys alone, through wraps, scrolls, tabs, Backspace and switches;
  relative to `mixed`.
* `ReadDataIsExact`: wherever reads and ticks have left a descriptor, its end and
  beyond included, on every arrangement
  of good and bad blocks, `read_data` returns the file's bytes, and moves the
  position as `Files` says.
* `TestsPass`, `TestsCleanUp`: the verdict of every test, and that each starts with
  a whole table, in every selection and after every interruption.
* `RunsTheLineTyped`: the program running is the one the line names as `ls` shows
  it, with the rest of that line as arguments, whatever was typed before.
  `OpensWhatIsListed`: `cat` opens a name exactly if `ls` shows it.
  `ListedProgramsRun`: which names may be refused. `LsShowsTheDirectory`: all
  entries, once, in order.
* `OpenMeansAcknowledged`: with interrupts on, no line is in service: no handler
  that waits for its turn, or is never resumed, keeps others out.
* `KeysAreRead`, `RtcGoesOn`, `SwitchesEnd`: liveness; the keyboard controller is
  emptied, the RTC's line falls, and a terminal switch ends, again and again,
  unless the machine is `Frozen`.
* `TypeOK` in each module except `Syserr`; in `Files` it contains that the handler counts
  in nobody's standard input or output, in `Screen` that no cursor leaves the screen.

Each property has a mutant in `PROJECT.json`, a plausible slip in the code it is
about, defined in the module beside the real definition, that makes TLC find it
violated.

## 4. Bounds and views

| constant | code | runs | why enough |
|---|---|---|---|
| `NTERMS` | 3 | 3 in `Processes` and `Console`; 2 or 1 elsewhere | races in `Files` and `Terminal` are between two terminals; `FilesChain` is about one chain; in `Interrupts` two have every kind of frame on the stack that does not run |
| `MAX_PID` | 6 | 4 | three shells and one more: the table is full, a pid is reused, and three shells and a chain of two all occur |
| `MAX_DEPTH` | bounded by the pids | 1, 2, 3 | three: a process that waits, its child that waits, and the one that halts |
| `MAX_FILES` | 8 | 3 or 4 | one or two besides standard input and output; the table fills; where one, `halt`'s loop and `close` treat each number alone |
| `MAX_POS` | 2^32 | 4 in `file_chains`, else 0 | past the end of a file of three bytes; 0 where no rtc is written to |
| `MAX_COUNTER` | 2^32 | 2 or 3 | a bound on how often a lost update may push the count past the directory |
| `Direntries` | 63 at most | 2 or 3 entries | the directory, a program, the rtc |
| `FREQ_MAX`, `WRAP` | 1024, 2^32 | 6, 8 | periods 1, 2 and 3; the count can miss its period and wrap |
| `FILE_LENGTH` | | 2 | a regular file's offset can reach a period |
| `MAX_OVERLAPS` | unbounded | 1 | the properties are about runs with none; one shows what it breaks |
| `kbuf_size` | 128 | 3 | empty, one, full; the cell kept for the newline |
| `NUM_COLS`, `NUM_ROWS` | 80, 25 | 2, 2 | lines wrap and screens scroll at once; a tab does both |
| `START_X`, `START_Y` | 7, 1 | 1, 1 | a cursor that does not start at the top |
| `Chars`, `Prompt` | | one character | told apart from a blank; two terminals' screens differ by where it is |
| `DATA_BLOCK_SIZE`, `data_count` | 4096, of the disk | 2, 2 | a file of one byte more than a block: reads inside, up to and across the boundary, a part block, one bad block or two |
| `MAX_FILENAME_LEN`, `BUFSIZE` | 32, 1024 | 2, 6 | names of one byte and of a full field, one the beginning of another; lines of word, space and argument, shorter after longer |
| `Disk`, `Lines` | | 8 entries; all lines of 3 over 4 characters, and some longer | type bytes that are and are not NUL behind a full field; spaces in every place |
| `MAX_KEYS` | unbounded | 3 | a key in a handler in a handler: Ctrl-C over a switch over a switch |
| `MAX_EARLY` | see 5 | 1 | a tick that comes while the last one's handler is still on some stack |
| `ReadSizes` | 128 or 1024 in programs | {2} | shorter than the longest line with its newline, and longer than the shortest |

`Processes`, `Files`, `Console`, `Terminal` and `Screen` are checked under a view, each
defined and justified in the `MC` module: it leaves out what no step reads
before writing it (PCB fields of free pids, tables of processes that have
halted, `scan_code` when no handler is stopped, the page of the terminal on the screen, the copied characters of a
reader no property asks about), so states it identifies have the same futures
and the same values of all properties.

`Syserr` adds the test program's state to the view of `MCFiles`, and a constraint
(`OthersOnlyOpen`) keeps the other terminals to one process each that opens and
closes one file: what they share with the tests is `file_dentry` and `info`, and
that is all written by `open`.

Only `Interrupts.cfg` switches deadlock checking off, since the machine may stop:
an exception's handler spins with interrupts off after the last key and period
(`Frozen`). `Hung` and `AtBound` are the
two places where a model stutters explicitly: the exception handlers' endless
loop, and where `Console`'s bound on overlaps or `Screen`'s `mixed` ends a run.

## 5. Fairness

* `Processes`: `WF_vars(Pit)`. The PIT is periodic, its handler sends its EOI
  before it switches (`pit.c`), and every `cli` is followed by `sti` or `iret`,
  so a tick that can be taken is.
* `Rtc`: `WF_vars(Tick)`, and weak fairness of the two steps of `rtc_read`. The
  process gets the CPU again and again because of the round robin, but not at
  any given tick, so the step that sees the flag is only sure to happen if the
  flag stays up. That is why `FullRateReadReturns` is stated for the full rate.
* `Terminal`: weak fairness of each reader's own steps, for the same reason. Keys
  carry no fairness: nobody has to type.
* `Interrupts`: `WF_vars` of the CPU's own steps (it never stops between two
  interrupts), of the PIT's and the RTC's periods, and of taking a tick, which
  nothing of higher priority can displace. `SF_vars` for taking a key or an RTC
  interrupt: they may be displaced again and again by ticks, but the
  controllers offer them each time IF is up and nothing better is pending.
  `SF_vars` for the end of a tick's and a switch's handler on a given terminal:
  enabled only while that terminal has the CPU, which it gets again and again,
  for a whole tick each time, which is far longer than these few instructions. For the same
  reason at most `MAX_EARLY` ticks come while a tick's handler is on the running
  stack, and the RTC handler is shorter than its period.
* `Files`, `Syserr`, `Shell`, `Console` and `Screen` have only safety properties and no fairness.

## 6. What is proved

The proofs hold for every value of the constants that the named assumptions allow,
each stated in the module that declares the constants: `SizesAssumption`,
`FilesAssumption`, `SyserrAssumption` (a chain may have a child, the boot block
has `.` and none of the names the tests expect not to be there),
`ReadDataAssumption`, `FileContentsAssumption`, `RtcAssumption`, `InterruptsAssumption`, `TerminalAssumption`,
`ConsoleAssumption` (one to three terminals: the code has three function keys),
`TtyAssumption`, `ScreenAssumption`, and `ShellAssumption`: names in the directory
differ as `ls` shows them, none is empty or has a space, the directory has an entry
for itself, the type byte of a regular file is not NUL, and a typed word fits a name
field. The last two exclude what `ListedProgramsRun` and section 8 name.

Every invariant here was first checked by TLC, as an invariant of the run of its
component.

**`ProcessesProofs`.** `IInv` in `Processes` is the conjunction of `TypeOK`,
`ProcessForest`, `OwnAddressSpace`, `FramesOnOwnStack` and four facts they rest
on. `ProcessForest` alone is not inductive: that a boot tick starts a shell in an
empty slot needs `BootOrder` (the terminals above `i` have no process), and that a
terminal without a process can never execute one needs `NoShellNoPid` (then every
pid is taken). `OwnAddressSpace` after a switch needs `SuspendedWasRunning`.
`FramesOnOwnStack` needs `HaltHasTarget`. `TypeStep`, `ForestStep` and `CpuStep`
show preservation, one step per action; `Invariance` puts them together, and
`TypeCorrect`, `ProcessesFormForest`, `RunsInOwnAddressSpace`,
`FramesStayOnOwnStack` and `OverwritesNeedWindow` follow. The last is an action
property: two terminals' frames can only be on one stack if one is off its own.

`ProcessesImplementStacks` is the refinement: `Processes` implements
`TerminalStacks`, through the stacks that `ChainOf` reads off the parent links.
`ProcessForest` makes a climb along the links meet only running pids and none twice
(`AncestorsRun`, `AncestorsDiffer`), so it ends before the pids are used up
(`AncestorsEnd`, by the pigeonhole principle), and what it lists is the one chain
from a shell to the pid in `schedule` (`ChainsAre`, `ChainIsOne`). `execute` puts a
free pid on top of one chain and leaves the others (`ChainGrows`, `ChainStays`),
`halt` takes the top off (`ChainShrinks`). `StacksStep` has one case per action; the
boot ticks need `ShellsInOrder`, an invariant of its own.

**`FilesProofs`.** What `IInv` in `Files` says of the tables is said descriptor by
descriptor (`Sound`, `AllSound`; `TablesAreSound` and `SoundAreTables` go from one to the
other). `PositionsWithinFile` is not inductive alone: a tick must find no regular file
under `rtc_fd_idx` (`CountsInRtc`: outside root shells it names an open rtc, or one on
its way out of `close`), `open` must not turn the descriptor it names into a file and must start
at 0 (`OpensAtStart`), and an unused descriptor's position must be 0 unless a tick
counted in it there (`UnusedAtStart`, with `late`). Each action keeps `AllSound` in a lemma of its
own (`OpenTakeSound`, `CloseSound`, `TickSound`, `HaltSound` and so on). `OpensAbove2` says that
`open` and `close` work above descriptor 1, `EntryWaits` that until it is overtaken an
`open` finds its own entry in `file_dentry`, and `ReadAlone` what a lone `dir_read` finds in
`info`; the calls and the globals are treated first for the terminal that moves and
then for the others. Results: `TypeCorrect`, `PositionsStayInFiles`, `StdStreamsStay`,
`OpensWhatWasAsked`, `ListsEveryEntry`, `HalfOpensStayInRoots` and `WaitingKeepsItsFiles`.
None of these uses an assumption of `Syserr`.

The second part is about `read_data`. `ReadDataReadsTheFile` needs no state: for
every offset, length and block size and every inode that lists a block for each
byte (`WholeInode`), good or bad, it returns what the file has there. One turn of
the loop reads within one block, so its bytes are the beginning of the part that is
left (`SameBlock`, `TurnReads`, `PartSplits`), and the outcome of a part follows from
that of the rest (`OutcomeOfBadStart`, `OutcomeOfGoodStart`). `TurnIsRest` is then
used twice: the intended results solve the equation of `CopyFrom`'s recursion, and
no solution has a least length at which it differs from them (`CopyFromIs`).
`ReadsTheFilesBytes` applies it to every descriptor of a regular file, whose position
may be anywhere: at or past the end `read_data` returns 0 bytes, which is what the file
has there (`ReadIsExact`).

The third part is about `Syserr`. `TestsAreRefused` shows that every
call of seven of the tests is one that fails for a process that has only
descriptors 0 and 1 (`RefusedFail`); `LotsAre` says what `err_open_lots` calls.
`SysInv` adds to `IInv` where the test in progress is: in `err_open_lots` the
unused descriptors are those above the ones opened so far, its last open is the
only one that fails, and the closes give back what the opens took, lowest first
(`LotsSoFar`); in any other test nothing is open (`Quiet`). A step of the program
is a step of `Files` or leaves its tables alone (`SysStepIsStep`), so `IInv` is
kept by `StepIInv`; steps of other terminals are kept out of the program's table
by `OthersTables`. Results, for tables of every size and any number of terminals,
whose processes make every call there is: `TestsFindNothing` and
`TestsLeaveAWholeTable`.

**`RtcProofs`.** `NeverFasterThanAsked` needs that the count never exceeds the
ticks since the flag was last seen (`CountsSinceRead`) and that the flag, when it
goes up, does so a whole period later (`FlagIsDue`); `CountsInRtcOnly` needs that
a call in progress still owns its descriptor, and that an `open` in progress has not
taken the one the handler counts in (`CallsOwnFd`), which is where `cut` comes in: after
a restart inside `close` it may. `HaltIInv` has both outcomes of `halt`. `DivBounds` is the
arithmetic of `rtc_write`. Results: `TypeCorrect`, `HandlerCountsInRtcOnly`,
`ReadsNoFasterThanAsked`.

**`ConsoleProofs`.** As long as no key has overtaken a handler stopped in a switch,
the pages are where `visible_term_idx` says and a stopped handler resumes over the
key it read (`InOrder`). `IInv` is `TypeOK` and, without overlaps, `InOrder` and that
no key has been misprinted; nothing is claimed once keys overlap, and `TypeOK` holds
then too. The bound `MAX_OVERLAPS` may be any number. Results: `TypeCorrect`,
`ScreensAreApart`, `KeysPrintedAsRead`.

**`TerminalProofs`.** `CalmReadGetsItsLine` needs where in its loop a reader is and
what it has copied (`ReadersInBuffer`, `CalmReads`: an undisturbed one has the
beginning of the entered line), that entered lines end within the buffer
(`LinesEnd`), and the types (`Typed`). The lemmas about `Cells` and `LineLength` turn
buffers into sequences; with them `BuffersImplementEditor` shows that `Terminal`
implements `LineEditor`: `StepImplements` maps each key, switch and read to typing,
erasing, discarding, entering, taking or nothing.

**`ScreenProofs`.** `ScreensShowOwnOutput` compares cells in five layouts (a page's
rows and columns) with one run of text, so most lemmas are about these:
`PutcShows`, `RemoveShows` and `DrawShows` say that `putc`, with its wrap, tab and
scroll, `rmc`, and a drawing program do to a page what `Tty` does to the text.
Ctrl-L prints a prompt of any length by a fold; `FoldExists`, `FoldUnique` and
`FoldMaps` carry a fact about one character to the whole prompt (`PromptShows`).
`IInv` adds `Typed` (every cursor is on its page) and `MapIsOwn`: while nothing is
mixed, a terminal's `vidmap` page is its own. Results: `TypeCorrect`,
`ScreensShowTheirOwn`, for screens of every size and any number of terminals.

**`ShellProofs`.** `RunsTheLineTyped` and `OpensWhatIsListed` rest on what `strlen`,
the field copied with `strncpy`, the word of a command and the argument after its
spaces are for buffers of any length (`StrlenIs`, `FilledFacts`, `WordFacts`,
`ArgumentFacts`), and on `Lookup`: `read_dentry_by_name` finds a name exactly if the
text of a field is that name, though it compares no further than the field and
fields need not end. `IInv` adds `CommandIsTheLine` (the buffer holds the line typed
last, whatever longer line it held before) and `ShownSoFar` (`ls` has shown a
beginning of the directory). Results: `TypeCorrect`, `TheLineTypedRuns`,
`ListedNamesOpen`, `DirectoryIsShown`, and the action property `ProgramsListedRun`.

**`InterruptsProofs`.** `OpenMeansAcknowledged` alone is not inductive: `Take` turns
IF off and leaves a line in service, and the handler's `send_eoi` must take exactly
that line away before IF comes back. `IInv` adds `InServiceAtStart`: a line is in
service only for the handler that has just been entered on the running stack, and
only its own line and, for the RTC, `IR2`; `QuietBoot`: up to `entry()`'s `sti`
nothing is in service and no handler runs; and `StackOK`, the types of what the
stacks hold. A step that acknowledges nothing runs where nothing is in service
(`NothingElsewhere`); one that does clears all there is (`StartClears`).
`Invariance` puts the steps together; `Acknowledged` is the result, for any number of
terminals, keys and nested ticks. `TypeCorrect` needs more about the stacks than
`StackOK`: that only the handler on top of the running stack can be at its first
instruction (`OneStarts`), and that the keyboard has a request up only while it has
a scan code (`KeyRequested`), so that its handler never reads from an empty
controller.

**Only model-checked.** Liveness (`RoundRobin`, `FullRateReadReturns`,
`LineIsRead`, `KeysAreRead`, `RtcGoesOn`, `SwitchesEnd`), which needs fairness and
`ENABLED`.

## 7. Where code and comments disagree

Each is a run that TLC ends with a counterexample; `PROJECT.json` quotes the line.

1. `rtc_wakeup`: a process waits in `rtc_read` under the rate it has asked for; the
   period ends and `rtc_handler` sets the flag; the next tick of the chip, 1/1024 s
   later, takes it back (`rtc.c:67`), read or not. A process that the PIT keeps from the
   CPU for that long, as it does whenever another terminal has its turn, waits for
   the next period, and may miss that as well, although `rtc_read` is to "block a
   flag until the next rtc inerrupt" (`rtc.c:100`).
2. `read_race`: `terminal_read` reads `enter_flag` of the visible terminal and then
   compares the visible with the active one; a switch in between lets it go on.

Three more are stated by what does hold, in a passing property that names the
exception:

3. `halt` frees its pid, turns interrupts on and is still on that pid's stack
   (`syscall.c:40`, `66`). A tick there leaves the terminal suspended on a stack the
   next `execute` gives away, although `syscall.h:27` calls the pid available.
   `OverwriteNeedsWindow` has this as one of the windows.
4. `halt` closes its parent's descriptors, since `close` finds the table through
   `schedule`, which already names the parent (`syscall.c:44`, `53`; the comment at
   line 49 says "Set all file descriptor to be not used."). `WaitingLosesOnlyTheChilds` says how far
   that goes.
5. `open` takes inode and type from the global `file_dentry` after another
   terminal's lookup may have replaced it (`syscall.c:279`, `288`).
   `OpensUnlessRaced` holds for the others.

More things the models show and no comment contradicts: a tick between `close`'s reset of
`file_pos` and `rtc_close`'s of `rtc_fd_idx` leaves a count in a free descriptor, where the
next file opened there starts (`late` in `Files`), and Ctrl-C in the same place leaves
a root shell with the handler counting in whatever it opens there (`cut` in `Rtc`);
a descriptor that Ctrl-C left half open in a root shell faults when it is used (`Faults`,
`HaltFaults`); a program whose name fills
its 32 bytes is found or not depending on a byte of `execute`'s stack
(`ListedProgramsRun`); an exception inside `execute`, or Ctrl-C before the first
tick, stops the whole machine and not only its process (`Frozen`); a request for the
terminal already on the screen (`alt_f1`..`3`, `keyboard.c:294`) is kept and acts
on a later key of any kind; and `vidmap`'s mapping stays where it was when its
terminal is switched away from, so a program that draws goes on drawing on
whatever terminal is visible then. `ScreensShowOwnOutput` excludes the last by
`undisturbed`.

## 8. What is not modelled

* What bytes in files mean and the ELF check: `Shell` takes an entry as a program or
  not. In `Processes` and `Files` a call finds its file or fails.
* Words longer than a name field in a command (they overwrite `execute`'s stack).
* Colours and the hardware cursor; output inside a switch, after which `Screen`
  ends; keys inside a switch, which `Console` has and `Screen` has not.
* Paging other than the running process's 4 MB page and the vidmap page: the
  directory is set up once.
* `set_handler` and `sigreturn` (stubs).
* The LDT and TSS set-up, multiboot information, registers saved by the stubs,
  `printf` and memory helpers, `tests.c`, `disable_irq` (called by nobody), and the
  user programs other than the shell, `ls`, `cat` and `ece391syserr`: any order
  of system calls stands for them. `ece391emulate.c` runs the programs on Linux.
* Non-maskable and spurious interrupts.
* The RTC chip: its rate is set once and every tick is alike.

## 9. Plan

The components above are modelled, nine of them proved. What is left, in this
order:

1. `Interrupts` with `Processes`: one stack model for both, so that a frame a
   handler comes back to is also known to be intact.
2. Echo against the line: `print_key` echoes characters that no longer fit in the
   buffer, which Backspace then cannot take back; `Terminal` and `Screen` composed
   on a line longer than `kbuf`.
3. `Console` and `Screen` composed: what a key inside a switch does to the cells.

New modules share the runs of the components they belong to where the questions
are the same ones.
