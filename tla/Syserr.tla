------------------------------- MODULE Syserr -------------------------------
(***************************************************************************)
(* The test program ece391syserr on terminal 0, one call after another,    *)
(* while the processes of the other terminals make any calls of Files.     *)
(* The program knows of a call whether it returned -1, and nothing else.   *)
(* Ctrl-C may end it anywhere; the shell may run it again.                 *)
(***************************************************************************)
EXTENDS Files

ASSUME SyserrAssumption ==
    /\ MAX_DEPTH > 1
    /\ "." \in Names /\ {"helloo", "shel", ""} \cap Names = {}

VARIABLES
    tests,     \* the tests still to be made, the current one first
    made,      \* calls it has made
    cnt,       \* opens of it that failed
    fail       \* 2 when a test has found something wrong

prog  == <<tests, made, cnt, fail>>
sysvars == <<vars, prog>>

Tester == 0

-----------------------------------------------------------------------------
(* What a call of the running process of t returns: does it fail?  (Calls    *)
(* that the program expects to fail are not followed when they succeed.)     *)

USER_MEM_START_VIR == 134217728     \* 0x8000000
PAGE_SIZE_4MB      == 4194304       \* 0x400000
NEG == -1073741823
BIG == 1073741823

ReadFails(t, fd)  == fd \notin Fd \/ ~Table(t)[fd].used \/ fd = 1     \* stdout_read
WriteFails(t, fd) == \/ fd \notin Fd \/ ~Table(t)[fd].used
                     \/ fd = 0                                         \* stdin_write
                     \/ Table(t)[fd].op \in {"dir", "file"}

\* Mutant: standard input and output can be closed.
CloseFailsIfUnused(t, fd) == fd \notin Fd \/ ~Table(t)[fd].used

CloseFails(t, fd) == fd < 2 \/ fd \notin Fd \/ ~Table(t)[fd].used

VidmapFails(screen_start) ==
    \/ screen_start = 0
    \/ screen_start < USER_MEM_START_VIR
    \/ screen_start > USER_MEM_START_VIR + PAGE_SIZE_4MB

NumberFails(num) == num \notin 1 .. 10

Fails(t, call_) ==
    CASE call_.sys = "read"   -> ReadFails(t, call_.arg)
      [] call_.sys = "write"  -> WriteFails(t, call_.arg)
      [] call_.sys = "close"  -> CloseFails(t, call_.arg)
      [] call_.sys = "vidmap" -> VidmapFails(call_.arg)
      [] call_.sys = "number" -> NumberFails(call_.arg)

-----------------------------------------------------------------------------
(* The tests, as the calls they make.                                        *)

Sys(sys, arg)    == <<[sys |-> sys, arg |-> arg]>>
Each(sys, from)  == [k \in 1 .. MAX_FILES - from |-> [sys |-> sys, arg |-> from + k - 1]]

err_neg_fd      == Sys("read", NEG) \o Sys("write", NEG) \o Sys("close", NEG)
err_big_fd      == Sys("read", BIG) \o Sys("write", BIG) \o Sys("close", BIG)
err_open_lots   == [k \in 1 .. MAX_FILES - 1 |-> [sys |-> "open", name |-> "."]]
                       \o Each("close", 2)
err_open        == [k \in 1 .. 3 |-> [sys |-> "open", name |-> <<"helloo", "shel", "">>[k]]]
err_unopened    == Each("close", 0) \o Each("read", 2) \o Each("write", 2)
err_vidmap      == Sys("vidmap", 0) \o Sys("vidmap", 4194304)
err_stdin_out   == Sys("write", 0) \o Sys("read", 1)
err_syscall_num == Sys("number", BIG) \o Sys("number", NEG) \o Sys("number", 0)

Test == << err_neg_fd, err_big_fd, err_open_lots, err_open, err_unopened,
           err_vidmap, err_stdin_out, err_syscall_num >>
OpenLots == 3

\* main's switch: the tests that a choice runs.
Selected(select) ==
    CASE select = 0      -> [k \in 1 .. Len(Test) |-> k]
      [] select \in 1 .. Len(Test) -> <<select>>
      [] OTHER           -> << >>

Running == depth[Tester] > 1
Current == Test[Head(tests)]
Calls   == Running /\ call[Tester].at = "idle" /\ tests # << >> /\ made < Len(Current)
This    == Current[made + 1]

-----------------------------------------------------------------------------
\* The shell runs it, and it reads the choice.
Start(select) ==
    /\ ~Running
    /\ \E name \in Programs : Execute(Tester, name)
    /\ depth'[Tester] > 1
    /\ tests' = Selected(select)
    /\ made' = 0 /\ cnt' = 0 /\ fail' = 0

\* A call whose result the test compares with -1.
CallExpectsFailure ==
    /\ Calls
    /\ This.sys # "open"
    /\ Head(tests) # OpenLots
    /\ made' = made + 1
    /\ fail' = IF Fails(Tester, This) THEN fail ELSE 2
    /\ UNCHANGED <<vars, tests, cnt>>

\* err_open_lots closes its descriptors without looking at the results.
CallClose ==
    /\ Calls
    /\ This.sys = "close" /\ Head(tests) = OpenLots
    /\ Close(Tester, This.arg)
    /\ made' = made + 1
    /\ UNCHANGED <<tests, cnt, fail>>

\* open() of a name the boot block does not have: it changes nothing.
CallOpenUnknown ==
    /\ Calls
    /\ This.sys = "open" /\ This.name \notin Names
    /\ made' = made + 1
    /\ UNCHANGED <<vars, tests, cnt, fail>>

CallOpen ==
    /\ Calls
    /\ This.sys = "open" /\ This.name \in Names
    /\ OpenLookup(Tester, This.name)
    /\ made' = made + 1
    /\ UNCHANGED <<tests, cnt, fail>>

OpenFails ==
    /\ OpenNoDescriptor(Tester)
    /\ cnt' = cnt + 1
    /\ UNCHANGED <<tests, made, fail>>

OpenGoesOn ==
    /\ \/ OpenTake(Tester) \/ OpenInode(Tester) \/ OpenType(Tester) \/ OpenOther(Tester)
       \/ OpenRtc(Tester) \/ DirOpen(Tester) \/ OpenLooksAgain(Tester)
    /\ UNCHANGED prog

\* "." may have become the rtc: another terminal's lookup came in between.
CloseGoesOn == RtcClose(Tester) /\ UNCHANGED prog

TestEnds ==
    /\ Running /\ call[Tester].at = "idle" /\ tests # << >> /\ made = Len(Current)
    /\ tests' = Tail(tests)
    /\ made' = 0 /\ cnt' = 0
    /\ fail' = IF Head(tests) = OpenLots /\ cnt # 1 THEN 2 ELSE fail
    /\ UNCHANGED vars

\* main returns, or Ctrl-C.  (The shell that waits has nothing open that the
\* loop in halt() could fault on.)
Ends ==
    /\ Running
    /\ Halt(Tester)
    /\ tests' = << >> /\ made' = 0 /\ cnt' = 0 /\ fail' = 0

TickGoesOn == Tick /\ UNCHANGED prog

OtherTerminal == /\ \E t \in Term \ {Tester} : Step(t)
                 /\ UNCHANGED prog

SysInit ==
    /\ Init
    /\ tests = << >> /\ made = 0 /\ cnt = 0 /\ fail = 0

SysNext ==
    /\ ~Hung
    /\ \/ \E select \in 0 .. 9 : Start(select)
       \/ CallExpectsFailure \/ CallClose \/ CallOpenUnknown \/ CallOpen
       \/ OpenFails \/ OpenGoesOn \/ CloseGoesOn
       \/ TestEnds \/ Ends
       \/ TickGoesOn \/ OtherTerminal

SysSpec == SysInit /\ [][SysNext]_sysvars
-----------------------------------------------------------------------------
(* Properties *)

\* ece391syserr passes: in whatever order its tests are run, alone or again
\* after a run that Ctrl-C cut short, and whatever the other terminals open,
\* list and close meanwhile, none of them finds a call that succeeds and
\* should fail, and all but one of the opens too many succeed.
TestsPass == fail = 0

\* Between two tests the program has no descriptors open but the first two:
\* no test leaves the next one less than a whole table.
TestsCleanUp ==
    Running /\ call[Tester].at = "idle" /\ made = 0 =>
        Unused(Tester) = Fd \ {0, 1}
-----------------------------------------------------------------------------
(* The inductive invariant of the proofs: IInv of the tables, and what the    *)
(* test in progress has left of the program's own table.                      *)

\* Where err_open_lots is: how many calls it has made, which descriptors are
\* unused then, and how many of its opens have failed.
LotsSoFar ==
  \/ /\ call[Tester].at = "idle" /\ made \in 0 .. MAX_FILES - 2 /\ cnt = 0
     /\ Unused(Tester) = made + 2 .. MAX_FILES - 1
  \/ /\ call[Tester].at = "take" /\ made \in 1 .. MAX_FILES - 1 /\ cnt = 0
     /\ Unused(Tester) = made + 1 .. MAX_FILES - 1
  \/ /\ Typing(Tester) \/ call[Tester].at \in {"opened", "lookup"}
     /\ made \in 1 .. MAX_FILES - 2 /\ cnt = 0 /\ Unused(Tester) = made + 2 .. MAX_FILES - 1
  \/ /\ call[Tester].at \in {"idle", "close"} /\ cnt = 1
     /\ made \in MAX_FILES - 1 .. (MAX_FILES - 1) + (MAX_FILES - 2)
     /\ Unused(Tester) = 2 .. made - (MAX_FILES - 2)

\* In any other test, and when all are made, no call is going on and only the
\* first two descriptors are in use.
Quiet ==
  /\ call[Tester].at = "idle" /\ made \in Nat /\ cnt = 0
  /\ Unused(Tester) = Fd \ {0, 1}

OpensLots == tests # << >> /\ Head(tests) = OpenLots

\* The tests of the choice are tests there are, none has found anything wrong,
\* the program is the shell's child, and each test is where it should be.
SysInv ==
  /\ IInv
  /\ tests \in Seq(1 .. 8) /\ fail = 0
  /\ depth[Tester] \in {1, 2}
  /\ Running => /\ OpensLots => LotsSoFar
                /\ ~OpensLots => Quiet
=============================================================================
