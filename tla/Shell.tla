------------------------------- MODULE Shell -------------------------------
(***************************************************************************)
(* A name's way through the system: from the directory's fixed fields to    *)
(* the lines ls shows, from a line typed to the program execute() loads and *)
(* the arguments it leaves in the PCB, and from there through cat to open().*)
(* Names and lines are sequences of characters; a buffer has a fixed length *)
(* and keeps what nobody overwrites.                                        *)
(***************************************************************************)
EXTENDS Integers, Sequences, SequencesExt, FiniteSetsExt

CONSTANTS MAX_FILENAME_LEN,   \* bytes of a name field (32 in filesystem.h)
          BUFSIZE,            \* bytes of the shell's buffer, and of PCB args
          Chars,              \* characters a line is typed from
          Lines,              \* lines typed
          Disk                \* boot block: [filename, filetype, program] in order

NUL   == "nul"
SPACE == " "
Bytes == Chars \cup {NUL}
Index == 1 .. Len(Disk)
FileType == {NUL, "dir", "file"}    \* 0, which the rtc's is, 1 and 2

\* The bytes before the first NUL: what C takes a buffer to hold.
CString(bytes) == SelectInSeq(bytes, LAMBDA b : b = NUL)
strlen(bytes)  == IF CString(bytes) = 0 THEN Len(bytes) ELSE CString(bytes) - 1
Text(bytes)    == SubSeq(bytes, 1, strlen(bytes))

\* The word before the first space.
WordLength(line) == LET s == SelectInSeq(line, LAMBDA b : b = SPACE)
                    IN  IF s = 0 THEN Len(line) ELSE s - 1
Word(line) == SubSeq(line, 1, WordLength(line))

Filled(text, n) == text \o [k \in 1 .. n - Len(text) |-> NUL]

ASSUME ShellAssumption ==
    /\ MAX_FILENAME_LEN \in Nat \ {0} /\ BUFSIZE \in Nat \ {0}
    /\ NUL \notin Chars /\ SPACE \in Chars
    /\ Lines \subseteq Seq(Chars)
    /\ \A line \in Lines : /\ Len(line) < BUFSIZE
                           /\ WordLength(line) <= MAX_FILENAME_LEN
    /\ Disk \in Seq([filename : [1 .. MAX_FILENAME_LEN -> Bytes \ {SPACE}],
                     filetype : FileType, program : BOOLEAN])
    /\ \A n \in Index : Disk[n].filename[1] # NUL
    /\ \A n, m \in Index : Text(Disk[n].filename) = Text(Disk[m].filename) => n = m
    /\ \E n \in Index : Text(Disk[n].filename) = <<".">>

VARIABLES
    buf,       \* the shell's line buffer
    args,      \* args of the PCB that the shell's next child gets
    at,        \* what runs: the shell, or the child's program
    program,   \* the entry execute() found, 0 for none
    counter,   \* info.counter: entries ls has shown
    shown,     \* what is on the screen since the command: the lines of ls
    opened,    \* the entry cat's open() found, 0 for none
    typed      \* the line the user typed

vars == <<buf, args, at, program, counter, shown, opened, typed>>

-----------------------------------------------------------------------------
(* The directory *)

\* A directory entry in memory: a name that fills its field has no NUL of its
\* own, and strlen goes on in the file type (0 for the rtc) behind it.
Dentry(n) == Disk[n].filename \o <<Disk[n].filetype, NUL>>

\* Mutant: the length is not cut to the field.
FieldLengthUncut(n) == strlen(Dentry(n))

FieldLength(n) == Min({strlen(Dentry(n)), MAX_FILENAME_LEN})

\* strncmp(s1, s2, n) = 0
SameUpTo(s1, s2, n) ==
    \A i \in 1 .. n : (\A j \in 1 .. i - 1 : s1[j] = s2[j] /\ s1[j] # NUL) => s1[i] = s2[i]

\* read_dentry_by_name: the entry's number, 0 when there is none.
read_dentry_by_name(fname) ==
    LET size  == strlen(fname)
        found == {n \in Index : /\ FieldLength(n) = size
                                /\ SameUpTo(fname, Disk[n].filename, FieldLength(n))}
    IN  IF size = 0 \/ size > MAX_FILENAME_LEN \/ found = {} THEN 0 ELSE Min(found)

\* dir_read: what it puts in the caller's buffer, and how many bytes it says.
strncpy(src, n) == Filled(SubSeq(src, 1, Min({strlen(src), n})), n)
DirRead(n) == [bytes |-> strncpy(Dentry(n), MAX_FILENAME_LEN),
               count |-> Min({strlen(Dentry(n)), MAX_FILENAME_LEN})]

\* ls writes that many bytes and a newline.
LsLine(n) == SubSeq(DirRead(n).bytes, 1, DirRead(n).count)

-----------------------------------------------------------------------------
(* execute() *)

\* Mutant: the words' characters are copied, the byte after them is not.
FilenameAnyEnd(command, junk) == Word(Text(command)) \o <<junk>>

\* The name it looks up: a word that fills the array has no NUL, and what is
\* behind it on the stack, junk, decides.
Filename(command, junk) ==
    LET word == Word(Text(command))
    IN  word \o <<IF Len(word) < MAX_FILENAME_LEN THEN NUL ELSE junk, NUL>>

\* Mutant: what the buffer held before is still there.
ArgumentsOnOld(command, old) ==
    LET line == Text(command)
        rest == SubSeq(line, WordLength(line) + 2, Len(line))
    IN  [k \in 1 .. BUFSIZE |-> IF k <= Len(rest) THEN rest[k] ELSE old[k]]

\* The rest of the line behind the word (at least one character long) and one
\* space, in a buffer cleared before.
Arguments(command, old) ==
    LET line     == Text(command)
        exe_end  == Max({1, WordLength(line)})
    IN  Filled(SubSeq(line, exe_end + 2, Len(line)), BUFSIZE)

-----------------------------------------------------------------------------
(* The shell *)

\* Mutant: the line is not ended, the buffer's old bytes follow it.
LineOnBuffer(line) == line \o SubSeq(buf, Len(line) + 1, BUFSIZE)

\* Mutant: the newline stays.
LineWithNewline(line) == line \o <<"newline", NUL>> \o SubSeq(buf, Len(line) + 3, BUFSIZE)

\* The line terminal_read copied over the buffer, its newline replaced by NUL.
LineInBuffer(line) == line \o <<NUL>> \o SubSeq(buf, Len(line) + 2, BUFSIZE)

exit == <<"x">>

ReadLine(line) ==
    /\ at = "prompt"
    /\ buf' = LineInBuffer(line)
    /\ typed' = line
    /\ program' = 0 /\ shown' = << >> /\ opened' = 0
    /\ at' = IF Text(LineInBuffer(line)) \in {exit, << >>}
             THEN "prompt"          \* the shell ends and is started again, or
             ELSE "execute"         \* prompts again
    /\ UNCHANGED <<args, counter>>

Execute ==
    /\ at = "execute"
    /\ \E junk \in Bytes :
         LET n == read_dentry_by_name(Filename(buf, junk))
         IN  IF n = 0 \/ ~Disk[n].program
             THEN /\ at' = "prompt"                     \* "no such command"
                  /\ UNCHANGED <<program, args>>
             ELSE /\ at' = "program"
                  /\ program' = n
                  /\ args' = Arguments(buf, args)
    /\ UNCHANGED <<buf, counter, shown, opened, typed>>

-----------------------------------------------------------------------------
(* The programs *)

Is(name) == Text(Disk[program].filename) = name
ls  == <<"l">>
cat == <<"c">>

\* Mutant: dir_open does not start over.
LsGoesOn ==
    /\ at = "program" /\ Is(ls)
    /\ at' = IF read_dentry_by_name(<<".", NUL>>) = 0 THEN "prompt" ELSE "listing"
    /\ UNCHANGED <<buf, args, program, counter, shown, opened, typed>>

LsOpens ==
    /\ at = "program" /\ Is(ls)
    /\ counter' = 0
    /\ at' = IF read_dentry_by_name(<<".", NUL>>) = 0 THEN "prompt" ELSE "listing"
    /\ UNCHANGED <<buf, args, program, shown, opened, typed>>

LsReads ==
    /\ at = "listing"
    /\ IF counter < Len(Disk)
       THEN /\ counter' = counter + 1
            /\ shown' = Append(shown, LsLine(counter + 1))
            /\ UNCHANGED at
       ELSE /\ at' = "prompt"
            /\ UNCHANGED <<counter, shown>>
    /\ UNCHANGED <<buf, args, program, opened, typed>>

\* getargs fails without arguments; it copies all of args, as long as cat's buffer.
CatWithoutArguments ==
    /\ at = "program" /\ Is(cat)
    /\ args[1] = NUL
    /\ at' = "prompt"
    /\ UNCHANGED <<buf, args, program, counter, shown, opened, typed>>

CatOpens ==
    /\ at = "program" /\ Is(cat)
    /\ args[1] # NUL
    /\ opened' = read_dentry_by_name(args)
    /\ at' = "opened"
    /\ UNCHANGED <<buf, args, program, counter, shown, typed>>

\* The file is written out (or there is none), or another program ends.
Ends ==
    /\ at = "opened" \/ (at = "program" /\ ~Is(ls) /\ ~Is(cat))
    /\ at' = "prompt"
    /\ UNCHANGED <<buf, args, program, counter, shown, opened, typed>>

-----------------------------------------------------------------------------
Init ==
    /\ buf = Filled(<< >>, BUFSIZE) /\ args = Filled(<< >>, BUFSIZE)
    /\ at = "prompt" /\ program = 0 /\ counter = 0
    /\ shown = << >> /\ opened = 0 /\ typed = << >>

Next ==
    \/ \E line \in Lines : ReadLine(line)
    \/ Execute
    \/ LsOpens \/ LsReads
    \/ CatWithoutArguments \/ CatOpens
    \/ Ends

Spec == Init /\ [][Next]_vars

-----------------------------------------------------------------------------
(* Properties *)

\* Buffers keep their lengths, and every number is an entry's or 0.
TypeOK ==
    /\ buf \in [1 .. BUFSIZE -> Bytes] /\ args \in [1 .. BUFSIZE -> Bytes]
    /\ at \in {"prompt", "execute", "program", "listing", "opened"}
    /\ program \in 0 .. Len(Disk) /\ opened \in 0 .. Len(Disk)
    /\ counter \in 0 .. Len(Disk)
    /\ shown \in Seq(Seq(Bytes))
    /\ typed \in Lines \cup {<< >>}

\* A program that runs is the one the user named, as ls shows it, and its
\* arguments are the rest of that line, whatever lines were typed before.
RunsTheLineTyped ==
    at = "program" =>
        /\ LsLine(program) = Word(typed)
        /\ Disk[program].program
        /\ typed = Word(typed) \o (IF Text(args) = << >> /\ typed = Word(typed)
                                   THEN << >> ELSE <<SPACE>> \o Text(args))

\* The names ls shows are the names cat opens: no other, and each its own file.
OpensWhatIsListed ==
    at = "opened" =>
        /\ opened # 0 => LsLine(opened) = Text(args)
        /\ opened = 0 => \A n \in Index : LsLine(n) # Text(args)

\* A program ls shows can be run: "no such command" is the answer only to
\* names it does not show, and to names that fill their field, for which the
\* byte behind execute()'s array decides (a free process number is assumed).
ListedProgramsRun ==
    [][at = "execute" /\ at' = "prompt" =>
         \A n \in Index : LsLine(n) = Word(typed) =>
             ~Disk[n].program \/ Len(LsLine(n)) = MAX_FILENAME_LEN]_vars

\* ls shows every entry of the directory once and in order.
LsShowsTheDirectory ==
    at = "prompt" /\ program # 0 /\ Is(ls) =>
        shown = [n \in Index |-> Text(Disk[n].filename)]
=============================================================================
