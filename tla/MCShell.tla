------------------------------ MODULE MCShell ------------------------------
(* Name fields of two bytes: names that fill them and names that are one      *)
(* another's beginning, before a type byte that is zero and one that is not.  *)
EXTENDS Shell

MCChars == {"l", "c", "f", "x", ".", SPACE}
Entry(name, type, prog) ==
    [filename |-> Filled(name, MAX_FILENAME_LEN), filetype |-> type, program |-> prog]
MCDisk == << Entry(<<".">>, "dir", FALSE),
             Entry(<<"f", "c">>, "file", FALSE), Entry(<<"f">>, "file", FALSE),
             Entry(<<"l">>, "file", TRUE), Entry(<<"c">>, "file", TRUE),
             Entry(<<"x", "f">>, NUL, FALSE), Entry(<<"l", "l">>, "file", TRUE),
             Entry(<<"f", "f">>, "file", FALSE) >>

Typed(n)  == UNION {[1 .. k -> MCChars \ {"x", "."}] : k \in 0 .. n}
CatLines  == {<<"c", SPACE>> \o name : name \in {<<"f", "c">>, <<"f", "f">>, <<"x", "f">>,
                                                 <<"f", "f", "f">>, <<".">>, <<"f", SPACE>>}}
MCLines   == {line \in Typed(3) \cup CatLines \cup {exit} : WordLength(line) <= MAX_FILENAME_LEN}
=============================================================================
