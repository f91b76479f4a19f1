----------------------------- MODULE MCCopyMove -----------------------------
(***************************************************************************)
(* CopyMove on a small tree: /t has files a and b, a directory d with a    *)
(* file a, and a directory e with a file f and a directory e with a file   *)
(* g.  A node is named by its first path, and those yet to be made by a    *)
(* number.                                                                 *)
(***************************************************************************)
EXTENDS CopyMove

DirsDef == {"/", "/t", "/t/d", "/t/e", "/t/e/e", "dir1"}
FilesDef == {"/t/a", "/t/b", "/t/d/a", "/t/e/f", "/t/e/e/g", "file1", "file2"}
NamesDef == {"-r", "-s", "-p", "t", "a", "b", "d", "e", "f", "g", "x"}

Named ==
    {<<"/", "t", "/t">>, <<"/t", "a", "/t/a">>, <<"/t", "b", "/t/b">>,
     <<"/t", "d", "/t/d">>, <<"/t/d", "a", "/t/d/a">>, <<"/t", "e", "/t/e">>,
     <<"/t/e", "f", "/t/e/f">>, <<"/t/e", "e", "/t/e/e">>,
     <<"/t/e/e", "g", "/t/e/e/g">>}

TreeDef ==
    [at |-> [x \in DirsDef \X NamesDef |->
                IF \E y \in Named : <<y[1], y[2]>> = x
                THEN (CHOOSE y \in Named : <<y[1], y[2]>> = x)[3] ELSE "nothing"],
     text |-> [f \in FilesDef |-> IF f \in {"file1", "file2"} THEN "" ELSE f],
     sym |-> [l \in {"link"} |-> <<>>]]

Cmd(t, a) == [tool |-> t, argv |-> a]
a == <<"a">>  b == <<"b">>  d == <<"d">>  e == <<"e">>  x == <<"x">>
ea == <<"e", "a">>
r == <<"-r">>  td == <<"/", "t", "d">>  te == <<"/", "t", "e">>

\* What may come before: other names for what is there.
Setups ==
    {Cmd("ln", <<<<"-s">>, a, x>>), Cmd("ln", <<x, a, x, x>>), Cmd("ln", <<a, x>>),
     Cmd("ln", <<<<"-s">>, d, x>>), Cmd("mkdir", <<<<"-p">>, x>>), Cmd("mkdir", <<x>>),
     Cmd("mv", <<a, x>>), Cmd("mv", <<a, b, d>>)}

Mains ==
    {Cmd("cp", <<a, b>>), Cmd("cp", <<a, x>>), Cmd("cp", <<x, a>>), Cmd("cp", <<r, x>>),
     Cmd("cp", <<a, b, d>>), Cmd("cp", <<a, x, d>>), Cmd("cp", <<e, a, d>>),
     Cmd("cp", <<r, e, a, td>>), Cmd("cp", <<r, e, d>>), Cmd("cp", <<r, e, e, td>>), Cmd("cp", <<r, e, te>>),
     Cmd("cp", <<r, x, b, td>>), Cmd("cp", <<d, x>>), Cmd("cp", <<<<"-s">>, a, b>>),
     Cmd("mv", <<a, x>>), Cmd("mv", <<d, x>>), Cmd("mv", <<a, b, d>>),
     Cmd("cp", <<a, ea, e>>), Cmd("mv", <<a, ea, e>>), Cmd("mv", <<a, b, x>>), Cmd("mv", <<b, e, d>>), Cmd("mv", <<e, <<"e", "e">>>>)}

ScriptsDef == {<<p, q>> : p \in Setups, q \in Mains}
=============================================================================
