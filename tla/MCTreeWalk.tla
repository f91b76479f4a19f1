----------------------------- MODULE MCTreeWalk -----------------------------
(***************************************************************************)
(* TreeWalk with a small tree.  A node is named by its absolute path.  The *)
(* names b and f are used again below a, and c has an entry of its own     *)
(* name, so that a name looked up in a wrong directory is found.  The link *)
(* k of a leads to the operand c, its namesake beside a to b.              *)
(***************************************************************************)
EXTENDS TreeWalk

DirsDef == {"/", "/t", "/t/a", "/t/a/b", "/t/b", "/t/c", "/t/c/c"}
PlainDef == {"/t/a/f", "/t/a/b/f", "/t/b/g", "/t/f"}
LinksDef == {"/t/a/k", "/t/k"}
NodesDef == DirsDef \cup PlainDef \cup LinksDef
LeadsDef == [l \in LinksDef |-> IF l = "/t/k" THEN {"/t/b"} ELSE {"/t/c"}]

Places ==
    {<<"/", "/", "/">>, <<"/t", "/", "t">>,
     <<"/t/a", "/t", "a">>, <<"/t/b", "/t", "b">>, <<"/t/c", "/t", "c">>,
     <<"/t/f", "/t", "f">>, <<"/t/a/b", "/t/a", "b">>,
     <<"/t/a/f", "/t/a", "f">>, <<"/t/a/b/f", "/t/a/b", "f">>,
     <<"/t/b/g", "/t/b", "g">>, <<"/t/c/c", "/t/c", "c">>,
     <<"/t/k", "/t", "k">>, <<"/t/a/k", "/t/a", "k">>}

UpDef == [n \in NodesDef |-> (CHOOSE x \in Places : x[1] = n)[2]]
NameDef == [n \in NodesDef |-> (CHOOSE x \in Places : x[1] = n)[3]]

\* The operands of the instances: a by its name and c by its path, a link, and a
\* file and what is not there.
AnyCalls == {<<"a", "/t/c">>, <<"k">>, <<"f", "none">>}
=============================================================================
