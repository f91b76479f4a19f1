----------------------------- MODULE MCTextTools -----------------------------
(***************************************************************************)
(* TextTools on short texts, and beside them LineReader: the shell that    *)
(* reads a line and the tools have nothing in common, so its steps are     *)
(* interleaved with those of one tool only.                                *)
(***************************************************************************)
EXTENDS TextTools, LineReader

a == 97
b == 98

\* Texts of at most n bytes, and of n bytes.
TextsTo(S, n) == UNION {[1..k -> S] : k \in 0..n}
Written(f1, f2) == [f1 |-> f1, f2 |-> f2, stdin |-> f2, dir |-> <<>>]

Job(t, p, o, f1, f2) == [tool |-> t, par |-> p, ops |-> o, text |-> Written(f1, f2)]

One == <<"f1">>
Two == <<"f1", "f2">>
Operands ==
    {One, Two, <<>>, <<"f2", "f1", "f2">>, <<"dir">>, <<"f1", "none">>,
     <<"f1", "dir">>, <<"-h">>}
Eight == <<a, b, 0, a, 255, 9, 10, 32>>
Samples == {<<>>, <<a, 10>>, <<32, b, 10, a>>, <<10, 9>>, SubSeq(Eight, 4, 8)}
Binaries == {Eight, SubSeq(Eight, 1, 7)}

\* Every tool with operands of all kinds.
AllTools ==
    {Job(t, p, o, f1, <<b, 10>>) : t \in {"cat", "wc", "sum", "od", "cmp", "cksum"}, p \in {<<>>},
                                   o \in Operands, f1 \in Samples \cup Binaries}
    \cup {Job("nl", <<>>, o, f1, <<b, 10>>) : o \in Operands, f1 \in Samples}
    \cup {Job("tail", p, o, <<a>>, <<b>>) : p \in {<<>>, <<1>>}, o \in Operands}
    \cup {Job("grep", <<a>>, o, f1, <<b, 10>>) : o \in Operands, f1 \in Samples}
    \cup {Job("tr", <<<<a>>, <<b>>>>, o, f1, <<b, 10>>) :
            o \in Operands, f1 \in Samples \cup Binaries}
    \cup {Job("head", p, o, <<a, 10, b>>, <<b, 10>>) :
            p \in {<<>>, <<1, 2>>, <<2, 1>>, <<1, -1>>, <<-1, 2>>}, o \in Operands}

\* The sum of this text takes all its 16 bits.
Full16 == [n \in 1..9 |-> IF n \in {2, 9} THEN 254 ELSE 255]

Lined == TextsTo({a, 10, 32}, 4)

\* Each tool on every text up to a length.
JobsDef ==
    AllTools
    \cup {Job(t, <<>>, One, f, <<>>) : t \in {"cat", "wc", "od", "nl"}, f \in Lined}
    \cup {Job("cmp", <<>>, Two, f, g) : f, g \in TextsTo({a, 10}, 3)}
    \cup {Job("sum", <<>>, Two, f, g) :
            f, g \in {t \in TextsTo({96, 97, 255}, 3) : Len(t) >= 2} \cup {Full16}}
    \cup {Job("tr", <<s1, s2>>, One, f, <<>>) :
            s1, s2 \in TextsTo({a, b, 99}, 2), f \in TextsTo({a, b, 99}, 2)}
    \cup {Job("head", <<n, 9>>, One, f, <<>>) : n \in 0..3, f \in TextsTo({a, 10}, 5)}
    \cup {Job("grep", p, One, f, <<>>) :
            p \in {<<>>, <<a>>, <<b>>, <<a, b>>}, f \in TextsTo({a, b, 10, 32}, 4)}

Beside == Job("wc", <<>>, One, <<a, 10>>, <<b, 10>>)

MCInit == Init /\ LInit

MCNext ==
    \/ Next /\ UNCHANGED lvars
    \/ job = Beside /\ LNext /\ UNCHANGED vars

MCSpec == MCInit /\ [][MCNext]_<<vars, lvars>>
=============================================================================
