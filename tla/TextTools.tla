------------------------------ MODULE TextTools ------------------------------
(***************************************************************************)
(* The tools that read files from one end to the other: cat, cksum, cmp,   *)
(* grep, head, nl, od, sum, tail, tr and wc (busybox).                     *)
(*                                                                         *)
(* Their main programs are alike: each operand is looked at, opened and    *)
(* handed to one function with a loop.  Such a loop is an operator on the  *)
(* text of the file, and a step of the module is the handling of one       *)
(* operand.  A text is a sequence of bytes.  What a tool prints is a       *)
(* sequence too: of bytes, or of what goes into one line of numbers.       *)
(* Lines that are longer than the 512 bytes of a buffer are left out, and  *)
(* so is the byte 0 where a line is a C string (grep, nl) and what is no   *)
(* ASCII in the sets of tr, which takes them for signed characters.        *)
(***************************************************************************)
EXTENDS Integers, Sequences, FiniteSets, SequencesExt

CONSTANTS
    Jobs        \* what is run: [tool, par, ops, text]

\* Bytes, those of a C string, and those that are the same as a signed char.
Octet == 0..255
NonZero == 1..255
Ascii == 1..127

\* par: the lines and COLUMNS for head (-1 if it is not set), the two sets for
\* tr, the pattern for grep.
ASSUME JobsAssumption ==
    \A j \in Jobs :
        /\ j.ops \in Seq(STRING)
        /\ j.text \in [{"f1", "f2", "stdin", "dir"} ->
                        Seq(IF j.tool \in {"grep", "nl"} THEN NonZero ELSE Octet)]
        /\ j.tool = "head" => j.par \in {<<>>} \cup Int \X (Nat \cup {-1})
        /\ j.tool = "tr" => j.par \in Seq(Ascii) \X Seq(Ascii)
        /\ j.tool = "grep" => j.par \in Seq(NonZero)

VARIABLES
    job,        \* the tool, its parameters, its operands, and the texts
    arg,        \* operand in hand
    pc,         \* what comes next
    out         \* what was printed

vars == <<job, arg, pc, out>>

Newline == 10
Blank == {9, 32}
Space == Blank \cup 10..13
EOF == -1
Word == 0..65535
Garbage == <<"what the memory held">>

\* The byte at position n.
Byte(t, n) == IF n <= Len(t) THEN t[n] ELSE EOF
Count(t, S) == Cardinality({n \in DOMAIN t : t[n] \in S})

-----------------------------------------------------------------------------
(* The loops *)

\* Mistake: the byte that is tested is not the one that is written.
CatReadsAhead(t) == IF t = <<>> THEN <<>> ELSE Tail(t)

Cat(t) == t

\* Bytes are what has a mark on paper, words are blanks.
Wc(t) == <<[bytes |-> Count(t, 33..126), words |-> Count(t, Blank),
            lines |-> Count(t, {Newline})]>>

\* Mistake: the bit that is shifted out is lost.
SumShifts(t) ==
    <<FoldLeft(LAMBDA s, c : (s \div 2 + c) % 65536, 0, t)>>

\* Mistake: the sum is not cut to 16 bits.
SumGrows(t) ==
    <<FoldLeft(LAMBDA s, c : s \div 2 + (s % 2) * 32768 + c, 0, t)>>

Sum(t) ==
    <<FoldLeft(LAMBDA s, c : (s \div 2 + (s % 2) * 32768 + c) % 65536, 0, t)>>

\* A byte is replaced as often as it is found on the way through the first set.
Translate(c, str1, str2) ==
    FoldLeft(LAMBDA d, n : IF d = str1[n] THEN str2[n] ELSE d,
             c, [n \in DOMAIN str1 |-> n])

Tr(t, str1, str2) == [n \in DOMAIN t |-> Translate(t[n], str1, str2)]

\* Eight bytes to a row; its offset counts 16 for them.
Od(t) ==
    [k \in 1..(Len(t) \div 8 + 1) |->
        [offset |-> 16 * (k - 1),
         bytes |-> SubSeq(t, 8 * k - 7, IF 8 * k < Len(t) THEN 8 * k ELSE Len(t))]]

\* Mistake: the first pair of bytes is read before the loop, and not counted.
CmpLate(t, u) ==
    LET s == FoldLeft(LAMBDA s, c :
                IF Byte(t, s.byte + 1) # Byte(u, s.byte + 1) THEN s
                ELSE [byte |-> s.byte + 1,
                      line |-> s.line + (IF Byte(t, s.byte + 1) = Newline THEN 1 ELSE 0)],
                [byte |-> 1, line |-> 0], t)
    IN IF Byte(t, s.byte + 1) = Byte(u, s.byte + 1) THEN <<>> ELSE <<s>>

\* The first difference, if there is one; lines count from 0, bytes from 1.
Cmp(t, u) ==
    LET s == FoldLeft(LAMBDA s, c :
                IF Byte(t, s.byte) # Byte(u, s.byte) THEN s
                ELSE [byte |-> s.byte + 1,
                      line |-> s.line + (IF Byte(t, s.byte) = Newline THEN 1 ELSE 0)],
                [byte |-> 1, line |-> 0], t)
    IN IF Byte(t, s.byte) = Byte(u, s.byte) THEN <<>> ELSE <<s>>

\* Mistake: a line is counted when its end is printed.
HeadPrinted(t, lines) ==
    FoldLeft(LAMBDA s, c :
        IF s.newlines >= lines THEN s
        ELSE [bytes |-> s.bytes + 1,
              newlines |-> s.newlines + (IF c = Newline THEN 1 ELSE 0)],
        [bytes |-> 0, newlines |-> 0], t)

\* So many bytes are printed and ends of lines read, the byte after them
\* included; the end of a line in front of everything is not counted.
HeadEnd(t, lines) ==
    FoldLeft(LAMBDA s, c :
        IF s.newlines >= lines THEN s
        ELSE [bytes |-> s.bytes + 1,
              newlines |-> s.newlines + (IF Byte(t, s.bytes + 2) = Newline THEN 1 ELSE 0)],
        [bytes |-> 0, newlines |-> 0], t)

-----------------------------------------------------------------------------
(* Lines *)

\* The text up to position n.
Upto(t, n) == SubSeq(t, 1, n)

\* What fscanf(fp, "%[^\n]\n", buff) reads again and again: a line, and all
\* white space after it, that in front of the next line included.
Scanned(t) ==
    LET s == FoldLeft(LAMBDA s, c :
                IF s.skip /\ c \in Space THEN s
                ELSE IF c = Newline
                THEN [lines |-> Append(s.lines, s.line), line |-> <<>>, skip |-> TRUE]
                ELSE [lines |-> s.lines, line |-> Append(s.line, c), skip |-> FALSE],
                [lines |-> <<>>, line |-> <<>>, skip |-> FALSE], t)
    IN IF s.skip THEN s.lines ELSE Append(s.lines, s.line)

\* What getline reads: lines with their ends.
Lines(t) ==
    LET s == FoldLeft(LAMBDA s, c :
                IF c = Newline
                THEN [lines |-> Append(s.lines, Append(s.line, c)), line |-> <<>>]
                ELSE [lines |-> s.lines, line |-> Append(s.line, c)],
                [lines |-> <<>>, line |-> <<>>], t)
    IN IF s.line = <<>> THEN s.lines ELSE Append(s.lines, s.line)

\* Mistake: after a byte that does not match, the line does not.
MatchesOnce(line, p) ==
    FoldLeft(LAMBDA s, c :
        IF s.j > 0 /\ s.j >= Len(p) THEN s
        ELSE IF p # <<>> /\ c = p[s.j + 1] THEN [j |-> s.j + 1, match |-> TRUE]
        ELSE [j |-> Len(p) + 1, match |-> FALSE],
        [j |-> 0, match |-> FALSE], line).match

\* grep's comparison.  A byte that does not match is not looked at again as the
\* first of another match, and the end of a line leaves match as it was last.
Matches(line, p) ==
    FoldLeft(LAMBDA s, c :
        IF s.j > 0 /\ s.j >= Len(p) THEN s
        ELSE IF p # <<>> /\ c = p[s.j + 1] THEN [j |-> s.j + 1, match |-> TRUE]
        ELSE [j |-> 0, match |-> FALSE],
        [j |-> 0, match |-> FALSE], line).match

\* SelectSeq by a fold.
Where(s, Test(_)) == FoldLeft(LAMBDA r, x : IF Test(x) THEN Append(r, x) ELSE r, <<>>, s)

Grep(t, p) == Where(Scanned(t), LAMBDA l : Matches(l, p))

\* is_blank looks behind the first byte of a line and at its final 0, which is
\* no blank, so no line is one.  At the end of the file getline leaves the last
\* line where it was, and it is printed again.
Nl(t) ==
    LET read == Lines(t)
        all == IF Last(t) = Newline THEN Append(read, Last(read)) ELSE read
    IN [n \in DOMAIN all |-> [number |-> n, line |-> all[n]]]

-----------------------------------------------------------------------------
(* The main programs *)

Init ==
    /\ job \in Jobs
    /\ arg = 1 /\ pc = "main" /\ out = <<>>

tool == job.tool
par == job.par
ops == job.ops

Needed ==   \* files without which there is only a help text
    CASE tool \in {"cat", "wc", "nl"} -> 0 [] tool = "cmp" -> 2 [] OTHER -> 1

Helped ==
    \/ Len(ops) < Needed \/ (tool = "cmp" /\ Len(ops) # 2)
    \/ tool \in {"cat", "wc", "nl"} /\ ops = <<"-h">>
    \/ tool \in {"head", "tail"} /\ par = <<>>     \* no number

\* od does not leave its help text by exit, and has no operands then; tail
\* leaves it with 0, and another error for operands without a number.
Usage ==
    /\ pc = "main" /\ arg = 1 /\ Helped
    /\ pc' = IF tool = "od" \/ (tool = "tail" /\ Len(ops) < 2) THEN "ok" ELSE "failed"
    /\ UNCHANGED <<job, arg, out>>

\* What is there to be opened; cksum does not look whether it is a file.
Opens(o) == o \in {"f1", "f2"} \/ (o = "dir" /\ tool = "cksum")

InHand(t) == pc = "main" /\ tool = t /\ arg <= Len(ops) /\ ~Helped

NotOpened ==
    /\ pc = "main" /\ arg <= Len(ops) /\ ~Helped
    /\ ~Opens(ops[arg]) \/ (tool = "cmp" /\ ~Opens(ops[2]))
    /\ pc' = "failed"
    /\ UNCHANGED <<job, arg, out>>

Emit(items) ==
    /\ out' = out \o items
    /\ arg' = arg + 1
    /\ UNCHANGED <<job, pc>>

Stop(how, items) ==
    /\ pc' = how
    /\ out' = out \o items
    /\ UNCHANGED <<job, arg>>

T == job.text[ops[arg]]
Given(t) == InHand(t) /\ Opens(ops[arg])

\* Without operands cat and wc read the input, and nl nothing.
Stdin ==
    /\ pc = "main" /\ ops = <<>> /\ tool \in {"cat", "wc"}
    /\ Stop("ok", IF tool = "cat" THEN Cat(job.text.stdin) ELSE Wc(job.text.stdin))

CatFile == Given("cat") /\ Emit(Cat(T))
WcFile == Given("wc") /\ Emit(Wc(T))
SumFile == Given("sum") /\ Emit(Sum(T))
OdFile == Given("od") /\ Emit(Od(T))

TrFile ==
    /\ Given("tr")
    /\ IF Len(par[1]) # Len(par[2]) THEN Stop("failed", <<>>)
       ELSE Emit(Tr(T, par[1], par[2]))

CmpFiles ==
    /\ Given("cmp") /\ arg = 1 /\ Opens(ops[2])
    /\ Stop("ok", Cmp(T, job.text[ops[2]]))

\* par is the number of lines and the variable COLUMNS, -1 if it is not set:
\* then atoi faults.  From COLUMNS ends of lines on head waits for a blank
\* after each byte, for ever if the input ends.
HeadFile ==
    /\ Given("head")
    /\ LET h == HeadEnd(T, par[1]) IN
       IF par[2] = -1 THEN Stop("fault", <<>>)
       ELSE \/ Emit(Upto(T, h.bytes))
            \/ h.bytes > 0 /\ h.newlines >= par[2] /\ Stop("spin", <<>>)

TailFile == Given("tail") /\ Stop("failed", <<>>)

\* A file that is empty leaves the buffer as it was allocated, and one that
\* begins with the end of a line is not read any further.
GrepFile ==
    /\ Given("grep")
    /\ IF Byte(T, 1) = Newline THEN Stop("spin", <<>>)
       ELSE \/ Emit(Grep(T, par))
            \/ T = <<>> /\ (Emit(Garbage) \/ Stop("fault", <<>>))

\* The pointer that getline is given is as it was allocated.
NlFile ==
    /\ Given("nl")
    /\ \/ Stop("fault", <<>>)
       \/ Emit(IF T = <<>> THEN Garbage ELSE Nl(T))

\* crc32 reads at most 8 bytes, the end of the file as one of them, and takes
\* in the rest of its buffer as it was allocated.  With 8 bytes in the file the
\* count of bytes is below 0 and it runs out of memory.  So it does with a
\* directory, which can be opened but not read: that is no end of the file.
CksumFile ==
    /\ Given("cksum")
    /\ IF ops[arg] = "dir" \/ Len(T) >= 8 THEN Stop("fault", <<>>)
       ELSE Emit(IF Len(T) = 7 THEN <<<<"crc of", T>>>> ELSE Garbage)

Finish ==
    /\ pc = "main" /\ arg > Len(ops) /\ ~Helped
    /\ ~(ops = <<>> /\ tool \in {"cat", "wc"})
    /\ Stop("ok", <<>>)

Next ==
    \/ Usage \/ NotOpened \/ Stdin \/ Finish
    \/ CatFile \/ WcFile \/ SumFile \/ OdFile \/ TrFile \/ CmpFiles
    \/ HeadFile \/ TailFile \/ GrepFile \/ NlFile \/ CksumFile

Spec == Init /\ [][Next]_vars

-----------------------------------------------------------------------------
(* Properties *)

Letters == 97..122
Done(t) == pc = "ok" /\ tool = t /\ ~Helped

\* All that was to be read.
Input ==
    IF ops = <<>> THEN job.text.stdin
    ELSE FlattenSeq([n \in DOMAIN ops |-> job.text[ops[n]]])

\* The state has its types, no operand is handled twice, and a checksum fits
\* into the 16 bits that sum prints (sum.c:46-48).
TypeOK ==
    /\ arg \in 1..(Len(ops) + 1)
    /\ pc \in {"main", "ok", "failed", "fault", "spin"}
    /\ tool = "sum" => out \in Seq(Word)

\* tr by the meaning of its sets: the byte at the place of its first mention.
Chained(s1, s2) == \E m, n \in DOMAIN s1 : m < n /\ s2[m] = s1[n]
Mapped(c, s1, s2) ==
    IF c \notin {s1[n] : n \in DOMAIN s1} THEN c
    ELSE s2[CHOOSE n \in DOMAIN s1 : s1[n] = c /\ \A m \in 1..(n - 1) : s1[m] # c]

\* nl's rows without their numbers.
Texted(rows) == [n \in DOMAIN rows |-> rows[n].line]

\* What comes in comes out, once and in its order, from the first operand to
\* the last: cat's and od's bytes, and tr's with their replacements, if none is
\* replaced again.  So do the lines of nl's only operand, numbered from 1, and
\* after them the last one a second time if the text does not stop short of its
\* end (the loops of cat.c:49-53, od.c:45-57, tr.c:50-61, nl.c:60-69).
FiltersAreComplete ==
    /\ Done("cat") => out = Input
    /\ Done("od") => FlattenSeq([n \in DOMAIN out |-> out[n].bytes]) = Input
    /\ Done("tr") /\ ~Chained(par[1], par[2]) =>
        out = [n \in DOMAIN Input |-> Mapped(Input[n], par[1], par[2])]
    /\ Done("nl") /\ Len(ops) = 1 /\ Input # <<>> =>
        /\ FlattenSeq(Texted(out)) =
              IF Last(Input) = Newline THEN Input \o Last(Lines(Input)) ELSE Input
        /\ \A n \in DOMAIN out : out[n].number = n

\* "Print the line number alongside the file" (nl.c:76): each line has one row.
\* getline leaves a last line that ends where it was, and feof comes too late:
\* the code violates this (TextNl.cfg).
NlPrintsLinesOnce ==
    Done("nl") /\ Len(ops) = 1 /\ Input # <<>> => Texted(out) = Lines(Input)

\* "Count the bytes, lines and words of each file" (wc.c:74): what is counted as
\* bytes are those with a mark (wc.c:57-58), and blanks for words (wc.c:59-60):
\* the code violates this (TextWc.cfg).
WcCountsBytes ==
    Done("wc") /\ Len(ops) = 1 => out[1].bytes = Len(Input)

\* "Translate characters from str1 to str2" (tr.c:68): a byte goes to the place
\* of its first mention, and what it became is not replaced in turn.  The code
\* violates this (TextTr.cfg), as it goes on with the result (tr.c:53-57).
TrReplacesOnce ==
    Done("tr") => out = [n \in DOMAIN Input |-> Mapped(Input[n], par[1], par[2])]

\* cmp finds no difference between equal files, also at their ends, and
\* otherwise the first one: its place, and the ends of lines before it
\* (cmp.c:51-66).
CmpFindsDifference ==
    Done("cmp") =>
        LET t == job.text[ops[1]]  u == job.text[ops[2]] IN
        IF t = u THEN out = <<>>
        ELSE out # <<>> /\ LET n == out[1].byte IN
             /\ Byte(t, n) # Byte(u, n) /\ Upto(t, n - 1) = Upto(u, n - 1)
             /\ out[1].line = Count(Upto(t, n - 1), {Newline})

\* sum tells two files apart that differ in one byte, wherever it is: nothing
\* of a byte gets lost in the rotation (sum.c:46-48).
SumTellsApart ==
    Done("sum") /\ Len(ops) = 2 =>
        LET t == job.text[ops[1]]  u == job.text[ops[2]] IN
        Len(t) = Len(u) /\ Cardinality({n \in DOMAIN t : t[n] # u[n]}) = 1
            => out[1] # out[2]

\* Of a text that does not begin with an empty line head -N prints the first N
\* lines, or all there are: it stops at the end of the file or of a line, before
\* that end, with N - 1 ends of lines printed if there is more (head.c:51-61).
HeadStopsAtLine ==
    Done("head") /\ Len(ops) = 1 =>
        LET t == Input  n == Len(out)  ends == Count(out, {Newline}) IN
        IF par[1] <= 0 THEN out = <<>>
        ELSE Byte(t, 1) # Newline =>
             /\ out = Upto(t, n)
             /\ Byte(t, n + 1) \in {Newline, EOF}
             /\ ends < par[1]
             /\ n < Len(t) => ends = par[1] - 1

\* "Print the first N lines of files" (head.c:68): no more than N.  An end of a
\* line in front of everything is printed and not counted (head.c:51-57): the
\* code violates this (TextHead.cfg).
HeadPrintsLines ==
    Done("head") /\ Len(ops) = 1 /\ par[1] >= 0 => Len(Lines(out)) <= par[1]

\* What has a mark on paper, and the lines that have a c.
Ink(t) == Where(t, LAMBDA c : c \notin Space)
Having(lines, c) == Where(lines, LAMBDA l : Count(l, {c}) > 0)

\* grep of letters prints every line that begins with them, and of one letter
\* those lines that have it and no other, whatever the loop made of the lines
\* before (grep.c:57-73).  White space aside, which fscanf takes away.
GrepFinds ==
    Done("grep") /\ Input # <<>> /\ Len(ops) = 1 /\ par \in Seq(Letters) \ {<<>>} =>
        LET has == Having(Lines(Input), par[1]) IN
        /\ \A n \in DOMAIN has :
              IsPrefix(par, has[n]) => \E m \in DOMAIN out : Ink(out[m]) = Ink(has[n])
        /\ Len(par) = 1 => Ink(FlattenSeq(out)) = Ink(FlattenSeq(has))
=============================================================================
