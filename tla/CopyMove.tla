------------------------------ MODULE CopyMove ------------------------------
(***************************************************************************)
(* The tools that copy, move, link and make: cp, mv, ln and mkdir          *)
(* (busybox), run one after the other on one tree, as a shell runs them.   *)
(*                                                                         *)
(* A step is one call of the system with the tests around it.  A path is a *)
(* sequence of names, absolute if it begins with "/"; options are operands *)
(* like any other, as in argv.  Nobody else changes the tree while a tool  *)
(* runs.                                                                   *)
(*                                                                         *)
(* before is not in the code: the tree as the running tool found it.       *)
(***************************************************************************)
EXTENDS Integers, Sequences, FiniteSets

CONSTANTS
    Root,
    Start,      \* the working directory of the shell
    Dirs,       \* directories, those not yet made included
    Files,      \* files, those not yet made included
    Links,      \* symbolic links
    Names,      \* names in directories
    Nothing,    \* what a free name stands for
    Empty,      \* what an empty file holds
    Part,       \* what is left of a text when a call fails half way
    Tree,       \* the first value of fs
    Scripts,    \* sequences of commands [tool, argv]
    OpenMax,    \* directories a process can have open
    Faulty,     \* files on which fgetc, fputc and fclose may fail
    Steps,      \* names and links a path may lead over
    Trouble     \* bound: nodes on which a call may fail

Nodes == Dirs \cup Files \cup Links
Texts == Files \cup {Empty, Part}   \* a text is named after who has it first

Places == Dirs \X Names
Paths == Seq(Names \cup {"/"})
Trees == [at : [Places -> Nodes \cup {Nothing}], text : [Files -> Texts],
          sym : [Links -> Paths]]

ASSUME NodesAssumption ==
    /\ Dirs \cap (Files \cup Links) = {} /\ Files \cap Links = {}
    /\ Nothing \notin Nodes
    /\ "/" \notin Names
    /\ {Root, Start} \subseteq Dirs /\ Trouble \subseteq Nodes /\ Faulty \subseteq Files
\* A directory has one name.
ASSUME TreeAssumption ==
    /\ Tree \in Trees
    /\ \A x, y \in Places : Tree.at[x] \in Dirs /\ Tree.at[x] = Tree.at[y] => x = y
ASSUME ScriptsAssumption ==
    Scripts \subseteq Seq([tool : {"cp", "mv", "ln", "mkdir"}, argv : Seq(Paths)])
ASSUME LimitsAssumption == OpenMax \in Nat /\ Steps \in Nat \ {0}

VARIABLES
    fs,         \* [at, text, sym]      names, contents of files, of links
    unread,     \* nodes that cannot be opened for reading
    locked,     \* nodes that cannot be written
    barred,     \* directories that cannot be entered
    script,     \* commands to come
    tool, argv, \* the running command
    pc,         \* what comes next
    arg,        \* operand in hand
    st,         \* kind of node the last stat found
    cwd,        \* working directory
    stack,      \* sequence of [dir, seen, must], the calls of dir_to_dir
    from, to,   \* file_to_file's paths; dir_to_dir's src is from
    src,        \* node read by file_to_file
    opened,     \* 0..OpenMax           directories opened
    before

given == <<unread, locked, barred>>
command == <<script, tool, argv, before>>
vars == <<fs, given, command, pc, arg, st, cwd, stack, from, to, src, opened>>

Tools == {"cp", "mv", "ln", "mkdir"}
Labels == {"main", "operand", "fopen", "trunc", "copy", "enter", "loop", "back",
           "spin", "ok", "failed"}
Kinds == {"unset", "reg", "dir"}

TypeOK ==
    /\ fs \in Trees
    /\ tool \in Tools /\ pc \in Labels /\ st \in Kinds /\ cwd \in Dirs
    /\ arg \in 1..(Len(argv) + 1)
    /\ \A k \in DOMAIN stack :
          stack[k].dir \in Dirs /\ stack[k].seen \cup stack[k].must \subseteq Names
    /\ src \in Nodes \cup {Nothing}
    /\ opened \in 0..OpenMax

-----------------------------------------------------------------------------
(* Paths *)

\* One step along a path in tree f; leads is where the rest of it leads to.
\* The link at the end is followed only if last.
Onward(f, last, leads) ==
    [d \in Dirs |-> [p \in Paths |->
        LET x == f.at[d, Head(p)] IN
        IF p = <<>> THEN {}
        ELSE IF Head(p) = "/" THEN leads[Root][Tail(p)]
        ELSE IF x \in Links /\ (last \/ Tail(p) # <<>>)
        THEN leads[d][f.sym[x] \o Tail(p)]
        ELSE IF Tail(p) = <<>> THEN {<<d, Head(p)>>}
        ELSE IF x \in Dirs THEN leads[x][Tail(p)] ELSE {}]]

Leads(f, last) ==
    LET leads[k \in Nat] == IF k = 0 THEN [d \in Dirs |-> [p \in Paths |-> {}]]
                            ELSE Onward(f, last, leads[k - 1])
    IN leads

\* The place a path leads to in tree f from directory d: one or none.
Place(f, d, p, last) == Leads(f, last)[Steps][d][p]

Goal(p) == Place(fs, cwd, p, TRUE)      \* for stat, open, opendir
Name(p) == Place(fs, cwd, p, FALSE)     \* for rename, link, symlink, mkdir

NodesAt(f, places) == {f.at[x] : x \in places} \ {Nothing}
Found(p) == NodesAt(fs, Goal(p))

\* sprintf of "%s/%s".
Join(dir, p) == dir \o (IF p # <<>> /\ Head(p) = "/" THEN Tail(p) ELSE p)

KindOf(n) == IF n \in Dirs THEN "dir" ELSE "reg"

\* A stat that fails leaves st as it was, and at first st is anything.
Stat(p) ==
    IF Found(p) # {} THEN {KindOf(n) : n \in Found(p)}
    ELSE IF st = "unset" THEN {"reg", "dir"} ELSE {st}

Parent(d) ==
    IF \E e \in Dirs, n \in Names : fs.at[e, n] = d
    THEN CHOOSE e \in Dirs : \E n \in Names : fs.at[e, n] = d
    ELSE d

Entries(d) == {n \in Names : fs.at[d, n] # Nothing}

\* Directory d of tree f and those below it.
Reach(f, d) ==
    {e \in Dirs : \A S \in SUBSET Dirs :
        d \in S /\ (\A x \in S \X Names : f.at[x] \in Dirs => f.at[x] \in S) => e \in S}

InTree(n) == \E x \in DOMAIN fs.at : fs.at[x] = n
Spare(S) == {n \in S \ {Root} : ~InTree(n)}
Made(S) == CHOOSE n \in Spare(S) : TRUE

Enters(x, n) == fs' = [fs EXCEPT !.at[x] = n]

\* Where a name can be made.
Free(p) == {y \in Name(p) : fs.at[y] = Nothing /\ y[1] \notin locked}

-----------------------------------------------------------------------------
(* The shell *)

Init ==
    /\ fs = Tree /\ before = Tree
    /\ unread \in SUBSET Trouble /\ locked \in SUBSET Trouble
    /\ barred \in SUBSET (Trouble \cap Dirs)
    /\ script \in Scripts
    /\ tool = "cp" /\ argv = <<>> /\ pc = "ok"
    /\ arg = 1 /\ st = "unset" /\ cwd = Start
    /\ stack = <<>> /\ from = <<>> /\ to = <<>> /\ src = Nothing
    /\ opened = 0

\* The shell starts the next command, and does not look how the last one ended.
Run ==
    /\ pc \in {"ok", "failed"} /\ script # <<>>
    /\ tool' = Head(script).tool /\ argv' = Head(script).argv
    /\ script' = Tail(script)
    /\ before' = fs
    /\ pc' = "main" /\ arg' = 1 /\ st' = "unset" /\ cwd' = Start
    /\ stack' = <<>> /\ from' = <<>> /\ to' = <<>> /\ src' = Nothing
    /\ opened' = 0
    /\ UNCHANGED <<fs, given>>

At(t, label) == tool = t /\ pc = label
End(how) ==
    /\ pc' = how
    /\ UNCHANGED <<given, command, arg, st, cwd, stack, from, to, src, opened>>

argc == Len(argv) + 1
Last == argv[Len(argv)]
Option(o) == argv # <<>> /\ argv[1] = <<o>>
HasOption == argv # <<>> /\ argv[1] \in {<<"-r">>, <<"-s">>, <<"-p">>}

\* print_help, and a first operand that is some other option.
Usage ==
    /\ pc = "main" /\ tool # "mkdir"
    /\ \/ argc < 3
       \/ tool \in {"cp", "mv"} /\ HasOption /\ ~Option("-r")
    /\ End("failed") /\ UNCHANGED fs

Used ==
    /\ argc >= 3
    /\ HasOption => Option("-r")

First == IF Option("-r") THEN 2 ELSE 1

-----------------------------------------------------------------------------
(* cp *)

\* Two operands are two files, "-r" too.
CpFiles ==
    /\ At("cp", "main") /\ Used /\ argc = 3
    /\ from' = argv[1] /\ to' = argv[2]
    /\ pc' = "fopen"
    /\ UNCHANGED <<fs, given, command, arg, st, cwd, stack, src, opened>>

\* More than two need a directory for the last; mv tests the same.
Target ==
    /\ tool \in {"cp", "mv"} /\ pc = "main" /\ Used /\ argc > 3
    /\ st' \in Stat(Last)
    /\ pc' = IF st' = "dir" THEN "operand" ELSE "failed"
    /\ arg' = First
    /\ UNCHANGED <<fs, given, command, cwd, stack, from, to, src, opened>>

CpOperand ==
    /\ At("cp", "operand") /\ arg < Len(argv)
    /\ st' \in Stat(argv[arg])
    /\ from' = argv[arg]
    /\ IF st' = "reg"
       THEN pc' = "fopen" /\ to' = Join(Last, argv[arg])
       ELSE pc' = (IF Option("-r") THEN "enter" ELSE "failed") /\ UNCHANGED to
    /\ UNCHANGED <<fs, given, command, arg, cwd, stack, src, opened>>

Finished ==
    /\ tool \in {"cp", "mv"} /\ pc = "operand" /\ arg = Len(argv)
    /\ End("ok") /\ UNCHANGED fs

\* Mistake: the target is opened, and emptied, before the source.
OpenTruncates ==
    /\ pc = "fopen"
    /\ fs' = [fs EXCEPT !.text = [f \in Files |->
                 IF f \in Found(to) \ locked THEN Empty ELSE @[f]]]
    /\ IF Found(from) \ unread = {}
       THEN pc' = "failed" /\ UNCHANGED src
       ELSE pc' = "trunc" /\ src' \in Found(from)
    /\ UNCHANGED <<given, command, arg, st, cwd, stack, from, to, opened>>

\* fopen(src, "r"), which opens a directory as well.
Open ==
    /\ pc = "fopen"
    /\ IF Found(from) \ unread = {}
       THEN pc' = "failed" /\ UNCHANGED src
       ELSE pc' = "trunc" /\ src' \in Found(from)
    /\ UNCHANGED <<fs, given, command, arg, st, cwd, stack, from, to, opened>>

\* fopen(dst, "w") empties what is there, or makes a file.
Truncate ==
    /\ pc = "trunc"
    /\ \E x \in Goal(to) :
          \/ /\ fs.at[x] \in Files \ locked
             /\ fs' = [fs EXCEPT !.text[fs.at[x]] = Empty]
          \/ /\ fs.at[x] = Nothing /\ x[1] \notin locked
             /\ Spare(Files) # {}
             /\ fs' = [fs EXCEPT !.at[x] = Made(Files), !.text[Made(Files)] = Empty]
    /\ pc' = "copy"
    /\ UNCHANGED <<given, command, arg, st, cwd, stack, from, to, src, opened>>

TruncateFails ==
    /\ pc = "trunc"
    /\ \A x \in Goal(to) :
          \/ fs.at[x] \in Dirs \cup locked
          \/ fs.at[x] = Nothing /\ (x[1] \in locked \/ Spare(Files) = {})
    /\ End("failed") /\ UNCHANGED fs

\* No call fails between the two.
Sound(n, m) == {n, m} \cap Faulty = {}

\* What comes out of src and gets into m.
Arrives(m) ==
    {IF src \in Files THEN fs.text[src] ELSE Empty}
        \cup (IF Sound(src, m) THEN {} ELSE {Empty, Part})

\* The loop until EOF, and the two closes.  A directory reads as empty.  Nobody
\* tells an error of fgetc from the end, or looks at what fputc and fclose say.
Copy ==
    /\ pc = "copy"
    /\ \E x \in Goal(to) : \E t \in Arrives(fs.at[x]) :
          fs' = [fs EXCEPT !.text[fs.at[x]] = t]
    /\ src' = Nothing
    /\ IF stack # <<>> THEN pc' = "loop" /\ UNCHANGED arg
       ELSE IF argc = 3 THEN pc' = "ok" /\ UNCHANGED arg
       ELSE pc' = "operand" /\ arg' = arg + 1
    /\ UNCHANGED <<given, command, st, cwd, stack, from, to, opened>>

-----------------------------------------------------------------------------
(* dir_to_dir *)

Frame == Head(stack)

\* Mistake: one directory more than the system allows.
CanOpenMore(d) == d \in Dirs \ unread /\ opened <= OpenMax

CanOpen(d) == d \in Dirs \ unread /\ opened < OpenMax

EnterFails ==
    /\ pc = "enter"
    /\ \A d \in Found(from) : ~CanOpen(d)
    /\ End("back") /\ UNCHANGED fs

\* opendir, and chdir, whose value nobody looks at.  No directory is made.
Enter ==
    /\ pc = "enter"
    /\ \E d \in Found(from) :
          /\ CanOpen(d)
          /\ stack' = <<[dir |-> d, seen |-> {}, must |-> Entries(d)]>> \o stack
          /\ cwd' = IF d \in barred THEN cwd ELSE d
    /\ opened' = opened + 1
    /\ pc' = "loop"
    /\ UNCHANGED <<fs, given, command, arg, st, from, to, src>>

\* readdir.  What is made while the directory is read may be seen or not.
Read(n) ==
    /\ pc = "loop"
    /\ n \in Entries(Frame.dir) \ Frame.seen
    /\ stack' = <<[Frame EXCEPT !.seen = @ \cup {n}]>> \o Tail(stack)
    /\ LET x == fs.at[Frame.dir, n] IN
       /\ from' = <<n>>
       /\ IF x \in Files THEN pc' = "fopen" /\ to' = Join(Last, <<n>>)
          ELSE pc' = (IF x \in Dirs THEN "enter" ELSE "loop") /\ UNCHANGED to
    /\ UNCHANGED <<fs, given, command, arg, st, cwd, src, opened>>

\* Mistake: the working directory is left as it is.
LeaveStays ==
    /\ pc = "loop" /\ Frame.must \subseteq Frame.seen
    /\ stack' = Tail(stack)
    /\ IF Len(stack) = 1 THEN pc' = "operand" /\ arg' = arg + 1
                         ELSE pc' = "loop" /\ UNCHANGED arg
    /\ UNCHANGED <<fs, given, command, st, cwd, from, to, src, opened>>

Leave ==
    /\ pc = "loop" /\ Frame.must \subseteq Frame.seen
    /\ cwd' = Parent(cwd)
    /\ stack' = Tail(stack)
    /\ IF Len(stack) = 1 THEN pc' = "operand" /\ arg' = arg + 1
                         ELSE pc' = "loop" /\ UNCHANGED arg
    /\ UNCHANGED <<fs, given, command, st, from, to, src, opened>>

\* Mistake: the operand that failed is tried again.
BackAgain ==
    /\ pc = "back"
    /\ IF stack = <<>>
       THEN pc' = "operand" /\ UNCHANGED <<arg, stack>>
       ELSE stack' = Tail(stack) /\ UNCHANGED <<pc, arg>>
    /\ UNCHANGED <<fs, given, command, st, cwd, from, to, src, opened>>

\* A call that failed ends the calls above it, without the way back; main
\* does not look at the value.
Back ==
    /\ pc = "back"
    /\ IF stack = <<>>
       THEN pc' = "operand" /\ arg' = arg + 1 /\ UNCHANGED stack
       ELSE stack' = Tail(stack) /\ UNCHANGED <<pc, arg>>
    /\ UNCHANGED <<fs, given, command, st, cwd, from, to, src, opened>>

-----------------------------------------------------------------------------
(* mv *)

\* rename of place x to place y is refused.
Refuses(x, y) ==
    LET n == fs.at[x]  o == fs.at[y] IN
    \/ n = Nothing \/ x[1] \in locked \/ y[1] \in locked
    \/ n \in Dirs /\ y[1] \in Reach(fs, n)
    \/ o \in Dirs /\ (n \notin Dirs \/ (n # o /\ Entries(o) # {}))
    \/ n \in Dirs /\ o \notin Dirs \cup {Nothing}

\* Two names of one file are left as they are.
Rename(p, q, next) ==
    \/ /\ \E x \in Name(p), y \in Name(q) :
             /\ ~Refuses(x, y)
             /\ fs' = IF fs.at[x] = fs.at[y] THEN fs
                      ELSE [fs EXCEPT !.at[y] = fs.at[x], !.at[x] = Nothing]
       /\ pc' = next
    \/ /\ \A x \in Name(p), y \in Name(q) : Refuses(x, y)
       /\ pc' = "failed" /\ UNCHANGED fs

MvFiles ==
    /\ At("mv", "main") /\ Used /\ argc = 3
    /\ Rename(argv[1], argv[2], "ok")
    /\ UNCHANGED <<given, command, arg, st, cwd, stack, from, to, src, opened>>

\* Mistake: every operand goes to the name of the first.
MvOperandFirst ==
    /\ At("mv", "operand") /\ arg < Len(argv)
    /\ Found(argv[arg]) \cap Files # {}
    /\ Rename(argv[arg], Join(Last, argv[First]), "operand")
    /\ st' \in Stat(argv[arg]) /\ arg' = arg + 1
    /\ UNCHANGED <<given, command, cwd, stack, from, to, src, opened>>

MvOperand ==
    /\ At("mv", "operand") /\ arg < Len(argv)
    /\ Found(argv[arg]) \cap Files # {}
    /\ Rename(argv[arg], Join(Last, argv[arg]), "operand")
    /\ st' \in Stat(argv[arg]) /\ arg' = arg + 1
    /\ UNCHANGED <<given, command, cwd, stack, from, to, src, opened>>

\* What is not there, and directories.  What was moved before stays moved.
MvRefused ==
    /\ At("mv", "operand") /\ arg < Len(argv)
    /\ Found(argv[arg]) \subseteq Dirs
    /\ End("failed") /\ UNCHANGED fs

-----------------------------------------------------------------------------
(* ln and mkdir *)

\* Of two or four operands and more the second is linked to the third, which
\* of two is none.
Ln ==
    /\ At("ln", "main") /\ argc # 4 /\ argc >= 3
    /\ LET old == IF argc > 3
                  THEN NodesAt(fs, Name(argv[2])) \cap (Files \cup Links) ELSE {}
       IN IF old # {} /\ Free(argv[3]) # {}
          THEN /\ \E n \in old, y \in Free(argv[3]) : Enters(y, n)
               /\ pc' = "ok"
          ELSE pc' = "failed" /\ UNCHANGED fs
    /\ UNCHANGED <<given, command, arg, st, cwd, stack, from, to, src, opened>>

\* Three operands need -s.
Symlink ==
    /\ At("ln", "main") /\ argc = 4
    /\ IF Option("-s") /\ Spare(Links) # {} /\ Free(argv[3]) # {}
       THEN /\ \E y \in Free(argv[3]) :
                  fs' = [fs EXCEPT !.at[y] = Made(Links),
                                   !.sym[Made(Links)] = argv[2]]
            /\ pc' = "ok"
       ELSE pc' = "failed" /\ UNCHANGED fs
    /\ UNCHANGED <<given, command, arg, st, cwd, stack, from, to, src, opened>>

\* get_mask, before the operands are looked at, opens /proc/<pid>/status, reads
\* to the end of a line, a colon and the end of a line, and does not stop at
\* the end of the file.
GetMask ==
    /\ At("mkdir", "main")
    /\ pc' \in {"failed", "spin", IF argc < 2 THEN "failed" ELSE "operand"}
    /\ arg' = IF Option("-p") THEN 2 ELSE 1
    /\ UNCHANGED <<fs, given, command, st, cwd, stack, from, to, src, opened>>

\* Only with -p is a directory made, and then one of each path.
MkdirOperand ==
    /\ At("mkdir", "operand") /\ arg <= Len(argv)
    /\ IF Option("-p") /\ Spare(Dirs) # {} /\ Free(argv[arg]) # {}
       THEN /\ \E y \in Free(argv[arg]) : Enters(y, Made(Dirs))
            /\ pc' = "operand" /\ arg' = arg + 1
       ELSE pc' = "failed" /\ UNCHANGED <<fs, arg>>
    /\ UNCHANGED <<given, command, st, cwd, stack, from, to, src, opened>>

MkdirDone == At("mkdir", "operand") /\ arg > Len(argv) /\ End("ok") /\ UNCHANGED fs

-----------------------------------------------------------------------------
Step ==
    \/ Usage \/ CpFiles \/ Target \/ CpOperand \/ Finished
    \/ Open \/ Truncate \/ TruncateFails \/ Copy
    \/ EnterFails \/ Enter \/ (\E n \in Names : Read(n)) \/ Leave \/ Back
    \/ MvFiles \/ MvOperand \/ MvRefused
    \/ Ln \/ Symlink \/ GetMask \/ MkdirOperand \/ MkdirDone

Next == Run \/ Step

Spec == Init /\ [][Next]_vars

\* A tool runs until it exits; the shell need not start another.
LiveSpec == Spec /\ WF_vars(Step)
-----------------------------------------------------------------------------
(* What cp and mv are asked to do, on the tree as they found it *)

Goal0(p) == Place(before, Start, p, TRUE)
Name0(p) == Place(before, Start, p, FALSE)
DirsOf(p) == NodesAt(before, Goal0(p)) \cap Dirs
Operands == {argv[k] : k \in First..(Len(argv) - 1)}
DirOperands == IF argc = 3 THEN {} ELSE UNION {DirsOf(p) : p \in Operands}

\* Places in a directory and below it where a file may be.
Below(d) ==
    {x \in Reach(before, d) \X Names : before.at[x] \in Files \cup {Nothing}}

\* What is in a directory goes by its last name.
CopiesFrom(x) == {x} \X Goal0(Join(Last, <<x[2]>>))
TreeCopies(d) == UNION {CopiesFrom(x) : x \in Below(d)}

\* An operand goes by itself, or with all that is below it.
OperandCopies(p) ==
    {c \in Goal0(p) \X Goal0(Join(Last, p)) : before.at[c[1]] \notin Dirs}
        \cup UNION {TreeCopies(d) : d \in DirsOf(p)}

\* Places to copy from and to, whether there is something or not.
Copies ==
    IF argc = 3 THEN Goal0(argv[1]) \X Goal0(argv[2])
    ELSE UNION {OperandCopies(p) : p \in Operands}

\* Those with a file to copy, at the start or as the target of another one.
Due ==
    LET all == Copies
    IN  {c \in all : before.at[c[1]] # Nothing \/ \E e \in all : e[2] = c[1]}

\* Where mv is to move its operand k.
Onto(k) == IF argc = 3 THEN Name0(argv[2]) ELSE Name0(Join(Last, argv[k]))
Movers == IF argc = 3 THEN {1} ELSE First..(Len(argv) - 1)

\* With a directory to copy, the last operand must be absolute and the others
\* be in the starting directory, because the working directory changes.
Anchored ==
    DirOperands # {} =>
        /\ Last # <<>> /\ Head(Last) = "/"
        /\ \A p \in Operands : \A x \in Goal0(p) : x[1] = Start

Ran(t) ==
    /\ tool = t /\ argv # <<>>
    /\ t = "cp" =>
         Anchored /\ barred \cup (unread \cap Dirs) = {} /\ opened < OpenMax

\* Places x and y of the tree at the start are or have the same.
Same(x, y) == x = y \/ (before.at[x] = before.at[y] /\ before.at[x] # Nothing)

\* No two copies go to one file, and none to a file, or into a directory, that
\* is copied.
Apart ==
    /\ \A c, e \in Due : (c # e => ~Same(c[2], e[2])) /\ ~Same(c[2], e[1])
    /\ \A d \in DirOperands : Reach(before, d) \cap DirsOf(Last) = {}

\* Of several operands of mv none is a link, which would lead elsewhere once it
\* was moved, and no two go to one place.
Orderly ==
    argc > 3 =>
        /\ \A k \in Movers : \A x \in Name0(argv[k]) : before.at[x] \notin Links
        /\ \A j, k \in Movers : j # k => Onto(j) \cap Onto(k) = {}

-----------------------------------------------------------------------------
\* When cp succeeds, every file it was given, or that was below a directory it
\* was given, has its name in the target, and its contents if no call failed on
\* the two, and still has them itself, if nothing was copied onto itself or on
\* another (cp.c:20-151); through every opendir, chdir and way back, if
\* directories can be opened and entered.  The target is flat: the directory that
\* cp.c:136 is to make is not made.
CopiesArrive ==
    Ran("cp") /\ pc = "ok" /\ Apart =>
        \A c \in Copies : before.at[c[1]] \in Files =>
            /\ fs.at[c[2]] \in Files
            /\ Sound(before.at[c[1]], fs.at[c[2]]) =>
                  fs.text[fs.at[c[2]]] = before.text[before.at[c[1]]]
            /\ fs.text[before.at[c[1]]] = before.text[before.at[c[1]]]

\* "Copy file to file" (cp.c:158): what a cp that succeeds has copied is there.
\* A read, a write or a close that fails is no failure of cp (cp.c:87-94), so
\* the code violates this (CopyErrors.cfg).
SuccessIsCopied ==
    Ran("cp") /\ pc = "ok" /\ argc = 3 /\ Apart =>
        \A c \in Copies : before.at[c[1]] \in Files =>
            fs.text[fs.at[c[2]]] = before.text[before.at[c[1]]]

\* cp makes, empties and overwrites nothing but targets whose source it could
\* open, also when it fails half way and when source and target are one file
\* (cp.c:79-91).
OnlyTargetsChange ==
    Ran("cp") =>
        LET targets == {c[2] : c \in {e \in Due : before.at[e[1]] \notin unread}}
        IN  /\ \A x \in DOMAIN fs.at : fs.at[x] # before.at[x] => x \in targets
            /\ \A x \in DOMAIN fs.at :
                  before.at[x] \in Files
                    /\ fs.text[before.at[x]] # before.text[before.at[x]] =>
                        before.at[x] \in NodesAt(before, targets)

\* Whatever mv is given and wherever it stops, a file that had a name has one,
\* and its contents, unless something was moved onto it (mv.c:41-59).  Of two
\* operands that go to one place the second replaces the first.
MvLosesNothing ==
    Ran("mv") /\ Orderly =>
        \A x \in DOMAIN fs.at : LET f == before.at[x] IN
            f \in Files =>
                /\ fs.text[f] = before.text[f]
                /\ InTree(f) \/ \E k \in Movers : \E y \in Onto(k) : before.at[y] = f

\* Every command comes to an end, also a copy of a directory into itself and one
\* that walks a directory again and again inside itself; not mkdir, if the
\* status file is shorter than it thinks (mkdir.c:57-62).
CommandsEnd ==
    pc = "main" ~> pc \in {"ok", "failed", "spin"}
=============================================================================
