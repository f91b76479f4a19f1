------------------------------ MODULE TreeWalk ------------------------------
(***************************************************************************)
(* The tools that walk a directory tree: chgrp, chmod, chown and rm with   *)
(* -r, du, and find (busybox).                                             *)
(*                                                                         *)
(* Each has a recursive function that opens a directory, changes into it   *)
(* (all but rm), handles the entries by their names, and changes to "..".  *)
(* It calls itself with the bare name of a directory, so everything hangs  *)
(* on the working directory being the one the entries were read from.      *)
(* Nothing checks chdir, and nothing closes a directory.                   *)
(*                                                                         *)
(* A step is one call of the system with the tests around it; the calls of *)
(* the recursion are frames on a stack, the innermost first.  A path is a  *)
(* name, looked up in the working directory, or absolute, which is the     *)
(* node itself.  stat, opendir, chdir, chown and chmod follow a symbolic   *)
(* link, remove and readdir do not.  Nobody else changes the tree, and     *)
(* what rm removes is not read again.                                      *)
(***************************************************************************)
EXTENDS Integers, Sequences

CONSTANTS
    Dirs,       \* directories
    Plain,      \* files
    Links,      \* symbolic links
    Leads,      \* [Links -> sets]      the node a link leads to, if any
    Up,         \* [Nodes -> Dirs]      the directory a node is in
    Name,       \* [Nodes -> names]     its name there
    Start,      \* the working directory of the shell
    Calls,      \* sequences of paths   operands a tool is called with
    Wanted,     \* the name find looks for
    OpenMax,    \* directories a process can have open
    Tools,      \* the tools of the instance
    Trouble     \* bound: nodes on which a call may fail

Nodes == Dirs \cup Plain \cup Links

ASSUME TreeAssumption ==
    /\ Dirs \cap Plain = {} /\ Links \cap (Dirs \cup Plain) = {}
    /\ Up \in [Nodes -> Dirs]
    /\ \A m, n \in Nodes : Up[m] = Up[n] /\ Name[m] = Name[n] => m = n
ASSUME LinksAssumption ==
    /\ Leads \in [Links -> SUBSET (Dirs \cup Plain)]
    /\ \A l \in Links : \A m, n \in Leads[l] : m = n
\* The name of an entry has no '/' and is not a path to another node; that of
\* the root, which is in itself, is.
ASSUME NamesAssumption == \A n \in Nodes : Up[n] # n => Name[n] \notin Nodes
ASSUME StartAssumption == Start \in Dirs /\ Trouble \subseteq Nodes
ASSUME CallsAssumption ==
    \A c \in Calls : c # <<>> /\ c \in Seq({c[j] : j \in DOMAIN c})
ASSUME OpenMaxAssumption == OpenMax \in Nat
ASSUME ToolsAssumption ==
    Tools \subseteq {"chgrp", "chmod", "chown", "rm", "du", "find"}

VARIABLES
    tool,       \* the tool that runs
    args,       \* its operands
    unread,     \* directories that cannot be opened
    barred,     \* directories that cannot be entered
    stuck,      \* nodes that cannot be changed or removed
    had,        \* nodes that had the new owner, group or mode at the start
    has,        \* nodes that have it now; du: nodes measured
    gone,       \* nodes removed
    cwd,        \* working directory
    arg,        \* operand in hand
    stack,      \* sequence of [path, dir, todo, entry]
    pc,         \* what comes next
    path,       \* argument of the call to come
    ret,        \* value returned
    opened      \* 0..OpenMax           directories opened

given == <<tool, args, unread, barred, stuck, had>>
vars == <<given, has, gone, cwd, arg, stack, pc, path, ret, opened>>

Labels == {"main", "enter", "loop", "act", "back", "ok", "failed"}

TypeOK ==
    /\ tool \in Tools /\ args \in Calls
    /\ unread \subseteq Dirs /\ barred \subseteq Dirs
    /\ stuck \cup had \cup has \cup gone \subseteq Nodes
    /\ cwd \in Dirs
    /\ arg \in 1..(Len(args) + 1)
    /\ \A i \in DOMAIN stack :
          stack[i].dir \in Dirs /\ stack[i].todo \subseteq Nodes
    /\ pc \in Labels
    /\ ret \in {-1, 0, 1}
    /\ opened \in 0..OpenMax

\* The nodes S where links are followed.
Follow(S) == (S \ Links) \cup UNION {Leads[l] : l \in S \cap Links}

\* The nodes a path is the name of: one or none.
Look(p) ==
    (IF p \in Nodes THEN {p} ELSE {n \in Nodes : Up[n] = cwd /\ Name[n] = p})
        \ gone

\* The nodes a path leads to: one or none.
Resolve(p) == Follow(Look(p)) \ gone

Entries(d) == {n \in Nodes : Up[n] = d /\ n # d} \ gone

\* What the operands name, and what they stand for, when the tool is called.
Mentioned ==
    UNION {IF args[i] \in Nodes THEN {args[i]}
           ELSE {n \in Nodes : Up[n] = Start /\ Name[n] = args[i]} :
               i \in DOMAIN args}
Operands == Follow(Mentioned)

Init ==
    /\ tool \in Tools /\ args \in Calls
    /\ unread \in SUBSET (Trouble \cap Dirs)
    /\ barred \in SUBSET (Trouble \cap Dirs)
    /\ stuck \in SUBSET Trouble
    /\ had \in SUBSET Operands
    /\ has = had
    /\ gone = {}
    /\ cwd = Start
    /\ arg = 1
    /\ stack = <<>>
    /\ pc = "main" /\ path = args[1] /\ ret = 0
    /\ opened = 0

-----------------------------------------------------------------------------
(* main *)

Changes == tool \in {"chgrp", "chmod", "chown"}

\* Mistake: the operand that is retained is not passed.
RetainedAgain ==
    /\ pc = "main" /\ arg <= Len(args) /\ Changes
    /\ Resolve(args[arg]) \subseteq has
    /\ UNCHANGED vars

\* An operand that has the owner, group or mode is passed over, with all that
\* is in it.  After a stat that failed the test is on whatever st held.
Retained ==
    /\ pc = "main" /\ arg <= Len(args) /\ Changes
    /\ Resolve(args[arg]) \subseteq has
    /\ arg' = arg + 1
    /\ UNCHANGED <<given, has, gone, cwd, stack, pc, path, ret, opened>>

Walk ==
    /\ pc = "main" /\ arg <= Len(args)
    /\ IF Changes THEN Resolve(args[arg]) = {} \/ Resolve(args[arg]) \ has # {}
                  ELSE Resolve(args[arg]) \cap Dirs # {}
    /\ pc' = "enter" /\ path' = args[arg]
    /\ UNCHANGED <<given, has, gone, cwd, arg, stack, ret, opened>>

\* rm of a file, or of a link that leads to one; and of a link that leads
\* nowhere, where st held a file before.
RemoveFile ==
    /\ pc = "main" /\ arg <= Len(args) /\ tool = "rm"
    /\ Resolve(args[arg]) \subseteq Plain
    /\ \E n \in Look(args[arg]) :
          IF n \in stuck
          THEN pc' = "failed" /\ UNCHANGED <<gone, arg>>
          ELSE pc' = "main" /\ gone' = gone \cup {n} /\ arg' = arg + 1
    /\ UNCHANGED <<given, has, cwd, stack, path, ret, opened>>

\* du of a file.
MeasureFile ==
    /\ pc = "main" /\ arg <= Len(args) /\ tool = "du"
    /\ Resolve(args[arg]) \cap Plain # {}
    /\ has' = has \cup Resolve(args[arg])
    /\ arg' = arg + 1
    /\ UNCHANGED <<given, gone, cwd, stack, pc, path, ret, opened>>

\* A stat that fails, of what is not there: du and find stop, and find does so
\* too if it is no directory; rm acts on whatever st held.
NotThere ==
    /\ pc = "main" /\ arg <= Len(args) /\ ~Changes
    /\ Resolve(args[arg]) \subseteq (IF tool = "find" THEN Plain ELSE {})
    /\ \/ pc' = "failed" /\ UNCHANGED arg
       \/ tool = "rm" /\ arg' = arg + 1 /\ UNCHANGED pc
    /\ UNCHANGED <<given, has, gone, cwd, stack, path, ret, opened>>

\* The walk of an operand is over.  chown takes the same operand again; du and
\* find do not look at the value.
Walked ==
    /\ pc = "back" /\ stack = <<>>
    /\ pc' = IF ret < 0 /\ tool \notin {"du", "find"} THEN "failed" ELSE "main"
    /\ arg' = CASE tool = "chown" -> arg
                [] tool = "find" -> Len(args) + 1
                [] OTHER -> arg + 1
    /\ UNCHANGED <<given, has, gone, cwd, stack, path, ret, opened>>

Finish ==
    /\ pc = "main" /\ arg > Len(args)
    /\ pc' = "ok"
    /\ UNCHANGED <<given, has, gone, cwd, arg, stack, path, ret, opened>>

-----------------------------------------------------------------------------
(* The recursive function *)

Frame == Head(stack)
Chdirs == tool # "rm"

Return(value) == pc' = "back" /\ ret' = value

\* chdir, whose value nobody looks at.
Chdir(d) == cwd' = IF Chdirs /\ d \notin barred THEN d ELSE cwd

\* Mistake: one directory more than the system allows.
CanOpenMore(d) == d \in Dirs \ unread /\ opened <= OpenMax

CanOpen(d) == d \in Dirs \ unread /\ opened < OpenMax

EnterFails ==
    /\ pc = "enter"
    /\ \A d \in Resolve(path) : ~CanOpen(d)
    /\ Return(-1)
    /\ UNCHANGED <<given, has, gone, cwd, arg, stack, path, opened>>

\* Mistake: the directory is opened and not entered.
EnterStays ==
    /\ pc = "enter"
    /\ \E d \in Resolve(path) :
          /\ CanOpen(d)
          /\ stack' = <<[path |-> path, dir |-> d, todo |-> Entries(d),
                         entry |-> d]>> \o stack
    /\ opened' = opened + 1
    /\ pc' = "loop"
    /\ UNCHANGED <<given, has, gone, cwd, arg, path, ret>>

\* opendir, then chdir.
Enter ==
    /\ pc = "enter"
    /\ \E d \in Resolve(path) :
          /\ CanOpen(d)
          /\ stack' = <<[path |-> path, dir |-> d, todo |-> Entries(d),
                         entry |-> d]>> \o stack
          /\ Chdir(d)
    /\ opened' = opened + 1
    /\ pc' = "loop"
    /\ UNCHANGED <<given, has, gone, arg, path, ret>>

\* readdir returns n.
Read(n) ==
    /\ pc = "loop"
    /\ n \in Frame.todo
    /\ stack' = <<[Frame EXCEPT !.todo = @ \ {n}, !.entry = n]>> \o Tail(stack)
    /\ UNCHANGED <<given, has, gone, cwd, arg, opened>>

Descend(n) ==
    /\ Read(n)
    /\ n \in Dirs /\ (tool = "find" => Name[n] # Wanted)
    /\ pc' = "enter" /\ path' = Name[n] /\ UNCHANGED ret

Visit(n) ==
    /\ Read(n)
    /\ n \notin Dirs /\ tool # "find"
    /\ pc' = "act" /\ UNCHANGED <<path, ret>>

FindPasses(n) ==
    /\ Read(n)
    /\ n \notin Dirs /\ tool = "find" /\ Name[n] # Wanted
    /\ UNCHANGED <<pc, path, ret>>

\* Returns without changing back.
Found(n) ==
    /\ pc = "loop" /\ n \in Frame.todo
    /\ tool = "find" /\ Name[n] = Wanted
    /\ Return(1)
    /\ stack' = Tail(stack)
    /\ UNCHANGED <<given, has, gone, cwd, arg, path, opened>>

\* Mistake: the working directory is left as it is.
LeaveStays ==
    /\ pc = "loop" /\ Frame.todo = {}
    /\ Return(0)
    /\ stack' = Tail(stack)
    /\ UNCHANGED <<given, has, gone, cwd, arg, path, opened>>

Leave ==
    /\ pc = "loop" /\ Frame.todo = {}
    /\ Chdir(Up[cwd])
    /\ Return(0)
    /\ stack' = Tail(stack)
    /\ UNCHANGED <<given, has, gone, arg, path, opened>>

\* The call for an entry came back: du and find go on whatever it returned,
\* the others return -1 at once, without changing back.
Back ==
    /\ pc = "back" /\ stack # <<>>
    /\ IF ret < 0 /\ tool \notin {"du", "find"}
       THEN pc' = "back" /\ stack' = Tail(stack)
       ELSE pc' = (IF tool = "find" THEN "loop" ELSE "act") /\ UNCHANGED stack
    /\ UNCHANGED <<given, has, gone, cwd, arg, path, ret, opened>>

\* Mistake: an entry that cannot be changed is passed over.
ChangeSkips(p) ==
    /\ has' = has \cup (Resolve(p) \ stuck)
    /\ pc' = "loop" /\ UNCHANGED <<stack, ret>>

\* Of the path p, as it is looked up now.
Change(p) ==
    IF Resolve(p) \subseteq stuck
    THEN Return(-1) /\ stack' = Tail(stack) /\ UNCHANGED has
    ELSE /\ has' = has \cup Resolve(p)
         /\ pc' = "loop" /\ UNCHANGED <<stack, ret>>

\* chgrp changes the entry; chmod and chown the path they were called with.
ActChange ==
    /\ pc = "act" /\ Changes
    /\ Change(IF tool = "chgrp" THEN Name[Frame.entry] ELSE Frame.path)
    /\ UNCHANGED <<given, gone, cwd, arg, path, opened>>

\* A stat that fails leaves the size of the entry before.
ActMeasure ==
    /\ pc = "act" /\ tool = "du"
    /\ has' = has \cup Resolve(Frame.path)
    /\ pc' = "loop"
    /\ UNCHANGED <<given, gone, cwd, arg, stack, path, ret, opened>>

Removable(n) == n \notin stuck /\ (n \in Dirs => Entries(n) = {})

ActRemove ==
    /\ pc = "act" /\ tool = "rm"
    /\ IF \E n \in Look(Name[Frame.entry]) : Removable(n)
       THEN /\ gone' = gone \cup Look(Name[Frame.entry])
            /\ pc' = "loop" /\ UNCHANGED <<stack, ret>>
       ELSE Return(-1) /\ stack' = Tail(stack) /\ UNCHANGED gone
    /\ UNCHANGED <<given, has, cwd, arg, path, opened>>

-----------------------------------------------------------------------------
Next ==
    \/ Retained \/ Walk \/ RemoveFile \/ MeasureFile \/ NotThere \/ Walked
    \/ Finish \/ EnterFails \/ Enter \/ Leave \/ Back
    \/ \E n \in Nodes : Descend(n) \/ Visit(n) \/ FindPasses(n) \/ Found(n)
    \/ ActChange \/ ActMeasure \/ ActRemove

Spec == Init /\ [][Next]_vars

\* One process runs until it exits.
LiveSpec == Spec /\ WF_vars(Next)

-----------------------------------------------------------------------------
\* The least set that has what is in d, and what is in its own members.
Below == [d \in Nodes |->
    {n \in Nodes : \A S \in SUBSET Nodes :
        (\A m \in Nodes : m # d /\ Up[m] \in S \cup {d} => m \in S) => n \in S}]

\* The operands are in the directory the tool was started in.  After another
\* one the working directory is that operand's.
LocalOperands == \A n \in Operands : Up[n] = Start

\* Where names are used, the working directory is the one they were read from,
\* as long as every directory can be entered (chgrp.c:76-93 and alike): on the
\* way down, after an entry that could not be opened, and on the way up; and
\* the next operand is looked up where the tool was started, if the operands
\* are in that directory.  Not so rm, which changes no directory, and find,
\* which does not come back from where it found.
NamesAreLocal ==
    barred = {} /\ tool \in {"chgrp", "chmod", "chown", "du"} =>
        /\ pc \in {"enter", "loop", "act"} /\ stack # <<>> => cwd = Frame.dir
        /\ pc = "main" /\ LocalOperands => cwd = Start

\* If chgrp -r succeeds, all that was below its operands has the group, but
\* for links, and for operands that had it themselves or that a link leads to:
\* such a one may be given the group as an entry of another operand, and is
\* then passed over with all that is in it (chgrp.c:45-96).
ChgrpIsComplete ==
    pc = "ok" /\ tool = "chgrp" /\ barred = {} /\ LocalOperands =>
        \A d \in Operands \ (had \cup Follow(Links)) : Below[d] \ Links \subseteq has

\* "If -r option is passed, apply the change recursively to each directory"
\* (chgrp.c:103): so it does to each operand that did not have the group.
\* The code violates this (TreeLink.cfg).
ChgrpIsRecursive ==
    pc = "ok" /\ tool = "chgrp" /\ barred = {} /\ LocalOperands =>
        \A d \in Operands \ had : Below[d] \ Links \subseteq has

\* A walk that changes directories changes and measures nothing but its
\* operands, what is below them, and what the links among these lead to,
\* whatever fails, if every directory can be entered.  rm, which changes none,
\* takes the entries by their bare names: besides its operands it removes,
\* where it was started, what has the name of an entry of an operand or of a
\* directory there (rm.c:69-73).
WalkStaysBelow ==
    /\ barred = {} /\ LocalOperands =>
        has \subseteq Follow(Operands \cup UNION {Below[d] : d \in Operands})
    /\ \A n \in gone \ Mentioned :
        /\ Up[n] = Start
        /\ \E m \in Nodes :
              /\ Name[m] = Name[n]
              /\ Up[m] \in Operands \cup Follow({k \in Nodes : Up[k] = Start})

\* rm is to "remove the files or directories (recursively)" (rm.c:85): of what
\* it was not given it removes nothing.  The code violates this (TreeRm.cfg).
RmStaysBelow ==
    gone \subseteq Mentioned \cup UNION {Below[d] : d \in Operands}

\* Every walk ends, also when chdir fails and a directory is walked again and
\* again inside itself, and chown's, whose main does not pass to the next
\* operand (chown.c:40-55): each round opens a directory and none is closed, so
\* in the end none can be opened.
WalkEnds == <>(pc \in {"ok", "failed"})
=============================================================================
