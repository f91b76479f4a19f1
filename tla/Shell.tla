------------------------------- MODULE Shell -------------------------------
(***************************************************************************)
(* The main loop of the shell, its built-in commands and the protocol of   *)
(* fork, exec and wait (busybox/shell/sh.c, time.c, include/shell.h).      *)
(*                                                                         *)
(* exec_cmd forks; the parent waits for the child.  A child whose exec     *)
(* fails returns from exec_cmd into the main loop, with a copy of the      *)
(* environment, and reads the next line itself.  Process s + 1 is the      *)
(* child of s; a process has at most one.                                  *)
(*                                                                         *)
(* An action of a process at its prompt is one command line: the command,  *)
(* and the store of its status into the value of "?" that ends the loop's  *)
(* body.  Reading the line, the search for the file of a command, and what *)
(* commands print are left open.  given[s] is not in the code: what was    *)
(* last given to a name in s, or before s was forked, and not unset since. *)
(***************************************************************************)
EXTENDS ShellEnv

CONSTANTS
    Used,       \* bound: names that commands give
    MaxShells,  \* bound: processes
    MaxLines    \* bound: command lines read

ASSUME UsedAssumption == Used \subseteq Names
ASSUME BoundsAssumption == MaxShells \in Nat \ {0} /\ MaxLines \in Nat

VARIABLES
    env,    \* [Shells -> EnvType]      environment of a process
    sh,     \* [Shells -> States]       what a process does
    given,  \* [Shells -> [Used -> Values or NULL]]
    lines   \* 0..MaxLines              lines read

vars == <<env, sh, given, lines>>

Shells == 1..MaxShells

\* "prompt" reads a line; "child" was forked and has not called exec.
States == {"none", "prompt", "child", "program", "wait"}

TypeOK ==
    /\ env \in [Shells -> EnvType]
    /\ sh \in [Shells -> States]
    /\ given \in [Shells -> [Used -> Values \cup {NULL}]]
    /\ lines \in 0..MaxLines

NothingGiven == [n \in Used |-> NULL]

Init ==
    /\ env = [s \in Shells |-> InitEnv]
    /\ sh = [s \in Shells |-> IF s = 1 THEN "prompt" ELSE "none"]
    /\ given = [s \in Shells |-> NothingGiven]
    /\ lines = 0

ReadLine(s) ==
    /\ sh[s] = "prompt"
    /\ lines < MaxLines
    /\ lines' = lines + 1

\* exit, a fault, or the end of a program.
Die(s) ==
    /\ sh' = [sh EXCEPT ![s] = "none"]
    /\ env' = [env EXCEPT ![s] = InitEnv]
    /\ given' = [given EXCEPT ![s] = NothingGiven]

\* The end of the loop's body: status goes where the value of "?" points.
StoreStatus(s, e, g, status) ==
    IF e.value[RET] = NULL
    THEN Die(s)
    ELSE /\ sh' = [sh EXCEPT ![s] = "prompt"]
         /\ env' = [env EXCEPT ![s] = [e EXCEPT !.value[RET] = status]]
         /\ given' = [given EXCEPT ![s] = g]

-----------------------------------------------------------------------------
\* A command that changes nothing but the status: cd, pwd, clear, sleep, tee,
\* who, env without or with a wrong option, echo of words, time without a
\* command.  Behind time a built-in command does what it does alone.
Builtin(s) ==
    /\ ReadLine(s)
    /\ \E status \in {"0", "EINVAL", "other"} :
          StoreStatus(s, env[s], given[s], status)

\* An empty line, or the end of the input: the -2 of select_cmd is a large
\* unsigned index into the table of functions.
EmptyLine(s) == ReadLine(s) /\ Die(s)

\* echo alone dereferences the NULL after its name.
EchoNothing(s) == ReadLine(s) /\ Die(s)

\* tee closes the stream of the file that it could not open.
TeeUnopened(s) == ReadLine(s) /\ Die(s)

\* time of a command that is not built in calls the entry after the last.
TimeUnknown(s) == ReadLine(s) /\ Die(s)

Exit(s) == ReadLine(s) /\ Die(s)

\* env -s n v
Set(s, n, v) ==
    LET e == env[s]
        status == EnvSetStatus(e, n)
        g == IF status = "0" THEN [given[s] EXCEPT ![n] = v] ELSE given[s]
    IN ReadLine(s) /\ StoreStatus(s, EnvSet(e, n, v), g, status)

\* env -u n
Unset(s, n) ==
    LET e == env[s]
        g == IF Unsets(e, n) THEN [given[s] EXCEPT ![n] = NULL] ELSE given[s]
    IN /\ ReadLine(s)
       /\ ~SearchFaults(e, n)
       /\ StoreStatus(s, EnvUnset(e, n), g, EnvUnsetStatus(e, n))

\* echo $n
Echo(s, n) ==
    /\ ReadLine(s)
    /\ ~SearchFaults(env[s], n)
    /\ StoreStatus(s, env[s], given[s], "0")

\* env -u n or echo $n that meets a hole.
SearchFault(s, n) ==
    /\ ReadLine(s)
    /\ SearchFaults(env[s], n)
    /\ Die(s)

-----------------------------------------------------------------------------
(* exec_cmd *)

ForkFails(s) ==
    /\ ReadLine(s)
    /\ StoreStatus(s, env[s], given[s], "EINVAL")

Fork(s) ==
    /\ s + 1 \in Shells
    /\ ReadLine(s)
    /\ sh' = [sh EXCEPT ![s] = "wait", ![s + 1] = "child"]
    /\ env' = [env EXCEPT ![s + 1] = env[s]]
    /\ given' = [given EXCEPT ![s + 1] = given[s]]

Exec(s) ==
    /\ sh[s] = "child"
    /\ sh' = [sh EXCEPT ![s] = "program"]
    /\ UNCHANGED <<env, given, lines>>

\* The child returns an uninitialised status and goes on as a shell.
ExecFails(s) ==
    /\ sh[s] = "child"
    /\ \E status \in Status : StoreStatus(s, env[s], given[s], status)
    /\ UNCHANGED lines

\* execvpe was given the NULL of find_cmd, which it may dereference.
ExecFault(s) ==
    /\ sh[s] = "child"
    /\ Die(s)
    /\ UNCHANGED lines

ProgramEnds(s) ==
    /\ sh[s] = "program"
    /\ Die(s)
    /\ UNCHANGED lines

\* Mistake: the parent does not wait.
WaitNot(s) ==
    /\ sh[s] = "wait"
    /\ \E status \in Status : StoreStatus(s, env[s], given[s], status)
    /\ UNCHANGED lines

\* Mistake: the parent waits again for the child that ended.
WaitAgain(s) ==
    /\ sh[s] = "wait" /\ sh[s + 1] = "none"
    /\ UNCHANGED vars

\* waitpid returns how the child ended.
Wait(s) ==
    /\ sh[s] = "wait" /\ sh[s + 1] = "none"
    /\ \E status \in {"0", "other"} :
          StoreStatus(s, env[s], given[s], status)
    /\ UNCHANGED lines

-----------------------------------------------------------------------------
Command(s) ==
    \/ Builtin(s) \/ EmptyLine(s) \/ EchoNothing(s) \/ TeeUnopened(s)
    \/ TimeUnknown(s) \/ Exit(s) \/ Fork(s) \/ ForkFails(s)
    \/ \E n \in Used :
          \/ \E v \in Values : Set(s, n, v)
          \/ Unset(s, n) \/ Echo(s, n) \/ SearchFault(s, n)

Run(s) ==
    Exec(s) \/ ExecFails(s) \/ ExecFault(s) \/ ProgramEnds(s) \/ Wait(s)

Next == \E s \in Shells : Command(s) \/ Run(s)

Spec == Init /\ [][Next]_vars

\* Processes run, and programs end; nobody need type a line.
LiveSpec == Spec /\ \A s \in Shells : WF_vars(Run(s))

-----------------------------------------------------------------------------
\* main reads the login variables at fixed places (sh.c:59-66, 110), so no
\* order of env -s and env -u may move or hide one, or leave it without a
\* value: PWD and those before it are where init_env put them, and nowhere
\* else (env.c:97-137).
LoginVariablesStay ==
    \A s \in Shells : \A i \in 0..PWD : \A j \in Slots :
        /\ env[s].name[j] = OwnName[i] <=> i = j
        /\ env[s].value[i] # NULL

\* A name finds the value it was last given, whatever was set and unset since
\* in the slots before and behind it and in whichever process of the chain the
\* user works (env.c:97-110).  "?" belongs to the shell.
LastGivenIsFound ==
    \A s \in Shells : \A n \in Used \ {OwnName[RET]} :
        given[s][n] # NULL =>
            \E i \in Slots :
                /\ env[s].name[i] = n /\ env[s].value[i] = given[s][n]
                /\ \A j \in 0..(i - 1) : env[s].name[j] # n

\* Of a shell, the shells below it that a failed exec left, and the program it
\* runs, one at a time reads the input (shell.h:95-117).
OneReader ==
    \A s, t \in Shells :
        sh[s] \in {"prompt", "program"} /\ sh[t] \in {"prompt", "program"}
            => s = t

\* Whatever a command does, in the end some process prompts again, or the
\* first shell is gone (shell.h:95-117, sh.c:65-94).
SomebodyPrompts ==
    (sh[1] # "none") ~> (sh[1] = "none" \/ \E s \in Shells : sh[s] = "prompt")
=============================================================================
